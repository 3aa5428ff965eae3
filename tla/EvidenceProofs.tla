--------------------------- MODULE EvidenceProofs ---------------------------
(***************************************************************************)
(* What can be checked of a governor from outside, for every number of     *)
(* callers, crashes, rotations, lines and auditors: the receipts it        *)
(* issued, by anyone who has a bundle; the invoice of a provider, against  *)
(* what was settled; the chain, by auditors beside it.  Three components   *)
(* that share no variable: ReceiptLog, Reconciliation and Audit.           *)
(***************************************************************************)
EXTENDS ReceiptLog, Reconciliation, Audit, FiniteSums, FunctionTheorems

-----------------------------------------------------------------------------
(* The receipt log: types.                                                 *)

\* What receipts, references, reservations, checkpoints and jobs are.
AllKeys == Keys \cup {Outside}
References == [id : Ids \cup {"none"}, at : Int, key : AllKeys \cup {"none"}]
Docs == [id : Ids, at : Nat, key : AllKeys, of : References]
Reservations ==
    [pc : {"idle", "signing", "waiting", "again"}, mode : {"issue", "append"},
     id : Ids \cup {"none"}, of : References, at : Nat, key : AllKeys,
     place : {"none", "held", "failed", "taken", "appended"}]
Callings(who) ==
    /\ who \in [Callers -> Reservations]
    /\ \A c \in Callers : /\ who[c].pc # "idle" => who[c].id \in Ids
                          /\ who[c].pc \in {"idle", "again"} => who[c].place = "none"
Hashes == {TreeLeafHash(doc) : doc \in Docs}
Roots == {TreeEmptyRoot} \cup {TreeRoot(leaves, n) : leaves \in Seq(Hashes), n \in Nat}
Checkpoints == [size : Nat, key : Keys, root : Roots]
Jobs == [stage : {"free", "signing", "cosigning", "draining", "sealing", "handing"},
         to : Keys, size : Nat, checkpoint : Checkpoints \cup {<<>>}]

\* The types of the file, its index and the callers.
FileTypes ==
    /\ file \in Seq(Docs) /\ indexed \in Nat /\ indexed <= Len(file)
    /\ next \in Nat /\ open \in BOOLEAN /\ broken \in BOOLEAN
    /\ Callings(caller)
    /\ issued \subseteq Docs

\* The types of the keys, the checkpoints, the witness and the job.
ControlTypes ==
    /\ transitions \in Seq([size : Nat, from : Keys, to : Keys])
    /\ checkpoints \in Seq(Checkpoints)
    /\ cosigned \in Seq([size : Nat, root : Roots])
    /\ rotating \in BOOLEAN /\ lagged \in BOOLEAN /\ refusal \in BOOLEAN
    /\ job \in Jobs
    /\ job.stage \in {"signing", "cosigning"} => job.checkpoint \in Checkpoints

ReceiptTypes == FileTypes /\ ControlTypes

-----------------------------------------------------------------------------
(* The positions.                                                          *)

\* A position that is held is one the index does not have yet, and nobody else's.
PositionsApart ==
    /\ \A c \in Held : indexed <= caller[c].at /\ caller[c].at < next
    /\ \A c, d \in Held : caller[c].at = caller[d].at => c = d

\* A receipt that was appended stands at the place it signs.
AppendedStands ==
    \A c \in Callers : caller[c].place = "appended" =>
        caller[c].at + 1 \in DOMAIN file /\ file[caller[c].at + 1] = Doc(c)

\* A log that is open and not broken has all its lines in the index; the ids
\* held are then in no line, and no two of them alike.
IndexIsWhole ==
    open /\ ~broken =>
        /\ Len(file) = indexed
        /\ \A c \in Held : \A i \in DOMAIN file : file[i].id # caller[c].id
        /\ \A c, d \in Held : caller[c].id = caller[d].id => c = d

\* While the index keeps up, the positions held are all from the first the
\* index does not have to the last handed out, and the first is not signed.
TurnsInOrder ==
    ~broken /\ (open \/ Held # {}) =>
        /\ indexed <= next
        /\ \A n \in indexed..(next - 1) : \E c \in Held : caller[c].at = n
        /\ \A c \in Signed : caller[c].at # indexed

\* Who holds which position, and what is at the positions behind.
PositionsInv ==
    /\ PositionsApart /\ AppendedStands /\ IndexIsWhole /\ TurnsInOrder
    /\ LinesCheck /\ IssuedStays

-----------------------------------------------------------------------------
(* The keys, the checkpoints and the witness.                              *)

\* The size is settled and the issues in flight are over.
PostDrain == rotating /\ job.stage # "draining"

NoOutside == \A i \in DOMAIN file : file[i].key # Outside

\* What Ours asks of the file, which no step brings back.
Clean == ~lagged /\ (transitions = <<>> \/ NoOutside)

\* Where a rotation is, and what it waited for: no issue begins once it
\* drains, and its boundary stays where it was settled.
Rotations ==
    /\ job.stage \in {"free", "cosigning"} => ~rotating
    /\ job.stage \in {"draining", "sealing", "handing"} => rotating
    /\ job.stage # "free" => open
    /\ Boundary <= indexed
    /\ \A n \in DOMAIN transitions : transitions[n].size <= Boundary
    /\ PostDrain =>
         /\ Boundary <= job.size /\ job.size <= indexed
         /\ \A c \in Held : caller[c].mode = "append"
         /\ lagged \/ Len(file) = job.size \/ ~NoOutside
    /\ Follows
    /\ transitions # <<>> \/ job.stage = "handing" => checkpoints # <<>>

\* The key handed over to by the last of some transitions; for a leaf and for
\* a checkpoint, as KeySchedule has them.
KeyOf(held, schedule) ==
    IF held = {} THEN FirstKey
    ELSE schedule[CHOOSE n \in held : \A k \in held : k <= n].to
LeafKey(index, schedule) ==
    KeyOf({n \in DOMAIN schedule : index >= schedule[n].size}, schedule)
CheckpointKey(size, schedule) ==
    KeyOf({n \in DOMAIN schedule : size > schedule[n].size}, schedule)

\* Each line and each checkpoint is signed by the key in force for it.
KeysInForce ==
    /\ \A c \in Held : caller[c].key = IF caller[c].mode = "issue" THEN Current ELSE Outside
    /\ Clean => \A i \in DOMAIN file : file[i].key \in {LeafKey(i - 1, transitions), Outside}
    /\ Clean => \A n \in DOMAIN checkpoints :
                  checkpoints[n].key = CheckpointKey(checkpoints[n].size, transitions)
    /\ job.stage = "signing" => job.checkpoint.key = Current /\ job.checkpoint.size > Boundary

\* A checkpoint or a cosignature has the root of the lines it covers.
RootOf(lines, n) == TreeRoot([i \in 1..n |-> TreeLeafHash(lines[i])], n)
IsOf(cp, lines, reach) == cp.size <= reach /\ cp.root = RootOf(lines, cp.size)

\* What was signed and cosigned is of lines the file still has, and the
\* witness saw no later one.
RootsOfTheFile ==
    /\ \A n \in DOMAIN checkpoints : IsOf(checkpoints[n], file, indexed)
    /\ \A n \in DOMAIN cosigned : IsOf(cosigned[n], file, indexed)
    /\ job.stage \in {"signing", "cosigning"} => IsOf(job.checkpoint, file, indexed)
    /\ job.stage \in {"signing", "cosigning"} /\ ~rotating =>
         \A n \in DOMAIN cosigned : cosigned[n].size <= job.checkpoint.size

ScheduleInv == Rotations /\ KeysInForce /\ RootsOfTheFile
-----------------------------------------------------------------------------
(* What a batch is.                                                        *)

\* _check_binding, of a line by those before it.
Precedes(doc, lines, reach) ==
    doc.id \in Deliveries =>
        /\ doc.of.at + 1 \in 1..reach
        /\ lines[doc.of.at + 1].id \notin Deliveries
        /\ Reference(lines[doc.of.at + 1]) = doc.of

\* A line binds to the lines before it as it does to the whole they begin.
LEMMA BindsToPrefix ==
    ASSUME NEW S, NEW lines \in Seq(S), NEW reach \in 0..Len(lines), NEW doc
    PROVE  Binds(doc, SubSeq(lines, 1, reach)) <=> Precedes(doc, lines, reach)
<1> DEFINE prefix == SubSeq(lines, 1, reach)
<1>1. DOMAIN prefix = 1..reach /\ \A i \in 1..reach : prefix[i] = lines[i]
  OBVIOUS
<1> HIDE DEF prefix
<1>2. Binds(doc, prefix) <=> Precedes(doc, lines, reach)
  BY <1>1 DEF Binds, Precedes
<1> QED
  BY <1>2 DEF prefix

\* What comes before a line does not change when lines are added.
LEMMA PrecedesKept ==
    ASSUME NEW lines, NEW more, NEW reach \in Nat,
           \A i \in 1..reach : more[i] = lines[i], NEW doc, Precedes(doc, lines, reach)
    PROVE  Precedes(doc, more, reach)
  BY DEF Precedes

\* What a caller at work has.
LEMMA ReservationTypes ==
    ASSUME FileTypes, NEW c \in Callers
    PROVE  /\ caller[c] \in Reservations
           /\ caller[c].at \in Nat
           /\ caller[c].pc # "idle" => caller[c].id \in Ids /\ Doc(c) \in Docs
           /\ Doc(c).id = caller[c].id /\ Doc(c).at = caller[c].at /\ Doc(c).key = caller[c].key
<1>1. caller[c] \in Reservations
  BY DEF FileTypes, Callings
<1>2. caller[c].pc # "idle" => caller[c].id \in Ids
  BY DEF FileTypes, Callings
<1> QED
  BY <1>1, <1>2 DEF Reservations, Doc, Docs

\* A non-empty set of numbers up to a number has a greatest.
LEMMA GreatestUpTo ==
    ASSUME NEW n \in Nat, NEW S \in SUBSET (0..n), S # {}
    PROVE  \E m \in S : \A k \in S : k <= m
<1>1. IsFiniteSet(0..n)
  BY FS_Interval
<1>2. IsFiniteSet(S)
  BY <1>1, FS_Subset
<1>3. \A x \in S : x \in Int
  OBVIOUS
<1> QED
  BY <1>2, <1>3, GreatestOf

\* A batch is the receipts ready from the first position the index does not
\* have, in order, each after the action it is a delivery of (_drain).
LEMMA BatchIs ==
    ASSUME FileTypes, NEW ready \in SUBSET Callers, \A c \in ready : caller[c].pc # "idle"
    PROVE  /\ Batch(ready) \in Seq(Docs)
           /\ Batch(ready) # <<>> => open /\ ~broken
           /\ \A k \in 1..Len(Batch(ready)) :
                /\ \E d \in ready : caller[d].at = indexed + k - 1 /\ Batch(ready)[k] = Doc(d)
                /\ Precedes(Batch(ready)[k], file \o Batch(ready), Len(file) + k - 1)
<1>1. CASE ~open \/ broken
  BY <1>1 DEF Batch
<1>2. CASE open /\ ~broken
  <2> DEFINE longest == CHOOSE n \in Batches(ready) : \A k \in Batches(ready) : k <= n
             lines(n) == [k \in 1..n |-> Doc(At(ready, indexed + k - 1))]
             bound == {n \in 0..longest :
                        \A k \in 1..n : Binds(lines(n)[k], file \o lines(k - 1))}
             size == CHOOSE n \in bound : \A k \in bound : k <= n
  <2>1. Batch(ready) = lines(size)
    BY <1>2 DEF Batch
  <2>2. indexed \in Nat /\ file \in Seq(Docs) /\ Len(file) \in Nat
    BY DEF FileTypes
  <2>3. Cardinality(ready) \in Nat
    <3>1. IsFiniteSet(ready)
      BY ReceiptLogAssumption, FS_Subset
    <3> QED
      BY <3>1, FS_CardinalityType
  <2>4. longest \in Batches(ready) /\ longest \in Nat
    <3>1. Batches(ready) \in SUBSET (0..Cardinality(ready)) /\ 0 \in Batches(ready)
      BY <2>3 DEF Batches
    <3>2. \E n \in Batches(ready) : \A k \in Batches(ready) : k <= n
      BY <2>3, <3>1, GreatestUpTo
    <3>3. longest \in Batches(ready)
      BY <3>2
    <3> HIDE DEF longest
    <3> QED
      BY <2>3, <3>1, <3>3
  <2>5. \A k \in 0..(longest - 1) : \E c \in ready : caller[c].at = indexed + k
    <3> HIDE DEF longest
    <3> QED
      BY <2>4 DEF Batches
  <2> HIDE DEF longest
  <2>6. size \in bound
    <3>1. bound \in SUBSET (0..longest) /\ 0 \in bound
      BY <2>4
    <3> HIDE DEF bound
    <3>2. \E n \in bound : \A k \in bound : k <= n
      BY <2>4, <3>1, GreatestUpTo
    <3> QED
      BY <3>2
  <2>7. size \in 0..longest /\ \A k \in 1..size : Binds(lines(size)[k], file \o lines(k - 1))
    <3> HIDE DEF size
    <3> QED
      BY <2>6
  <2> HIDE DEF size, bound
  <2>8. \A k \in 1..size : /\ At(ready, indexed + k - 1) \in ready
                           /\ caller[At(ready, indexed + k - 1)].at = indexed + k - 1
    <3> SUFFICES ASSUME NEW k \in 1..size
                 PROVE  \E c \in ready : caller[c].at = indexed + k - 1
      BY DEF At
    <3>1. k - 1 \in 0..(longest - 1) /\ indexed + (k - 1) = indexed + k - 1
      BY <2>2, <2>4, <2>7
    <3> QED
      BY <2>5, <3>1
  <2> DEFINE batch == lines(size)
  <2>9. /\ size \in Nat /\ DOMAIN batch = 1..size
        /\ \A k \in 1..size : \E d \in ready : caller[d].at = indexed + k - 1 /\ batch[k] = Doc(d)
    BY <2>4, <2>7, <2>8
  <2>10. batch \in Seq(Docs) /\ Len(batch) = size
    <3>1. \A k \in 1..size : batch[k] \in Docs
      <4> SUFFICES ASSUME NEW k \in 1..size PROVE batch[k] \in Docs
        OBVIOUS
      <4> HIDE DEF batch
      <4> QED
        BY <2>9, ReservationTypes
    <3>2. batch \in [1..size -> Docs]
      <4>1. batch = [k \in 1..size |-> batch[k]]
        OBVIOUS
      <4> HIDE DEF batch
      <4> QED
        BY <3>1, <4>1
    <3> HIDE DEF batch
    <3> QED
      BY <2>9, <3>2
  <2>11. ASSUME NEW k \in 1..size
         PROVE  Precedes(batch[k], file \o batch, Len(file) + k - 1)
    <3> DEFINE before == lines(k - 1)
               all == file \o before
               reach == Len(file) + k - 1
    <3>1. Binds(batch[k], all)
      BY <2>7
    <3>2. before \in Seq(Docs) /\ Len(before) = k - 1 /\ \A i \in 1..(k - 1) : before[i] = batch[i]
      <4>1. before = SubSeq(batch, 1, k - 1)
        <5>1. k - 1 \in 0..size
          BY <2>9
        <5> QED
          BY <2>9, <2>10, <5>1
      <4> HIDE DEF before, batch
      <4> QED
        BY <2>9, <2>10, <4>1
    <3> HIDE DEF before, batch
    <3>3. /\ DOMAIN all = 1..reach
          /\ \A i \in 1..reach : all[i] = (file \o batch)[i]
      <4>1. k - 1 \in Nat /\ k - 1 <= size /\ size \in Nat
        BY <2>9
      <4>2. /\ file \in Seq(Docs) /\ Len(file) \in Nat
            /\ before \in Seq(Docs) /\ Len(before) = k - 1
            /\ batch \in Seq(Docs) /\ Len(batch) = size
        BY <2>2, <2>10, <3>2
      <4>3. DOMAIN all = 1..reach
        <5>1. all \in Seq(Docs) /\ Len(all) = Len(file) + Len(before)
          BY <4>2
        <5> HIDE DEF all
        <5>2. DOMAIN all = 1..Len(all)
          BY <5>1
        <5>3. Len(all) = reach
          BY <4>1, <4>2, <5>1
        <5> QED
          BY <5>2, <5>3
      <4>4. ASSUME NEW i \in 1..reach PROVE all[i] = (file \o batch)[i]
        <5>1. CASE i <= Len(file)
          <6>1. i \in 1..Len(file)
            BY <4>1, <4>2, <5>1
          <6>2. all[i] = file[i] /\ (file \o batch)[i] = file[i]
            BY <4>2, <6>1
          <6> QED
            BY <6>2
        <5>2. CASE i > Len(file)
          <6>1. i - Len(file) \in 1..(k - 1) /\ i - Len(file) \in 1..size
                /\ i \in (Len(file) + 1)..(Len(file) + (k - 1)) /\ i \in (Len(file) + 1)..(Len(file) + size)
            BY <4>1, <4>2, <5>2
          <6>2. all[i] = before[i - Len(file)] /\ (file \o batch)[i] = batch[i - Len(file)]
            BY <4>2, <6>1
          <6> QED
            BY <3>2, <6>1, <6>2
        <5> QED
          BY <4>1, <4>2, <5>1, <5>2
      <4> QED
        BY <4>3, <4>4
    <3> HIDE DEF all, reach
    <3>4. Precedes(batch[k], file \o batch, reach)
      BY <3>1, <3>3 DEF Binds, Precedes
    <3> QED
      BY <3>4 DEF reach
  <2> HIDE DEF batch, lines
  <2> QED
    BY <1>2, <2>1, <2>9, <2>10, <2>11 DEF batch
<1> QED
  BY <1>1, <1>2 DEF FileTypes
-----------------------------------------------------------------------------
(* Types are kept.                                                         *)

\* Nobody's reservation.
LEMMA IdleTypes == Idle \in Reservations /\ Idle.pc = "idle" /\ Idle.place = "none"
  BY ReceiptLogAssumption DEF Idle, NoAction, Reservations, References, AllKeys

\* A step of one caller leaves the others what they were.
LEMMA SetCalling ==
    ASSUME NEW who, Callings(who), NEW c \in Callers, NEW r \in Reservations,
           r.pc # "idle" => r.id \in Ids, r.pc \in {"idle", "again"} => r.place = "none"
    PROVE  Callings([who EXCEPT ![c] = r])
  BY DEF Callings

\* _take_back leaves each caller held, taken back or as it was.
LEMMA TakeBackTypes ==
    ASSUME NEW who, Callings(who), NEW at \in Nat, NEW failed, TakeBack(who, at, failed)
    PROVE  Callings(caller') /\ next' \in Nat
<1> DEFINE new == [c \in Callers |->
                     IF who[c].place = "held" /\ who[c].at >= at
                       THEN [who[c] EXCEPT !.place = IF c \in failed THEN "failed" ELSE "taken"]
                       ELSE who[c]]
<1>1. caller' = new /\ next' = at
  BY DEF TakeBack
<1>2. \A c \in Callers : who[c] \in Reservations
  BY DEF Callings
<1>3. ASSUME NEW c \in Callers
      PROVE  /\ new[c] \in Reservations
             /\ new[c].pc # "idle" => new[c].id \in Ids
             /\ new[c].pc \in {"idle", "again"} => new[c].place = "none"
  BY <1>2 DEF Callings, Reservations
<1>4. new = [c \in Callers |-> new[c]]
  OBVIOUS
<1> HIDE DEF new
<1>5. Callings(new)
  BY <1>3, <1>4 DEF Callings
<1> QED
  BY <1>1, <1>5

\* A caller that waits for its turn.
LEMMA WaitingTypes ==
    ASSUME FileTypes, NEW c \in Callers, caller[c].pc # "idle", caller[c].pc # "again"
    PROVE  Callings([caller EXCEPT ![c].pc = "waiting"])
  BY DEF FileTypes, Callings, Reservations

\* Callers whose lines were written are settled.
LEMMA SettledTypes ==
    ASSUME NEW who, Callings(who), NEW done,
           \A d \in Callers : d \in done => who[d].pc \notin {"idle", "again"}
    PROVE  Callings([d \in Callers |->
                       IF d \in done THEN [who[d] EXCEPT !.place = "appended"] ELSE who[d]])
  BY DEF Callings, Reservations

\* _hold gives the next position (issue, append).
LEMMA HoldTypes ==
    ASSUME FileTypes, NEW c \in Callers, NEW mode \in {"issue", "append"}, NEW id \in Ids,
           NEW of \in References, NEW key \in AllKeys, Hold(c, mode, id, of, key)
    PROVE  FileTypes'
<1> DEFINE r == [pc |-> "signing", mode |-> mode, id |-> id, of |-> of,
                 at |-> next, key |-> key, place |-> "held"]
<1>1. r \in Reservations /\ r.pc = "signing" /\ r.id \in Ids
  BY DEF FileTypes, Reservations
<1>2. caller' = [caller EXCEPT ![c] = r] /\ next' = next + 1
  BY DEF Hold
<1> HIDE DEF r
<1>3. Callings(caller')
  BY <1>1, <1>2, SetCalling DEF FileTypes
<1> QED
  BY <1>2, <1>3 DEF FileTypes, Hold, files, history

\* What a caller asks for is a receipt to be.
LEMMA DraftTypes ==
    ASSUME FileTypes, NEW d \in Drafts
    PROVE  d.id \in Ids /\ d.of \in References
<1>1. NoAction \in References
  BY DEF NoAction, References
<1>2. \A doc \in Docs : Reference(doc) \in References
  BY DEF Docs, Reference, References
<1>3. \A c \in Callers : caller[c].pc # "idle" =>
        [id |-> caller[c].id, at |-> caller[c].at, key |-> caller[c].key] \in References
  BY ReservationTypes DEF Reservations, References
<1>4. Shown \subseteq References
  <2>1. \A i \in DOMAIN file : file[i] \in Docs
    BY DEF FileTypes
  <2>2. \A c \in Signed : c \in Callers /\ caller[c].pc # "idle"
    BY DEF Signed, Held
  <2> QED
    BY <1>2, <1>3, <2>1, <2>2 DEF Shown
<1> QED
  BY <1>1, <1>4, ReceiptLogAssumption DEF Drafts

\* The newest transition is to a key, from a boundary.
LEMMA CurrentIsAKey == ASSUME ControlTypes PROVE Current \in Keys /\ Boundary \in Int
<1>1. CASE transitions = <<>>
  BY <1>1, ReceiptLogAssumption DEF Current, Boundary
<1>2. CASE transitions # <<>>
  <2>1. transitions[Len(transitions)] \in [size : Nat, from : Keys, to : Keys]
    <3> DEFINE T == [size : Nat, from : Keys, to : Keys]
    <3>1. transitions \in Seq(T) /\ transitions # <<>>
      BY <1>2 DEF ControlTypes
    <3> HIDE DEF T
    <3>2. Len(transitions) \in 1..Len(transitions)
      BY <3>1
    <3>3. transitions[Len(transitions)] \in T
      BY <3>1, <3>2
    <3> QED
      BY <3>3 DEF T
  <2>2. Last(transitions) = transitions[Len(transitions)]
    BY DEF Last
  <2> QED
    BY <1>2, <2>1, <2>2 DEF Current, Boundary
<1> QED
  BY <1>1, <1>2

\* Some lines of a batch are added to the file.
LEMMA GrowTypes ==
    ASSUME FileTypes, NEW batch \in Seq(Docs), NEW n \in 0..Len(batch),
           file' = file \o SubSeq(batch, 1, n)
    PROVE  /\ file' \in Seq(Docs) /\ Len(file') = Len(file) + n
           /\ \A i \in DOMAIN file : i \in DOMAIN file' /\ file'[i] = file[i]
           /\ \A k \in 1..n : file'[Len(file) + k] = batch[k]
           /\ \A i \in DOMAIN file' : i \notin DOMAIN file =>
                i - Len(file) \in 1..n /\ file'[i] = batch[i - Len(file)]
<1> DEFINE part == SubSeq(batch, 1, n)
<1>1. part \in Seq(Docs) /\ Len(part) = n /\ \A k \in 1..n : part[k] = batch[k]
  OBVIOUS
<1>2. file \in Seq(Docs) /\ file' = file \o part
  BY DEF FileTypes
<1> HIDE DEF part
<1>3. /\ file' \in Seq(Docs) /\ Len(file') = Len(file) + n /\ Len(file) \in Nat /\ n \in Nat
      /\ DOMAIN file = 1..Len(file) /\ DOMAIN file' = 1..(Len(file) + n)
  BY <1>1, <1>2
<1>4. \A i \in 1..(Len(file) + n) :
        file'[i] = IF i <= Len(file) THEN file[i] ELSE part[i - Len(file)]
  BY <1>1, <1>2
<1>5. \A i \in DOMAIN file : i \in DOMAIN file' /\ file'[i] = file[i]
  BY <1>3, <1>4
<1>6. \A k \in 1..n : file'[Len(file) + k] = batch[k]
  <2> TAKE k \in 1..n
  <2>1. Len(file) + k \in 1..(Len(file) + n) /\ ~(Len(file) + k <= Len(file))
        /\ (Len(file) + k) - Len(file) = k
    BY <1>3
  <2> QED
    BY <1>1, <1>4, <2>1
<1>7. \A i \in DOMAIN file' : i \notin DOMAIN file =>
        i - Len(file) \in 1..n /\ file'[i] = batch[i - Len(file)]
  <2> SUFFICES ASSUME NEW i \in DOMAIN file', i \notin DOMAIN file
               PROVE  i - Len(file) \in 1..n /\ file'[i] = batch[i - Len(file)]
    OBVIOUS
  <2>1. i \in 1..(Len(file) + n) /\ ~(i <= Len(file)) /\ i - Len(file) \in 1..n
    BY <1>3
  <2> QED
    BY <1>1, <1>4, <2>1
<1> QED
  BY <1>3, <1>5, <1>6, <1>7

\* _deliver and _drain: a prefix of the batch reaches the file.
LEMMA DeliverTypes ==
    ASSUME FileTypes, NEW c \in Callers, Deliver(c)
    PROVE  FileTypes'
<1> DEFINE ready == Signed \cup {c}
           batch == Batch(ready)
           top == indexed + Len(batch)
           waiting == [caller EXCEPT ![c].pc = "waiting"]
           settled == [d \in Callers |-> IF d \in ready /\ caller[d].at < top
                                           THEN [waiting[d] EXCEPT !.place = "appended"]
                                           ELSE waiting[d]]
<1>1. caller[c].pc = "signing" /\ UNCHANGED <<open, issued>>
  BY DEF Deliver, history
<1>2. ready \in SUBSET Callers /\ \A d \in ready : caller[d].pc \in {"signing", "waiting"}
  BY <1>1 DEF Signed, Held
<1>3. batch \in Seq(Docs)
  BY <1>2, BatchIs
<1>4. Callings(waiting)
  BY <1>1, WaitingTypes
<1>5. Callings(settled)
  <2> DEFINE done == {d \in ready : caller[d].at < top}
  <2>1. \A d \in Callers : d \in done => waiting[d].pc \notin {"idle", "again"}
    BY <1>2 DEF FileTypes, Callings, Reservations
  <2>2. settled = [d \in Callers |-> IF d \in done THEN [waiting[d] EXCEPT !.place = "appended"]
                                     ELSE waiting[d]]
    OBVIOUS
  <2> HIDE DEF done, settled, waiting
  <2> QED
    BY <1>4, <2>1, <2>2, SettledTypes
<1>6. top \in Nat /\ indexed \in Nat
  BY <1>3 DEF FileTypes
<1> HIDE DEF waiting, settled, top, ready, batch
<1>7. CASE caller' = waiting /\ UNCHANGED <<files, broken, next, due, faults>>
  BY <1>1, <1>4, <1>7 DEF FileTypes, files
<1>8. CASE /\ Extend(batch)
           /\ \/ caller' = settled /\ UNCHANGED next
              \/ \E failed : TakeBack(settled, top, failed)
  <2>1. Callings(caller') /\ next' \in Nat
    BY <1>5, <1>6, <1>8, TakeBackTypes DEF FileTypes
  <2>2. file' = file \o SubSeq(batch, 1, Len(batch)) /\ Len(batch) \in 0..Len(batch)
    BY <1>3, <1>8 DEF Extend
  <2>3. file' \in Seq(Docs) /\ Len(file') = Len(file) + Len(batch)
    BY <1>3, <2>2, GrowTypes
  <2>4. indexed' \in {indexed, indexed + Len(batch)} /\ broken' \in BOOLEAN
    BY <1>8 DEF Extend, FileTypes
  <2> QED
    BY <1>1, <1>3, <2>1, <2>3, <2>4 DEF FileTypes
<1>9. CASE /\ \E failed : TakeBack(waiting, indexed, failed)
           /\ UNCHANGED <<files, broken, due>>
  <2>1. Callings(caller') /\ next' \in Nat
    BY <1>4, <1>6, <1>9, TakeBackTypes
  <2> QED
    BY <1>1, <1>9, <2>1 DEF FileTypes, files
<1> QED
  BY <1>7, <1>8, <1>9 DEF Deliver, waiting, settled, top, ready, batch

\* A crash keeps a part of the last write, or all of it.
LEMMA CrashTypes == ASSUME FileTypes, Crash PROVE FileTypes'
<1>1. Callings([c \in Callers |-> Idle])
  BY IdleTypes DEF Callings
<1>2. Callings(caller') /\ open' = FALSE /\ UNCHANGED <<indexed, broken, next, issued>>
  BY <1>1 DEF Crash, history
<1>3. file' \in Seq(Docs) /\ indexed <= Len(file')
  <2>1. CASE UNCHANGED file
    BY <2>1 DEF FileTypes
  <2>2. ASSUME NEW c \in Callers, caller[c].pc = "signing", caller[c].place = "held",
               NEW n \in 1..Len(Batch(Signed \cup {c})),
               file' = file \o SubSeq(Batch(Signed \cup {c}), 1, n)
        PROVE  file' \in Seq(Docs) /\ indexed <= Len(file')
    <3> DEFINE batch == Batch(Signed \cup {c})
    <3>1. batch \in Seq(Docs)
      BY <2>2, BatchIs DEF Signed, Held
    <3> HIDE DEF batch
    <3>2. n \in 0..Len(batch) /\ file' = file \o SubSeq(batch, 1, n)
      BY <2>2, <3>1 DEF batch
    <3>3. file' \in Seq(Docs) /\ Len(file') = Len(file) + n
      BY <3>1, <3>2, GrowTypes
    <3> QED
      BY <3>2, <3>3 DEF FileTypes
  <2> QED
    BY <2>1, <2>2 DEF Crash
<1> QED
  BY <1>2, <1>3 DEF FileTypes

\* No step leaves the file, the index and the callers ill-typed.
LEMMA FileTypesStep == ASSUME ReceiptTypes, [Next]_vars PROVE FileTypes'
<1> USE DEF ReceiptTypes
<1>1. CASE UNCHANGED <<file, indexed, broken, next, caller, issued>> /\ open' \in BOOLEAN
  BY <1>1 DEF FileTypes
<1>2. ASSUME NEW c \in Callers, Reserve(c) PROVE FileTypes'
  <2>1. PICK d \in Drafts : Hold(c, "issue", d.id, d.of, Current)
    BY <1>2 DEF Reserve
  <2> QED
    BY <2>1, DraftTypes, CurrentIsAKey, HoldTypes DEF AllKeys
<1>3. ASSUME NEW c \in Callers, AppendSigned(c) PROVE FileTypes'
  <2>1. PICK d \in Drafts : Hold(c, "append", d.id, d.of, Outside)
    BY <1>3 DEF AppendSigned
  <2> QED
    BY <2>1, DraftTypes, HoldTypes DEF AllKeys
<1>4. ASSUME NEW c \in Callers, caller' = [caller EXCEPT ![c] = Idle],
             UNCHANGED <<file, indexed, open, broken>>, next' \in Nat,
             issued' \subseteq Docs
      PROVE  FileTypes'
  <2>1. Callings(caller')
    BY <1>4, IdleTypes, SetCalling DEF FileTypes
  <2> QED
    BY <1>4, <2>1 DEF FileTypes
<1>5. ASSUME NEW c \in Callers, Again(c) PROVE FileTypes'
  <2>1. CASE Hold(c, "issue", caller[c].id, caller[c].of, Current)
    <3>1. caller[c].id \in Ids /\ caller[c].of \in References
      BY <1>5, ReservationTypes DEF Again, Reservations
    <3> QED
      BY <2>1, <3>1, CurrentIsAKey, HoldTypes DEF AllKeys
  <2>2. CASE caller' = [caller EXCEPT ![c] = Idle] /\ UNCHANGED <<files, open, broken, next, history>>
    BY <1>4, <2>2 DEF files, history, FileTypes
  <2> QED
    BY <1>5, <2>1, <2>2 DEF Again
<1>6. ASSUME NEW c \in Callers, SignFails(c) PROVE FileTypes'
  <2> DEFINE gone == [caller EXCEPT ![c] = Idle]
  <2>1. Callings(gone)
    BY IdleTypes, SetCalling DEF FileTypes
  <2>2. caller[c].at \in Nat
    BY ReservationTypes
  <2>3. \/ TakeBack(gone, caller[c].at, {})
        \/ caller' = gone /\ UNCHANGED next
    BY <1>6 DEF SignFails
  <2> HIDE DEF gone
  <2>4. Callings(caller') /\ next' \in Nat
    BY <2>1, <2>2, <2>3, TakeBackTypes DEF FileTypes
  <2> QED
    BY <1>6, <2>4 DEF SignFails, FileTypes, files, history
<1>7. ASSUME NEW c \in Callers, Deliver(c) PROVE FileTypes'
  BY <1>7, DeliverTypes
<1>8. ASSUME NEW c \in Callers, Return(c) PROVE FileTypes'
  <2>1. issued' \subseteq Docs
    <3>1. Doc(c) \in Docs
      BY <1>8, ReservationTypes DEF Return
    <3> QED
      BY <1>8, <3>1 DEF Return, FileTypes
  <2> DEFINE again == [caller[c] EXCEPT !.pc = "again", !.place = "none"]
  <2>2. caller' = [caller EXCEPT ![c] = Idle] \/ caller' = [caller EXCEPT ![c] = again]
    BY <1>8 DEF Return, FileTypes, Callings
  <2>3. again \in Reservations /\ again.pc = "again" /\ again.place = "none" /\ again.id \in Ids
    <3>1. caller[c] \in Reservations /\ caller[c].pc # "idle"
      BY <1>8, ReservationTypes DEF Return
    <3>2. caller[c].id \in Ids
      BY <3>1, ReservationTypes
    <3>3. again \in Reservations /\ again.pc = "again" /\ again.place = "none" /\ again.id = caller[c].id
      BY <3>1 DEF Reservations
    <3> QED
      BY <3>2, <3>3
  <2> HIDE DEF again
  <2>4. Callings(caller')
    BY <2>2, <2>3, IdleTypes, SetCalling DEF FileTypes
  <2> QED
    BY <1>8, <2>1, <2>4 DEF Return, FileTypes, files
<1>9. CASE Crash
  BY <1>9, CrashTypes
<1>10. CASE Reopen
  <2>1. UNCHANGED <<file, caller, issued>> /\ open' = TRUE /\ broken' = FALSE
        /\ indexed' = Len(file) /\ next' = Len(file)
    BY <1>10 DEF Reopen, history
  <2>2. Len(file) \in Nat
    BY DEF FileTypes
  <2>3. file \in Seq(Docs) /\ Callings(caller) /\ issued \subseteq Docs
    BY DEF FileTypes
  <2>4. file' \in Seq(Docs) /\ Callings(caller') /\ issued' \subseteq Docs /\ Len(file') = Len(file)
    BY <2>1, <2>3
  <2>5. indexed' \in Nat /\ indexed' <= Len(file') /\ next' \in Nat
    BY <2>1, <2>2, <2>4
  <2> QED
    BY <2>1, <2>4, <2>5 DEF FileTypes
<1>11. CASE Publish
  BY <1>1, <1>11 DEF Publish, FileTypes, files, history
<1>12. CASE SignCheckpoint
  BY <1>1, <1>12 DEF SignCheckpoint, FileTypes, history
<1>13. CASE Cosign
  BY <1>1, <1>13 DEF Cosign, FileTypes
<1>14. CASE JobFails
  BY <1>1, <1>14 DEF JobFails, FileTypes, files, history
<1>15. CASE Rotate
  BY <1>1, <1>15 DEF Rotate, FileTypes, files, history
<1>16. CASE Drained
  BY <1>1, <1>16 DEF Drained, FileTypes, files
<1>17. CASE Seal
  BY <1>1, <1>17 DEF Seal, FileTypes, files, history
<1>18. CASE HandOver
  BY <1>1, <1>18 DEF HandOver, FileTypes, history
<1>19. CASE Close
  BY <1>1, <1>19 DEF Close, FileTypes, files, history
<1>20. CASE UNCHANGED vars
  BY <1>1, <1>20 DEF vars, files, history, FileTypes
<1> QED
  BY <1>2, <1>3, <1>5, <1>6, <1>7, <1>8, <1>9, <1>10, <1>11, <1>12, <1>13, <1>14, <1>15, <1>16,
     <1>17, <1>18, <1>19, <1>20 DEF Next
-----------------------------------------------------------------------------
(* The positions are kept.                                                 *)

\* Steps that neither move a caller nor write a line keep the positions.
LEMMA SamePositions ==
    ASSUME PositionsInv, UNCHANGED <<file, indexed, broken, next, caller, issued>>,
           open' = open \/ (open /\ open' = FALSE)
    PROVE  PositionsInv'
<1>1. Held' = Held /\ Signed' = Signed /\ \A c \in Callers : Doc(c)' = Doc(c)
  BY DEF Held, Signed, Doc
<1>2. LinesCheck' /\ IssuedStays'
  BY DEF PositionsInv, LinesCheck, IssuedStays
<1>3. PositionsApart' /\ AppendedStands' /\ IndexIsWhole'
  BY <1>1 DEF PositionsInv, PositionsApart, AppendedStands, IndexIsWhole
<1>4. TurnsInOrder'
  BY <1>1 DEF PositionsInv, TurnsInOrder
<1> QED
  BY <1>2, <1>3, <1>4 DEF PositionsInv

\* What the file holds it keeps.
LEMMA GrowKeeps ==
    ASSUME FileTypes, PositionsInv, NEW c \in Held,
           NEW n \in 0..Len(Batch(Signed \cup {c})),
           file' = file \o SubSeq(Batch(Signed \cup {c}), 1, n)
    PROVE  /\ LinesCheck'
           /\ n > 0 => open /\ ~broken /\ Len(file) = indexed
<1> DEFINE ready == Signed \cup {c}
           batch == Batch(ready)
<1>1. ready \in SUBSET Callers /\ ready \subseteq Held /\ \A d \in ready : caller[d].pc # "idle"
  BY DEF Signed, Held, FileTypes, Callings
<1>2. /\ batch \in Seq(Docs)
      /\ batch # <<>> => open /\ ~broken
      /\ \A k \in 1..Len(batch) :
           /\ \E d \in ready : caller[d].at = indexed + k - 1 /\ batch[k] = Doc(d)
           /\ Precedes(batch[k], file \o batch, Len(file) + k - 1)
  BY <1>1, BatchIs
<1> HIDE DEF batch, ready
<1>3. n \in 0..Len(batch) /\ file' = file \o SubSeq(batch, 1, n)
  BY DEF batch, ready
<1>4. /\ file' \in Seq(Docs) /\ Len(file') = Len(file) + n
      /\ \A i \in DOMAIN file : i \in DOMAIN file' /\ file'[i] = file[i]
      /\ \A k \in 1..n : file'[Len(file) + k] = batch[k]
      /\ \A i \in DOMAIN file' : i \notin DOMAIN file =>
           i - Len(file) \in 1..n /\ file'[i] = batch[i - Len(file)]
  BY <1>2, <1>3, GrowTypes
<1>5. n > 0 => open /\ ~broken /\ Len(file) = indexed
  BY <1>2, <1>3 DEF PositionsInv, IndexIsWhole
<1>6. /\ file \in Seq(Docs) /\ Len(file) \in Nat /\ indexed \in Nat /\ Len(batch) \in Nat
      /\ DOMAIN file = 1..Len(file) /\ DOMAIN file' = 1..(Len(file) + n) /\ n \in Nat
  BY <1>2, <1>3, <1>4 DEF FileTypes
<1>7. ASSUME NEW i \in DOMAIN file', i \in DOMAIN file
      PROVE  /\ file'[i].at = i - 1
             /\ \A j \in 1..(i - 1) : file'[j].id # file'[i].id
             /\ Binds(file'[i], SubSeq(file', 1, i - 1))
  <2>1. file'[i] = file[i] /\ \A j \in 1..(i - 1) : file'[j] = file[j]
    BY <1>4, <1>6, <1>7
  <2>2. /\ file[i].at = i - 1 /\ \A j \in 1..(i - 1) : file[j].id # file[i].id
        /\ Binds(file[i], SubSeq(file, 1, i - 1))
    BY <1>7 DEF PositionsInv, LinesCheck
  <2>3. i - 1 \in 0..Len(file) /\ i - 1 \in 0..Len(file') /\ i - 1 \in Nat
    BY <1>3, <1>4, <1>6, <1>7
  <2>4. Precedes(file[i], file, i - 1)
    BY <1>6, <2>2, <2>3, BindsToPrefix
  <2>5. Precedes(file'[i], file', i - 1)
    BY <2>1, <2>3, <2>4, PrecedesKept
  <2>6. Binds(file'[i], SubSeq(file', 1, i - 1))
    BY <1>4, <2>3, <2>5, BindsToPrefix
  <2> QED
    BY <2>1, <2>2, <2>6
<1>8. ASSUME NEW i \in DOMAIN file', i \notin DOMAIN file
      PROVE  /\ file'[i].at = i - 1
             /\ \A j \in 1..(i - 1) : file'[j].id # file'[i].id
             /\ Binds(file'[i], SubSeq(file', 1, i - 1))
  <2> DEFINE k == i - Len(file)
  <2>1. k \in 1..n /\ file'[i] = batch[k] /\ k \in 1..Len(batch) /\ i \in Nat
    <3>1. k \in 1..n /\ file'[i] = batch[k]
      BY <1>4, <1>8
    <3> QED
      BY <1>3, <1>6, <3>1
  <2>2. PICK d \in ready : caller[d].at = indexed + k - 1 /\ batch[k] = Doc(d)
    BY <1>2, <2>1
  <2>3. Len(file) = indexed /\ open /\ ~broken
    BY <1>5, <2>1
  <2>4. file'[i].at = i - 1 /\ file'[i].id = caller[d].id
    <3>1. batch[k].at = indexed + k - 1 /\ batch[k].id = caller[d].id
      BY <2>2 DEF Doc
    <3>2. indexed + k - 1 = i - 1
      BY <1>6, <2>1, <2>3
    <3> HIDE DEF k
    <3> QED
      BY <2>1, <3>1, <3>2
  <2>5. ASSUME NEW j \in 1..(i - 1) PROVE file'[j].id # file'[i].id
    <3>1. CASE j \in DOMAIN file
      <4>1. file[j].id # caller[d].id
        BY <1>1, <2>2, <2>3, <3>1 DEF PositionsInv, IndexIsWhole
      <4>2. file'[j] = file[j]
        BY <1>4, <3>1
      <4> QED
        BY <2>4, <4>1, <4>2
    <3>2. CASE j \notin DOMAIN file
      <4> DEFINE h == j - Len(file)
      <4>1. h \in 1..n /\ h \in 1..Len(batch) /\ h < k /\ file'[j] = batch[h]
        <5>1. j \in DOMAIN file'
          BY <1>6, <2>1
        <5>2. h \in 1..n /\ file'[j] = batch[h]
          BY <1>4, <3>2, <5>1
        <5> QED
          BY <1>3, <1>6, <2>1, <5>2
      <4>2. PICK e \in ready : caller[e].at = indexed + h - 1 /\ batch[h] = Doc(e)
        BY <1>2, <4>1
      <4>3. e # d
        <5>1. k \in Int /\ h \in Int /\ h < k /\ indexed \in Int
          BY <1>6, <2>1, <4>1
        <5> HIDE DEF k, h
        <5>2. caller[e].at # caller[d].at
          BY <2>2, <4>2, <5>1
        <5> QED
          BY <5>2
      <4>4. caller[e].id # caller[d].id
        BY <1>1, <2>2, <2>3, <4>2, <4>3 DEF PositionsInv, IndexIsWhole
      <4>5. file'[j].id = caller[e].id
        BY <4>1, <4>2 DEF Doc
      <4> QED
        BY <2>4, <4>4, <4>5
    <3> QED
      BY <3>1, <3>2
  <2>6. Binds(file'[i], SubSeq(file', 1, i - 1))
    <3>1. Precedes(batch[k], file \o batch, i - 1)
      <4>1. Len(file) + k - 1 = i - 1
        BY <1>4, <1>6
      <4> QED
        BY <1>2, <2>1, <4>1
    <3>2. i - 1 \in Nat /\ i - 1 \in 0..Len(file')
      BY <1>4, <1>6, <2>1
    <3>3. \A j \in 1..(i - 1) : file'[j] = (file \o batch)[j]
      <4> SUFFICES ASSUME NEW j \in 1..(i - 1) PROVE file'[j] = (file \o batch)[j]
        OBVIOUS
      <4>1. CASE j \in DOMAIN file
        BY <1>2, <1>4, <1>6, <4>1
      <4>2. CASE j \notin DOMAIN file
        <5>1. j - Len(file) \in 1..n /\ file'[j] = batch[j - Len(file)]
          <6>1. j \in DOMAIN file'
            BY <1>6, <2>1
          <6> QED
            BY <1>4, <4>2, <6>1
        <5> QED
          BY <1>2, <1>3, <1>6, <4>2, <5>1
      <4> QED
        BY <4>1, <4>2
    <3>4. Precedes(batch[k], file', i - 1)
      BY <3>1, <3>2, <3>3, PrecedesKept
    <3> QED
      BY <1>4, <2>1, <3>2, <3>4, BindsToPrefix
  <2> QED
    BY <2>4, <2>5, <2>6
<1> QED
  BY <1>5, <1>7, <1>8 DEF LinesCheck

\* A file that grows keeps what was issued.
LEMMA GrowStands ==
    ASSUME PositionsInv, issued' = issued,
           \A i \in DOMAIN file : i \in DOMAIN file' /\ file'[i] = file[i]
    PROVE  IssuedStays'
  BY DEF PositionsInv, IssuedStays

\* A new position is the next, and nobody's (issue, append).
LEMMA HoldKeeps ==
    ASSUME FileTypes, PositionsInv, open, ~broken,
           NEW c \in Callers, caller[c].pc \in {"idle", "again"},
           NEW mode, NEW id \in Ids, NEW of, NEW key, IsNew(id), Hold(c, mode, id, of, key)
    PROVE  PositionsInv'
<1> DEFINE r == [pc |-> "signing", mode |-> mode, id |-> id, of |-> of,
                 at |-> next, key |-> key, place |-> "held"]
<1>1. /\ caller' = [caller EXCEPT ![c] = r] /\ next' = next + 1
      /\ UNCHANGED <<file, indexed, open, broken, issued>>
  BY DEF Hold, files, history
<1>2. /\ caller'[c] = r /\ r.pc = "signing" /\ r.place = "held" /\ r.at = next /\ r.id = id
      /\ \A d \in Callers \ {c} : caller'[d] = caller[d]
  BY <1>1 DEF FileTypes, Callings
<1> HIDE DEF r
<1>3. c \notin Held /\ Held' = Held \cup {c} /\ Signed' = Signed
  BY <1>2 DEF FileTypes, Callings, Held, Signed
<1>4. \A d \in Held : d \in Callers /\ d # c /\ caller'[d] = caller[d] /\ caller[d].at \in Nat
  BY <1>2, <1>3, ReservationTypes DEF Held
<1>5. next \in Nat /\ indexed \in Nat /\ indexed <= next
  BY DEF FileTypes, PositionsInv, TurnsInOrder
<1>6. PositionsApart'
  BY <1>1, <1>2, <1>3, <1>4, <1>5 DEF PositionsInv, PositionsApart
<1>7. AppendedStands'
  BY <1>1, <1>2 DEF PositionsInv, AppendedStands, Doc
<1>8. IndexIsWhole'
  <2>1. Len(file) = indexed /\ DOMAIN file = 1..indexed
    BY DEF PositionsInv, IndexIsWhole, FileTypes
  <2>2. /\ \A i \in DOMAIN file : file[i].id # id
        /\ \A d \in Held : caller[d].id # id
    BY <2>1 DEF IsNew, Indexed
  <2> QED
    BY <1>1, <1>2, <1>3, <1>4, <2>1, <2>2 DEF PositionsInv, IndexIsWhole
<1>9. TurnsInOrder'
  <2>1. \A n \in indexed..(next - 1) : \E d \in Held : caller[d].at = n
    BY DEF PositionsInv, TurnsInOrder
  <2>2. \A n \in indexed'..(next' - 1) : \E d \in Held' : caller'[d].at = n
    <3> SUFFICES ASSUME NEW n \in indexed'..(next' - 1)
                 PROVE  \E d \in Held' : caller'[d].at = n
      OBVIOUS
    <3>1. n = next \/ n \in indexed..(next - 1)
      BY <1>1, <1>5
    <3> QED
      BY <1>2, <1>3, <1>4, <2>1, <3>1
  <2>3. \A d \in Signed' : caller'[d].at # indexed'
    <3>1. Signed \subseteq Held
      BY DEF Signed
    <3> QED
      BY <1>1, <1>3, <1>4, <3>1 DEF PositionsInv, TurnsInOrder
  <2>4. indexed' <= next'
    BY <1>1, <1>5
  <2> QED
    BY <2>2, <2>3, <2>4 DEF TurnsInOrder
<1>10. LinesCheck' /\ IssuedStays'
  BY <1>1 DEF PositionsInv, LinesCheck, IssuedStays
<1> QED
  BY <1>6, <1>7, <1>8, <1>9, <1>10 DEF PositionsInv

\* A caller that holds nothing does not disturb those that do.
LEMMA UnheldKeeps ==
    ASSUME FileTypes, PositionsInv, NEW c \in Callers, c \notin Held,
           NEW r, caller' = [caller EXCEPT ![c] = r], r.place # "held",
           r.place = "appended" => /\ caller[c].place = "appended" /\ r.at = caller[c].at
                                   /\ r.id = caller[c].id /\ r.key = caller[c].key
                                   /\ r.of = caller[c].of,
           UNCHANGED <<file, indexed, open, broken, next>>
    PROVE  PositionsApart' /\ AppendedStands' /\ IndexIsWhole' /\ TurnsInOrder' /\ LinesCheck'
<1>1. caller'[c] = r /\ \A d \in Callers \ {c} : caller'[d] = caller[d]
  BY DEF FileTypes, Callings
<1>2. Held' = Held /\ Signed' = Signed /\ \A d \in Held : d # c /\ caller'[d] = caller[d]
  BY <1>1 DEF Held, Signed
<1>3. Signed \subseteq Held
  BY DEF Signed
<1>4. PositionsApart' /\ IndexIsWhole' /\ TurnsInOrder'
  BY <1>2, <1>3 DEF PositionsInv, PositionsApart, IndexIsWhole, TurnsInOrder
<1>5. AppendedStands'
  BY <1>1 DEF PositionsInv, AppendedStands, Doc
<1> QED
  BY <1>4, <1>5 DEF PositionsInv, LinesCheck

\* A signature that fails takes its position back, and those after it
\* (_take_back).
LEMMA SignFailsKeeps ==
    ASSUME FileTypes, PositionsInv, NEW c \in Callers, SignFails(c)
    PROVE  PositionsInv'
<1> DEFINE gone == [caller EXCEPT ![c] = Idle]
           at == caller[c].at
<1>1. UNCHANGED <<file, indexed, open, broken, issued>>
  BY DEF SignFails, files, history
<1>2. IssuedStays' /\ LinesCheck'
  BY <1>1 DEF PositionsInv, IssuedStays, LinesCheck
<1>3. CASE c \notin Held
  <2>1. caller' = gone /\ next' = next
    BY <1>3 DEF SignFails, Held
  <2> QED
    BY <1>1, <1>2, <1>3, <2>1, IdleTypes, UnheldKeeps DEF PositionsInv
<1>4. CASE c \in Held
  <2>1. next' = at /\ \A d \in Callers :
          caller'[d] = IF gone[d].place = "held" /\ gone[d].at >= at
                         THEN [gone[d] EXCEPT !.place = IF d \in {} THEN "failed" ELSE "taken"]
                         ELSE gone[d]
    BY <1>4 DEF SignFails, TakeBack, Held
  <2>2. gone[c] = Idle /\ \A d \in Callers \ {c} : gone[d] = caller[d]
    BY DEF FileTypes, Callings
  <2>3. \A d \in Callers : caller[d] \in Reservations
    BY DEF FileTypes, Callings
  <2> HIDE DEF gone
  <2>4. caller'[c] = Idle
    BY <2>1, <2>2, IdleTypes
  <2>5. ASSUME NEW d \in Callers, d # c
        PROVE  \/ caller'[d] = caller[d] /\ (d \in Held => caller[d].at < at)
               \/ caller'[d].place = "taken" /\ d \in Held /\ caller[d].at >= at
    <3>1. caller[d].at \in Nat /\ at \in Nat
      BY <2>5, ReservationTypes
    <3>2. d \in Held <=> caller[d].place = "held"
      BY DEF Held
    <3>3. caller[d] \in Reservations /\ gone[d] = caller[d]
      BY <2>2, <2>3, <2>5
    <3>4. caller'[d] = IF caller[d].place = "held" /\ caller[d].at >= at
                         THEN [caller[d] EXCEPT !.place = "taken"] ELSE caller[d]
      BY <2>1, <3>3
    <3>5. [caller[d] EXCEPT !.place = "taken"].place = "taken"
      BY <3>3 DEF Reservations
    <3> QED
      BY <3>1, <3>2, <3>4, <3>5
  <2>6. Held' = {d \in Held : caller[d].at < at} /\ Signed' \subseteq Signed
    <3>1. \A d \in Callers : (caller'[d].place = "held") <=> (d \in Held /\ caller[d].at < at)
      <4> SUFFICES ASSUME NEW d \in Callers
                   PROVE  (caller'[d].place = "held") <=> (d \in Held /\ caller[d].at < at)
        OBVIOUS
      <4>1. caller[d].at \in Nat /\ at \in Nat
        BY ReservationTypes
      <4>2. d \in Held <=> caller[d].place = "held"
        BY DEF Held
      <4> QED
        BY <2>4, <2>5, <4>1, <4>2, IdleTypes
    <3>2. Held' = {d \in Held : caller[d].at < at}
      BY <3>1 DEF Held
    <3>3. \A d \in Held' : d # c /\ caller'[d] = caller[d] /\ d \in Held
      BY <2>4, <2>5, <3>2, IdleTypes DEF Held
    <3> QED
      BY <3>2, <3>3 DEF Signed
  <2>7. \A d \in Held' : d \in Held /\ d # c /\ caller'[d] = caller[d] /\ caller[d].at < at
    BY <2>4, <2>5, <2>6, IdleTypes DEF Held
  <2>8. \A d \in Held : caller[d].at \in Nat
    BY ReservationTypes DEF Held
  <2>9. PositionsApart'
    BY <1>1, <2>1, <2>7 DEF PositionsInv, PositionsApart
  <2>10. AppendedStands'
    BY <1>1, <2>4, <2>5, IdleTypes DEF PositionsInv, AppendedStands, Doc
  <2>11. IndexIsWhole'
    BY <1>1, <2>7 DEF PositionsInv, IndexIsWhole
  <2>12. TurnsInOrder'
    <3> SUFFICES ASSUME ~broken
                 PROVE  /\ indexed <= at
                        /\ \A n \in indexed..(at - 1) : \E d \in Held' : caller'[d].at = n
                        /\ \A d \in Signed' : caller'[d].at # indexed
      BY <1>1, <2>1 DEF TurnsInOrder
    <3>1. /\ \A n \in indexed..(next - 1) : \E d \in Held : caller[d].at = n
          /\ \A d \in Signed : caller[d].at # indexed
      BY <1>4 DEF PositionsInv, TurnsInOrder
    <3>2. indexed <= at /\ at < next /\ at \in Nat /\ indexed \in Nat /\ next \in Nat
      BY <1>4, <2>8 DEF PositionsInv, PositionsApart, FileTypes
    <3>3. ASSUME NEW n \in indexed..(at - 1) PROVE \E d \in Held' : caller'[d].at = n
      <4>1. PICK d \in Held : caller[d].at = n
        BY <3>1, <3>2
      <4>2. d \in Held'
        BY <2>6, <3>2, <4>1
      <4> QED
        BY <2>7, <4>1, <4>2
    <3>4. \A d \in Signed' : d \in Held' /\ d \in Signed
      BY <2>6 DEF Signed
    <3> QED
      BY <2>7, <3>1, <3>2, <3>3, <3>4
  <2> QED
    BY <1>2, <2>9, <2>10, <2>11, <2>12 DEF PositionsInv
<1> QED
  BY <1>3, <1>4

\* A crash keeps the lines that were issued.
LEMMA CrashKeeps == ASSUME FileTypes, PositionsInv, Crash PROVE PositionsInv'
<1>1. /\ \A c \in Callers : caller'[c] = Idle
      /\ open' = FALSE /\ UNCHANGED <<indexed, broken, next, issued>>
  BY DEF Crash, history
<1>2. Held' = {}
  BY <1>1, IdleTypes DEF Held
<1>3. PositionsApart' /\ IndexIsWhole' /\ TurnsInOrder'
  BY <1>1, <1>2 DEF PositionsApart, IndexIsWhole, TurnsInOrder
<1>4. AppendedStands'
  BY <1>1, IdleTypes DEF AppendedStands
<1>5. LinesCheck' /\ IssuedStays'
  <2>1. CASE UNCHANGED file
    BY <1>1, <2>1 DEF PositionsInv, LinesCheck, IssuedStays
  <2>2. ASSUME NEW c \in Callers, caller[c].pc = "signing", caller[c].place = "held",
               NEW n \in 1..Len(Batch(Signed \cup {c})),
               file' = file \o SubSeq(Batch(Signed \cup {c}), 1, n)
        PROVE  LinesCheck' /\ IssuedStays'
    <3>1. c \in Held /\ n \in 0..Len(Batch(Signed \cup {c}))
      BY <2>2 DEF Held
    <3>2. Batch(Signed \cup {c}) \in Seq(Docs)
      BY <2>2, BatchIs DEF Signed, Held
    <3>3. \A i \in DOMAIN file : i \in DOMAIN file' /\ file'[i] = file[i]
      BY <2>2, <3>1, <3>2, GrowTypes
    <3> QED
      BY <1>1, <2>2, <3>1, <3>3, GrowKeeps, GrowStands
  <2> QED
    BY <2>1, <2>2 DEF Crash
<1> QED
  BY <1>3, <1>4, <1>5 DEF PositionsInv
\* Whoever delivers writes what is ready, and what cannot follow is taken back.
LEMMA DeliverKeeps ==
    ASSUME FileTypes, PositionsInv, NEW c \in Callers, Deliver(c)
    PROVE  PositionsInv'
<1> DEFINE ready == Signed \cup {c}
           batch == Batch(ready)
           top == indexed + Len(batch)
           waiting == [caller EXCEPT ![c].pc = "waiting"]
           settled == [d \in Callers |-> IF d \in ready /\ caller[d].at < top
                                           THEN [waiting[d] EXCEPT !.place = "appended"]
                                           ELSE waiting[d]]
<1>1. caller[c].pc = "signing" /\ UNCHANGED <<open, issued>>
  BY DEF Deliver, history
<1>2. /\ \A d \in Callers : caller[d] \in Reservations /\ caller[d].at \in Nat
      /\ \A d \in Callers : d \in Held <=> caller[d].place = "held"
      /\ Held \subseteq Callers /\ Signed \subseteq Held /\ indexed \in Nat /\ next \in Nat
  BY ReservationTypes DEF Held, Signed, FileTypes
<1>3. ASSUME NEW d \in Callers
      PROVE  /\ waiting[d].place = caller[d].place /\ waiting[d].at = caller[d].at
             /\ waiting[d].id = caller[d].id /\ waiting[d].key = caller[d].key
             /\ waiting[d].of = caller[d].of /\ waiting[d] \in Reservations
             /\ waiting[d].pc = IF d = c THEN "waiting" ELSE caller[d].pc
  <2>1. caller \in [Callers -> Reservations]
    BY DEF FileTypes, Callings
  <2> QED
    BY <1>2, <2>1 DEF Reservations
<1> HIDE DEF waiting
<1>4. CASE c \notin Held
  <2> DEFINE r == [caller[c] EXCEPT !.pc = "waiting"]
  <2>1. caller' = [caller EXCEPT ![c] = r] /\ UNCHANGED <<file, indexed, broken, next>>
    BY <1>2, <1>4 DEF Deliver, waiting, files
  <2>2. r.place = caller[c].place /\ r.at = caller[c].at /\ r.id = caller[c].id
        /\ r.key = caller[c].key /\ r.of = caller[c].of
    BY <1>2 DEF Reservations
  <2> HIDE DEF r
  <2>3. IssuedStays'
    BY <1>1, <2>1 DEF PositionsInv, IssuedStays
  <2>4. UNCHANGED <<file, indexed, open, broken, next>> /\ r.place # "held"
    BY <1>1, <1>2, <1>4, <2>1, <2>2
  <2>5. PositionsApart' /\ AppendedStands' /\ IndexIsWhole' /\ TurnsInOrder' /\ LinesCheck'
    BY <1>4, <2>1, <2>2, <2>4, UnheldKeeps
  <2> QED
    BY <2>3, <2>5 DEF PositionsInv
<1>5. ASSUME c \in Held PROVE PositionsInv'
  <2>1. ready \subseteq Held /\ ready \in SUBSET Callers /\ \A d \in ready : caller[d].pc # "idle"
    BY <1>1, <1>2, <1>5 DEF Signed
  <2>2. /\ batch \in Seq(Docs)
        /\ batch # <<>> => open /\ ~broken
        /\ \A k \in 1..Len(batch) :
             \E d \in ready : caller[d].at = indexed + k - 1 /\ batch[k] = Doc(d)
    BY <2>1, BatchIs
  <2>3. Len(batch) \in Nat /\ top \in Nat /\ (batch # <<>> => Len(file) = indexed)
    BY <1>2, <2>2 DEF PositionsInv, IndexIsWhole
  <2> DEFINE below(d) == d \in Held /\ caller[d].at < top
  <2>4. ASSUME NEW d \in Held, caller[d].at < top
        PROVE  d \in ready /\ batch # <<>> /\ caller[d].at - indexed + 1 \in 1..Len(batch)
               /\ batch[caller[d].at - indexed + 1] = Doc(d)
    <3> DEFINE k == caller[d].at - indexed + 1
    <3>1. caller[d].at \in Nat /\ indexed <= caller[d].at
      BY <1>2 DEF PositionsInv, PositionsApart
    <3>2. k \in 1..Len(batch) /\ indexed + k - 1 = caller[d].at
      BY <1>2, <2>3, <2>4, <3>1
    <3> HIDE DEF k
    <3>3. PICK e \in ready : caller[e].at = caller[d].at /\ batch[k] = Doc(e)
      BY <2>2, <3>2
    <3>4. e = d
      BY <2>1, <3>3 DEF PositionsInv, PositionsApart
    <3>5. batch # <<>>
      BY <2>2, <3>2
    <3> QED
      BY <3>2, <3>3, <3>4, <3>5 DEF k
  <2>5. \A d \in Callers : settled[d] = IF below(d) THEN [waiting[d] EXCEPT !.place = "appended"]
                                        ELSE waiting[d]
    <3>1. \A d \in Callers : (d \in ready /\ caller[d].at < top) <=> below(d)
      <4> HIDE DEF ready, top
      <4> QED
        BY <2>1, <2>4
    <3> HIDE DEF ready, top, below
    <3> QED
      BY <3>1
  <2>6. ASSUME NEW d \in Callers
        PROVE  /\ settled[d].place = IF below(d) THEN "appended" ELSE caller[d].place
               /\ settled[d].at = caller[d].at
               /\ settled[d].id = caller[d].id /\ settled[d].key = caller[d].key
               /\ settled[d].of = caller[d].of /\ settled[d] \in Reservations
               /\ settled[d].pc = IF d = c THEN "waiting" ELSE caller[d].pc
    <3> DEFINE a == [waiting[d] EXCEPT !.place = "appended"]
    <3>1. a.place = "appended" /\ a.at = waiting[d].at /\ a.id = waiting[d].id
          /\ a.key = waiting[d].key /\ a.of = waiting[d].of /\ a.pc = waiting[d].pc
          /\ a \in Reservations
      BY <1>3 DEF Reservations
    <3>2. settled[d] = IF below(d) THEN a ELSE waiting[d]
      BY <2>5
    <3> HIDE DEF settled, below, a
    <3> QED
      BY <1>3, <3>1, <3>2
  <2> HIDE DEF ready, batch, top, settled
  <2>7. CASE /\ Extend(batch)
             /\ IF Refused(ready) = {} THEN caller' = settled /\ UNCHANGED next
                ELSE TakeBack(settled, top, Refused(ready))
    <3> DEFINE all == Refused(ready) = {}
    <3>1. ASSUME NEW d \in Callers
          PROVE  /\ caller'[d].at = caller[d].at /\ caller'[d].id = caller[d].id
                 /\ caller'[d].key = caller[d].key /\ caller'[d].of = caller[d].of
                 /\ caller'[d].pc = IF d = c THEN "waiting" ELSE caller[d].pc
                 /\ (caller'[d].place = "held") <=> (d \in Held /\ caller[d].at >= top /\ all)
                 /\ (caller'[d].place = "appended") <=> (below(d) \/ caller[d].place = "appended")
      <4>1. caller[d].at \in Nat /\ (d \in Held <=> caller[d].place = "held")
        BY <1>2
      <4>2. CASE all
        BY <2>3, <2>6, <2>7, <4>1, <4>2
      <4>3. CASE ~all
        <5>1. caller'[d] = IF settled[d].place = "held" /\ settled[d].at >= top
                             THEN [settled[d] EXCEPT !.place = IF d \in Refused(ready)
                                                                 THEN "failed" ELSE "taken"]
                             ELSE settled[d]
          BY <2>7, <4>3 DEF TakeBack
        <5>2. (caller[d].at >= top) <=> ~(caller[d].at < top)
          BY <2>3, <4>1
        <5>3. CASE settled[d].place = "held" /\ settled[d].at >= top
          <6>1. caller'[d].place \in {"failed", "taken"}
                /\ caller'[d].at = settled[d].at /\ caller'[d].id = settled[d].id
                /\ caller'[d].key = settled[d].key /\ caller'[d].of = settled[d].of
                /\ caller'[d].pc = settled[d].pc
            BY <2>6, <5>1, <5>3 DEF Reservations
          <6> QED
            BY <2>6, <4>1, <4>3, <5>2, <5>3, <6>1
        <5>4. CASE ~(settled[d].place = "held" /\ settled[d].at >= top)
          BY <2>6, <4>1, <4>3, <5>1, <5>2, <5>4
        <5> QED
          BY <5>3, <5>4
      <4> QED
        BY <4>2, <4>3
    <3> HIDE DEF all
    <3>2. Held' = {d \in Held : caller[d].at >= top /\ all}
      BY <1>2, <3>1 DEF Held
    <3>3. /\ next' = IF all THEN next ELSE top
          /\ file' = file \o SubSeq(batch, 1, Len(batch)) /\ Len(batch) \in 0..Len(batch)
          /\ \/ indexed' = top /\ broken' = broken
             \/ indexed' = indexed /\ broken' = TRUE
      <4>1. file' = file \o batch
        BY <2>7 DEF Extend
      <4>2. batch = SubSeq(batch, 1, Len(batch))
        BY <2>2
      <4>3. next' = IF all THEN next ELSE top
        BY <2>7 DEF TakeBack, all
      <4> QED
        BY <2>3, <2>7, <4>1, <4>2, <4>3 DEF Extend, top
    <3>4. /\ file' \in Seq(Docs) /\ Len(file') = Len(file) + Len(batch)
          /\ \A i \in DOMAIN file : i \in DOMAIN file' /\ file'[i] = file[i]
          /\ \A k \in 1..Len(batch) : file'[Len(file) + k] = batch[k]
          /\ \A i \in DOMAIN file' : i \notin DOMAIN file =>
               i - Len(file) \in 1..Len(batch) /\ file'[i] = batch[i - Len(file)]
      BY <2>2, <3>3, GrowTypes
    <3>5. LinesCheck' /\ IssuedStays'
      <4>1. file' = file \o SubSeq(Batch(Signed \cup {c}), 1, Len(batch))
            /\ Len(batch) \in 0..Len(Batch(Signed \cup {c}))
        BY <3>3 DEF batch, ready
      <4>2. LinesCheck'
        BY <1>5, <4>1, GrowKeeps
      <4> QED
        BY <1>1, <3>4, <4>2, GrowStands
    <3>6. PositionsApart'
      BY <1>2, <2>3, <3>1, <3>2, <3>3 DEF PositionsInv, PositionsApart
    <3>7. AppendedStands'
      <4> SUFFICES ASSUME NEW d \in Callers, caller'[d].place = "appended"
                   PROVE  /\ caller'[d].at + 1 \in DOMAIN file'
                          /\ file'[caller'[d].at + 1] = Doc(d)'
        BY DEF AppendedStands
      <4>1. Doc(d)' = Doc(d) /\ caller'[d].at = caller[d].at
        BY <3>1 DEF Doc
      <4>2. CASE caller[d].place = "appended"
        BY <3>4, <4>1, <4>2 DEF PositionsInv, AppendedStands
      <4>3. CASE below(d)
        <5> DEFINE k == caller[d].at - indexed + 1
        <5>1. k \in 1..Len(batch) /\ batch[k] = Doc(d) /\ Len(file) = indexed
          BY <2>3, <2>4, <4>3
        <5>2. caller[d].at + 1 = Len(file) + k /\ Len(file) + k \in 1..Len(file')
          <6>1. caller[d].at + 1 = Len(file) + k /\ Len(file) \in Nat
            BY <1>2, <5>1
          <6> HIDE DEF k
          <6> QED
            BY <2>3, <3>4, <5>1, <6>1
        <5> HIDE DEF k
        <5>3. file'[Len(file) + k] = Doc(d) /\ DOMAIN file' = 1..Len(file')
          BY <3>4, <5>1
        <5> QED
          BY <4>1, <5>2, <5>3
      <4> QED
        BY <3>1, <4>2, <4>3
    <3>8. IndexIsWhole'
      <4> SUFFICES ASSUME open, ~broken'
                   PROVE  /\ Len(file') = indexed'
                          /\ \A d \in Held' : \A i \in DOMAIN file' : file'[i].id # caller'[d].id
                          /\ \A d, e \in Held' : caller'[d].id = caller'[e].id => d = e
        BY <1>1 DEF IndexIsWhole
      <4>1. indexed' = top /\ ~broken
        BY <3>3
      <4>2. /\ Len(file) = indexed
            /\ \A d \in Held : \A i \in DOMAIN file : file[i].id # caller[d].id
            /\ \A d, e \in Held : caller[d].id = caller[e].id => d = e
        BY <4>1 DEF PositionsInv, IndexIsWhole
      <4>3. \A d \in Held' : d \in Held /\ d \in Callers /\ caller'[d].id = caller[d].id
                             /\ caller[d].at >= top
        BY <1>2, <3>1, <3>2
      <4>4. ASSUME NEW d \in Held', NEW i \in DOMAIN file' PROVE file'[i].id # caller'[d].id
        <5>1. CASE i \in DOMAIN file
          BY <3>4, <4>2, <4>3, <5>1
        <5>2. CASE i \notin DOMAIN file
          <6> DEFINE k == i - Len(file)
          <6>1. k \in 1..Len(batch) /\ file'[i] = batch[k]
            BY <3>4, <5>2
          <6> HIDE DEF k
          <6>2. PICK e \in ready : caller[e].at = indexed + k - 1 /\ batch[k] = Doc(e)
            BY <2>2, <6>1
          <6>3. caller[e].at < top /\ e \in Held /\ caller[d].at \in Nat
            BY <1>2, <2>1, <2>3, <4>3, <6>1, <6>2 DEF top
          <6>4. e # d
            BY <2>3, <4>3, <6>3
          <6>5. file'[i].id = caller[e].id
            BY <6>1, <6>2 DEF Doc
          <6> QED
            BY <4>2, <4>3, <6>3, <6>4, <6>5
        <5> QED
          BY <5>1, <5>2
      <4> QED
        BY <3>4, <4>1, <4>2, <4>3, <4>4 DEF top
    <3>9. TurnsInOrder'
      <4> SUFFICES ASSUME ~broken', open \/ Held' # {}
                   PROVE  /\ indexed' <= next'
                          /\ \A n \in indexed'..(next' - 1) : \E d \in Held' : caller'[d].at = n
                          /\ \A d \in Signed' : caller'[d].at # indexed'
        BY <1>1 DEF TurnsInOrder
      <4>1. indexed' = top /\ ~broken
        BY <3>3
      <4>2. CASE ~all
        <5>1. next' = top /\ Held' = {} /\ Signed' = {}
          BY <3>2, <3>3, <4>2 DEF Signed
        <5> QED
          BY <2>3, <4>1, <5>1
      <4>3. CASE all
        <5>1. /\ indexed <= next
              /\ \A n \in indexed..(next - 1) : \E d \in Held : caller[d].at = n
          BY <1>5, <4>1 DEF PositionsInv, TurnsInOrder
        <5>2. next' = next
          BY <3>3, <4>3
        <5>3. top <= next
          <6>1. CASE batch = <<>>
            BY <1>2, <5>1, <6>1 DEF top
          <6>2. CASE batch # <<>>
            <7>1. Len(batch) \in 1..Len(batch)
              BY <2>2, <6>2
            <7>2. PICK d \in ready : caller[d].at = indexed + Len(batch) - 1
              BY <2>2, <7>1
            <7>3. caller[d].at < next
              BY <2>1 DEF PositionsInv, PositionsApart
            <7> QED
              BY <1>2, <2>3, <7>2, <7>3 DEF top
          <6> QED
            BY <6>1, <6>2
        <5>4. ASSUME NEW n \in top..(next - 1) PROVE \E d \in Held' : caller'[d].at = n
          <6>1. n \in indexed..(next - 1) /\ n >= top
            BY <1>2, <2>3 DEF top
          <6>2. PICK d \in Held : caller[d].at = n
            BY <5>1, <6>1
          <6> QED
            BY <1>2, <3>1, <3>2, <4>3, <6>1, <6>2
        <5>5. ASSUME NEW d \in Signed', caller'[d].at = top PROVE FALSE
          <6>1. d \in Callers /\ d \in Held /\ caller[d].at = top
            BY <1>2, <3>1, <3>2, <5>5 DEF Signed
          <6>2. d = c \/ caller[d].pc = "waiting"
            BY <3>1, <5>5, <6>1 DEF Signed
          <6>3. d \in ready
            BY <6>1, <6>2 DEF Signed, ready
          <6> QED
            BY <4>3, <6>1, <6>3 DEF all, Refused, top, batch
        <5> QED
          BY <4>1, <5>2, <5>3, <5>4, <5>5
      <4> QED
        BY <4>2, <4>3
    <3> QED
      BY <3>5, <3>6, <3>7, <3>8, <3>9 DEF PositionsInv
  <2>8. ASSUME NEW failed, TakeBack(waiting, indexed, failed), UNCHANGED <<files, broken, due>>
        PROVE  PositionsInv'
    <3>1. UNCHANGED <<file, indexed, open, broken, issued>> /\ next' = indexed
      BY <1>1, <2>8 DEF files, TakeBack
    <3>2. ASSUME NEW d \in Callers
          PROVE  /\ caller'[d].at = caller[d].at /\ Doc(d)' = Doc(d)
                 /\ caller'[d].place # "held"
                 /\ caller'[d].place = "appended" => caller[d].place = "appended"
      <4>1. caller'[d] = IF waiting[d].place = "held" /\ waiting[d].at >= indexed
                           THEN [waiting[d] EXCEPT !.place = IF d \in failed THEN "failed" ELSE "taken"]
                           ELSE waiting[d]
        BY <2>8 DEF TakeBack
      <4>2. waiting[d].place = "held" => waiting[d].at >= indexed
        BY <1>2, <1>3 DEF PositionsInv, PositionsApart
      <4>3. CASE waiting[d].place = "held"
        <5>1. /\ caller'[d].place \in {"failed", "taken"} /\ caller'[d].at = waiting[d].at
              /\ caller'[d].id = waiting[d].id /\ caller'[d].key = waiting[d].key
              /\ caller'[d].of = waiting[d].of
          BY <1>3, <4>1, <4>2, <4>3 DEF Reservations
        <5> QED
          BY <1>3, <5>1 DEF Doc
      <4>4. CASE waiting[d].place # "held"
        BY <1>3, <4>1, <4>4 DEF Doc
      <4> QED
        BY <4>3, <4>4
    <3>3. Held' = {} /\ Signed' = {}
      BY <3>2 DEF Held, Signed
    <3>4. PositionsApart' /\ IndexIsWhole' /\ TurnsInOrder'
      BY <1>2, <3>1, <3>3 DEF PositionsInv, PositionsApart, IndexIsWhole, TurnsInOrder
    <3>5. AppendedStands'
      BY <3>1, <3>2 DEF PositionsInv, AppendedStands
    <3> QED
      BY <3>1, <3>4, <3>5 DEF PositionsInv, LinesCheck, IssuedStays
  <2> QED
    BY <1>5, <2>7, <2>8 DEF Deliver, Held, ready, batch, top, waiting, settled
<1> QED
  BY <1>4, <1>5

\* What is returned stands in the file (issue).
LEMMA ReturnKeeps ==
    ASSUME FileTypes, PositionsInv, NEW c \in Callers, Return(c)
    PROVE  PositionsInv'
<1>1. c \notin Held /\ UNCHANGED <<file, indexed, open, broken, next>>
  BY DEF Return, Held, files
<1> DEFINE again == [caller[c] EXCEPT !.pc = "again", !.place = "none"]
           r == IF caller[c].place = "taken" /\ caller[c].mode = "issue" THEN again ELSE Idle
<1>2. caller' = [caller EXCEPT ![c] = r]
  BY DEF Return, FileTypes, Callings
<1>3. r.place = "none"
  <2>1. again.place = "none"
    BY ReservationTypes DEF Reservations
  <2> HIDE DEF again
  <2> QED
    BY <2>1, IdleTypes
<1> HIDE DEF r
<1>4. PositionsApart' /\ AppendedStands' /\ IndexIsWhole' /\ TurnsInOrder' /\ LinesCheck'
  BY <1>1, <1>2, <1>3, UnheldKeeps
<1>5. IssuedStays'
  <2>1. \A doc \in issued' : doc \in issued \/ (doc = Doc(c) /\ caller[c].place = "appended")
    BY DEF Return
  <2>2. Doc(c).at = caller[c].at
    BY DEF Doc
  <2> QED
    BY <1>1, <2>1, <2>2 DEF PositionsInv, AppendedStands, IssuedStays
<1> QED
  BY <1>4, <1>5 DEF PositionsInv

\* A log is opened with an index of all its lines (_resume).
LEMMA ReopenKeeps == ASSUME FileTypes, PositionsInv, Reopen PROVE PositionsInv'
<1>1. /\ UNCHANGED <<file, caller, issued>> /\ open' = TRUE /\ broken' = FALSE
      /\ indexed' = Len(file) /\ next' = Len(file) /\ \A c \in Callers : caller[c].pc = "idle"
  BY DEF Reopen, history
<1>2. Held' = {} /\ Signed' = {}
  BY <1>1 DEF Held, Signed, FileTypes, Callings
<1>3. Len(file) \in Nat
  BY DEF FileTypes
<1> QED
  BY <1>1, <1>2, <1>3 DEF PositionsInv, PositionsApart, AppendedStands, IndexIsWhole, TurnsInOrder,
     LinesCheck, IssuedStays, Doc

\* No step of the log gives a position twice, or leaves one to nobody.
LEMMA PositionsStep == ASSUME ReceiptTypes, PositionsInv, [Next]_vars PROVE PositionsInv'
<1> USE DEF ReceiptTypes
<1>1. ASSUME NEW c \in Callers, Reserve(c) PROVE PositionsInv'
  <2>1. PICK d \in Drafts : IsNew(d.id) /\ Hold(c, "issue", d.id, d.of, Current)
    BY <1>1 DEF Reserve
  <2> QED
    BY <1>1, <2>1, DraftTypes, HoldKeeps DEF Reserve
<1>2. ASSUME NEW c \in Callers, AppendSigned(c) PROVE PositionsInv'
  <2>1. PICK d \in Drafts : IsNew(d.id) /\ Hold(c, "append", d.id, d.of, Outside)
    BY <1>2 DEF AppendSigned
  <2> QED
    BY <1>2, <2>1, DraftTypes, HoldKeeps DEF AppendSigned
<1>3. ASSUME NEW c \in Callers, Again(c) PROVE PositionsInv'
  <2>1. caller[c].pc = "again" /\ caller[c].id \in Ids /\ c \notin Held
    BY <1>3 DEF Again, FileTypes, Callings, Held
  <2>2. CASE /\ open /\ ~broken /\ IsNew(caller[c].id)
             /\ Hold(c, "issue", caller[c].id, caller[c].of, Current)
    BY <2>1, <2>2, HoldKeeps
  <2>3. CASE caller' = [caller EXCEPT ![c] = Idle] /\ UNCHANGED <<files, open, broken, next, control, faults, history>>
    <3>1. PositionsApart' /\ AppendedStands' /\ IndexIsWhole' /\ TurnsInOrder' /\ LinesCheck'
      BY <2>1, <2>3, IdleTypes, UnheldKeeps DEF files
    <3> QED
      BY <2>3, <3>1 DEF PositionsInv, IssuedStays, files, history
  <2> QED
    BY <1>3, <2>2, <2>3 DEF Again
<1>4. ASSUME NEW c \in Callers, SignFails(c) PROVE PositionsInv'
  BY <1>4, SignFailsKeeps
<1>5. ASSUME NEW c \in Callers, Deliver(c) PROVE PositionsInv'
  BY <1>5, DeliverKeeps
<1>6. ASSUME NEW c \in Callers, Return(c) PROVE PositionsInv'
  BY <1>6, ReturnKeeps
<1>7. CASE Crash
  BY <1>7, CrashKeeps
<1>8. CASE Reopen
  BY <1>8, ReopenKeeps
<1>9. CASE Publish
  BY <1>9, SamePositions DEF Publish, files, history
<1>10. CASE SignCheckpoint
  BY <1>10, SamePositions DEF SignCheckpoint, history
<1>11. CASE Cosign
  BY <1>11, SamePositions DEF Cosign
<1>12. CASE JobFails
  BY <1>12, SamePositions DEF JobFails, files, history
<1>13. CASE Rotate
  BY <1>13, SamePositions DEF Rotate, files, history
<1>14. CASE Drained
  BY <1>14, SamePositions DEF Drained, files
<1>15. CASE Seal
  BY <1>15, SamePositions DEF Seal, files, history
<1>16. CASE HandOver
  BY <1>16, SamePositions DEF HandOver, history
<1>17. CASE Close
  BY <1>17, SamePositions DEF Close, files, history
<1>18. CASE UNCHANGED vars
  BY <1>18, SamePositions DEF vars, files, history
<1> QED
  BY <1>1, <1>2, <1>3, <1>4, <1>5, <1>6, <1>7, <1>8, <1>9, <1>10, <1>11, <1>12, <1>13, <1>14,
     <1>15, <1>16, <1>17, <1>18 DEF Next
-----------------------------------------------------------------------------
(* The types of the keys, the checkpoints and the witness.                 *)

\* No job.
LEMMA FreeTypes == Free \in Jobs /\ Free.stage = "free"
  BY ReceiptLogAssumption DEF Free, Jobs

\* The newest checkpoint, or that of the empty log.
LEMMA LatestTypes == ASSUME ControlTypes PROVE Latest \in Checkpoints
<1>1. CASE checkpoints = <<>>
  BY <1>1, ReceiptLogAssumption DEF Latest, Checkpoint, Checkpoints, Roots
<1>2. CASE checkpoints # <<>>
  <2>1. checkpoints \in Seq(Checkpoints)
    BY DEF ControlTypes
  <2>2. Len(checkpoints) \in 1..Len(checkpoints)
    BY <1>2, <2>1
  <2> QED
    BY <1>2, <2>1, <2>2 DEF Latest, Last
<1> QED
  BY <1>1, <1>2

\* The root of a prefix of the lines.
LEMMA RootTypes ==
    ASSUME FileTypes, NEW n \in 0..Len(file)
    PROVE  TreeRoot(Leaves(n), n) \in Roots
<1>1. \A i \in 1..n : TreeLeafHash(file[i]) \in Hashes
  BY DEF FileTypes, Hashes
<1>2. Leaves(n) \in [1..n -> Hashes] /\ n \in Nat
  BY <1>1 DEF Leaves, FileTypes
<1>3. Leaves(n) \in Seq(Hashes)
  BY <1>2
<1> QED
  BY <1>2, <1>3 DEF Roots

\* What _checkpoint makes of the log as it stands.
LEMMA ReadIs ==
    ASSUME ReceiptTypes, NEW goal \in {"cosigning", "handing"}, Read(goal)
    PROVE  \/ job' = Free
           \/ /\ indexed <= Boundary /\ Latest.size = indexed
              /\ job' \in Jobs /\ job'.stage = goal /\ job'.checkpoint = Latest
              /\ job'.to = job.to /\ job'.size = job.size /\ Latest \in Checkpoints
           \/ /\ indexed > Boundary
              /\ job' \in Jobs /\ job'.stage = "signing" /\ job'.to = job.to /\ job'.size = job.size
              /\ job'.checkpoint \in Checkpoints /\ job'.checkpoint.key = Current
              /\ job'.checkpoint.size = indexed
              /\ job'.checkpoint.root = TreeRoot(Leaves(indexed), indexed)
<1>1. job \in Jobs /\ Latest \in Checkpoints /\ Current \in Keys /\ indexed \in Nat
      /\ Boundary \in Int
  BY LatestTypes, CurrentIsAKey DEF ReceiptTypes, ControlTypes, FileTypes
<1> DEFINE cp == Checkpoint(indexed, Current, TreeRoot(Leaves(indexed), indexed))
<1>2. TreeRoot(Leaves(indexed), indexed) \in Roots
  <2>1. FileTypes
    BY DEF ReceiptTypes
  <2>2. indexed \in 0..Len(file)
    BY <2>1 DEF FileTypes
  <2> QED
    BY <2>1, <2>2, RootTypes
<1>3. cp \in Checkpoints /\ cp.size = indexed /\ cp.key = Current
      /\ cp.root = TreeRoot(Leaves(indexed), indexed)
  BY <1>1, <1>2 DEF Checkpoint, Checkpoints
<1> HIDE DEF cp
<1>4. CASE indexed <= Boundary /\ Latest.size = indexed
  <2>1. job' = [job EXCEPT !.stage = goal, !.checkpoint = Latest]
    BY <1>4 DEF Read
  <2> DEFINE at == Latest
  <2>2. at \in Checkpoints /\ job' = [job EXCEPT !.stage = goal, !.checkpoint = at]
    BY <1>1, <2>1
  <2> HIDE DEF at
  <2>3. /\ job' \in Jobs /\ job'.stage = goal /\ job'.checkpoint = at
        /\ job'.to = job.to /\ job'.size = job.size
    BY <1>1, <2>2 DEF Jobs
  <2> QED
    BY <1>1, <1>4, <2>3 DEF at
<1>5. CASE indexed <= Boundary /\ Latest.size # indexed
  BY <1>5 DEF Read
<1>6. CASE ~(indexed <= Boundary)
  <2>1. job' = [job EXCEPT !.stage = "signing", !.checkpoint = cp]
    BY <1>6 DEF Read, cp
  <2>2. /\ job' \in Jobs /\ job'.stage = "signing" /\ job'.checkpoint = cp
        /\ job'.to = job.to /\ job'.size = job.size
    BY <1>1, <1>3, <2>1 DEF Jobs
  <2> QED
    BY <1>1, <1>3, <1>6, <2>2
<1> QED
  BY <1>4, <1>5, <1>6

\* No step leaves the keys, the checkpoints and the job ill-typed.
LEMMA ControlTypesStep == ASSUME ReceiptTypes, [Next]_vars PROVE ControlTypes'
<1> USE DEF ReceiptTypes
<1>0. /\ transitions \in Seq([size : Nat, from : Keys, to : Keys])
      /\ checkpoints \in Seq(Checkpoints) /\ cosigned \in Seq([size : Nat, root : Roots])
      /\ rotating \in BOOLEAN /\ lagged \in BOOLEAN /\ refusal \in BOOLEAN /\ job \in Jobs
      /\ job.stage \in {"signing", "cosigning"} => job.checkpoint \in Checkpoints
      /\ indexed \in Nat
  BY DEF ControlTypes, FileTypes
<1>1. CASE UNCHANGED <<transitions, checkpoints, cosigned, rotating, lagged, refusal, job>>
  BY <1>1 DEF ControlTypes
<1>2. CASE /\ UNCHANGED <<transitions, checkpoints, cosigned, lagged, refusal>>
           /\ rotating' = FALSE /\ job' = Free
  BY <1>2, FreeTypes DEF ControlTypes
<1>3. ASSUME NEW c \in Callers, Reserve(c) \/ AppendSigned(c) \/ Again(c) \/ SignFails(c) \/ Return(c)
      PROVE  ControlTypes'
  BY <1>1, <1>3 DEF Reserve, AppendSigned, Again, SignFails, Return, Hold, files, control, history
<1>4. ASSUME NEW c \in Callers, Deliver(c) PROVE ControlTypes'
  <2>1. UNCHANGED <<transitions, checkpoints, cosigned, rotating, lagged, refusal, job>>
    BY <1>4 DEF Deliver, files, history
  <2> QED
    BY <1>1, <2>1
<1>5. CASE Publish
  <2>1. UNCHANGED <<transitions, checkpoints, cosigned, rotating, lagged, refusal>>
    BY <1>5 DEF Publish, files, history
  <2>2. job' \in Jobs /\ (job'.stage \in {"signing", "cosigning"} => job'.checkpoint \in Checkpoints)
    BY <1>5, ReadIs, FreeTypes DEF Publish
  <2> QED
    BY <2>1, <2>2 DEF ControlTypes
<1>6. CASE SignCheckpoint
  <2>1. job.checkpoint \in Checkpoints /\ checkpoints' = Append(checkpoints, job.checkpoint)
        /\ job' = [job EXCEPT !.stage = IF rotating THEN "handing" ELSE "cosigning"]
        /\ UNCHANGED <<transitions, cosigned, rotating, lagged, refusal>>
    BY <1>0, <1>6 DEF SignCheckpoint, history
  <2>2. checkpoints' \in Seq(Checkpoints)
    <3> DEFINE cp == job.checkpoint
    <3>1. cp \in Checkpoints /\ checkpoints' = Append(checkpoints, cp)
      BY <2>1
    <3> HIDE DEF cp
    <3> QED
      BY <1>0, <3>1
  <2>3. job' \in Jobs /\ job'.checkpoint = job.checkpoint
    BY <1>0, <2>1 DEF Jobs
  <2> QED
    BY <1>0, <2>1, <2>2, <2>3 DEF ControlTypes
<1>7. CASE Cosign
  <2> DEFINE new == [size |-> job.checkpoint.size, root |-> job.checkpoint.root]
  <2>1. /\ cosigned' = cosigned \/ cosigned' = Append(cosigned, new)
        /\ job' = Free /\ UNCHANGED <<transitions, checkpoints, rotating, lagged>>
        /\ job.checkpoint \in Checkpoints
    BY <1>0, <1>7 DEF Cosign
  <2>2. new \in [size : Nat, root : Roots]
    BY <2>1 DEF Checkpoints
  <2>3. cosigned' \in Seq([size : Nat, root : Roots])
    <3> DEFINE T == [size : Nat, root : Roots]
    <3>1. new \in T /\ cosigned \in Seq(T)
      BY <1>0, <2>2
    <3> HIDE DEF new, T
    <3>2. cosigned' \in Seq(T)
      BY <2>1, <3>1
    <3> QED
      BY <3>2 DEF T
  <2>4. refusal' \in BOOLEAN
    BY <1>7 DEF Cosign
  <2> QED
    BY <1>0, <2>1, <2>3, <2>4, FreeTypes DEF ControlTypes
<1>8. CASE JobFails
  BY <1>2, <1>8 DEF JobFails, files, history
<1>9. CASE Rotate
  <2>1. PICK k \in Keys \ {Current} : job' = [Free EXCEPT !.stage = "draining", !.to = k]
    BY <1>9 DEF Rotate
  <2>2. job' \in Jobs /\ job'.stage = "draining"
    BY <2>1, FreeTypes DEF Jobs
  <2> QED
    BY <1>0, <1>9, <2>2 DEF Rotate, files, history, ControlTypes
<1>10. CASE Drained
  <2>1. job' \in Jobs /\ job'.stage \in {"handing", "sealing"}
    BY <1>0, <1>10 DEF Drained, Jobs
  <2>2. lagged' \in BOOLEAN /\ UNCHANGED <<transitions, checkpoints, cosigned, rotating, refusal>>
    BY <1>10 DEF Drained, files
  <2> QED
    BY <1>0, <2>1, <2>2 DEF ControlTypes
<1>11. CASE Seal
  <2>1. UNCHANGED <<transitions, checkpoints, cosigned, lagged, refusal>> /\ rotating' \in BOOLEAN
    BY <1>11 DEF Seal, files, history
  <2>2. job' \in Jobs /\ (job'.stage \in {"signing", "cosigning"} => job'.checkpoint \in Checkpoints)
    BY <1>11, ReadIs, FreeTypes DEF Seal
  <2> QED
    BY <1>0, <2>1, <2>2 DEF ControlTypes
<1>12. CASE HandOver
  <2> DEFINE T == [size : Nat, from : Keys, to : Keys]
             t == Transition(job.size, Current, job.to)
  <2>1. t \in T
    BY <1>0, CurrentIsAKey DEF Jobs, Transition
  <2>2. transitions' = Append(transitions, t) /\ transitions \in Seq(T)
    BY <1>0, <1>12 DEF HandOver
  <2> HIDE DEF T, t
  <2>3. transitions' \in Seq(T)
    BY <2>1, <2>2
  <2> QED
    BY <1>0, <1>12, <2>3, FreeTypes DEF T, HandOver, history, ControlTypes
<1>13. CASE Close
  BY <1>1, <1>13 DEF Close, files, control, history
<1>14. CASE Crash
  BY <1>2, <1>14 DEF Crash, history
<1>15. CASE Reopen
  BY <1>1, <1>15 DEF Reopen, history
<1>16. CASE UNCHANGED vars
  BY <1>1, <1>16 DEF vars, files, control, history
<1> QED
  BY <1>3, <1>4, <1>5, <1>6, <1>7, <1>8, <1>9, <1>10, <1>11, <1>12, <1>13, <1>14, <1>15, <1>16 DEF Next

-----------------------------------------------------------------------------
(* The key in force.                                                       *)

\* The keys of leaves, of checkpoints and of the log, as the newest of a set.
LEMMA KeysAre ==
    ASSUME NEW index
    PROVE  /\ ForLeaf(index) = LeafKey(index, transitions)
           /\ ForCheckpoint(index) = CheckpointKey(index, transitions)
  BY DEF ForLeaf, ForCheckpoint, LeafKey, CheckpointKey, KeyOf

\* Past every transition the current key is in force.
LEMMA CurrentIsInForce ==
    ASSUME ControlTypes, NEW index \in Int,
           \A n \in DOMAIN transitions : transitions[n].size <= Boundary
    PROVE  /\ Boundary <= index => LeafKey(index, transitions) = Current
           /\ Boundary < index => CheckpointKey(index, transitions) = Current
<1>1. CASE transitions = <<>>
  BY <1>1 DEF LeafKey, CheckpointKey, KeyOf, Current
<1>2. CASE transitions # <<>>
  <2> DEFINE T == [size : Nat, from : Keys, to : Keys]
             last == Len(transitions)
  <2>1. transitions \in Seq(T)
    BY DEF ControlTypes
  <2> HIDE DEF T
  <2>2. last \in DOMAIN transitions /\ last \in Nat /\ \A n \in DOMAIN transitions : n \in Nat /\ n <= last
    BY <1>2, <2>1
  <2>3. Last(transitions) = transitions[last]
    BY DEF Last
  <2>4. Current = transitions[last].to /\ \A n \in DOMAIN transitions : transitions[n].size \in Nat
    <3>1. \A n \in DOMAIN transitions : transitions[n] \in T
      BY <2>1
    <3> QED
      BY <1>2, <2>3, <3>1 DEF Current, T
  <2>5. ASSUME NEW held \in SUBSET DOMAIN transitions, held = DOMAIN transitions
        PROVE  held # {} /\ (CHOOSE n \in held : \A k \in held : k <= n) = last
    BY <2>2, <2>5
  <2>6. Boundary \in Int
    BY CurrentIsAKey
  <2>7. ASSUME Boundary <= index PROVE LeafKey(index, transitions) = Current
    <3>1. \A n \in DOMAIN transitions : index >= transitions[n].size
      BY <2>4, <2>6, <2>7
    <3>2. {n \in DOMAIN transitions : index >= transitions[n].size} = DOMAIN transitions
      BY <3>1
    <3> QED
      BY <2>4, <2>5, <3>2 DEF LeafKey, KeyOf
  <2>8. ASSUME Boundary < index PROVE CheckpointKey(index, transitions) = Current
    <3>1. \A n \in DOMAIN transitions : index > transitions[n].size
      BY <2>4, <2>6, <2>8
    <3>2. {n \in DOMAIN transitions : index > transitions[n].size} = DOMAIN transitions
      BY <3>1
    <3> QED
      BY <2>4, <2>5, <3>2 DEF CheckpointKey, KeyOf
  <2> QED
    BY <2>7, <2>8
<1> QED
  BY <1>1, <1>2

\* A transition changes nothing for what came before it.
LEMMA PastIsKept ==
    ASSUME ControlTypes, NEW t \in [size : Nat, from : Keys, to : Keys],
           transitions' = Append(transitions, t), NEW index \in Int
    PROVE  /\ index < t.size => LeafKey(index, transitions') = LeafKey(index, transitions)
           /\ index <= t.size => CheckpointKey(index, transitions') = CheckpointKey(index, transitions)
<1> DEFINE T == [size : Nat, from : Keys, to : Keys]
           last == Len(transitions)
<1>1. transitions \in Seq(T) /\ t \in T
  BY DEF ControlTypes
<1>2. \A k \in DOMAIN transitions : transitions[k].size \in Nat
  <2>1. \A k \in DOMAIN transitions : transitions[k] \in T
    <3> HIDE DEF T
    <3> QED
      BY <1>1
  <2> QED
    BY <2>1
<1>3. t.size \in Nat
  OBVIOUS
<1> HIDE DEF T
<1>4. /\ last \in Nat /\ DOMAIN transitions = 1..last /\ DOMAIN transitions' = 1..(last + 1)
      /\ transitions'[last + 1] = t /\ \A k \in 1..last : transitions'[k] = transitions[k]
  BY <1>1
<1>5. ASSUME NEW held \in SUBSET DOMAIN transitions
      PROVE  KeyOf(held, transitions') = KeyOf(held, transitions)
  <2>1. CASE held = {}
    BY <2>1 DEF KeyOf
  <2>2. CASE held # {}
    <3> DEFINE greatest == CHOOSE n \in held : \A k \in held : k <= n
    <3>1. held \in SUBSET (0..last)
      BY <1>4
    <3>2. \E n \in held : \A k \in held : k <= n
      BY <1>4, <2>2, <3>1, GreatestUpTo
    <3>3. greatest \in held
      BY <3>2
    <3>4. KeyOf(held, transitions') = transitions'[greatest].to
          /\ KeyOf(held, transitions) = transitions[greatest].to
      BY <2>2 DEF KeyOf
    <3> HIDE DEF greatest
    <3> QED
      BY <1>4, <3>3, <3>4
  <2> QED
    BY <2>1, <2>2
<1>6. ASSUME index < t.size PROVE LeafKey(index, transitions') = LeafKey(index, transitions)
  <2> DEFINE held == {n \in DOMAIN transitions : index >= transitions[n].size}
             after == {n \in DOMAIN transitions' : index >= transitions'[n].size}
  <2>1. \A n \in 1..(last + 1) : n \in 1..last \/ n = last + 1
    BY <1>4
  <2>2. ~(index >= t.size)
    BY <1>3, <1>6
  <2>3. after = held
    BY <1>4, <2>1, <2>2
  <2>4. held \in SUBSET DOMAIN transitions
    OBVIOUS
  <2>5. LeafKey(index, transitions) = KeyOf(held, transitions)
        /\ LeafKey(index, transitions') = KeyOf(after, transitions')
    BY DEF LeafKey
  <2> HIDE DEF held, after
  <2> QED
    BY <1>5, <2>3, <2>4, <2>5
<1>7. ASSUME index <= t.size PROVE CheckpointKey(index, transitions') = CheckpointKey(index, transitions)
  <2> DEFINE held == {n \in DOMAIN transitions : index > transitions[n].size}
             after == {n \in DOMAIN transitions' : index > transitions'[n].size}
  <2>1. \A n \in 1..(last + 1) : n \in 1..last \/ n = last + 1
    BY <1>4
  <2>2. ~(index > t.size)
    BY <1>3, <1>7
  <2>3. after = held
    BY <1>4, <2>1, <2>2
  <2>4. held \in SUBSET DOMAIN transitions
    OBVIOUS
  <2>5. CheckpointKey(index, transitions) = KeyOf(held, transitions)
        /\ CheckpointKey(index, transitions') = KeyOf(after, transitions')
    BY DEF CheckpointKey
  <2> HIDE DEF held, after
  <2> QED
    BY <1>5, <2>3, <2>4, <2>5
<1> QED
  BY <1>6, <1>7
-----------------------------------------------------------------------------
(* The keys, the checkpoints and the witness agree with the file.          *)

\* While the transitions stay, so does what they imply.
LEMMA SameSchedule ==
    ASSUME UNCHANGED transitions
    PROVE  /\ Current' = Current /\ Boundary' = Boundary /\ Follows' = Follows
  BY DEF Current, Boundary, Follows

\* The root of lines that stay is the root.
LEMMA RootKept ==
    ASSUME FileTypes, FileTypes', \A i \in DOMAIN file : i \in DOMAIN file' /\ file'[i] = file[i],
           indexed <= indexed', NEW cp, cp.size \in Nat, IsOf(cp, file, indexed)
    PROVE  IsOf(cp, file', indexed')
<1> DEFINE n == cp.size
<1>1. /\ n \in Nat /\ n <= indexed /\ cp.root = RootOf(file, n)
      /\ indexed \in Nat /\ indexed' \in Nat /\ file \in Seq(Docs) /\ indexed <= Len(file)
  BY DEF IsOf, FileTypes
<1>2. \A i \in 1..n : file'[i] = file[i]
  BY <1>1
<1>3. RootOf(file', n) = RootOf(file, n)
  <2> HIDE DEF n
  <2>1. [i \in 1..n |-> TreeLeafHash(file'[i])] = [i \in 1..n |-> TreeLeafHash(file[i])]
    BY <1>2
  <2> QED
    BY <2>1 DEF RootOf
<1>4. n <= indexed'
  BY <1>1
<1> QED
  BY <1>1, <1>3, <1>4 DEF IsOf

\* The sizes of the checkpoints and of the cosignatures.
LEMMA SizesAre ==
    ASSUME ControlTypes
    PROVE  /\ \A n \in DOMAIN checkpoints : checkpoints[n] \in Checkpoints /\ checkpoints[n].size \in Nat
           /\ \A n \in DOMAIN cosigned : cosigned[n].size \in Nat
           /\ job.stage \in {"signing", "cosigning"} =>
                job.checkpoint \in Checkpoints /\ job.checkpoint.size \in Nat
<1>1. \A n \in DOMAIN checkpoints : checkpoints[n] \in Checkpoints
  BY DEF ControlTypes
<1>2. \A n \in DOMAIN cosigned : cosigned[n] \in [size : Nat, root : Roots]
  <2> DEFINE T == [size : Nat, root : Roots]
  <2>1. cosigned \in Seq(T)
    BY DEF ControlTypes
  <2> HIDE DEF T
  <2>2. \A n \in DOMAIN cosigned : cosigned[n] \in T
    BY <2>1
  <2> QED
    BY <2>2 DEF T
<1> QED
  BY <1>1, <1>2 DEF ControlTypes, Checkpoints

\* A step that changes neither the keys nor the checkpoints, and adds to the
\* file only receipts whose places were held past the index.
LEMMA QuietKeeps ==
    ASSUME ReceiptTypes, ReceiptTypes', ScheduleInv,
           UNCHANGED <<transitions, checkpoints, cosigned, lagged>>,
           \/ UNCHANGED <<job, rotating>> /\ (job.stage # "free" => open')
           \/ job' = Free /\ rotating' = FALSE,
           \A i \in DOMAIN file : i \in DOMAIN file' /\ file'[i] = file[i],
           indexed <= indexed',
           \A c \in Held' :
              \/ c \in Held /\ caller'[c].mode = caller[c].mode /\ caller'[c].key = caller[c].key
              \/ /\ caller'[c].key = IF caller'[c].mode = "issue" THEN Current ELSE Outside
                 /\ rotating => caller'[c].mode = "append",
           \A i \in DOMAIN file' : i \notin DOMAIN file =>
              i - 1 >= indexed /\ \E d \in Held : file'[i].key = caller[d].key
    PROVE  ScheduleInv'
<1>1. /\ indexed \in Nat /\ indexed' \in Nat /\ file \in Seq(Docs) /\ file' \in Seq(Docs)
      /\ indexed <= Len(file) /\ Boundary \in Int /\ job \in Jobs /\ job.size \in Int
      /\ DOMAIN file = 1..Len(file) /\ DOMAIN file' = 1..Len(file')
      /\ Len(file) \in Nat /\ Len(file') \in Nat
  BY CurrentIsAKey DEF ReceiptTypes, FileTypes, ControlTypes, Jobs
<1>2. /\ Current' = Current /\ Boundary' = Boundary /\ Follows' = Follows
  BY SameSchedule
<1>3. \/ UNCHANGED <<job, rotating>> /\ (job.stage # "free" => open')
      \/ job'.stage = "free" /\ rotating' = FALSE
  BY FreeTypes
<1>4. NoOutside' => NoOutside
  BY DEF NoOutside
<1>5. Clean' => Clean
  BY <1>4 DEF Clean
<1>6. \A d \in Held : caller[d].key = IF caller[d].mode = "issue" THEN Current ELSE Outside
  BY DEF ScheduleInv, KeysInForce
<1>7. Rotations'
  <2>1. PostDrain' => PostDrain /\ rotating /\ UNCHANGED job
    BY <1>3 DEF PostDrain
  <2>2. PostDrain' => /\ \A c \in Held' : caller'[c].mode = "append"
                      /\ Boundary' <= job'.size /\ job'.size <= indexed'
    BY <1>1, <1>2, <2>1 DEF ScheduleInv, Rotations
  <2>3. ASSUME PostDrain', ~lagged', NoOutside' PROVE Len(file') = job'.size
    <3>1. \A d \in Held : caller[d].key = Outside
      BY <1>6, <2>1, <2>3 DEF ScheduleInv, Rotations
    <3>2. \A i \in DOMAIN file' : i \in DOMAIN file
      BY <2>3, <3>1 DEF NoOutside
    <3>3. Len(file') = Len(file)
      <4> DEFINE m == Len(file)
                 n == Len(file')
      <4>1. m \in Nat /\ n \in Nat /\ (m # 0 => m \in 1..m) /\ (n # 0 => n \in 1..n)
        BY <1>1
      <4>2. (\A k \in 1..m : k \in 1..n) /\ (\A k \in 1..n : k \in 1..m)
        BY <1>1, <3>2
      <4> HIDE DEF m, n
      <4>3. (m # 0 => m \in 1..n) /\ (n # 0 => n \in 1..m)
        BY <4>1, <4>2
      <4>4. m <= n /\ n <= m
        BY <4>1, <4>3
      <4>5. m = n
        BY <4>1, <4>4
      <4> QED
        BY <4>5 DEF m, n
    <3>4. Len(file) = job.size
      BY <1>4, <2>1, <2>3 DEF ScheduleInv, Rotations
    <3> QED
      BY <2>1, <2>3, <3>3, <3>4
  <2>4. Boundary' <= indexed' /\ \A n \in DOMAIN transitions' : transitions'[n].size <= Boundary'
    BY <1>1, <1>2 DEF ScheduleInv, Rotations
  <2> QED
    BY <1>2, <1>3, <2>2, <2>3, <2>4 DEF ScheduleInv, Rotations
<1>8. KeysInForce'
  <2>1. \A c \in Held' : caller'[c].key = IF caller'[c].mode = "issue" THEN Current' ELSE Outside
    BY <1>2, <1>6
  <2>2. ASSUME Clean', NEW i \in DOMAIN file'
        PROVE  file'[i].key \in {LeafKey(i - 1, transitions'), Outside}
    <3>1. CASE i \in DOMAIN file
      <4>1. file[i].key \in {LeafKey(i - 1, transitions), Outside}
        BY <1>5, <2>2, <3>1 DEF ScheduleInv, KeysInForce
      <4> QED
        BY <3>1, <4>1
    <3>2. CASE i \notin DOMAIN file
      <4>1. i - 1 >= indexed /\ i - 1 \in Int /\ Boundary <= i - 1
        BY <1>1, <3>2 DEF ScheduleInv, Rotations
      <4>2. LeafKey(i - 1, transitions) = Current
        <5>1. ControlTypes /\ \A n \in DOMAIN transitions : transitions[n].size <= Boundary
          BY DEF ReceiptTypes, ScheduleInv, Rotations
        <5> QED
          BY <4>1, <5>1, CurrentIsInForce
      <4> QED
        BY <1>2, <1>6, <3>2, <4>2
    <3> QED
      BY <3>1, <3>2
  <2>3. Clean' => \A n \in DOMAIN checkpoints' :
                    checkpoints'[n].key = CheckpointKey(checkpoints'[n].size, transitions')
    BY <1>2, <1>5 DEF ScheduleInv, KeysInForce
  <2>4. job'.stage = "signing" => job'.checkpoint.key = Current' /\ job'.checkpoint.size > Boundary'
    BY <1>2, <1>3 DEF ScheduleInv, KeysInForce
  <2> QED
    BY <2>1, <2>2, <2>3, <2>4 DEF KeysInForce
<1>9. RootsOfTheFile'
  <2>1. \A cp : cp.size \in Nat /\ IsOf(cp, file, indexed) => IsOf(cp, file', indexed')
    BY RootKept DEF ReceiptTypes
  <2>2. ControlTypes
    BY DEF ReceiptTypes
  <2>3. \A n \in DOMAIN checkpoints' : IsOf(checkpoints'[n], file', indexed')
    BY <2>1, <2>2, SizesAre DEF ScheduleInv, RootsOfTheFile
  <2>4. \A n \in DOMAIN cosigned' : IsOf(cosigned'[n], file', indexed')
    BY <2>1, <2>2, SizesAre DEF ScheduleInv, RootsOfTheFile
  <2>5. job'.stage \in {"signing", "cosigning"} => IsOf(job'.checkpoint, file', indexed')
    BY <1>3, <2>1, <2>2, SizesAre DEF ScheduleInv, RootsOfTheFile
  <2>6. job'.stage \in {"signing", "cosigning"} /\ ~rotating' =>
          \A n \in DOMAIN cosigned' : cosigned'[n].size <= job'.checkpoint.size
    BY <1>3 DEF ScheduleInv, RootsOfTheFile
  <2> QED
    BY <2>3, <2>4, <2>5, <2>6 DEF RootsOfTheFile
<1> QED
  BY <1>7, <1>8, <1>9 DEF ScheduleInv
\* No step leaves the log ill-typed.
LEMMA TypesStep == ASSUME ReceiptTypes, [Next]_vars PROVE ReceiptTypes'
  BY FileTypesStep, ControlTypesStep DEF ReceiptTypes

\* Who still holds a place after some are taken back held it before.
LEMMA TakeBackHeld ==
    ASSUME NEW who \in [Callers -> Reservations], NEW at, NEW failed, TakeBack(who, at, failed)
    PROVE  \A c \in Held' : c \in Callers /\ who[c].place = "held" /\ caller'[c] = who[c]
<1>1. caller' = [c \in Callers |->
                   IF who[c].place = "held" /\ who[c].at >= at
                     THEN [who[c] EXCEPT !.place = IF c \in failed THEN "failed" ELSE "taken"]
                     ELSE who[c]]
  BY DEF TakeBack
<1>2. \A c \in Callers : who[c] \in Reservations
  OBVIOUS
<1>3. ASSUME NEW c \in Callers, caller'[c].place = "held"
      PROVE  who[c].place = "held" /\ caller'[c] = who[c]
  <2>1. CASE who[c].place = "held" /\ who[c].at >= at
    <3>1. caller'[c].place \in {"failed", "taken"}
      BY <1>1, <1>2, <2>1 DEF Reservations
    <3> QED
      BY <1>3, <3>1
  <2>2. CASE ~(who[c].place = "held" /\ who[c].at >= at)
    <3>1. caller'[c] = who[c]
      BY <1>1, <2>2
    <3> QED
      BY <1>3, <3>1
  <2> QED
    BY <2>1, <2>2
<1> QED
  BY <1>3 DEF Held

\* The lines a delivery adds are receipts whose places were held.
LEMMA GrowLines ==
    ASSUME FileTypes, NEW c \in Held, NEW n \in 0..Len(Batch(Signed \cup {c})),
           file' = file \o SubSeq(Batch(Signed \cup {c}), 1, n)
    PROVE  /\ \A i \in DOMAIN file : i \in DOMAIN file' /\ file'[i] = file[i]
           /\ \A i \in DOMAIN file' : i \notin DOMAIN file =>
                i - 1 >= indexed /\ \E d \in Held : file'[i].key = caller[d].key
<1> DEFINE ready == Signed \cup {c}
           batch == Batch(ready)
<1>1. ready \in SUBSET Callers /\ ready \subseteq Held /\ \A d \in ready : caller[d].pc # "idle"
  BY DEF Signed, Held, FileTypes, Callings
<1>2. /\ batch \in Seq(Docs)
      /\ \A k \in 1..Len(batch) : \E d \in ready : batch[k] = Doc(d)
  BY <1>1, BatchIs
<1> HIDE DEF batch, ready
<1>3. n \in 0..Len(batch) /\ file' = file \o SubSeq(batch, 1, n)
  BY DEF batch, ready
<1>4. /\ \A i \in DOMAIN file : i \in DOMAIN file' /\ file'[i] = file[i]
      /\ \A i \in DOMAIN file' : i \notin DOMAIN file =>
           i - Len(file) \in 1..n /\ file'[i] = batch[i - Len(file)]
      /\ file' \in Seq(Docs)
  BY <1>2, <1>3, GrowTypes
<1>5. indexed \in Nat /\ indexed <= Len(file) /\ Len(file) \in Nat /\ Len(batch) \in Nat
  BY <1>2 DEF FileTypes
<1>6. ASSUME NEW i \in DOMAIN file', i \notin DOMAIN file
      PROVE  i - 1 >= indexed /\ \E d \in Held : file'[i].key = caller[d].key
  <2> DEFINE k == i - Len(file)
  <2>1. k \in 1..n /\ file'[i] = batch[k] /\ i \in Int
    <3>1. file' \in Seq(Docs) /\ i \in DOMAIN file'
      BY <1>4
    <3>2. i \in Int
      BY <3>1
    <3> QED
      BY <1>4, <1>6, <3>2
  <2>2. i - 1 >= indexed /\ k \in 1..Len(batch)
    <3>1. n \in Nat /\ n <= Len(batch)
      BY <1>3, <1>5
    <3>2. i >= Len(file) + 1
      BY <1>5, <2>1, <3>1
    <3>3. k \in 1..Len(batch)
      <4> HIDE DEF k
      <4> QED
        BY <1>5, <2>1, <3>1
    <3> QED
      BY <1>5, <2>1, <3>2, <3>3
  <2> HIDE DEF k
  <2>3. PICK d \in ready : batch[k] = Doc(d)
    BY <1>2, <2>2
  <2> QED
    BY <1>1, <2>1, <2>2, <2>3 DEF Doc
<1> QED
  BY <1>4, <1>6

\* Steps of the callers that write no line keep the schedule.
LEMMA FileKeeps ==
    ASSUME ReceiptTypes, ReceiptTypes', ScheduleInv,
           UNCHANGED <<file, indexed, transitions, checkpoints, cosigned, lagged>>,
           \/ UNCHANGED <<job, rotating>> /\ (job.stage # "free" => open')
           \/ job' = Free /\ rotating' = FALSE,
           \A c \in Held' :
              \/ c \in Held /\ caller'[c].mode = caller[c].mode /\ caller'[c].key = caller[c].key
              \/ /\ caller'[c].key = IF caller'[c].mode = "issue" THEN Current ELSE Outside
                 /\ rotating => caller'[c].mode = "append"
    PROVE  ScheduleInv'
<1>1. indexed <= indexed' /\ \A i \in DOMAIN file : i \in DOMAIN file' /\ file'[i] = file[i]
  BY DEF ReceiptTypes, FileTypes
<1>2. \A i \in DOMAIN file' : i \notin DOMAIN file =>
        i - 1 >= indexed /\ \E d \in Held : file'[i].key = caller[d].key
  OBVIOUS
<1> QED
  BY <1>1, <1>2, QuietKeeps

\* A receipt is signed with the key in force (issue), or by its bearer (append).
LEMMA HoldSchedule ==
    ASSUME ReceiptTypes, ReceiptTypes', ScheduleInv, NEW c \in Callers, NEW mode, NEW id, NEW of, NEW key,
           Hold(c, mode, id, of, key),
           key = IF mode = "issue" THEN Current ELSE Outside, rotating => mode = "append"
    PROVE  ScheduleInv'
<1> DEFINE r == [pc |-> "signing", mode |-> mode, id |-> id, of |-> of,
                 at |-> next, key |-> key, place |-> "held"]
<1>1. caller' = [caller EXCEPT ![c] = r] /\ r.mode = mode /\ r.key = key
  BY DEF Hold
<1>2. UNCHANGED <<file, indexed, transitions, checkpoints, cosigned, lagged, job, rotating, open>>
  BY DEF Hold, files, control, history
<1> HIDE DEF r
<1>3. caller'[c] = r /\ \A d \in Callers \ {c} : caller'[d] = caller[d]
  BY <1>1 DEF ReceiptTypes, FileTypes, Callings
<1>4. \A d \in Held' :
        \/ d \in Held /\ caller'[d].mode = caller[d].mode /\ caller'[d].key = caller[d].key
        \/ /\ caller'[d].key = IF caller'[d].mode = "issue" THEN Current ELSE Outside
           /\ rotating => caller'[d].mode = "append"
  BY <1>1, <1>3 DEF Held
<1>5. job.stage # "free" => open'
  BY <1>2 DEF ScheduleInv, Rotations
<1> QED
  BY <1>2, <1>4, <1>5, FileKeeps

\* Each line of a batch was signed with the key for its place (_drain).
LEMMA DeliverSchedule ==
    ASSUME ReceiptTypes, ReceiptTypes', PositionsInv, ScheduleInv, NEW c \in Callers, Deliver(c)
    PROVE  ScheduleInv'
<1> DEFINE ready == Signed \cup {c}
           batch == Batch(ready)
           top == indexed + Len(batch)
           waiting == [caller EXCEPT ![c].pc = "waiting"]
           settled == [d \in Callers |-> IF d \in ready /\ caller[d].at < top
                                           THEN [waiting[d] EXCEPT !.place = "appended"]
                                           ELSE waiting[d]]
<1>0. /\ FileTypes /\ \A d \in Callers : caller[d] \in Reservations
      /\ caller \in [Callers -> Reservations]
  BY DEF ReceiptTypes, FileTypes, Callings
<1>1. UNCHANGED <<open, checkpoints, transitions, cosigned, rotating, job, lagged>>
  BY DEF Deliver, files, history
<1>2. job.stage # "free" => open'
  BY <1>1 DEF ScheduleInv, Rotations
<1>3. /\ waiting \in [Callers -> Reservations]
      /\ \A d \in Callers : /\ waiting[d].mode = caller[d].mode /\ waiting[d].key = caller[d].key
                            /\ waiting[d].place = caller[d].place
  BY <1>0 DEF Reservations
<1> HIDE DEF waiting
<1>4. /\ settled \in [Callers -> Reservations]
      /\ \A d \in Callers : settled[d].place = "held" =>
            /\ settled[d].mode = caller[d].mode /\ settled[d].key = caller[d].key
            /\ caller[d].place = "held"
  <2>1. \A d \in Callers : /\ settled[d] \in Reservations
                           /\ settled[d].place = "held" => settled[d] = waiting[d]
    BY <1>3 DEF Reservations
  <2>2. settled = [d \in Callers |-> settled[d]]
    OBVIOUS
  <2> HIDE DEF settled
  <2> QED
    BY <1>3, <2>1, <2>2
<1> HIDE DEF settled
<1>5. ASSUME NEW who \in [Callers -> Reservations],
             \A d \in Callers : who[d].place = "held" =>
                /\ who[d].mode = caller[d].mode /\ who[d].key = caller[d].key
                /\ caller[d].place = "held",
             caller' = who \/ \E at, failed : TakeBack(who, at, failed)
      PROVE  \A d \in Held' : d \in Held /\ caller'[d].mode = caller[d].mode
                              /\ caller'[d].key = caller[d].key
  <2>1. CASE caller' = who
    BY <1>5, <2>1 DEF Held
  <2>2. CASE \E at, failed : TakeBack(who, at, failed)
    <3>1. \A d \in Held' : d \in Callers /\ who[d].place = "held" /\ caller'[d] = who[d]
      BY <2>2, TakeBackHeld
    <3> QED
      BY <1>5, <3>1 DEF Held
  <2> QED
    BY <1>5, <2>1, <2>2
<1>6. CASE /\ caller' = waiting \/ \E at, failed : TakeBack(waiting, at, failed)
           /\ UNCHANGED <<file, indexed>>
  BY <1>1, <1>2, <1>3, <1>5, <1>6, FileKeeps
<1>7. CASE /\ Extend(batch) /\ caller[c].place = "held"
           /\ caller' = settled \/ \E at, failed : TakeBack(settled, at, failed)
  <2>1. \A d \in Held' : d \in Held /\ caller'[d].mode = caller[d].mode
                         /\ caller'[d].key = caller[d].key
    BY <1>4, <1>5, <1>7
  <2>2. c \in Held /\ batch \in Seq(Docs)
    <3>1. c \in Held
      BY <1>7 DEF Held
    <3>2. ready \in SUBSET Callers /\ \A d \in ready : caller[d].pc # "idle"
      BY <1>0, <3>1 DEF Signed, Held, FileTypes, Callings
    <3> QED
      BY <1>0, <3>1, <3>2, BatchIs
  <2> HIDE DEF batch
  <2>3. file' = file \o SubSeq(batch, 1, Len(batch)) /\ Len(batch) \in 0..Len(batch)
        /\ indexed <= indexed'
    <3>1. file' = file \o batch /\ indexed' \in {indexed, indexed + Len(batch)} /\ Len(batch) \in Nat
          /\ indexed \in Nat
      BY <1>0, <1>7, <2>2 DEF Extend, FileTypes
    <3> QED
      BY <2>2, <3>1
  <2>4. /\ \A i \in DOMAIN file : i \in DOMAIN file' /\ file'[i] = file[i]
        /\ \A i \in DOMAIN file' : i \notin DOMAIN file =>
             i - 1 >= indexed /\ \E d \in Held : file'[i].key = caller[d].key
    BY <1>0, <2>2, <2>3, GrowLines DEF batch, ready
  <2> QED
    BY <1>1, <1>2, <2>1, <2>3, <2>4, QuietKeeps
<1>8. ASSUME caller[c].place # "held" PROVE ScheduleInv'
  <2>1. caller' = waiting /\ UNCHANGED <<file, indexed>>
    BY <1>8 DEF Deliver, waiting, files
  <2> QED
    BY <1>6, <2>1
<1>9. ASSUME caller[c].place = "held" PROVE ScheduleInv'
  <2>1. \/ /\ Extend(batch)
           /\ \/ caller' = settled
              \/ \E at, failed : TakeBack(settled, at, failed)
        \/ /\ \E at, failed : TakeBack(waiting, at, failed)
           /\ UNCHANGED files
    BY <1>9 DEF Deliver, waiting, settled, top, ready, batch
  <2>2. CASE Extend(batch) /\ (caller' = settled \/ \E at, failed : TakeBack(settled, at, failed))
    BY <1>7, <1>9, <2>2
  <2>3. CASE (\E at, failed : TakeBack(waiting, at, failed)) /\ UNCHANGED files
    BY <1>6, <2>3 DEF files
  <2> QED
    BY <2>1, <2>2, <2>3
<1> QED
  BY <1>8, <1>9
\* Who holds a place depends on the callers alone.
LEMMA HeldStays ==
    ASSUME UNCHANGED caller PROVE Held' = Held
  BY DEF Held

\* A checkpoint of what the index holds.
LEMMA ReadRoots ==
    ASSUME ReceiptTypes, ScheduleInv
    PROVE  /\ TreeRoot(Leaves(indexed), indexed) = RootOf(file, indexed)
           /\ indexed <= Boundary =>
                checkpoints # <<>> /\ IsOf(Latest, file, indexed) /\ Latest \in Checkpoints
<1>1. TreeRoot(Leaves(indexed), indexed) = RootOf(file, indexed)
  BY DEF Leaves, RootOf
<1>2. ASSUME indexed <= Boundary PROVE checkpoints # <<>>
  <2>1. transitions # <<>>
    <3>1. indexed \in Nat
      BY DEF ReceiptTypes, FileTypes
    <3> QED
      BY <1>2, <3>1 DEF Boundary
  <2> QED
    BY <2>1 DEF ScheduleInv, Rotations
<1>3. ASSUME checkpoints # <<>> PROVE IsOf(Latest, file, indexed)
  <2>1. checkpoints \in Seq(Checkpoints)
    BY DEF ReceiptTypes, ControlTypes
  <2>2. Len(checkpoints) \in DOMAIN checkpoints
    BY <1>3, <2>1
  <2>3. Latest = checkpoints[Len(checkpoints)]
    BY <1>3 DEF Latest, Last
  <2> QED
    BY <2>2, <2>3 DEF ScheduleInv, RootsOfTheFile
<1> QED
  BY <1>1, <1>2, <1>3, LatestTypes DEF ReceiptTypes

\* The publish lock begins to sign a checkpoint, or has one to go on with.
LEMMA ReadSchedule ==
    ASSUME ReceiptTypes, ReceiptTypes', ScheduleInv, NEW goal \in {"cosigning", "handing"}, Read(goal),
           UNCHANGED <<file, indexed, transitions, checkpoints, cosigned, lagged, caller, open>>,
           open, goal = "cosigning" => ~rotating /\ rotating' = rotating,
           goal = "handing" => PostDrain /\ rotating' = (job'.stage # "free")
    PROVE  ScheduleInv'
<1>1. CASE job' = Free
  <2>1. rotating' = FALSE
    <3>1. rotating \in BOOLEAN /\ ~(job'.stage # "free")
      BY <1>1, FreeTypes DEF ReceiptTypes, ControlTypes
    <3>2. CASE goal = "cosigning"
      BY <3>1, <3>2
    <3>3. CASE goal = "handing"
      BY <3>1, <3>3
    <3> QED
      BY <3>2, <3>3
  <2>2. \A c \in Held' : c \in Held /\ caller'[c].mode = caller[c].mode /\ caller'[c].key = caller[c].key
    BY HeldStays
  <2> QED
    BY <1>1, <2>1, <2>2, FileKeeps
<1>2. CASE /\ job' \in Jobs /\ job'.stage \in {"signing", goal} /\ job'.size = job.size
           /\ job'.checkpoint.size = indexed /\ IsOf(job'.checkpoint, file, indexed)
           /\ job'.stage = "signing" =>
                job'.checkpoint.key = Current /\ job'.checkpoint.size > Boundary
           /\ job'.stage = "handing" => checkpoints # <<>>
  <2>1. Held' = Held /\ Current' = Current /\ Boundary' = Boundary /\ Follows' = Follows
    BY HeldStays, SameSchedule
  <2>2. (goal = "cosigning" => rotating' = FALSE) /\ (goal = "handing" => rotating' = TRUE)
        /\ job'.stage # "free" /\ (rotating' => goal = "handing")
    BY <1>2 DEF ReceiptTypes, ControlTypes
  <2>3. PostDrain' => PostDrain
    BY <2>2 DEF PostDrain
  <2>4. (Clean' <=> Clean) /\ (NoOutside' <=> NoOutside)
    BY DEF Clean, NoOutside
  <2>5. Rotations'
    <3>1. PostDrain' => /\ Boundary' <= job'.size /\ job'.size <= indexed'
                        /\ \A c \in Held' : caller'[c].mode = "append"
                        /\ lagged' \/ Len(file') = job'.size \/ ~NoOutside'
      BY <1>2, <2>1, <2>3, <2>4 DEF ScheduleInv, Rotations
    <3>2. /\ job'.stage \in {"free", "cosigning"} => ~rotating'
          /\ job'.stage \in {"draining", "sealing", "handing"} => rotating'
          /\ job'.stage # "free" => open'
      BY <1>2, <2>2
    <3> QED
      BY <1>2, <2>1, <3>1, <3>2 DEF ScheduleInv, Rotations
  <2>6. KeysInForce'
    BY <1>2, <2>1, <2>4 DEF ScheduleInv, KeysInForce
  <2>7. RootsOfTheFile'
    <3>1. \A n \in DOMAIN cosigned : cosigned[n].size <= indexed
      BY DEF ScheduleInv, RootsOfTheFile, IsOf
    <3> QED
      BY <1>2, <3>1 DEF ScheduleInv, RootsOfTheFile
  <2> QED
    BY <2>5, <2>6, <2>7 DEF ScheduleInv
<1>3. \/ job' = Free
      \/ /\ job' \in Jobs /\ job'.stage \in {"signing", goal} /\ job'.size = job.size
         /\ job'.checkpoint.size = indexed /\ IsOf(job'.checkpoint, file, indexed)
         /\ job'.stage = "signing" =>
              job'.checkpoint.key = Current /\ job'.checkpoint.size > Boundary
         /\ job'.stage = "handing" => checkpoints # <<>>
  <2>1. CASE job' = Free
    BY <2>1
  <2>2. CASE /\ indexed <= Boundary /\ Latest.size = indexed
             /\ job' \in Jobs /\ job'.stage = goal /\ job'.checkpoint = Latest
             /\ job'.to = job.to /\ job'.size = job.size /\ Latest \in Checkpoints
    BY <2>2, ReadRoots
  <2>3. CASE /\ indexed > Boundary
             /\ job' \in Jobs /\ job'.stage = "signing" /\ job'.to = job.to /\ job'.size = job.size
             /\ job'.checkpoint \in Checkpoints /\ job'.checkpoint.key = Current
             /\ job'.checkpoint.size = indexed
             /\ job'.checkpoint.root = TreeRoot(Leaves(indexed), indexed)
    <3>1. IsOf(job'.checkpoint, file, indexed)
      <4>1. indexed \in Nat
        BY DEF ReceiptTypes, FileTypes
      <4> QED
        BY <2>3, <4>1, ReadRoots DEF IsOf
    <3> QED
      BY <2>3, <3>1
  <2> QED
    BY <2>1, <2>2, <2>3, ReadIs
<1> QED
  BY <1>1, <1>2, <1>3

\* A checkpoint is signed by the key in force before its size (checkpoint).
LEMMA SignSchedule ==
    ASSUME ReceiptTypes, ReceiptTypes', ScheduleInv, SignCheckpoint
    PROVE  ScheduleInv'
<1> DEFINE cp == job.checkpoint
           last == Len(checkpoints)
<1>1. /\ UNCHANGED <<file, indexed, transitions, cosigned, lagged, caller, open, rotating>>
      /\ job.stage = "signing" /\ checkpoints' = Append(checkpoints, cp)
      /\ job' = [job EXCEPT !.stage = IF rotating THEN "handing" ELSE "cosigning"]
  BY DEF SignCheckpoint, history
<1>2. job \in Jobs /\ cp \in Checkpoints /\ checkpoints \in Seq(Checkpoints) /\ rotating \in BOOLEAN
  BY <1>1 DEF ReceiptTypes, ControlTypes
<1>3. /\ job'.stage = (IF rotating THEN "handing" ELSE "cosigning") /\ job'.size = job.size
      /\ job'.checkpoint = cp
  BY <1>1, <1>2 DEF Jobs
<1>4. cp.key = Current /\ cp.size > Boundary /\ IsOf(cp, file, indexed) /\ cp.size \in Nat
  BY <1>1, <1>2 DEF ScheduleInv, KeysInForce, RootsOfTheFile, Checkpoints
<1> HIDE DEF cp
<1>5. /\ last \in Nat /\ DOMAIN checkpoints = 1..last /\ DOMAIN checkpoints' = 1..(last + 1)
      /\ checkpoints'[last + 1] = cp /\ \A n \in 1..last : checkpoints'[n] = checkpoints[n]
      /\ checkpoints' # <<>>
  BY <1>1, <1>2
<1>6. \A n \in DOMAIN checkpoints' : n \in DOMAIN checkpoints \/ n = last + 1
  BY <1>5
<1>7. Held' = Held /\ Current' = Current /\ Boundary' = Boundary /\ Follows' = Follows
  BY <1>1, HeldStays, SameSchedule
<1>8. (Clean' <=> Clean) /\ (NoOutside' <=> NoOutside) /\ (PostDrain' => PostDrain)
  BY <1>1, <1>3 DEF Clean, NoOutside, PostDrain
<1>9. Rotations'
  BY <1>1, <1>3, <1>5, <1>7, <1>8 DEF ScheduleInv, Rotations
<1>10. KeysInForce'
  <2>1. CheckpointKey(cp.size, transitions) = Current
    <3>1. ControlTypes /\ \A n \in DOMAIN transitions : transitions[n].size <= Boundary
      BY DEF ReceiptTypes, ScheduleInv, Rotations
    <3> QED
      BY <1>4, <3>1, CurrentIsInForce
  <2>2. Clean' => \A n \in DOMAIN checkpoints' :
                    checkpoints'[n].key = CheckpointKey(checkpoints'[n].size, transitions')
    BY <1>1, <1>4, <1>5, <1>6, <1>8, <2>1 DEF ScheduleInv, KeysInForce
  <2> QED
    BY <1>1, <1>3, <1>7, <1>8, <2>2 DEF ScheduleInv, KeysInForce
<1>11. RootsOfTheFile'
  <2>1. \A n \in DOMAIN checkpoints' : IsOf(checkpoints'[n], file', indexed')
    BY <1>1, <1>4, <1>5, <1>6 DEF ScheduleInv, RootsOfTheFile
  <2> QED
    BY <1>1, <1>3, <1>4, <2>1 DEF ScheduleInv, RootsOfTheFile, cp
<1> QED
  BY <1>9, <1>10, <1>11 DEF ScheduleInv

\* What is cosigned is the checkpoint that was signed (cosign).
LEMMA CosignSchedule ==
    ASSUME ReceiptTypes, ReceiptTypes', ScheduleInv, Cosign
    PROVE  ScheduleInv'
<1> DEFINE cp == job.checkpoint
           new == [size |-> cp.size, root |-> cp.root]
           last == Len(cosigned)
           T == [size : Nat, root : Roots]
<1>1. /\ UNCHANGED <<file, indexed, transitions, checkpoints, lagged, caller, open, rotating>>
      /\ job.stage = "cosigning" /\ job' = Free
      /\ cosigned' = cosigned \/ cosigned' = Append(cosigned, new)
  BY DEF Cosign
<1>2. cp \in Checkpoints /\ cosigned \in Seq(T)
  BY <1>1 DEF ReceiptTypes, ControlTypes
<1>3. new \in T /\ IsOf(cp, file, indexed) /\ new.size = cp.size /\ new.root = cp.root
  BY <1>1, <1>2 DEF ScheduleInv, RootsOfTheFile, Checkpoints
<1>4. IsOf(new, file, indexed)
  BY <1>3 DEF IsOf
<1>5. ~rotating
  BY <1>1 DEF ScheduleInv, Rotations
<1> HIDE DEF new, T, cp
<1>6. /\ Held' = Held /\ Current' = Current /\ Boundary' = Boundary /\ Follows' = Follows
      /\ (Clean' <=> Clean) /\ job'.stage = "free" /\ rotating' = FALSE
  BY <1>1, <1>5, HeldStays, SameSchedule, FreeTypes DEF Clean, NoOutside, ReceiptTypes, ControlTypes
<1>7. Rotations'
  BY <1>1, <1>6 DEF ScheduleInv, Rotations, PostDrain
<1>8. KeysInForce'
  BY <1>1, <1>6 DEF ScheduleInv, KeysInForce
<1>9. RootsOfTheFile'
  <2>1. \A n \in DOMAIN cosigned' : IsOf(cosigned'[n], file', indexed')
    <3>1. CASE cosigned' = cosigned
      BY <1>1, <3>1 DEF ScheduleInv, RootsOfTheFile
    <3>2. CASE cosigned' = Append(cosigned, new)
      <4>1. /\ last \in Nat /\ DOMAIN cosigned = 1..last /\ DOMAIN cosigned' = 1..(last + 1)
            /\ cosigned'[last + 1] = new /\ \A n \in 1..last : cosigned'[n] = cosigned[n]
        BY <1>2, <1>3, <3>2
      <4>2. \A n \in DOMAIN cosigned' : n \in DOMAIN cosigned \/ n = last + 1
        BY <4>1
      <4> QED
        BY <1>1, <1>4, <4>1, <4>2 DEF ScheduleInv, RootsOfTheFile
    <3> QED
      BY <1>1, <3>1, <3>2
  <2> QED
    BY <1>1, <1>6, <2>1 DEF ScheduleInv, RootsOfTheFile
<1> QED
  BY <1>7, <1>8, <1>9 DEF ScheduleInv
\* A rotation settles its boundary when no issue is in flight (rotate).
LEMMA DrainedSchedule ==
    ASSUME ReceiptTypes, ReceiptTypes', PositionsInv, ScheduleInv, Drained
    PROVE  ScheduleInv'
<1>1. /\ UNCHANGED <<file, indexed, transitions, checkpoints, cosigned, caller, open, rotating>>
      /\ job.stage = "draining" /\ Held = {} /\ lagged' = (lagged \/ broken)
      /\ job' = [job EXCEPT !.size = indexed,
                   !.stage = IF checkpoints # <<>> /\ Latest.size = indexed THEN "handing" ELSE "sealing"]
  BY DEF Drained, files
<1>2. job \in Jobs /\ indexed \in Nat /\ rotating /\ open
  BY <1>1 DEF ReceiptTypes, ControlTypes, FileTypes, ScheduleInv, Rotations
<1>3. /\ job'.stage \in {"handing", "sealing"} /\ job'.size = indexed
      /\ job'.stage = "handing" => checkpoints # <<>>
  BY <1>1, <1>2 DEF Jobs
<1>4. Held' = {} /\ Current' = Current /\ Boundary' = Boundary /\ Follows' = Follows
  BY <1>1, HeldStays, SameSchedule
<1>5. (Clean' => Clean) /\ (NoOutside' <=> NoOutside)
  BY <1>1 DEF Clean, NoOutside
<1>6. lagged' \/ Len(file') = indexed
  BY <1>1, <1>2 DEF PositionsInv, IndexIsWhole
<1>7. Rotations'
  BY <1>1, <1>2, <1>3, <1>4, <1>6 DEF ScheduleInv, Rotations
<1>8. KeysInForce'
  BY <1>1, <1>3, <1>4, <1>5 DEF ScheduleInv, KeysInForce
<1>9. RootsOfTheFile'
  BY <1>1, <1>3 DEF ScheduleInv, RootsOfTheFile
<1> QED
  BY <1>7, <1>8, <1>9 DEF ScheduleInv

\* The size signed over is that of the whole file: what came before it keeps
\* its keys, and nothing has come after it.
LEMMA HandOverSchedule ==
    ASSUME ReceiptTypes, ReceiptTypes', ScheduleInv, HandOver
    PROVE  ScheduleInv'
<1> DEFINE T == [size : Nat, from : Keys, to : Keys]
           t == Transition(job.size, Current, job.to)
           last == Len(transitions)
<1>1. /\ UNCHANGED <<file, indexed, checkpoints, cosigned, caller, open, lagged>>
      /\ job.stage = "handing" /\ transitions' = Append(transitions, t)
      /\ job' = Free /\ rotating' = FALSE
  BY DEF HandOver, history
<1>2. job \in Jobs /\ indexed \in Nat /\ transitions \in Seq(T) /\ Current \in Keys /\ Boundary \in Int
      /\ file \in Seq(Docs) /\ indexed <= Len(file)
  BY CurrentIsAKey DEF ReceiptTypes, ControlTypes, FileTypes
<1>3. t \in T /\ t.size = job.size /\ t.from = Current /\ t.to = job.to /\ job.size \in Nat
  BY <1>2 DEF Transition, Jobs
<1>4. /\ last \in Nat /\ DOMAIN transitions = 1..last /\ DOMAIN transitions' = 1..(last + 1)
      /\ transitions'[last + 1] = t /\ \A n \in 1..last : transitions'[n] = transitions[n]
      /\ transitions' # <<>> /\ Len(transitions') = last + 1
      /\ transitions = <<>> <=> last = 0
  <2> HIDE DEF T, t
  <2> QED
    BY <1>1, <1>2, <1>3
<1>5. \A n \in DOMAIN transitions' : n \in 1..last \/ n = last + 1
  BY <1>4
<1>6. Boundary' = job.size /\ PostDrain
  BY <1>1, <1>3, <1>4 DEF Boundary, Last, PostDrain, ScheduleInv, Rotations
<1> HIDE DEF t, T
<1>7. /\ Boundary <= job.size /\ job.size <= indexed /\ checkpoints # <<>>
      /\ \A c \in Held : caller[c].mode = "append"
      /\ lagged \/ Len(file) = job.size \/ ~NoOutside
      /\ \A n \in DOMAIN transitions : transitions[n].size <= Boundary
      /\ Follows
  BY <1>1, <1>6 DEF ScheduleInv, Rotations
<1>8. Held' = Held /\ job'.stage = "free"
  BY <1>1, HeldStays, FreeTypes
<1>9. \A n \in DOMAIN transitions' : transitions'[n].size <= Boundary'
  <2>1. \A n \in 1..last : transitions[n].size \in Int
    <3>1. \A n \in 1..last : transitions[n] \in T
      BY <1>2, <1>4
    <3> QED
      BY <3>1 DEF T
  <2> QED
    BY <1>2, <1>3, <1>4, <1>5, <1>6, <1>7, <2>1
<1>10. Follows'
  <2>1. ASSUME NEW n \in 1..last
        PROVE  /\ transitions'[n].from = IF n = 1 THEN FirstKey ELSE transitions'[n - 1].to
               /\ n > 1 => transitions'[n].size >= transitions'[n - 1].size
    <3>1. n > 1 => n - 1 \in 1..last
      BY <1>4
    <3> QED
      BY <1>4, <1>7, <3>1 DEF Follows
  <2>2. /\ t.from = IF last + 1 = 1 THEN FirstKey ELSE transitions'[last].to
        /\ last + 1 > 1 => t.size >= transitions'[last].size
    <3>1. CASE last = 0
      BY <1>3, <1>4, <3>1 DEF Current
    <3>2. CASE last # 0
      <4>1. last \in 1..last /\ Current = transitions[last].to /\ Boundary = transitions[last].size
        BY <1>4, <3>2 DEF Current, Boundary, Last
      <4> QED
        BY <1>2, <1>3, <1>4, <1>7, <3>2, <4>1
    <3> QED
      BY <3>1, <3>2
  <2>3. last + 1 - 1 = last
    BY <1>4
  <2> QED
    BY <1>4, <1>5, <2>1, <2>2, <2>3 DEF Follows
<1>11. Rotations'
  BY <1>1, <1>4, <1>6, <1>7, <1>8, <1>9, <1>10 DEF Rotations, PostDrain
<1>12. ASSUME Clean' PROVE Clean /\ Len(file) = job.size
  <2>1. ~lagged /\ NoOutside
    BY <1>1, <1>4, <1>12 DEF Clean, NoOutside
  <2> QED
    BY <1>7, <2>1 DEF Clean
<1>13. KeysInForce'
  <2>1. ControlTypes /\ t \in [size : Nat, from : Keys, to : Keys]
    BY <1>3 DEF ReceiptTypes, T
  <2>2. ASSUME Clean', NEW i \in DOMAIN file'
        PROVE  file'[i].key \in {LeafKey(i - 1, transitions'), Outside}
    <3>1. i - 1 \in Int /\ i - 1 < t.size
      BY <1>1, <1>2, <1>3, <1>12, <2>2
    <3>2. LeafKey(i - 1, transitions') = LeafKey(i - 1, transitions)
      BY <1>1, <2>1, <3>1, PastIsKept
    <3> QED
      BY <1>1, <1>12, <2>2, <3>2 DEF ScheduleInv, KeysInForce
  <2>3. ASSUME Clean', NEW n \in DOMAIN checkpoints'
        PROVE  checkpoints'[n].key = CheckpointKey(checkpoints'[n].size, transitions')
    <3> DEFINE size == checkpoints[n].size
    <3>1. IsOf(checkpoints[n], file, indexed) /\ size \in Int
      BY <1>1, <2>1, <2>3, SizesAre DEF ScheduleInv, RootsOfTheFile
    <3>2. size <= t.size
      BY <1>2, <1>3, <1>12, <2>3, <3>1 DEF IsOf
    <3>3. CheckpointKey(size, transitions') = CheckpointKey(size, transitions)
      BY <1>1, <2>1, <3>1, <3>2, PastIsKept
    <3> QED
      BY <1>1, <1>12, <2>3, <3>3 DEF ScheduleInv, KeysInForce
  <2>4. \A c \in Held' : caller'[c].key = IF caller'[c].mode = "issue" THEN Current' ELSE Outside
    BY <1>1, <1>7, <1>8 DEF ScheduleInv, KeysInForce
  <2> QED
    BY <1>8, <2>2, <2>3, <2>4 DEF KeysInForce
<1>14. RootsOfTheFile'
  BY <1>1, <1>8 DEF ScheduleInv, RootsOfTheFile
<1> QED
  BY <1>11, <1>13, <1>14 DEF ScheduleInv

\* A crash ends the job; what it wrote whole stays.
LEMMA CrashSchedule ==
    ASSUME ReceiptTypes, ReceiptTypes', ScheduleInv, Crash
    PROVE  ScheduleInv'
<1>1. /\ UNCHANGED <<indexed, transitions, checkpoints, cosigned, lagged>>
      /\ job' = Free /\ rotating' = FALSE
      /\ caller' = [c \in Callers |-> Idle]
  BY DEF Crash, history
<1>2. Held' = {}
  BY <1>1, IdleTypes DEF Held
<1>3. /\ \A i \in DOMAIN file : i \in DOMAIN file' /\ file'[i] = file[i]
      /\ \A i \in DOMAIN file' : i \notin DOMAIN file =>
           i - 1 >= indexed /\ \E d \in Held : file'[i].key = caller[d].key
  <2>1. CASE UNCHANGED file
    BY <2>1
  <2>2. ASSUME NEW c \in Callers, caller[c].place = "held",
               NEW n \in 1..Len(Batch(Signed \cup {c})),
               file' = file \o SubSeq(Batch(Signed \cup {c}), 1, n)
        PROVE  /\ \A i \in DOMAIN file : i \in DOMAIN file' /\ file'[i] = file[i]
               /\ \A i \in DOMAIN file' : i \notin DOMAIN file =>
                    i - 1 >= indexed /\ \E d \in Held : file'[i].key = caller[d].key
    <3>1. c \in Held /\ FileTypes
      BY <2>2 DEF Held, ReceiptTypes
    <3>2. n \in 0..Len(Batch(Signed \cup {c}))
      OBVIOUS
    <3> QED
      BY <2>2, <3>1, <3>2, GrowLines
  <2> QED
    BY <2>1, <2>2 DEF Crash
<1>4. indexed <= indexed'
  BY <1>1 DEF ReceiptTypes, FileTypes
<1> QED
  BY <1>1, <1>2, <1>3, <1>4, QuietKeeps

\* No step breaks the order of the keys, or a root that was signed.
LEMMA ScheduleStep ==
    ASSUME ReceiptTypes, PositionsInv, ScheduleInv, [Next]_vars
    PROVE  ScheduleInv'
<1>0. ReceiptTypes'
  BY TypesStep
<1>00. job.stage # "free" => open
  BY DEF ScheduleInv, Rotations
<1>1. CASE /\ UNCHANGED <<file, indexed, caller, transitions, checkpoints, cosigned, lagged>>
           /\ \/ UNCHANGED <<job, rotating>> /\ (job.stage # "free" => open')
              \/ job' = Free /\ rotating' = FALSE
  <2>1. \A c \in Held' : c \in Held /\ caller'[c].mode = caller[c].mode /\ caller'[c].key = caller[c].key
    BY <1>1, HeldStays
  <2> QED
    BY <1>0, <1>1, <2>1, FileKeeps
<1>2. ASSUME NEW c \in Callers, Reserve(c) PROVE ScheduleInv'
  <2>1. PICK d \in Drafts : Hold(c, "issue", d.id, d.of, Current)
    BY <1>2 DEF Reserve
  <2>2. ~rotating
    BY <1>2 DEF Reserve
  <2> QED
    BY <1>0, <2>1, <2>2, HoldSchedule
<1>3. ASSUME NEW c \in Callers, AppendSigned(c) PROVE ScheduleInv'
  <2>1. PICK d \in Drafts : Hold(c, "append", d.id, d.of, Outside)
    BY <1>3 DEF AppendSigned
  <2> QED
    BY <1>0, <2>1, HoldSchedule
<1>4. ASSUME NEW c \in Callers, NEW r, r.place # "held" \/ (c \in Held /\ r.mode = caller[c].mode /\ r.key = caller[c].key),
             caller' = [caller EXCEPT ![c] = r],
             UNCHANGED <<file, indexed, transitions, checkpoints, cosigned, lagged, job, rotating, open>>
      PROVE  ScheduleInv'
  <2>1. caller'[c] = r /\ \A d \in Callers \ {c} : caller'[d] = caller[d]
    BY <1>4 DEF ReceiptTypes, FileTypes, Callings
  <2>2. \A d \in Held' : d \in Held /\ caller'[d].mode = caller[d].mode /\ caller'[d].key = caller[d].key
    BY <1>4, <2>1 DEF Held
  <2> QED
    BY <1>0, <1>00, <1>4, <2>2, FileKeeps
<1>5. ASSUME NEW c \in Callers, Again(c) PROVE ScheduleInv'
  <2>1. CASE ~rotating /\ Hold(c, "issue", caller[c].id, caller[c].of, Current)
    BY <1>0, <2>1, HoldSchedule
  <2>2. CASE caller' = [caller EXCEPT ![c] = Idle] /\ UNCHANGED <<files, open, broken, next, control, faults, history>>
    BY <1>4, <2>2, IdleTypes DEF files, control, history
  <2> QED
    BY <1>5, <2>1, <2>2 DEF Again
<1>6. ASSUME NEW c \in Callers, SignFails(c) PROVE ScheduleInv'
  <2> DEFINE gone == [caller EXCEPT ![c] = Idle]
  <2>1. UNCHANGED <<file, indexed, transitions, checkpoints, cosigned, lagged, job, rotating, open>>
    BY <1>6 DEF SignFails, files, control, history
  <2>2. CASE caller' = gone
    BY <1>4, <2>1, <2>2, IdleTypes
  <2>3. CASE \E at, failed : TakeBack(gone, at, failed)
    <3>1. /\ gone \in [Callers -> Reservations] /\ gone[c] = Idle
          /\ \A d \in Callers \ {c} : gone[d] = caller[d]
      BY IdleTypes DEF ReceiptTypes, FileTypes, Callings
    <3> HIDE DEF gone
    <3>2. \A d \in Held' : d \in Callers /\ gone[d].place = "held" /\ caller'[d] = gone[d]
      BY <2>3, <3>1, TakeBackHeld
    <3>3. \A d \in Held' : d \in Held /\ caller'[d] = caller[d]
      BY <3>1, <3>2, IdleTypes DEF Held
    <3> QED
      BY <1>0, <1>00, <2>1, <3>3, FileKeeps
  <2> QED
    BY <1>6, <2>2, <2>3 DEF SignFails
<1>7. ASSUME NEW c \in Callers, Deliver(c) PROVE ScheduleInv'
  BY <1>0, <1>7, DeliverSchedule
<1>8. ASSUME NEW c \in Callers, Return(c) PROVE ScheduleInv'
  <2> DEFINE again == [caller[c] EXCEPT !.pc = "again", !.place = "none"]
             r == IF caller[c].place = "taken" /\ caller[c].mode = "issue" THEN again ELSE Idle
  <2>1. caller' = [caller EXCEPT ![c] = r]
    BY <1>8 DEF Return, ReceiptTypes, FileTypes, Callings
  <2>2. again.place = "none"
    BY ReservationTypes DEF Reservations, ReceiptTypes
  <2>3. r.place # "held"
    <3> HIDE DEF again
    <3> QED
      BY <2>2, IdleTypes
  <2>4. UNCHANGED <<file, indexed, transitions, checkpoints, cosigned, lagged, job, rotating, open>>
    BY <1>8 DEF Return, files, control
  <2> HIDE DEF r
  <2> QED
    BY <1>4, <2>1, <2>3, <2>4
<1>9. CASE Publish
  <2>1. /\ Read("cosigning") /\ open /\ job.stage = "free"
        /\ UNCHANGED <<file, indexed, transitions, checkpoints, cosigned, lagged, caller, open, rotating>>
    BY <1>9 DEF Publish, files, history
  <2>2. ~rotating
    BY <2>1 DEF ScheduleInv, Rotations
  <2> QED
    BY <1>0, <2>1, <2>2, ReadSchedule
<1>10. CASE SignCheckpoint
  BY <1>0, <1>10, SignSchedule
<1>11. CASE Cosign
  BY <1>0, <1>11, CosignSchedule
<1>12. CASE JobFails
  BY <1>1, <1>12 DEF JobFails, files, history
<1>13. CASE Rotate
  <2>1. PICK k \in Keys \ {Current} : job' = [Free EXCEPT !.stage = "draining", !.to = k]
    BY <1>13 DEF Rotate
  <2>2. job'.stage = "draining"
    BY <2>1, FreeTypes DEF Jobs
  <2>3. /\ UNCHANGED <<file, indexed, transitions, checkpoints, cosigned, lagged, caller, open>>
        /\ rotating' = TRUE /\ open
    BY <1>13 DEF Rotate, files, history
  <2>4. Held' = Held /\ Current' = Current /\ Boundary' = Boundary /\ Follows' = Follows
        /\ (Clean' <=> Clean)
    BY <2>3, HeldStays, SameSchedule DEF Clean, NoOutside
  <2>5. Rotations'
    BY <2>2, <2>3, <2>4 DEF ScheduleInv, Rotations, PostDrain
  <2>6. KeysInForce' /\ RootsOfTheFile'
    BY <2>2, <2>3, <2>4 DEF ScheduleInv, KeysInForce, RootsOfTheFile
  <2> QED
    BY <2>5, <2>6 DEF ScheduleInv
<1>14. CASE Drained
  BY <1>0, <1>14, DrainedSchedule
<1>15. CASE Seal
  <2>1. /\ Read("handing") /\ job.stage = "sealing" /\ rotating' = (job'.stage # "free")
        /\ UNCHANGED <<file, indexed, transitions, checkpoints, cosigned, lagged, caller, open>>
    BY <1>15 DEF Seal, files, history
  <2>2. PostDrain /\ open
    BY <2>1 DEF ScheduleInv, Rotations, PostDrain
  <2> QED
    BY <1>0, <2>1, <2>2, ReadSchedule
<1>16. CASE HandOver
  BY <1>0, <1>16, HandOverSchedule
<1>17. CASE Close
  BY <1>1, <1>17 DEF Close, files, control, history
<1>18. CASE Crash
  BY <1>0, <1>18, CrashSchedule
<1>19. CASE Reopen
  <2>1. /\ UNCHANGED <<file, transitions, checkpoints, cosigned, lagged, job, rotating>>
        /\ open' = TRUE /\ indexed' = Len(file) /\ caller' = caller
        /\ \A c \in Callers : caller[c].pc = "idle"
    BY <1>19 DEF Reopen, history
  <2>2. Held' = {}
    BY <2>1 DEF Held, ReceiptTypes, FileTypes, Callings
  <2>3. /\ indexed <= indexed' /\ \A i \in DOMAIN file : i \in DOMAIN file' /\ file'[i] = file[i]
        /\ \A i \in DOMAIN file' : i \in DOMAIN file
    BY <2>1 DEF ReceiptTypes, FileTypes
  <2> QED
    BY <1>0, <2>1, <2>2, <2>3, QuietKeeps
<1>20. CASE UNCHANGED vars
  BY <1>00, <1>1, <1>20 DEF vars, files, control, history
<1> QED
  BY <1>2, <1>3, <1>5, <1>6, <1>7, <1>8, <1>9, <1>10, <1>11, <1>12, <1>13, <1>14, <1>15, <1>16,
     <1>17, <1>18, <1>19, <1>20 DEF Next
-----------------------------------------------------------------------------
(* What follows.                                                           *)

\* The invariant of the log.
LogInv == ReceiptTypes /\ PositionsInv /\ ScheduleInv

\* It holds of an empty log.
LEMMA LogInit == Init => LogInv /\ ~refusal
<1> SUFFICES ASSUME Init PROVE LogInv /\ ~refusal
  OBVIOUS
<1>1. /\ file = <<>> /\ checkpoints = <<>> /\ transitions = <<>> /\ cosigned = <<>>
      /\ indexed = 0 /\ next = 0 /\ open = TRUE /\ broken = FALSE
      /\ caller = [c \in Callers |-> Idle] /\ rotating = FALSE /\ job = Free
      /\ issued = {} /\ refusal = FALSE /\ lagged = FALSE
  BY DEF Init
<1>2. Callings(caller)
  BY <1>1, IdleTypes DEF Callings
<1>3. FileTypes
  <2>1. file \in Seq(Docs) /\ Len(file) = 0
    BY <1>1
  <2>2. issued \subseteq Docs
    BY <1>1
  <2>3. indexed \in Nat /\ next \in Nat
    BY <1>1
  <2>4. indexed <= Len(file)
    <3>1. indexed = 0
      BY <1>1
    <3> QED
      BY <2>1, <3>1
  <2>5. open \in BOOLEAN /\ broken \in BOOLEAN
    BY <1>1
  <2> QED
    BY <1>2, <2>1, <2>2, <2>3, <2>4, <2>5 DEF FileTypes
<1>4. ControlTypes
  <2>1. \A S : <<>> \in Seq(S)
    OBVIOUS
  <2>2. /\ transitions \in Seq([size : Nat, from : Keys, to : Keys])
        /\ checkpoints \in Seq(Checkpoints) /\ cosigned \in Seq([size : Nat, root : Roots])
    BY <1>1, <2>1
  <2>3. rotating \in BOOLEAN /\ lagged \in BOOLEAN /\ refusal \in BOOLEAN /\ job \in Jobs
        /\ job.stage = "free"
    BY <1>1, FreeTypes
  <2> QED
    BY <2>2, <2>3 DEF ControlTypes
<1>5. Held = {} /\ \A c \in Callers : caller[c].place = "none"
  BY <1>1, IdleTypes DEF Held
<1>6. DOMAIN file = {} /\ Len(file) = 0
  BY <1>1
<1>7. PositionsInv
  BY <1>1, <1>5, <1>6 DEF PositionsInv, PositionsApart, AppendedStands, IndexIsWhole, TurnsInOrder,
     Signed, LinesCheck, IssuedStays
<1>8. Boundary = -1 /\ DOMAIN transitions = {} /\ DOMAIN checkpoints = {} /\ DOMAIN cosigned = {}
  BY <1>1 DEF Boundary
<1>9. Rotations
  BY <1>1, <1>8, FreeTypes DEF Rotations, Follows, PostDrain
<1>10. KeysInForce /\ RootsOfTheFile
  BY <1>1, <1>5, <1>6, <1>8, FreeTypes DEF KeysInForce, RootsOfTheFile
<1> QED
  BY <1>1, <1>3, <1>4, <1>7, <1>9, <1>10 DEF LogInv, ReceiptTypes, ScheduleInv

\* Every operation, failure, crash and reopening keeps it.
LEMMA LogStep == ASSUME LogInv, [Next]_vars PROVE LogInv'
  BY TypesStep, PositionsStep, ScheduleStep DEF LogInv

\* Whose turn it is has not signed yet, and is before all who have.
LEMMA NobodyWaitsInVain == ASSUME LogInv PROVE NobodyStranded
<1> SUFFICES ASSUME ~broken, NEW c \in Signed
             PROVE  \E d \in Held \ Signed : caller[d].at < caller[c].at
  BY DEF NobodyStranded, TurnsComeUp
<1>1. c \in Held /\ Held # {}
  BY DEF Signed
<1>2. /\ \A n \in indexed..(next - 1) : \E d \in Held : caller[d].at = n
      /\ \A d \in Signed : caller[d].at # indexed
      /\ indexed <= caller[c].at /\ caller[c].at < next
  BY <1>1 DEF LogInv, PositionsInv, TurnsInOrder, PositionsApart
<1>3. indexed \in Nat /\ next \in Nat /\ caller[c].at \in Nat
  BY <1>1, ReservationTypes DEF LogInv, ReceiptTypes, FileTypes, Held
<1>4. indexed \in indexed..(next - 1) /\ indexed < caller[c].at
  BY <1>2, <1>3
<1>5. PICK d \in Held : caller[d].at = indexed
  BY <1>2, <1>4
<1> QED
  BY <1>2, <1>4, <1>5

\* What Ours asks of a rotation under way is asked of a finished one too.
LEMMA OursIsClean == ASSUME Ours PROVE Clean
  BY DEF Ours, Clean, NoOutside

\* A log that is closed has what _resume checks.
LEMMA AlwaysOpens == ASSUME LogInv PROVE Reopens
<1> SUFFICES ASSUME Ours PROVE CanOpen
  BY DEF Reopens
<1>1. /\ ControlTypes /\ file \in Seq(Docs) /\ Len(file) \in Nat /\ indexed \in Nat /\ indexed <= Len(file)
      /\ Boundary \in Int
  BY CurrentIsAKey DEF LogInv, ReceiptTypes, FileTypes
<1>2. Follows /\ LinesCheck /\ Boundary <= indexed
  BY DEF LogInv, PositionsInv, ScheduleInv, Rotations
<1>3. /\ \A i \in DOMAIN file : file[i].key \in {ForLeaf(i - 1), Outside}
      /\ \A n \in DOMAIN checkpoints : checkpoints[n].key = ForCheckpoint(checkpoints[n].size)
  BY OursIsClean, KeysAre DEF LogInv, ScheduleInv, KeysInForce
<1>4. \A n \in DOMAIN checkpoints : IsOf(checkpoints[n], file, indexed) /\ checkpoints[n].size \in Nat
  BY <1>1, SizesAre DEF LogInv, ScheduleInv, RootsOfTheFile
<1>5. \A n \in DOMAIN checkpoints : checkpoints[n].size <= Len(file)
  BY <1>1, <1>4 DEF IsOf
<1>6. ASSUME checkpoints # <<>> PROVE Latest.root = TreeRoot(Leaves(Latest.size), Latest.size)
  <2>1. checkpoints \in Seq(Checkpoints)
    BY <1>1 DEF ControlTypes
  <2>2. Len(checkpoints) \in DOMAIN checkpoints /\ Latest = checkpoints[Len(checkpoints)]
    BY <1>6, <2>1 DEF Latest, Last
  <2>3. Latest.root = RootOf(file, Latest.size)
    BY <1>4, <2>2 DEF IsOf
  <2> QED
    BY <2>3 DEF RootOf, Leaves
<1>7. \A i \in (Latest.size + 1)..Len(file) : file[i].key \in Keys => file[i].key = ForLeaf(i - 1)
  <2>1. Latest.size \in Nat
    BY <1>1, LatestTypes DEF Checkpoints
  <2>2. \A i \in (Latest.size + 1)..Len(file) : i \in DOMAIN file
    BY <1>1, <2>1
  <2> QED
    BY <1>3, <2>2, ReceiptLogAssumption
<1>8. Boundary <= Len(file)
  BY <1>1, <1>2
<1> QED
  BY <1>2, <1>3, <1>5, <1>6, <1>7, <1>8 DEF CanOpen, CheckpointsCheck

-----------------------------------------------------------------------------
(* The bundles.                                                            *)

\* The tree proves what it should of every sequence of leaves.
TreeIsSound == \A leaves \in Seq(Hashes) : TreeProves(leaves, Len(leaves))

\* The leaves of a prefix begin those of a longer one.
LEMMA LeavesAre ==
    ASSUME FileTypes, NEW n \in 0..Len(file)
    PROVE  /\ Leaves(n) \in Seq(Hashes) /\ Len(Leaves(n)) = n
           /\ \A i \in 1..n : Leaves(n)[i] = TreeLeafHash(file[i])
           /\ TreeRoot(Leaves(n), n) = RootOf(file, n)
           /\ \A m \in 0..n : [i \in 1..m |-> Leaves(n)[i]] = Leaves(m)
<1>1. n \in Nat /\ \A i \in 1..n : i \in DOMAIN file /\ file[i] \in Docs
  BY DEF FileTypes
<1>2. \A i \in 1..n : TreeLeafHash(file[i]) \in Hashes
  BY <1>1 DEF Hashes
<1>3. Leaves(n) = [i \in 1..n |-> TreeLeafHash(file[i])]
  BY DEF Leaves
<1>4. Leaves(n) \in [1..n -> Hashes]
  BY <1>2, <1>3
<1>5. Leaves(n) \in Seq(Hashes) /\ Len(Leaves(n)) = n
  BY <1>1, <1>4
<1>6. \A i \in 1..n : Leaves(n)[i] = TreeLeafHash(file[i])
  BY <1>3
<1>7. ASSUME NEW m \in 0..n PROVE [i \in 1..m |-> Leaves(n)[i]] = Leaves(m)
  <2>1. \A i \in 1..m : Leaves(n)[i] = TreeLeafHash(file[i])
    BY <1>1, <1>6
  <2> QED
    BY <2>1 DEF Leaves
<1>8. TreeRoot(Leaves(n), n) = RootOf(file, n)
  BY <1>3 DEF RootOf
<1> QED
  BY <1>5, <1>6, <1>7, <1>8

\* A line under a checkpoint has the signature and the proof a verifier wants.
LEMMA LineIsProvable ==
    ASSUME LogInv, Ours, TreeIsSound, NEW k \in DOMAIN checkpoints,
           NEW i \in 0..(checkpoints[k].size - 1), file[i + 1].key # Outside
    PROVE  CheckSignature(file[i + 1]) /\ CheckInclusion(file[i + 1], i, checkpoints[k])
<1> DEFINE cp == checkpoints[k]
           n == cp.size
           doc == file[i + 1]
<1>1. /\ FileTypes /\ ControlTypes /\ indexed \in Nat /\ Len(file) \in Nat /\ indexed <= Len(file)
      /\ DOMAIN file = 1..Len(file)
  BY DEF LogInv, ReceiptTypes, FileTypes
<1>2. n \in Nat /\ n <= indexed /\ cp.root = RootOf(file, n)
  BY <1>1, SizesAre DEF LogInv, ScheduleInv, RootsOfTheFile, IsOf
<1>3. i \in Nat /\ i + 1 \in 1..n /\ n \in 0..Len(file) /\ i + 1 \in DOMAIN file /\ i + 1 - 1 = i
  BY <1>1, <1>2
<1>4. doc.at = i
  BY <1>3 DEF LogInv, PositionsInv, LinesCheck
<1>5. doc.key = ForLeaf(i) /\ cp.key = ForCheckpoint(n)
  BY <1>3, OursIsClean, KeysAre DEF LogInv, ScheduleInv, KeysInForce
<1>6. TreeVerifyInclusion(TreeLeafHash(doc), i, n, TreeInclusionProof(Leaves(n), i, n), cp.root)
  <2>1. /\ Leaves(n) \in Seq(Hashes) /\ Len(Leaves(n)) = n /\ Leaves(n)[i + 1] = TreeLeafHash(doc)
        /\ TreeRoot(Leaves(n), n) = cp.root
    BY <1>1, <1>2, <1>3, LeavesAre
  <2>2. TreeProves(Leaves(n), n)
    BY <2>1 DEF TreeIsSound
  <2>3. i \in 0..(n - 1)
    BY <1>2, <1>3
  <2>4. TreeVerifyInclusion(Leaves(n)[i + 1], i, n, TreeInclusionProof(Leaves(n), i, n), TreeRoot(Leaves(n), n))
    BY <2>2, <2>3 DEF TreeProves
  <2> QED
    BY <2>1, <2>4
<1>7. CheckSignature(doc)
  BY <1>4, <1>5 DEF CheckSignature
<1> QED
  BY <1>4, <1>5, <1>6, <1>7 DEF CheckInclusion

\* What publish() returned is in the witness's record.
Recorded == \A cp \in published : \E n \in DOMAIN cosigned :
                cosigned[n].size = cp.size /\ cosigned[n].root = cp.root

\* The witness's record only grows, by the checkpoint it accepts, unless that is
\* what it recorded last (cosign).
LEMMA RecordedStep ==
    ASSUME ReceiptTypes, Recorded, [Next]_vars PROVE Recorded'
<1>1. CASE Cosign
  <2> DEFINE cp == job.checkpoint
             new == [size |-> cp.size, root |-> cp.root]
             T == [size : Nat, root : Roots]
             last == Len(cosigned)
  <2>1. /\ \/ cosigned' = Append(cosigned, new)
           \/ cosigned' = cosigned /\ published' = published
           \/ cosigned' = cosigned /\ cosigned # <<>> /\ new = LastCosigned
        /\ published' \subseteq published \cup {cp}
    BY <1>1 DEF Cosign
  <2>2. cosigned \in Seq(T)
    BY DEF ReceiptTypes, ControlTypes
  <2> HIDE DEF T
  <2>3. last \in Nat /\ DOMAIN cosigned = 1..last
    BY <2>2
  <2>4. CASE cosigned' = Append(cosigned, new)
    <3>1. /\ DOMAIN cosigned' = 1..(last + 1) /\ cosigned'[last + 1] = new
          /\ \A n \in 1..last : cosigned'[n] = cosigned[n]
      <4>1. PICK U : U = T \cup {new}
        OBVIOUS
      <4>2. cosigned \in Seq(U) /\ new \in U
        BY <2>2, <4>1
      <4> HIDE DEF new
      <4> QED
        BY <2>3, <2>4, <4>2
    <3>2. last + 1 \in DOMAIN cosigned' /\ \A n \in DOMAIN cosigned : n \in DOMAIN cosigned'
      BY <2>3, <3>1
    <3>3. new.size = cp.size /\ new.root = cp.root
      OBVIOUS
    <3> HIDE DEF new
    <3> QED
      BY <2>1, <2>3, <3>1, <3>2, <3>3 DEF Recorded
  <2>5. CASE cosigned' = cosigned /\ published' = published
    BY <2>5 DEF Recorded
  <2>6. CASE cosigned' = cosigned /\ cosigned # <<>> /\ new = LastCosigned
    <3>1. last \in DOMAIN cosigned /\ cosigned[last] = new
      BY <2>2, <2>3, <2>6 DEF LastCosigned, Last
    <3> QED
      BY <2>1, <2>6, <3>1 DEF Recorded
  <2> QED
    BY <2>1, <2>4, <2>5, <2>6
<1>2. CASE UNCHANGED <<cosigned, published>>
  BY <1>2 DEF Recorded
<1>3. Cosign \/ UNCHANGED <<cosigned, published>>
  BY DEF Next, Reserve, AppendSigned, Again, SignFails, Deliver, Return, Hold, Publish, SignCheckpoint,
     JobFails, Rotate, Drained, Seal, HandOver, Close, Crash, Reopen, vars, files, history
<1> QED
  BY <1>1, <1>2, <1>3

\* What a bundle has, its verifier accepts (bundle, verify_bundle).
LEMMA BundlesHold ==
    ASSUME LogInv, Recorded, TreeIsSound, ~refusal PROVE BundlesVerify
<1> SUFFICES ASSUME Ours, NEW k \in DOMAIN checkpoints, NEW i \in 0..(checkpoints[k].size - 1),
                    file[i + 1].key # Outside, file[i + 1].of.key # Outside
             PROVE  VerifyBundle(Bundle(i, checkpoints[k]), checkpoints[k] \in published)
  BY DEF BundlesVerify
<1> DEFINE cp == checkpoints[k]
           doc == file[i + 1]
           bundle == Bundle(i, cp)
<1>0. bundle.doc = doc /\ bundle.index = i /\ bundle.checkpoint = cp
  BY DEF Bundle
<1>1. /\ FileTypes /\ ControlTypes /\ indexed \in Nat /\ Len(file) \in Nat /\ indexed <= Len(file)
      /\ DOMAIN file = 1..Len(file) /\ file \in Seq(Docs)
  BY DEF LogInv, ReceiptTypes, FileTypes
<1>2. cp.size \in Nat /\ IsOf(cp, file, indexed) /\ cp.size <= indexed
  BY <1>1, SizesAre DEF LogInv, ScheduleInv, RootsOfTheFile, IsOf
<1>3. i \in 0..Len(file) /\ i + 1 \in DOMAIN file /\ i + 1 - 1 = i
  BY <1>1, <1>2
<1>4. CheckSignature(doc) /\ CheckInclusion(doc, i, cp)
  BY LineIsProvable
<1>5. cp \in published => CheckWitness(cp)
  BY DEF CheckWitness, Recorded, LogInv, ScheduleInv, RootsOfTheFile, IsOf
<1>6. ASSUME doc.id \in Deliveries
      PROVE  /\ Binds(doc, SubSeq(file, 1, i))
             /\ CheckSignature(file[doc.of.at + 1])
             /\ CheckInclusion(file[doc.of.at + 1], doc.of.at, cp)
  <2>1. Binds(doc, SubSeq(file, 1, i))
    BY <1>3 DEF LogInv, PositionsInv, LinesCheck
  <2>2. Precedes(doc, file, i)
    BY <1>1, <1>3, <2>1, BindsToPrefix
  <2>3. doc.of.at + 1 \in 1..i /\ Reference(file[doc.of.at + 1]) = doc.of
    BY <1>6, <2>2 DEF Precedes
  <2>4. doc.of.at \in Int
    <3>1. doc \in Docs
      BY <1>1, <1>3
    <3> QED
      BY <3>1 DEF Docs, References
  <2>5. doc.of.at \in 0..(cp.size - 1)
    BY <1>2, <2>3, <2>4
  <2>6. file[doc.of.at + 1].key # Outside
    BY <2>3 DEF Reference
  <2> HIDE DEF doc, cp
  <2> QED
    BY <2>1, <2>5, <2>6, LineIsProvable DEF cp
<1>7. CheckBinding(bundle)
  BY <1>0, <1>6 DEF CheckBinding
<1> HIDE DEF bundle, doc, cp
<1> QED
  BY <1>0, <1>4, <1>5, <1>7 DEF VerifyBundle, bundle, cp

\* The witness was given the same log before.
LEMMA NeverRefused ==
    ASSUME LogInv, TreeIsSound, ~refusal, [Next]_vars PROVE ~refusal'
<1>1. CASE Cosign
  <2> DEFINE cp == job.checkpoint
             m == LastCosigned.size
             n == cp.size
             proof == IF m <= n THEN TreeConsistencyProof(Leaves(n), m, n) ELSE <<>>
  <2>1. /\ job.stage = "cosigning"
        /\ refusal' = (refusal \/ ~(IF cosigned = <<>> THEN TRUE
                                    ELSE TreeVerifyConsistency(m, n, LastCosigned.root, cp.root, proof)))
    BY <1>1 DEF Cosign
  <2>2. ASSUME cosigned # <<>>
        PROVE  TreeVerifyConsistency(m, n, LastCosigned.root, cp.root, proof)
    <3>1. /\ FileTypes /\ ControlTypes /\ indexed \in Nat /\ Len(file) \in Nat /\ indexed <= Len(file)
      BY DEF LogInv, ReceiptTypes, FileTypes
    <3>2. ~rotating
      BY <2>1 DEF LogInv, ScheduleInv, Rotations
    <3>3. n \in Nat /\ n <= indexed /\ cp.root = RootOf(file, n)
      BY <2>1, <3>1, SizesAre DEF LogInv, ScheduleInv, RootsOfTheFile, IsOf
    <3>4. Len(cosigned) \in DOMAIN cosigned /\ LastCosigned = cosigned[Len(cosigned)]
      <4>1. cosigned \in Seq([size : Nat, root : Roots])
        BY <3>1 DEF ControlTypes
      <4> DEFINE T == [size : Nat, root : Roots]
      <4>2. cosigned \in Seq(T)
        BY <4>1
      <4> HIDE DEF T
      <4>3. Len(cosigned) \in DOMAIN cosigned
        BY <2>2, <4>2
      <4> QED
        BY <2>2, <4>3 DEF LastCosigned, Last
    <3>5. m \in Nat /\ m <= n /\ LastCosigned.root = RootOf(file, m)
      BY <2>1, <3>1, <3>2, <3>4, SizesAre DEF LogInv, ScheduleInv, RootsOfTheFile, IsOf
    <3> HIDE DEF m, n
    <3>6. m \in 0..n /\ n \in 0..Len(file) /\ m \in 0..Len(file)
      BY <3>1, <3>3, <3>5
    <3>7. /\ Leaves(n) \in Seq(Hashes) /\ Len(Leaves(n)) = n /\ TreeRoot(Leaves(n), n) = RootOf(file, n)
          /\ [i \in 1..m |-> Leaves(n)[i]] = Leaves(m) /\ TreeRoot(Leaves(m), m) = RootOf(file, m)
      BY <3>1, <3>6, LeavesAre
    <3>8. TreeProves(Leaves(n), n)
      BY <3>7 DEF TreeIsSound
    <3>9. TreeVerifyConsistency(m, n, TreeRoot([i \in 1..m |-> Leaves(n)[i]], m), TreeRoot(Leaves(n), n),
                                TreeConsistencyProof(Leaves(n), m, n))
      BY <3>6, <3>8 DEF TreeProves
    <3> QED
      BY <3>3, <3>5, <3>7, <3>9
  <2> QED
    BY <2>1, <2>2
<1>2. CASE UNCHANGED refusal
  BY <1>2
<1>3. Cosign \/ UNCHANGED refusal
  BY DEF Next, Reserve, AppendSigned, Again, SignFails, Deliver, Return, Hold, Publish, SignCheckpoint,
     JobFails, Rotate, Drained, Seal, HandOver, Close, Crash, Reopen, vars, history
<1> QED
  BY <1>1, <1>2, <1>3

-----------------------------------------------------------------------------
(* What the log promises.                                                  *)

\* A receipt that issue() returned is in the log for good, at the place it
\* signs, whatever failed to be signed or written after it, was taken back,
\* crashed or was reopened (issue, _drain, _take_back, _resume).
THEOREM IssuedReceiptsStay == Spec => []IssuedStays
<1>1. LogInv => IssuedStays
  BY DEF LogInv, PositionsInv
<1> QED
  BY <1>1, LogInit, LogStep, PTL DEF Spec

\* A log that close(), a crash between or inside its writes, or a crash in
\* the middle of a rotation left behind opens again: _resume finds no line out
\* of place, no id twice and no signature by a key not in force for it, for
\* any number of callers, rotations and crashes (_resume, rotate).
THEOREM LogReopens == Spec => []Reopens
  BY AlwaysOpens, LogInit, LogStep, PTL DEF Spec

\* No caller is left with a signed receipt whose turn has come, or will never
\* come, while the index keeps up (issue, _deliver, _drain, _take_back).
THEOREM NobodyIsStranded == Spec => []NobodyStranded
  BY NobodyWaitsInVain, LogInit, LogStep, PTL DEF Spec

\* Over a tree that proves its leaves and its prefixes, every receipt issued
\* under a checkpoint can be proved against every checkpoint that covers it,
\* across any number of rotations; a checkpoint that publish() returned is
\* found in the witness's record, and none of another root beside it; and the
\* witness is never shown a log it must refuse (bundle, verify_bundle, cosign,
\* find_cosignature).
THEOREM BundlesAreProvable == ASSUME TreeIsSound PROVE Spec => []BundlesVerify
<1>1. Init => LogInv /\ Recorded /\ ~refusal
  BY LogInit DEF Init, Recorded
<1>2. LogInv /\ Recorded /\ ~refusal /\ [Next]_vars => LogInv' /\ Recorded' /\ ~refusal'
  BY LogStep, RecordedStep, NeverRefused DEF LogInv
<1>3. LogInv /\ Recorded /\ ~refusal => BundlesVerify
  BY BundlesHold
<1> QED
  BY <1>1, <1>2, <1>3, PTL DEF Spec

-----------------------------------------------------------------------------
(* Reconciliation: best first, as a recursive function.                    *)

\* A line of the invoice, a settlement, and how badly they fit.
Pairs == [line : Nat, spend : Nat, score : Nat]

\* Pairs of a line and a settlement, each pair once.
Pairing(pairs) ==
    /\ IsFiniteSet(pairs) /\ pairs \subseteq Pairs
    /\ \A a, b \in pairs : a.line = b.line /\ a.spend = b.spend => a = b

\* g is what Claimed defines, over every subset of pairs.
Round(g, left) == IF left = {} THEN {} ELSE {Best(left)} \cup g[Rest(left, Best(left))]
\* The recursion, as a predicate on its solution.
Claims(g, pairs) == g = [left \in SUBSET pairs |-> Round(g, left)]

\* Some of the pairs are pairs.
LEMMA PairingSubset ==
    ASSUME NEW P, Pairing(P), NEW Q \in SUBSET P
    PROVE  Pairing(Q)
<1>1. IsFiniteSet(Q)
  BY FS_Subset DEF Pairing
<1> QED
  BY <1>1 DEF Pairing

\* The order of the candidates has a first one, and only one.
LEMMA BestIsFirst ==
    ASSUME NEW P, Pairing(P), P # {}
    PROVE  Best(P) \in P /\ \A b \in P \ {Best(P)} : Before(Best(P), b)
<1>1. P \subseteq Pairs
  BY DEF Pairing
<1> DEFINE Scores == {c.score : c \in P}
<1>2. PICK s \in Scores : \A n \in Scores : s <= n
  <2>1. Scores \in SUBSET Nat /\ Scores # {}
    BY <1>1 DEF Pairs
  <2> HIDE DEF Scores
  <2> QED
    BY <2>1, LeastOf
<1> DEFINE Rows == {c.line : c \in {d \in P : d.score = s}}
<1>3. PICK l \in Rows : \A n \in Rows : l <= n
  <2>1. Rows \in SUBSET Nat /\ Rows # {}
    BY <1>1, <1>2 DEF Pairs
  <2> HIDE DEF Rows
  <2> QED
    BY <2>1, LeastOf
<1> DEFINE Spent == {c.spend : c \in {d \in P : d.score = s /\ d.line = l}}
<1>4. PICK i \in Spent : \A n \in Spent : i <= n
  <2>1. Spent \in SUBSET Nat /\ Spent # {}
    BY <1>1, <1>3 DEF Pairs
  <2> HIDE DEF Spent
  <2> QED
    BY <2>1, LeastOf
<1>5. PICK a \in P : a.score = s /\ a.line = l /\ a.spend = i
  BY <1>4
<1>6. \A b \in P \ {a} : Before(a, b)
  <2> SUFFICES ASSUME NEW b \in P, b # a PROVE Before(a, b)
    OBVIOUS
  <2>1. a \in Pairs /\ b \in Pairs
    BY <1>1
  <2>2. a.score <= b.score
    BY <1>2, <1>5
  <2>3. b.score = s => a.line <= b.line
    BY <1>3, <1>5
  <2>4. b.score = s /\ b.line = l => a.spend <= b.spend
    BY <1>4, <1>5
  <2>5. ~(a.line = b.line /\ a.spend = b.spend)
    BY DEF Pairing
  <2> QED
    BY <1>5, <2>1, <2>2, <2>3, <2>4, <2>5 DEF Before, Pairs
<1>7. \E c \in P : \A b \in P \ {c} : Before(c, b)
  BY <1>6
<1> QED
  BY <1>7 DEF Best

\* Claiming the best leaves fewer to choose from.
LEMMA RestIsLess ==
    ASSUME NEW P, Pairing(P), P # {}
    PROVE  Rest(P, Best(P)) \in SUBSET P /\ Rest(P, Best(P)) # P
  BY BestIsFirst DEF Rest

\* A solution unfolds.
LEMMA ClaimsAt ==
    ASSUME NEW P, NEW g, Claims(g, P), NEW s \in SUBSET P
    PROVE  g[s] = Round(g, s)
<1> DEFINE G == [left \in SUBSET P |-> Round(g, left)]
<1>1. g = G
  BY DEF Claims
<1>2. G[s] = Round(g, s)
  OBVIOUS
<1> HIDE DEF G
<1> QED
  BY <1>1, <1>2

\* Two solutions agree where both are defined.
LEMMA ClaimsUnique ==
    ASSUME NEW P, Pairing(P), NEW Q \in SUBSET P, NEW g, NEW h, Claims(g, P), Claims(h, Q)
    PROVE  \A u \in SUBSET Q : g[u] = h[u]
<1> DEFINE Bad == {u \in SUBSET Q : g[u] # h[u]}
<1> SUFFICES ASSUME Bad # {} PROVE FALSE
  OBVIOUS
<1>1. IsFiniteSet(Q) /\ Pairing(Q)
  BY PairingSubset DEF Pairing
<1>2. PICK u \in Bad : \A v \in SUBSET u : v \in Bad => v = u
  <2> HIDE DEF Bad
  <2>1. Bad \in SUBSET (SUBSET Q)
    BY DEF Bad
  <2> QED
    BY <1>1, <2>1, SmallestSubset
<1>3. u \in SUBSET Q /\ u \in SUBSET P /\ g[u] # h[u]
  OBVIOUS
<1>4. /\ g[u] = IF u = {} THEN {} ELSE {Best(u)} \cup g[Rest(u, Best(u))]
      /\ h[u] = IF u = {} THEN {} ELSE {Best(u)} \cup h[Rest(u, Best(u))]
  <2>1. Claims(g, P) /\ u \in SUBSET P /\ Claims(h, Q) /\ u \in SUBSET Q
    BY <1>3
  <2>2. g[u] = Round(g, u) /\ h[u] = Round(h, u)
    BY <2>1, ClaimsAt
  <2> QED
    BY <2>2 DEF Round
<1>5. u # {}
  BY <1>3, <1>4
<1> DEFINE v == Rest(u, Best(u))
<1>6. v \in SUBSET u /\ v # u
  BY <1>1, <1>3, <1>5, PairingSubset, RestIsLess
<1>7. g[v] = h[v]
  <2> HIDE DEF v
  <2> QED
    BY <1>2, <1>3, <1>6
<1> QED
  BY <1>3, <1>4, <1>5, <1>7

\* Claimed is what a solution says of all the pairs.
LEMMA ClaimedIsChosen ==
    ASSUME NEW P
    PROVE  Claimed(P) = (CHOOSE g : Claims(g, P))[P]
  BY DEF Claimed, Claims, Round

\* Claimed is what any solution says.
LEMMA ClaimedOf ==
    ASSUME NEW P, Pairing(P), NEW h, Claims(h, P)
    PROVE  Claimed(P) = h[P]
<1> DEFINE g == CHOOSE g : Claims(g, P)
<1>1. Claims(g, P)
  OBVIOUS
<1>2. Claimed(P) = g[P]
  BY ClaimedIsChosen
<1> HIDE DEF g
<1> QED
  BY <1>1, <1>2, ClaimsUnique

\* The recursion over the candidates has a solution.
LEMMA ClaimsExists ==
    ASSUME NEW P, Pairing(P)
    PROVE  \A T \in SUBSET P : \E g : Claims(g, T)
<1> DEFINE Bad == {T \in SUBSET P : ~ \E g : Claims(g, T)}
<1> SUFFICES ASSUME Bad # {} PROVE FALSE
  OBVIOUS
<1>1. PICK T \in Bad : \A U \in SUBSET T : U \in Bad => U = T
  <2> HIDE DEF Bad
  <2>1. Bad \in SUBSET (SUBSET P) /\ IsFiniteSet(P)
    BY DEF Bad, Pairing
  <2> QED
    BY <2>1, SmallestSubset
<1>2. T \in SUBSET P /\ ~ \E g : Claims(g, T)
  OBVIOUS
<1>3. \A U \in SUBSET T : Pairing(U) /\ (U # T => \E g : Claims(g, U))
  BY <1>1, <1>2, PairingSubset
<1> HIDE DEF Bad
<1> DEFINE step(s) == IF s = {} THEN {} ELSE {Best(s)} \cup Claimed(Rest(s, Best(s)))
           G == [s \in SUBSET T |-> step(s)]
<1>4. \A s \in SUBSET T : s # T => Claimed(s) = step(s)
  <2> SUFFICES ASSUME NEW s \in SUBSET T, s # T PROVE Claimed(s) = step(s)
    OBVIOUS
  <2>1. PICK h : Claims(h, s)
    BY <1>3
  <2>2. Pairing(s) /\ Claimed(s) = h[s]
    BY <1>3, <2>1, ClaimedOf
  <2>3. h[s] = IF s = {} THEN {} ELSE {Best(s)} \cup h[Rest(s, Best(s))]
    <3>1. s \in SUBSET s
      OBVIOUS
    <3>2. h[s] = Round(h, s)
      BY <2>1, <3>1, ClaimsAt
    <3> QED
      BY <3>2 DEF Round
  <2>4. CASE s = {}
    BY <2>2, <2>3, <2>4
  <2>5. CASE s # {}
    <3> DEFINE v == Rest(s, Best(s))
    <3>1. v \in SUBSET s /\ v \in SUBSET T /\ v # T
      BY <2>2, <2>5, RestIsLess
    <3> HIDE DEF v
    <3>2. PICK k : Claims(k, v)
      BY <1>3, <3>1
    <3>3. Claimed(v) = k[v] /\ h[v] = k[v]
      BY <1>3, <2>1, <2>2, <3>1, <3>2, ClaimedOf, ClaimsUnique
    <3> QED
      BY <2>2, <2>3, <2>5, <3>3 DEF v
  <2> QED
    BY <2>4, <2>5
<1>5. \A s \in SUBSET T : G[s] = IF s = {} THEN {} ELSE {Best(s)} \cup G[Rest(s, Best(s))]
  <2> SUFFICES ASSUME NEW s \in SUBSET T, s # {}
               PROVE  G[s] = {Best(s)} \cup G[Rest(s, Best(s))]
    OBVIOUS
  <2> DEFINE v == Rest(s, Best(s))
  <2>1. v \in SUBSET T /\ v # T
    BY <1>3, RestIsLess
  <2>2. G[v] = Claimed(v)
    <3> HIDE DEF v
    <3> QED
      BY <1>4, <2>1
  <2>3. G[s] = {Best(s)} \cup Claimed(v)
    OBVIOUS
  <2> QED
    BY <2>2, <2>3
<1>6. Claims(G, T)
  <2> DEFINE H == [s \in SUBSET T |-> Round(G, s)]
  <2>1. \A s \in SUBSET T : G[s] = H[s]
    <3> HIDE DEF G
    <3> QED
      BY <1>5 DEF Round
  <2>2. G = [s \in SUBSET T |-> G[s]] /\ H = [s \in SUBSET T |-> H[s]]
    OBVIOUS
  <2>3. G = H
    <3> HIDE DEF G, H
    <3> QED
      BY <2>1, <2>2
  <2> QED
    BY <2>3 DEF Claims
<1> QED
  BY <1>2, <1>6

\* What the loop of reconcile() does: the best candidate, then the rest.
LEMMA ClaimedStep ==
    ASSUME NEW P, Pairing(P)
    PROVE  Claimed(P) = IF P = {} THEN {} ELSE {Best(P)} \cup Claimed(Rest(P, Best(P)))
<1>1. PICK g : Claims(g, P)
  BY ClaimsExists
<1>2. Claimed(P) = g[P]
  BY <1>1, ClaimedOf
<1>3. g[P] = IF P = {} THEN {} ELSE {Best(P)} \cup g[Rest(P, Best(P))]
  <2>1. P \in SUBSET P
    OBVIOUS
  <2>2. g[P] = Round(g, P)
    BY <1>1, <2>1, ClaimsAt
  <2> QED
    BY <2>2 DEF Round
<1>4. ASSUME P # {} PROVE Claimed(Rest(P, Best(P))) = g[Rest(P, Best(P))]
  <2> DEFINE v == Rest(P, Best(P))
  <2>1. v \in SUBSET P
    BY <1>4, RestIsLess
  <2> HIDE DEF v
  <2>2. PICK k : Claims(k, v)
    BY <2>1, ClaimsExists
  <2>3. Claimed(v) = k[v] /\ g[v] = k[v]
    BY <1>1, <2>1, <2>2, PairingSubset, ClaimedOf, ClaimsUnique
  <2> QED
    BY <2>3 DEF v
<1> QED
  BY <1>2, <1>3, <1>4

\* What is claimed is among the candidates, shares no line and no settlement,
\* and keeps no candidate from a better pair than the one it had.
Stable(pairs, claimed) ==
    /\ claimed \subseteq pairs
    /\ \A a, b \in claimed : a.line = b.line \/ a.spend = b.spend => a = b
    /\ \A c \in pairs :
         \E d \in claimed : (d.line = c.line \/ d.spend = c.spend) /\ d.score <= c.score

\* Claiming the best first leaves no better pair behind.
LEMMA ClaimedIsStable ==
    ASSUME NEW P, Pairing(P)
    PROVE  Stable(P, Claimed(P))
<1> DEFINE Bad == {u \in SUBSET P : ~Stable(u, Claimed(u))}
<1> SUFFICES ASSUME Bad # {} PROVE FALSE
  OBVIOUS
<1>1. PICK u \in Bad : \A v \in SUBSET u : v \in Bad => v = u
  <2> HIDE DEF Bad
  <2>1. Bad \in SUBSET (SUBSET P) /\ IsFiniteSet(P)
    BY DEF Bad, Pairing
  <2> QED
    BY <2>1, SmallestSubset
<1>2. u \in SUBSET P /\ ~Stable(u, Claimed(u))
  OBVIOUS
<1>3. Pairing(u) /\ u \subseteq Pairs
  BY <1>2, PairingSubset DEF Pairing
<1>4. Claimed(u) = IF u = {} THEN {} ELSE {Best(u)} \cup Claimed(Rest(u, Best(u)))
  BY <1>3, ClaimedStep
<1>5. u # {}
  BY <1>2, <1>4 DEF Stable
<1> DEFINE best == Best(u)
           v == Rest(u, best)
           rest == Claimed(v)
<1>6. best \in u /\ \A b \in u \ {best} : Before(best, b)
  BY <1>3, <1>5, BestIsFirst
<1>7. v \in SUBSET u /\ v # u
  BY <1>3, <1>5, RestIsLess
<1>8. Stable(v, rest)
  <2> HIDE DEF v
  <2> QED
    BY <1>1, <1>2, <1>7
<1>9. Claimed(u) = {best} \cup rest
  BY <1>4, <1>5
<1>10. \A c \in v : c.line # best.line /\ c.spend # best.spend
  BY DEF Rest
<1>11. \A c \in u : c \in v \/ c.line = best.line \/ c.spend = best.spend
  BY DEF Rest
<1>12. \A c \in u : best.score <= c.score
  <2> TAKE c \in u
  <2>1. best \in Pairs /\ c \in Pairs
    BY <1>3, <1>6
  <2>2. c = best \/ Before(best, c)
    BY <1>6
  <2> HIDE DEF best
  <2> QED
    BY <2>1, <2>2 DEF Before, Pairs
<1> HIDE DEF best, v, rest
<1>13. Stable(u, {best} \cup rest)
  BY <1>6, <1>7, <1>8, <1>10, <1>11, <1>12 DEF Stable
<1> QED
  BY <1>2, <1>9, <1>13

-----------------------------------------------------------------------------
(* The books.                                                              *)

\* What is settled, and what is billed.
Settlements == [time : Nat, model : Models, tokens : Nat, cost : Nat]
Lines == [time : Nat, tokens : Nat, of : Nat, model : Models, derived : BOOLEAN, cost : Nat]

BooksTypes == spends \in Seq(Settlements) /\ invoice \in Seq(Lines)

\* A line of a governed call is billed no earlier than it and within the
\* tolerance, for the model and the tokens it used, and once.
LinesAreOfCalls ==
    /\ \A n \in DOMAIN invoice : invoice[n].of # 0 =>
         LET i == invoice[n].of
         IN  /\ i \in DOMAIN spends
             /\ invoice[n].time \in spends[i].time..(spends[i].time + TimeTolerance)
             /\ invoice[n].model = spends[i].model /\ invoice[n].tokens = spends[i].tokens
    /\ \A n, k \in DOMAIN invoice : invoice[n].of = invoice[k].of /\ invoice[n].of # 0 => n = k

\* The invariant of the books.
BooksInv == BooksTypes /\ LinesAreOfCalls

\* A priced call costs a number.
LEMMA CostIsNat ==
    ASSUME NEW m \in DOMAIN Price, NEW t \in Nat
    PROVE  Cost(m, t) \in Nat
<1>1. Price[m] \in Nat
  BY ReconciliationAssumption
<1> QED
  BY <1>1 DEF Cost

\* What a parser makes of a row is a line (_record_from_row).
LEMMA RecordIsALine ==
    ASSUME NEW row \in [time : Nat, model : Models, tokens : Nat, of : Nat, cost : Nat \cup {-1}]
    PROVE  /\ RecordFromRow(row) \in Lines
           /\ RecordFromRow(row).of = row.of /\ RecordFromRow(row).time = row.time
           /\ RecordFromRow(row).model = row.model /\ RecordFromRow(row).tokens = row.tokens
<1>1. DeriveCost(row.model, row.tokens) \in Nat
  BY CostIsNat DEF DeriveCost
<1> QED
  BY <1>1 DEF RecordFromRow, Lines

\* Settling, saving, restarting and billing keep the books.
LEMMA BooksStep == BooksInv /\ [BooksNext]_bookVars => BooksInv'
<1> SUFFICES ASSUME BooksInv, [BooksNext]_bookVars PROVE BooksInv'
  OBVIOUS
<1>0. spends \in Seq(Settlements) /\ invoice \in Seq(Lines) /\ LinesAreOfCalls
  BY DEF BooksInv, BooksTypes
<1>1. CASE UNCHANGED <<spends, invoice>>
  BY <1>1 DEF BooksInv, BooksTypes, LinesAreOfCalls
<1>2. CASE Settle
  <2>1. PICK call \in Calls :
          spends' = Append(spends, [time |-> call.time, model |-> call.model,
                                    tokens |-> call.tokens,
                                    cost |-> Cost(call.model, call.tokens)])
    BY <1>2 DEF Settle
  <2>2. /\ call.time \in Nat /\ call.model \in DOMAIN Price /\ call.tokens \in Nat
        /\ call.model \in Models
    BY ReconciliationAssumption DEF Calls
  <2>3. Cost(call.model, call.tokens) \in Nat
    BY <2>2, CostIsNat
  <2> DEFINE new == [time |-> call.time, model |-> call.model, tokens |-> call.tokens,
                     cost |-> Cost(call.model, call.tokens)]
  <2>4. new \in Settlements
    BY <2>2, <2>3 DEF Settlements
  <2>5. spends' = Append(spends, new) /\ invoice' = invoice
    BY <1>2, <2>1 DEF Settle
  <2> HIDE DEF new
  <2>6. spends' \in Seq(Settlements) /\ \A i \in DOMAIN spends :
           i \in DOMAIN spends' /\ spends'[i] = spends[i]
    BY <1>0, <2>4, <2>5
  <2> QED
    BY <1>0, <2>5, <2>6 DEF BooksInv, BooksTypes, LinesAreOfCalls
<1>3. ASSUME NEW line \in Lines, invoice' = Append(invoice, line), spends' = spends,
             line.of # 0 =>
               /\ line.of \in DOMAIN spends
               /\ line.time \in spends[line.of].time..(spends[line.of].time + TimeTolerance)
               /\ line.model = spends[line.of].model /\ line.tokens = spends[line.of].tokens
               /\ \A n \in DOMAIN invoice : invoice[n].of # line.of
      PROVE  BooksInv'
  <2>1. invoice' \in Seq(Lines)
    BY <1>0, <1>3
  <2>2. \A n \in DOMAIN invoice' :
          \/ n \in DOMAIN invoice /\ invoice'[n] = invoice[n]
          \/ n = Len(invoice) + 1 /\ invoice'[n] = line
    BY <1>0, <1>3
  <2> QED
    BY <1>0, <1>3, <2>1, <2>2 DEF BooksInv, BooksTypes, LinesAreOfCalls
<1>4. CASE Bill
  <2>1. PICK i \in DOMAIN spends, lag \in 0..TimeTolerance, cost \in {1, 2, -1} :
          /\ \A n \in DOMAIN invoice : invoice[n].of # i
          /\ invoice' = Append(invoice, RecordFromRow(
                [time |-> spends[i].time + lag, model |-> spends[i].model,
                 tokens |-> spends[i].tokens, of |-> i,
                 cost |-> IF cost = -1 THEN -1 ELSE cost * spends[i].cost]))
    BY <1>4 DEF Bill
  <2> DEFINE row == [time |-> spends[i].time + lag, model |-> spends[i].model,
                     tokens |-> spends[i].tokens, of |-> i,
                     cost |-> IF cost = -1 THEN -1 ELSE cost * spends[i].cost]
  <2>2. /\ spends[i] \in Settlements /\ spends[i].time \in Nat /\ spends[i].model \in Models
        /\ spends[i].tokens \in Nat /\ spends[i].cost \in Nat /\ i \in Nat \ {0}
        /\ TimeTolerance \in Nat
    <3>1. spends[i] \in Settlements /\ i \in Nat \ {0}
      BY <1>0
    <3> QED
      BY <3>1, ReconciliationAssumption DEF Settlements
  <2>3. row \in [time : Nat, model : Models, tokens : Nat, of : Nat, cost : Nat \cup {-1}]
    BY <2>2
  <2>4. row.of = i /\ row.time = spends[i].time + lag /\ row.model = spends[i].model
        /\ row.tokens = spends[i].tokens
    OBVIOUS
  <2>5. invoice' = Append(invoice, RecordFromRow(row)) /\ spends' = spends
    BY <1>4, <2>1 DEF Bill
  <2> HIDE DEF row
  <2>6. /\ RecordFromRow(row) \in Lines /\ RecordFromRow(row).of = i
        /\ RecordFromRow(row).time = spends[i].time + lag
        /\ RecordFromRow(row).model = spends[i].model
        /\ RecordFromRow(row).tokens = spends[i].tokens
    BY <2>3, <2>4, RecordIsALine
  <2>7. RecordFromRow(row).time \in spends[i].time..(spends[i].time + TimeTolerance)
    BY <2>2, <2>6
  <2> QED
    BY <1>3, <2>1, <2>5, <2>6, <2>7
<1>5. CASE BillUngoverned
  <2>1. PICK time \in 0..MaxTime, model \in Models, tokens \in Tokens :
          invoice' = Append(invoice, RecordFromRow(
            [time |-> time, model |-> model, tokens |-> tokens, of |-> 0,
             cost |-> IF model \in DOMAIN Price THEN Cost(model, tokens) ELSE -1]))
    BY <1>5 DEF BillUngoverned
  <2> DEFINE row == [time |-> time, model |-> model, tokens |-> tokens, of |-> 0,
                     cost |-> IF model \in DOMAIN Price THEN Cost(model, tokens) ELSE -1]
  <2>2. tokens \in Nat /\ time \in Nat
    BY ReconciliationAssumption
  <2>3. (IF model \in DOMAIN Price THEN Cost(model, tokens) ELSE -1) \in Nat \cup {-1}
    BY <2>2, CostIsNat
  <2>4. row \in [time : Nat, model : Models, tokens : Nat, of : Nat, cost : Nat \cup {-1}]
        /\ row.of = 0
    BY <2>2, <2>3
  <2>5. invoice' = Append(invoice, RecordFromRow(row)) /\ spends' = spends
    BY <1>5, <2>1 DEF BillUngoverned
  <2> HIDE DEF row
  <2>6. RecordFromRow(row) \in Lines /\ RecordFromRow(row).of = 0
    BY <2>4, RecordIsALine
  <2> QED
    BY <1>3, <2>5, <2>6
<1> QED
  BY <1>1, <1>2, <1>4, <1>5 DEF BooksNext, bookVars, Save, SaveCut, Restart

\* The books are kept.
LEMMA BooksHold == BooksSpec => []BooksInv
<1>1. BooksInit => BooksInv
  BY DEF BooksInit, BooksInv, BooksTypes, LinesAreOfCalls
<1> QED
  BY <1>1, BooksStep, PTL DEF BooksSpec

-----------------------------------------------------------------------------
(* The report.                                                             *)

\* A drift is a number, and that of a price from itself is none.
LEMMA DriftIsNat ==
    ASSUME NEW a \in Nat, NEW b \in Nat
    PROVE  Drift(a, b) \in Nat /\ Drift(a, a) = 0
<1>1. Distance(a, b) \in Nat /\ Distance(a, a) = 0
  BY DEF Distance
<1>2. ASSUME NEW d \in Nat, b # 0 PROVE (d * 10000) \div b \in Nat
  BY <1>2
<1>3. a # 0 => (0 * 10000) \div a = 0
  OBVIOUS
<1> QED
  BY <1>1, <1>2, <1>3 DEF Drift

\* What a journal that lost a call leaves of it (metered_records).
LEMMA MeteredTypes ==
    ASSUME BooksTypes, NEW i \in DOMAIN spends
    PROVE  /\ Metered(i).time = spends[i].time /\ spends[i].time \in Nat
           /\ Metered(i).cost = spends[i].cost /\ spends[i].cost \in Nat
           /\ Metered(i).tokens \in {-1, spends[i].tokens} /\ spends[i].tokens \in Nat
           /\ Metered(i).model \in {Unknown, spends[i].model}
<1>1. spends[i] \in Settlements
  BY DEF BooksTypes
<1> QED
  BY <1>1 DEF Metered, Settlements

\* A line has numbers.
LEMMA LineTypes ==
    ASSUME BooksTypes, NEW n \in DOMAIN invoice
    PROVE  /\ invoice[n].time \in Nat /\ invoice[n].tokens \in Nat /\ invoice[n].cost \in Nat
           /\ invoice[n].of \in Nat
<1>1. invoice[n] \in Lines
  BY DEF BooksTypes
<1> QED
  BY <1>1 DEF Lines

\* The candidates are every plausible pair, once.
LEMMA CandidatesArePairing ==
    ASSUME BooksTypes
    PROVE  /\ Pairing(Candidates)
           /\ \A c \in Candidates : c.line \in DOMAIN invoice /\ c.spend \in DOMAIN spends
<1> DEFINE pair(n, i) == [line |-> n, spend |-> i, score |-> Score(invoice[n], Metered(i))]
           Every == {pair(n, i) : n \in DOMAIN invoice, i \in DOMAIN spends}
<1>1. \A n \in DOMAIN invoice, i \in DOMAIN spends : pair(n, i) \in Pairs
  <2> SUFFICES ASSUME NEW n \in DOMAIN invoice, NEW i \in DOMAIN spends
               PROVE  Score(invoice[n], Metered(i)) \in Nat /\ n \in Nat /\ i \in Nat
    BY DEF Pairs
  <2>1. n \in Nat /\ i \in Nat
    BY DEF BooksTypes
  <2>2. Drift(invoice[n].cost, Metered(i).cost) \in Nat
    BY LineTypes, MeteredTypes, DriftIsNat
  <2>3. TokenDrift(invoice[n], Metered(i)) \in Nat
    BY LineTypes, MeteredTypes, DriftIsNat DEF TokenDrift
  <2>4. Distance(invoice[n].time, Metered(i).time) \in Nat
    BY LineTypes, MeteredTypes DEF Distance
  <2> QED
    BY <2>1, <2>2, <2>3, <2>4 DEF Score
<1>2. Candidates \subseteq Every
  BY DEF Candidates
<1>3. \A c \in Candidates : /\ c.line \in DOMAIN invoice /\ c.spend \in DOMAIN spends
                            /\ c = pair(c.line, c.spend)
  BY <1>2
<1>4. IsFiniteSet(Candidates)
  <2> DEFINE L == DOMAIN invoice
             S == DOMAIN spends
             f == [c \in Candidates |-> <<c.line, c.spend>>]
  <2>1. IsFiniteSet(L) /\ IsFiniteSet(S)
    <3>1. DOMAIN invoice = 1..Len(invoice) /\ Len(invoice) \in Nat
      BY DEF BooksTypes
    <3>2. DOMAIN spends = 1..Len(spends) /\ Len(spends) \in Nat
      BY DEF BooksTypes
    <3> QED
      BY <3>1, <3>2, FS_Interval
  <2>2. f \in [Candidates -> L \X S]
    BY <1>3
  <2>3. \A c, d \in Candidates : f[c] = f[d] => c = d
    <3> SUFFICES ASSUME NEW c \in Candidates, NEW d \in Candidates, f[c] = f[d] PROVE c = d
      OBVIOUS
    <3>1. c.line = d.line /\ c.spend = d.spend
      OBVIOUS
    <3>2. c = pair(c.line, c.spend) /\ d = pair(d.line, d.spend)
      BY <1>3
    <3> HIDE DEF pair
    <3> QED
      BY <3>1, <3>2
  <2> HIDE DEF L, S, f
  <2>4. IsFiniteSet(L \X S)
    BY <2>1, FS_Product
  <2>5. f \in Injection(Candidates, L \X S)
    BY <2>2, <2>3 DEF Injection, IsInjective
  <2> QED
    BY <2>4, <2>5, FS_Injection
<1>5. Candidates \subseteq Pairs
  BY <1>1, <1>2
<1> HIDE DEF pair
<1> QED
  BY <1>3, <1>4, <1>5 DEF Pairing

\* The report pairs as Claimed does.
LEMMA ReportIsStable ==
    ASSUME BooksTypes
    PROVE  /\ Stable(Candidates, Claimed(Candidates))
           /\ \A c \in Claimed(Candidates) : c.line \in DOMAIN invoice /\ c.spend \in DOMAIN spends
  BY CandidatesArePairing, ClaimedIsStable DEF Stable

\* No two sides that fit better together are left apart.
LEMMA StablePairs == BooksInv => NoBetterPair
<1> SUFFICES ASSUME BooksTypes PROVE NoBetterPair
  BY DEF BooksInv
<1>1. Report.matched \cup Report.discrepant = Claimed(Candidates)
  BY DEF Report
<1> QED
  BY <1>1, ReportIsStable DEF NoBetterPair, Stable

\* One line more than there are settlements is a phantom, by counting.
LEMMA UngovernedShows == BooksInv => UngovernedSpendFound
<1> SUFFICES ASSUME BooksTypes,
                    \A i \in DOMAIN spends : \E n \in DOMAIN invoice : invoice[n].of = i,
                    NEW odd \in DOMAIN invoice, invoice[odd].of = 0,
                    Passed(Report)
             PROVE  FALSE
  BY DEF BooksInv, UngovernedSpendFound
<1> DEFINE L == DOMAIN invoice
           S == DOMAIN spends
           claimed == Claimed(Candidates)
<1>1. L = 1..Len(invoice) /\ S = 1..Len(spends) /\ Len(invoice) \in Nat /\ Len(spends) \in Nat
  BY DEF BooksTypes
<1>2. IsFiniteSet(L) /\ IsFiniteSet(S)
  BY <1>1, FS_Interval
<1>3. \A n \in L : \E c \in claimed : c.line = n
  BY DEF Passed, Report
<1> DEFINE f == [n \in L |-> (CHOOSE c \in claimed : c.line = n).spend]
           g == [i \in S |-> CHOOSE n \in L : invoice[n].of = i]
<1>4. f \in Injection(L, S)
  <2>1. \A n \in L : \E c \in claimed : c.line = n /\ f[n] = c.spend
    BY <1>3
  <2>2. f \in [L -> S]
    BY <2>1, ReportIsStable
  <2>3. \A n, k \in L : f[n] = f[k] => n = k
    <3> SUFFICES ASSUME NEW n \in L, NEW k \in L, f[n] = f[k] PROVE n = k
      OBVIOUS
    <3> HIDE DEF f, L, claimed
    <3>1. PICK c \in claimed : c.line = n /\ f[n] = c.spend
      BY <2>1
    <3>2. PICK d \in claimed : d.line = k /\ f[k] = d.spend
      BY <2>1
    <3>3. c.spend = d.spend
      BY <3>1, <3>2
    <3>4. c = d
      BY <3>3, ReportIsStable DEF Stable, claimed
    <3> QED
      BY <3>1, <3>2, <3>4
  <2> HIDE DEF f, L, S
  <2> QED
    BY <2>2, <2>3 DEF Injection, IsInjective
<1>5. g \in Injection(S, L \ {odd})
  <2>1. \A i \in S : g[i] \in L /\ invoice[g[i]].of = i
    OBVIOUS
  <2>2. 0 \notin S
    BY <1>1
  <2>3. g \in [S -> L \ {odd}]
    BY <2>1, <2>2
  <2>4. \A i, j \in S : g[i] = g[j] => i = j
    <3> HIDE DEF g
    <3> QED
      BY <2>1
  <2> HIDE DEF g, L, S
  <2> QED
    BY <2>3, <2>4 DEF Injection, IsInjective
<1> HIDE DEF f, g, L, S
<1>6. Cardinality(L) <= Cardinality(S)
  BY <1>2, <1>4, FS_Injection
<1>7. IsFiniteSet(L \ {odd}) /\ Cardinality(L \ {odd}) = Cardinality(L) - 1
  BY <1>2, FS_RemoveElement DEF L
<1>8. Cardinality(S) <= Cardinality(L \ {odd})
  BY <1>5, <1>7, FS_Injection
<1>9. Cardinality(L) \in Nat /\ Cardinality(S) \in Nat
  BY <1>2, FS_CardinalityType
<1> QED
  BY <1>6, <1>7, <1>8, <1>9

\* Calls far apart have one candidate each, and it fits.
LEMMA HonestPasses == BooksInv => HonestInvoicePasses
<1> SUFFICES ASSUME BooksTypes, LinesAreOfCalls,
                    \A n \in DOMAIN invoice :
                      invoice[n].of # 0 /\ invoice[n].cost = spends[invoice[n].of].cost,
                    \A i, j \in DOMAIN spends :
                      i # j => Distance(spends[i].time, spends[j].time) > 2 * TimeTolerance
             PROVE  Passed(Report)
  BY DEF BooksInv, HonestInvoicePasses
<1> DEFINE claimed == Claimed(Candidates)
<1>0. {TimeTolerance, TokenTolerance, CostTolerance} \subseteq Nat
  BY ReconciliationAssumption
<1>1. \A n \in DOMAIN invoice :
        /\ invoice[n].of \in DOMAIN spends
        /\ invoice[n].time \in spends[invoice[n].of].time..(spends[invoice[n].of].time + TimeTolerance)
        /\ invoice[n].model = spends[invoice[n].of].model
        /\ invoice[n].tokens = spends[invoice[n].of].tokens
  BY DEF LinesAreOfCalls
<1>2. ASSUME NEW n \in DOMAIN invoice
      PROVE  Plausible(invoice[n], Metered(invoice[n].of))
  <2> DEFINE i == invoice[n].of
  <2>1. i \in DOMAIN spends
    BY <1>1
  <2>2. Distance(invoice[n].time, Metered(i).time) <= TimeTolerance
    BY <1>0, <1>1, <2>1, LineTypes, MeteredTypes DEF Distance
  <2>3. ModelsAgree(invoice[n].model, Metered(i).model)
    BY <1>1, <2>1, MeteredTypes DEF ModelsAgree
  <2>4. TokenDrift(invoice[n], Metered(i)) = 0
    BY <1>1, <2>1, MeteredTypes, DriftIsNat DEF TokenDrift
  <2> QED
    BY <1>0, <2>2, <2>3, <2>4 DEF Plausible
<1>3. ASSUME NEW c \in Candidates
      PROVE  c.spend = invoice[c.line].of
  <2>1. c.line \in DOMAIN invoice /\ c.spend \in DOMAIN spends
    BY CandidatesArePairing
  <2>2. Distance(invoice[c.line].time, Metered(c.spend).time) <= TimeTolerance
    BY DEF Candidates, Plausible
  <2> DEFINE i == invoice[c.line].of
             t == invoice[c.line].time
             a == spends[i].time
             b == spends[c.spend].time
  <2>3. i \in DOMAIN spends /\ t \in a..(a + TimeTolerance) /\ Distance(t, b) <= TimeTolerance
    BY <1>1, <2>1, <2>2, MeteredTypes
  <2>4. t \in Nat /\ a \in Nat /\ b \in Nat
    BY <2>1, <2>3, LineTypes, MeteredTypes
  <2>5. Distance(a, b) <= 2 * TimeTolerance
    <3> HIDE DEF a, b, t
    <3> QED
      BY <1>0, <2>3, <2>4 DEF Distance
  <2>6. Distance(a, b) \in Nat
    <3> HIDE DEF a, b
    <3> QED
      BY <2>4 DEF Distance
  <2> QED
    BY <1>0, <2>1, <2>3, <2>5, <2>6
<1>4. ASSUME NEW n \in DOMAIN invoice
      PROVE  \E d \in claimed : d.line = n
  <2> DEFINE c == [line |-> n, spend |-> invoice[n].of,
                   score |-> Score(invoice[n], Metered(invoice[n].of))]
  <2>1. c \in Candidates
    BY <1>1, <1>2 DEF Candidates
  <2>2. PICK d \in claimed : d.line = n \/ d.spend = invoice[n].of
    <3>1. c.line = n /\ c.spend = invoice[n].of
      OBVIOUS
    <3> HIDE DEF c
    <3> QED
      BY <2>1, <3>1, ReportIsStable DEF Stable
  <2>3. d \in Candidates /\ d.line \in DOMAIN invoice /\ d.spend = invoice[d.line].of
    BY <1>3, ReportIsStable DEF Stable
  <2> QED
    BY <2>2, <2>3 DEF LinesAreOfCalls
<1>5. ASSUME NEW c \in claimed
      PROVE  ~(Drift(invoice[c.line].cost, spends[c.spend].cost) > CostTolerance)
  <2>1. c \in Candidates /\ c.line \in DOMAIN invoice /\ c.spend = invoice[c.line].of
    BY <1>3, ReportIsStable DEF Stable
  <2>2. invoice[c.line].cost = spends[c.spend].cost /\ invoice[c.line].cost \in Nat
    BY <2>1, LineTypes
  <2>3. Drift(invoice[c.line].cost, spends[c.spend].cost) = 0
    BY <2>2, DriftIsNat
  <2> QED
    BY <1>0, <2>3
<1> QED
  BY <1>4, <1>5 DEF Passed, Report

\* No plausible line and settlement both do better together than as the report
\* pairs them: greedy best-first is stable, whatever was billed and however
\* much of the journal was lost (reconcile).
THEOREM MatchingIsStable == BooksSpec => []NoBetterPair
  BY BooksHold, StablePairs, PTL

\* An invoice that bills every settled call and one nobody settled never
\* passes, with or without a journal (reconcile, passed).
THEOREM UngovernedSpendIsFound == BooksSpec => []UngovernedSpendFound
  BY BooksHold, UngovernedShows, PTL

\* An invoice that bills settled calls at their price, each within the
\* tolerance, passes, however much of the journal was lost (reconcile,
\* metered_records).
THEOREM HonestInvoicesPass == BooksSpec => []HonestInvoicePasses
  BY BooksHold, HonestPasses, PTL

-----------------------------------------------------------------------------
(* The audit.                                                              *)

\* A mark, and a run under way.
Marks == [status : {"verified", "failed"}, sequence : Nat]

Runs == [until : Nat, position : Nat, due : SUBSET Nat]

\* The types the argument needs.
AuditTypes ==
    /\ length \in Nat
    /\ DOMAIN named \subseteq Nat
    /\ marks \in Seq(Marks)
    /\ run \in [Auditors -> Runs \cup {None}]

\* A run under way has behind it entries that were replayed, by itself or by
\* the run whose mark it started from.
BehindIsReplayed ==
    \A a \in Auditors : run[a] # None => 1..run[a].position \subseteq replayed

\* The invariant of the auditors.
AuditInv == AuditTypes /\ BehindIsReplayed /\ VerifiedWasReplayed

\* _resume starts at genesis or where a trusted mark says (Auditor._resume).
LEMMA ResumesAtAMark ==
    ASSUME AuditTypes
    PROVE  \/ ResumeFrom = 0
           \/ \E j \in DOMAIN marks :
                marks[j].status = "verified" /\ ResumeFrom = marks[j].sequence
<1> DEFINE of == {j \in DOMAIN marks : Trusted(marks[j])}
<1>1. CASE of = {}
  BY <1>1 DEF ResumeFrom
<1>2. CASE of # {}
  <2>1. of \subseteq 1..Len(marks) /\ Len(marks) \in Nat
    BY DEF AuditTypes
  <2>2. IsFiniteSet(of)
    <3>1. IsFiniteSet(1..Len(marks))
      BY <2>1, FS_Interval
    <3> HIDE DEF of
    <3> QED
      BY <2>1, <3>1, FS_Subset
  <2>3. \E j \in of : \A i \in of : i <= j
    <3>1. \A j \in of : j \in Int
      BY <2>1
    <3> HIDE DEF of
    <3> QED
      BY <1>2, <2>2, <3>1, GreatestOf
  <2> DEFINE last == CHOOSE j \in of : \A i \in of : i <= j
  <2>4. last \in of
    <3> HIDE DEF of
    <3> QED
      BY <2>3
  <2>5. ResumeFrom = marks[last].sequence
    BY <1>2 DEF ResumeFrom
  <2>6. last \in DOMAIN marks /\ marks[last].status = "verified"
    BY <2>4 DEF Trusted
  <2> QED
    BY <2>5, <2>6
<1> QED
  BY <1>1, <1>2

\* Recording a mark keeps the marks sound when the mark is.
LEMMA RecordKeeps ==
    ASSUME AuditTypes, VerifiedWasReplayed, NEW mark \in Marks, Record(mark),
           replayed \subseteq replayed',
           mark.status = "verified" => 1..mark.sequence \subseteq replayed'
    PROVE  marks' \in Seq(Marks) /\ VerifiedWasReplayed'
<1>1. CASE marks' = marks
  BY <1>1 DEF AuditTypes, VerifiedWasReplayed
<1>2. CASE marks' = Append(marks, mark)
  <2>1. marks' \in Seq(Marks) /\ Len(marks') = Len(marks) + 1 /\ Len(marks) \in Nat
    BY <1>2 DEF AuditTypes
  <2>2. \A j \in DOMAIN marks' :
          \/ j \in DOMAIN marks /\ marks'[j] = marks[j]
          \/ marks'[j] = mark
    BY <1>2, <2>1 DEF AuditTypes
  <2> QED
    BY <2>1, <2>2 DEF VerifiedWasReplayed
<1> QED
  BY <1>1, <1>2 DEF Record

\* No step of an auditor, a governor, the disk or an operator breaks it.
LEMMA AuditStep == AuditInv /\ [AuditNext]_auditVars => AuditInv'
<1> SUFFICES ASSUME AuditInv, [AuditNext]_auditVars PROVE AuditInv'
  OBVIOUS
<1> USE DEF AuditInv
<1>1. CASE UNCHANGED auditVars
  BY <1>1 DEF auditVars, AuditTypes, BehindIsReplayed, VerifiedWasReplayed
<1>2. CASE Open
  BY <1>2 DEF Open, AuditTypes, BehindIsReplayed, VerifiedWasReplayed
<1>3. CASE CloseGovernor
  BY <1>3, AuditAssumption DEF CloseGovernor, AuditTypes, BehindIsReplayed, VerifiedWasReplayed
<1>4. CASE Append1
  BY <1>4 DEF Append1, AuditTypes, BehindIsReplayed, VerifiedWasReplayed
<1>5. CASE TakeCheckpoint
  <2>1. DOMAIN named' = DOMAIN named \cup {length}
    BY <1>5 DEF TakeCheckpoint
  <2> QED
    BY <1>5, <2>1 DEF TakeCheckpoint, AuditTypes, BehindIsReplayed, VerifiedWasReplayed
<1>6. ASSUME NEW a \in Auditors, Follow(a) PROVE AuditInv'
  BY <1>6 DEF Follow, AuditTypes, BehindIsReplayed, VerifiedWasReplayed
<1>7. ASSUME NEW a \in Auditors, NEW start \in Nat, RunFrom(a, start),
             1..start \subseteq replayed
      PROVE  AuditInv'
  <2> DEFINE new == [until |-> length, position |-> start,
                     due |-> {s \in DOMAIN named : s <= length}]
  <2>1. new \in Runs
    BY DEF AuditTypes, Runs
  <2>2. run' = [run EXCEPT ![a] = new]
    BY <1>7 DEF RunFrom
  <2>3. run' \in [Auditors -> Runs \cup {None}]
    BY <2>1, <2>2 DEF AuditTypes
  <2>4. BehindIsReplayed'
    <3>1. new.position = start
      OBVIOUS
    <3> HIDE DEF new
    <3> QED
      BY <1>7, <2>2, <3>1 DEF RunFrom, AuditTypes, BehindIsReplayed
  <2> QED
    BY <1>7, <2>3, <2>4 DEF RunFrom, AuditTypes, VerifiedWasReplayed
<1>8. ASSUME NEW a \in Auditors, Begin(a) PROVE AuditInv'
  <2>1. ResumeFrom \in Nat /\ 1..ResumeFrom \subseteq replayed
    <3>1. CASE ResumeFrom = 0
      BY <3>1
    <3>2. ASSUME NEW j \in DOMAIN marks, marks[j].status = "verified",
                 ResumeFrom = marks[j].sequence
          PROVE  ResumeFrom \in Nat /\ 1..ResumeFrom \subseteq replayed
      <4>1. marks[j] \in Marks
        BY DEF AuditTypes
      <4>2. 1..marks[j].sequence \subseteq replayed
        BY <3>2 DEF VerifiedWasReplayed
      <4> QED
        BY <3>2, <4>1, <4>2 DEF Marks
    <3> QED
      BY <3>1, <3>2, ResumesAtAMark
  <2> QED
    BY <1>7, <1>8, <2>1 DEF Begin
<1>9. ASSUME NEW a \in Auditors, BeginAtGenesis(a) PROVE AuditInv'
  BY <1>7, <1>9 DEF BeginAtGenesis
<1>10. ASSUME NEW a \in Auditors, Replay(a) PROVE AuditInv'
  <2> DEFINE at == run[a].position + 1
  <2>1. run[a] \in Runs /\ run[a].position \in Nat /\ 1..run[a].position \subseteq replayed
    BY <1>10 DEF Replay, AuditTypes, Runs, BehindIsReplayed
  <2>2. replayed' = replayed \cup {at} /\ 1..at \subseteq replayed' /\ at \in Nat
    BY <1>10, <2>1 DEF Replay
  <2>3. marks' \in Seq(Marks) /\ VerifiedWasReplayed'
    <3>1. CASE UNCHANGED marks
      BY <2>2, <3>1 DEF AuditTypes, VerifiedWasReplayed
    <3>2. CASE Record(Mark("verified", at))
      <4>1. Mark("verified", at) \in Marks /\ Mark("verified", at).sequence = at
        BY <2>2 DEF Mark, Marks
      <4> QED
        BY <2>2, <3>2, <4>1, RecordKeeps
    <3> QED
      BY <1>10, <3>1, <3>2 DEF Replay
  <2>4. run' = [run EXCEPT ![a].position = at]
    BY <1>10 DEF Replay
  <2>5. run' \in [Auditors -> Runs \cup {None}]
    BY <2>1, <2>2, <2>4 DEF AuditTypes, Runs
  <2>6. BehindIsReplayed'
    BY <2>1, <2>2, <2>4 DEF AuditTypes, Runs, BehindIsReplayed
  <2> QED
    BY <1>10, <2>3, <2>5, <2>6 DEF Replay, AuditTypes
<1>11. ASSUME NEW a \in Auditors, Fail(a) PROVE AuditInv'
  <2> DEFINE at == run[a].position + 1
             mark == Mark("failed", at + (IF at \in bad THEN 0 ELSE 1))
  <2>1. mark \in Marks /\ mark.status = "failed"
    BY <1>11 DEF Fail, AuditTypes, Runs, Mark, Marks
  <2>2. Record(mark) /\ replayed' = replayed
    BY <1>11 DEF Fail
  <2> HIDE DEF mark
  <2>3. marks' \in Seq(Marks) /\ VerifiedWasReplayed'
    BY <2>1, <2>2, RecordKeeps
  <2> QED
    BY <1>11, <2>3 DEF Fail, AuditTypes, BehindIsReplayed
<1>12. ASSUME NEW a \in Auditors, Finish(a) PROVE AuditInv'
  <2>1. /\ run[a].until \in Nat /\ run[a].until = run[a].position
        /\ 1..run[a].until \subseteq replayed
    BY <1>12 DEF Finish, AuditTypes, Runs, BehindIsReplayed
  <2>2. /\ Mark("verified", run[a].until) \in Marks
        /\ Mark("verified", run[a].until).sequence = run[a].until
    BY <2>1 DEF Mark, Marks
  <2>3. Record(Mark("verified", run[a].until)) /\ replayed' = replayed
    BY <1>12 DEF Finish
  <2>4. marks' \in Seq(Marks) /\ VerifiedWasReplayed'
    BY <2>1, <2>2, <2>3, RecordKeeps
  <2> QED
    BY <1>12, <2>4 DEF Finish, AuditTypes, BehindIsReplayed
<1>13. ASSUME NEW a \in Auditors, Stop(a) PROVE AuditInv'
  BY <1>13 DEF Stop, AuditTypes, BehindIsReplayed, VerifiedWasReplayed
<1>14. CASE DamageEntry
  BY <1>14 DEF DamageEntry, AuditTypes, BehindIsReplayed, VerifiedWasReplayed
<1>15. CASE DamageSnapshot
  BY <1>15 DEF DamageSnapshot, AuditTypes, BehindIsReplayed, VerifiedWasReplayed
<1>16. CASE Restore
  BY <1>16 DEF Restore, AuditTypes, BehindIsReplayed, VerifiedWasReplayed
<1> QED
  BY <1>1, <1>2, <1>3, <1>4, <1>5, <1>6, <1>8, <1>9, <1>10, <1>11, <1>12, <1>13, <1>14,
     <1>15, <1>16 DEF AuditNext

\* A mark that says the chain verified up to a sequence is backed by a replay
\* of every entry up to it, however many auditors resume from each other's
\* marks, stop, fail and are restored between (Auditor.run, _resume, _mark).
THEOREM MarksAreBacked == AuditSpec => []VerifiedWasReplayed
<1>1. AuditInit => AuditInv
  BY DEF AuditInit, AuditInv, AuditTypes, BehindIsReplayed, VerifiedWasReplayed
<1>2. AuditInv => VerifiedWasReplayed
  BY DEF AuditInv
<1> QED
  BY <1>1, <1>2, AuditStep, PTL DEF AuditSpec
=============================================================================
