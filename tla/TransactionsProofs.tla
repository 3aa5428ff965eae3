------------------------- MODULE TransactionsProofs -------------------------
(***************************************************************************)
(* Proofs about units of work and retried calls: for every set of scopes   *)
(* and keys and every bound, a call made under a key is written once and   *)
(* its answer stands, a spend is whole, and a block that fails leaves its  *)
(* breaker trips and nothing else.                                         *)
(***************************************************************************)
EXTENDS Transactions, SequenceTheorems, TLAPS

CallOps == {"authorize", "delegate", "spend", "capture", "void"}
Ops     == CallOps \union {"bare spend", "trip", "reset"}
Asks    == [op : CallOps, scope : Scopes, ref : Nat]
Entries ==
    [kind : {"open", "hold", "settle", "trip", "reset"}, scope : Scopes,
     ref : Nat, op : Ops, key : Keys \union {None}]
Records == [request : Asks, sequence : Nat]
Pending == [key : Keys \union {None}, hold : Nat]
Told    == [key : Keys, record : Records]
Latches == [scope : Scopes, byTrip : BOOLEAN]
Active  == {"bare", "block", "unit"}
Modes   == Active \union {"idle", "retrip", "raised", "down"}

Types ==
    /\ durable \in BOOLEAN
    /\ disk \in Seq(Entries) /\ view \in Seq(Entries)
    /\ diskKeys \in [Keys -> Records \union {None}]
    /\ keys \in [Keys -> Records \union {None}]
    /\ mode \in Modes
    /\ mark \in Nat
    /\ failed \in BOOLEAN
    /\ trips \in Seq(Scopes)
    /\ settling \in Pending \union {None}
    /\ unitCalls \in [Keys -> Records \union {None}]
    /\ keyCache \in [Keys -> Records \union {None, Unread}]
    /\ held \subseteq Told /\ given \subseteq Told
    /\ latched \subseteq Latches
    /\ unwritten \subseteq Scopes
    /\ unusable \in BOOLEAN

\* What goes with each use of the governor's lock.
Places ==
    /\ unusable => durable /\ mode \in {"idle", "retrip", "raised"}
    /\ mode \in {"unit", "down"} => durable
    /\ failed => Deferred
    /\ mode \notin {"block", "unit"} => held = {}
    /\ mode \notin {"block", "retrip"} => trips = <<>>
    /\ mode \notin {"block", "retrip", "raised"} => latched = {}
    /\ settling # None => mode \in Active

\* Outside a block or a shared unit of work the view and the records are the
\* store's; with no store there is nothing on disk.
Synced ==
    /\ durable /\ mode \notin {"block", "unit"} =>
           /\ keys = diskKeys
           /\ mode # "down" /\ ~unusable => view = disk
    /\ ~durable => disk = <<>> /\ diskKeys = NoCalls

\* What a unit of work remembers of a key is what is recorded of it.
AsKept == \A k \in Keys : Known(k) = keys[k]

\* Every answer, given or waiting for the commit, is on record, and what was
\* given before a block without a store began is on record before its mark.
Answered ==
    /\ \A a \in given : Recorded[a.key] = a.record /\ keys[a.key] = a.record
    /\ \A a \in held : keys[a.key] = a.record
    /\ ~durable /\ mode = "block" => \A a \in given : a.record.sequence <= mark

Marked ==
    mode = "block" =>
        IF durable THEN mark = Len(disk) ELSE mark <= Len(view)

\* A block that has failed: what it leaves, and its trips being written again.
Survivors ==
    mode \in {"retrip", "raised"} =>
        /\ \A i \in DOMAIN Ledger : i > mark =>
               /\ Ledger[i].kind = "trip"
               /\ [scope |-> Ledger[i].scope, byTrip |-> TRUE] \in latched
        /\ \A k \in Keys : Recorded[k] # None => Recorded[k].sequence <= mark
        /\ \A i \in DOMAIN trips : [scope |-> trips[i], byTrip |-> TRUE] \in latched

Listed(s) == \E i \in DOMAIN trips : trips[i] = s

Outlived ==
    \A l \in latched : l.byTrip =>
        /\ mode = "block" => Listed(l.scope)
        /\ mode \in {"retrip", "raised"} =>
               Listed(l.scope) \/ Tripped(Ledger, l.scope) \/ MayBeMissing(l.scope)

TripsListed ==
    mode = "block" => \A i \in DOMAIN trips : [scope |-> trips[i], byTrip |-> TRUE] \in latched

Settled(c, i) == \E j \in DOMAIN c : c[j].kind = "settle" /\ c[j].ref = i

\* A spend's hold is settled unless its settlement is the next write, or the
\* unit of work it is in can only roll back.
Whole ==
    /\ \A i \in DOMAIN disk : disk[i].kind = "hold" /\ disk[i].op = "spend" => Settled(disk, i)
    /\ durable /\ mode # "down" /\ ~unusable /\ ~failed =>
           \A i \in DOMAIN view :
               view[i].kind = "hold" /\ view[i].op = "spend" =>
                   Settled(view, i) \/ (Deferred /\ settling # None /\ i = settling.hold)

Midway ==
    settling # None =>
        /\ settling.hold \in DOMAIN view
        /\ settling.key # None /\ ~durable => keys[settling.key] = None

TxInv ==
    /\ Types /\ Places /\ Synced /\ KeyedOnce /\ AsKept /\ Answered /\ Marked
    /\ Survivors /\ Outlived /\ TripsListed /\ Whole /\ Midway

----------------------------------------------------------------------------
(* Chains *)

LEMMA Joined ==
    ASSUME NEW S, NEW c \in Seq(S), NEW es \in Seq(S)
    PROVE  /\ c \o es \in Seq(S)
           /\ Len(c) \in Nat /\ Len(es) \in Nat /\ Len(c \o es) = Len(c) + Len(es)
           /\ DOMAIN c = 1..Len(c) /\ DOMAIN es = 1..Len(es)
           /\ DOMAIN (c \o es) = 1..(Len(c) + Len(es))
           /\ \A i \in 1..Len(c) : (c \o es)[i] = c[i]
           /\ \A i \in 1..Len(es) : (c \o es)[Len(c) + i] = es[i]
           /\ \A i \in 1..(Len(c) + Len(es)) :
                  \/ i \in 1..Len(c) /\ (c \o es)[i] = c[i]
                  \/ \E j \in 1..Len(es) : i = Len(c) + j /\ (c \o es)[i] = es[j]
<1>1. /\ Len(c) \in Nat /\ Len(es) \in Nat
      /\ DOMAIN c = 1..Len(c) /\ DOMAIN es = 1..Len(es)
  BY LenProperties
<1>2. /\ c \o es \in Seq(S) /\ Len(c \o es) = Len(c) + Len(es)
      /\ \A i \in 1..(Len(c) + Len(es)) :
             (c \o es)[i] = IF i <= Len(c) THEN c[i] ELSE es[i - Len(c)]
  BY ConcatProperties
<1>3. DOMAIN (c \o es) = 1..(Len(c) + Len(es))
  BY <1>2, LenProperties
<1>4. ASSUME NEW i \in 1..(Len(c) + Len(es))
      PROVE  \/ i \in 1..Len(c) /\ (c \o es)[i] = c[i]
             \/ \E j \in 1..Len(es) : i = Len(c) + j /\ (c \o es)[i] = es[j]
  <2>1. CASE i <= Len(c)
    BY <1>1, <1>2, <2>1
  <2>2. CASE i > Len(c)
    <3>1. i - Len(c) \in 1..Len(es) /\ i = Len(c) + (i - Len(c)) /\ ~(i <= Len(c))
      BY <1>1, <2>2
    <3>2. (c \o es)[i] = es[i - Len(c)]
      BY <1>2, <3>1
    <3> QED
      BY <3>1, <3>2
  <2> QED
    BY <1>1, <2>1, <2>2
<1>5. \A i \in 1..Len(c) : (c \o es)[i] = c[i]
  BY <1>1, <1>2
<1>6. ASSUME NEW i \in 1..Len(es) PROVE (c \o es)[Len(c) + i] = es[i]
  <2>1. Len(c) + i \in 1..(Len(c) + Len(es)) /\ ~(Len(c) + i <= Len(c)) /\ (Len(c) + i) - Len(c) = i
    BY <1>1
  <2> QED
    BY <1>2, <2>1
<1> QED
  BY <1>1, <1>2, <1>3, <1>4, <1>5, <1>6

\* The entries a call writes and the record of it.
Sound(es, k, r, recorded) ==
    /\ es \in Seq(Entries) /\ Len(es) > 0
    /\ k \in Keys \union {None}
    /\ es[1].key = k
    /\ \A i \in 1..Len(es) : i # 1 => es[i].key = None
    /\ k # None => /\ recorded[k] = None
                   /\ r \in Asks
                   /\ es[1].op = r.op /\ es[1].scope = r.scope

\* The records, once a call is among them.
With(recorded, k, r, n) ==
    IF k = None THEN recorded ELSE [recorded EXCEPT ![k] = [request |-> r, sequence |-> n]]

\* One write of a call's entries and its record keeps them matching.
LEMMA Recording ==
    ASSUME NEW c \in Seq(Entries), NEW recorded \in [Keys -> Records \union {None}],
           NEW es, NEW k, NEW r, Sound(es, k, r, recorded), RecordsMatch(c, recorded)
    PROVE  /\ RecordsMatch(c \o es, With(recorded, k, r, Len(c) + 1))
           /\ With(recorded, k, r, Len(c) + 1) \in [Keys -> Records \union {None}]
           /\ \A q \in Keys : With(recorded, k, r, Len(c) + 1)[q] # recorded[q] =>
                                  q = k /\ recorded[q] = None
<1> PICK new : new = With(recorded, k, r, Len(c) + 1)
  OBVIOUS
<1>w. new = IF k = None THEN recorded
            ELSE [recorded EXCEPT ![k] = [request |-> r, sequence |-> Len(c) + 1]]
  BY DEF With
<1>0. es \in Seq(Entries) /\ Len(es) > 0 /\ k \in Keys \union {None} /\ None \notin Keys
  BY TransactionsAssumption DEF Sound
<1> PICK d : d = c \o es
  OBVIOUS
<1>1. /\ Len(c) \in Nat /\ Len(es) \in Nat
      /\ DOMAIN c = 1..Len(c)
      /\ DOMAIN d = 1..(Len(c) + Len(es))
      /\ \A i \in 1..Len(c) : d[i] = c[i]
      /\ \A i \in 1..Len(es) : d[Len(c) + i] = es[i]
      /\ \A i \in 1..(Len(c) + Len(es)) :
             \/ i \in 1..Len(c) /\ d[i] = c[i]
             \/ \E j \in 1..Len(es) : i = Len(c) + j /\ d[i] = es[j]
  BY <1>0, Joined
<1>2. k # None => [request |-> r, sequence |-> Len(c) + 1] \in Records
  BY <1>1 DEF Sound, Records
<1>3. new \in [Keys -> Records \union {None}]
  BY <1>0, <1>2, <1>w
<1>4. \A q \in Keys : q # k => new[q] = recorded[q]
  BY <1>0, <1>w
<1>5. \A q \in Keys : new[q] # recorded[q] => q = k /\ recorded[q] = None
  BY <1>0, <1>4, <1>w DEF Sound
<1>6. ASSUME NEW q \in Keys, q # k
      PROVE  {i \in DOMAIN d : d[i].key = q} = {i \in DOMAIN c : c[i].key = q}
  <2>1. q # None /\ \A j \in 1..Len(es) : es[j].key # q
    BY <1>0, <1>1, <1>6 DEF Sound
  <2>2. \A i \in DOMAIN c : i \in DOMAIN d /\ d[i] = c[i]
    BY <1>1
  <2>3. \A i \in DOMAIN d : d[i].key = q => i \in DOMAIN c /\ c[i].key = q
    BY <1>1, <2>1, SMTT(20)
  <2> QED
    BY <2>2, <2>3
<1>7. ASSUME NEW q \in Keys, q # k, recorded[q] # None
      PROVE  d[recorded[q].sequence] = c[recorded[q].sequence]
  <2>1. recorded[q].sequence \in DOMAIN c
    BY <1>7 DEF RecordsMatch
  <2> QED
    BY <1>1, <2>1
<1>8. ASSUME k # None
      PROVE  /\ new[k] = [request |-> r, sequence |-> Len(c) + 1] /\ new[k] # None
             /\ {i \in DOMAIN d : d[i].key = k} = {Len(c) + 1}
             /\ d[Len(c) + 1] = es[1]
  <2>1. k \in Keys /\ new[k] = [request |-> r, sequence |-> Len(c) + 1]
    BY <1>0, <1>8, <1>w
  <2>2. new[k] # None
    BY <1>2, <1>8, <2>1, TransactionsAssumption DEF Records, Asks, CallOps
  <2>3. \A i \in DOMAIN c : c[i].key # k
    BY <1>8, <2>1 DEF RecordsMatch, Sound
  <2>4. d[Len(c) + 1] = es[1] /\ Len(c) + 1 \in DOMAIN d
    BY <1>0, <1>1
  <2>5. es[1].key = k /\ \A j \in 1..Len(es) : es[j].key = k => j = 1
    BY <1>8 DEF Sound
  <2>6. \A i \in DOMAIN d : d[i].key = k => i = Len(c) + 1
    BY <1>1, <2>3, <2>5
  <2> QED
    BY <2>1, <2>2, <2>4, <2>5, <2>6
<1>9. RecordsMatch(d, new)
  <2> SUFFICES ASSUME NEW q \in Keys
               PROVE  IF new[q] = None
                        THEN \A i \in DOMAIN d : d[i].key # q
                        ELSE /\ {i \in DOMAIN d : d[i].key = q} = {new[q].sequence}
                             /\ d[new[q].sequence].op = new[q].request.op
                             /\ d[new[q].sequence].scope = new[q].request.scope
    BY DEF RecordsMatch
  <2>1. CASE q = k
    <3>1. k # None
      BY <1>0, <2>1
    <3>2. r.op = es[1].op /\ r.scope = es[1].scope
      BY <3>1 DEF Sound
    <3> QED
      BY <1>8, <2>1, <3>1, <3>2
  <2>2. CASE q # k
    <3>1. new[q] = recorded[q]
      BY <1>4, <2>2
    <3>2. CASE recorded[q] = None
      <4>1. {i \in DOMAIN c : c[i].key = q} = {}
        BY <3>2 DEF RecordsMatch
      <4>2. {i \in DOMAIN d : d[i].key = q} = {}
        BY <1>6, <2>2, <4>1
      <4> QED
        BY <3>1, <3>2, <4>2
    <3>3. CASE recorded[q] # None
      <4>1. /\ {i \in DOMAIN c : c[i].key = q} = {recorded[q].sequence}
            /\ c[recorded[q].sequence].op = recorded[q].request.op
            /\ c[recorded[q].sequence].scope = recorded[q].request.scope
        BY <3>3 DEF RecordsMatch
      <4> QED
        BY <1>6, <1>7, <2>2, <3>1, <3>3, <4>1
    <3> QED
      BY <3>2, <3>3
  <2> QED
    BY <2>1, <2>2
<1> QED
  BY <1>3, <1>5, <1>9

Without(recorded, m) ==
    [k \in Keys |-> IF recorded[k] # None /\ recorded[k].sequence > m THEN None ELSE recorded[k]]

\* Forgetting the calls recorded after a mark and the entries after it keeps
\* the two matching.
LEMMA Rewinding ==
    ASSUME NEW c \in Seq(Entries), NEW recorded \in [Keys -> Records \union {None}],
           RecordsMatch(c, recorded), NEW m \in Nat, m <= Len(c)
    PROVE  /\ SubSeq(c, 1, m) \in Seq(Entries) /\ Len(SubSeq(c, 1, m)) = m
           /\ \A i \in 1..m : SubSeq(c, 1, m)[i] = c[i]
           /\ Without(recorded, m) \in [Keys -> Records \union {None}]
           /\ RecordsMatch(SubSeq(c, 1, m), Without(recorded, m))
<1> PICK d, new : d = SubSeq(c, 1, m) /\ new = Without(recorded, m)
  OBVIOUS
<1>w. \A k \in Keys : new[k] = IF recorded[k] # None /\ recorded[k].sequence > m
                                 THEN None ELSE recorded[k]
  BY DEF Without
<1>0. Len(c) \in Nat /\ DOMAIN c = 1..Len(c)
  BY LenProperties
<1>1. d \in Seq(Entries) /\ Len(d) = m /\ DOMAIN d = 1..m /\ \A i \in 1..m : d[i] = c[i]
  <2>1. \A i \in 1..m : c[i] \in Entries
    BY <1>0, ElementOfSeq
  <2>2. /\ d \in Seq(Entries)
        /\ Len(d) = IF 1 <= m THEN m - 1 + 1 ELSE 0
        /\ \A i \in 1..(m - 1 + 1) : d[i] = c[1 + i - 1]
    BY <1>0, <2>1, SubSeqProperties
  <2>3. Len(d) = m /\ \A i \in 1..m : d[i] = c[i]
    BY <2>2
  <2> QED
    BY <2>2, <2>3, LenProperties
<1>2. new \in [Keys -> Records \union {None}]
  BY DEF Without
<1>3. ASSUME NEW q \in Keys
      PROVE  {i \in DOMAIN d : d[i].key = q} = {i \in DOMAIN c : c[i].key = q /\ i <= m}
  BY <1>0, <1>1
<1>4. ASSUME NEW q \in Keys
      PROVE  IF new[q] = None
               THEN \A i \in DOMAIN d : d[i].key # q
               ELSE /\ {i \in DOMAIN d : d[i].key = q} = {new[q].sequence}
                    /\ d[new[q].sequence].op = new[q].request.op
                    /\ d[new[q].sequence].scope = new[q].request.scope
  <2>1. CASE recorded[q] = None
    <3>1. new[q] = None /\ {i \in DOMAIN c : c[i].key = q} = {}
      BY <1>w, <2>1 DEF RecordsMatch
    <3>2. {i \in DOMAIN d : d[i].key = q} = {}
      BY <1>3, <3>1
    <3> QED
      BY <3>1, <3>2
  <2>2. CASE recorded[q] # None
    <3>1. /\ {i \in DOMAIN c : c[i].key = q} = {recorded[q].sequence}
          /\ c[recorded[q].sequence].op = recorded[q].request.op
          /\ c[recorded[q].sequence].scope = recorded[q].request.scope
          /\ recorded[q] \in Records
      BY <2>2 DEF RecordsMatch
    <3>2. recorded[q].sequence \in 1..Len(c)
      BY <1>0, <3>1
    <3>3. CASE recorded[q].sequence > m
      <4>1. {i \in DOMAIN d : d[i].key = q} = {}
        BY <1>0, <1>3, <3>1, <3>2, <3>3
      <4>2. new[q] = None
        BY <1>w, <2>2, <3>3
      <4> QED
        BY <4>1, <4>2
    <3>4. CASE recorded[q].sequence <= m
      <4>1. new[q] = recorded[q]
        BY <1>0, <1>w, <3>2, <3>4
      <4>2. {i \in DOMAIN d : d[i].key = q} = {recorded[q].sequence}
        BY <1>0, <1>3, <3>1, <3>2, <3>4
      <4>3. d[recorded[q].sequence] = c[recorded[q].sequence]
        BY <1>1, <3>2, <3>4
      <4> QED
        BY <2>2, <3>1, <4>1, <4>2, <4>3
    <3>5. recorded[q].sequence > m \/ recorded[q].sequence <= m
      BY <3>2
    <3> QED
      BY <3>3, <3>4, <3>5
  <2> QED
    BY <2>1, <2>2
<1>5. RecordsMatch(d, new)
  BY <1>4 DEF RecordsMatch
<1> QED
  BY <1>1, <1>2, <1>5

----------------------------------------------------------------------------
(* What a call does to the chain *)

Chained ==
    /\ disk \in Seq(Entries) /\ view \in Seq(Entries)
    /\ diskKeys \in [Keys -> Records \union {None}]
    /\ keys \in [Keys -> Records \union {None}]

\* A step that adds entries to the chain, or none, and records at most the
\* call under one key.
Adds(es, k) ==
    /\ es \in Seq(Entries) /\ view' = view \o es
    /\ \A q \in Keys : keys'[q] # keys[q] => q = k /\ keys[q] = None
    /\ Deferred => UNCHANGED <<disk, diskKeys>>
    /\ disk' \in {disk, view'} /\ diskKeys' \in {diskKeys, keys'}
    /\ failed' \in BOOLEAN /\ (failed' => Deferred) /\ (failed => failed')

\* The mode a call leaves.
Stays == mode' = mode \/ (mode = "bare" /\ mode' = "idle")

LEMMA CommitAdds ==
    ASSUME TxInv, mode \in Active \union {"retrip"}, ~unusable, Stays,
           UNCHANGED <<durable, unusable>>,
           NEW es, NEW k, NEW r, Sound(es, k, r, keys), Commit(es, k, r)
    PROVE  /\ Adds(es, k) /\ Chained' /\ Synced' /\ KeyedOnce'
           /\ k # None => keys'[k] = Made(k, r)
           /\ UNCHANGED failed
           /\ durable /\ ~Deferred => disk' = view'
<1>0. /\ Chained /\ durable \in BOOLEAN /\ failed \in BOOLEAN /\ mode \in Modes
      /\ Synced /\ KeyedOnce /\ Places
      /\ RecordsMatch(view, keys)
  BY DEF TxInv, Types, Chained, KeyedOnce, Active
<1>1. es \in Seq(Entries) /\ view' = view \o es /\ view' \in Seq(Entries)
  BY <1>0, ConcatProperties DEF Sound, Commit, Chained
<1>2. keys' = IF k = None THEN keys
              ELSE [keys EXCEPT ![k] = [request |-> r, sequence |-> Len(view) + 1]]
  BY DEF Commit, Record
<1>3. /\ RecordsMatch(view', keys')
      /\ keys' \in [Keys -> Records \union {None}]
      /\ \A q \in Keys : keys'[q] # keys[q] => q = k /\ keys[q] = None
  <2>1. view \in Seq(Entries) /\ keys \in [Keys -> Records \union {None}]
    BY <1>0 DEF Chained
  <2>2. keys' = With(keys, k, r, Len(view) + 1)
    BY <1>2 DEF With
  <2>3. /\ RecordsMatch(view \o es, With(keys, k, r, Len(view) + 1))
        /\ With(keys, k, r, Len(view) + 1) \in [Keys -> Records \union {None}]
        /\ \A q \in Keys : With(keys, k, r, Len(view) + 1)[q] # keys[q] =>
                               q = k /\ keys[q] = None
    BY <1>0, <2>1, Recording
  <2> QED
    BY <1>1, <2>2, <2>3
<1>4. /\ UNCHANGED failed
      /\ durable /\ ~Deferred => disk' = view' /\ diskKeys' = keys'
      /\ ~(durable /\ ~Deferred) => UNCHANGED <<disk, diskKeys>>
  BY DEF Commit
<1>5. Adds(es, k)
  <2>1. failed' \in BOOLEAN /\ (failed' => Deferred) /\ (failed => failed')
    BY <1>0, <1>4 DEF Places
  <2> QED
    BY <1>1, <1>3, <1>4, <2>1 DEF Adds
<1>6. Chained'
  BY <1>0, <1>1, <1>3, <1>4 DEF Chained
<1>7. mode' # "down" /\ ~unusable'
  BY DEF Stays, Active
<1>8. Synced'
  <2>1. CASE durable
    <3>1. CASE Deferred
      <4>1. mode' \in {"block", "unit"} /\ durable'
        BY <3>1 DEF Stays, Deferred
      <4> QED
        BY <4>1 DEF Synced
    <3>2. CASE ~Deferred
      BY <1>4, <2>1, <3>2 DEF Synced
    <3> QED
      BY <3>1, <3>2
  <2>2. CASE ~durable
    BY <1>0, <1>4, <2>2 DEF Synced, NoCalls
  <2> QED
    BY <2>1, <2>2
<1>9. KeyedOnce'
  <2>1. RecordsMatch(disk, diskKeys)
    BY <1>0 DEF KeyedOnce
  <2>2. RecordsMatch(disk', diskKeys')
    <3>1. CASE durable /\ ~Deferred
      BY <1>3, <1>4, <3>1
    <3>2. CASE ~(durable /\ ~Deferred)
      BY <1>4, <2>1, <3>2
    <3> QED
      BY <3>1, <3>2
  <2>3. RecordsMatch(disk, diskKeys)' /\ RecordsMatch(view, keys)'
    BY <1>3, <2>2 DEF RecordsMatch
  <2> QED
    BY <2>3 DEF KeyedOnce
<1>10. k # None => keys'[k] = Made(k, r)
  BY <1>0, <1>2 DEF Made, Chained, Sound
<1> QED
  BY <1>4, <1>5, <1>6, <1>8, <1>9, <1>10

LEMMA KeepAdds ==
    ASSUME TxInv, mode \in Active, Stays, UNCHANGED <<durable, unusable>>,
           Fail \/ UNCHANGED <<chain, unit>>, NEW k
    PROVE  /\ Adds(<<>>, k) /\ Chained' /\ Synced' /\ KeyedOnce'
           /\ UNCHANGED <<disk, diskKeys, view, keys>>
           /\ failed \/ failed' = Deferred \/ UNCHANGED failed
<1>0. /\ Chained /\ durable \in BOOLEAN /\ failed \in BOOLEAN /\ mode \in Modes
      /\ Synced /\ KeyedOnce /\ Places
  BY DEF TxInv, Types, Chained
<1>1. UNCHANGED <<disk, diskKeys, view, keys>>
  BY DEF Fail, chain
<1>2. failed' = Deferred \/ failed' = failed
  BY DEF Fail, unit
<1>3. failed' \in BOOLEAN /\ (failed' => Deferred) /\ (failed => failed')
  BY <1>0, <1>2 DEF Places, Deferred
<1>4. <<>> \in Seq(Entries) /\ view' = view \o <<>>
  BY <1>0, <1>1, EmptySeq, ConcatEmptySeq DEF Chained
<1>5. Adds(<<>>, k)
  BY <1>1, <1>3, <1>4 DEF Adds
<1>6. Chained'
  BY <1>0, <1>1 DEF Chained
<1>7. ~unusable /\ mode # "down"
  BY <1>0 DEF Places, Active
<1>8. Synced'
  BY <1>0, <1>1, <1>7 DEF Synced, Stays, NoCalls
<1>9. KeyedOnce'
  <2>1. RecordsMatch(disk, diskKeys)' /\ RecordsMatch(view, keys)'
    BY <1>0, <1>1, <1>7 DEF KeyedOnce, RecordsMatch
  <2> QED
    BY <2>1 DEF KeyedOnce
<1> QED
  BY <1>1, <1>2, <1>5, <1>6, <1>8, <1>9

----------------------------------------------------------------------------
(* What a call answers *)

Asked ==
    /\ unitCalls \in [Keys -> Records \union {None}]
    /\ keyCache \in [Keys -> Records \union {None, Unread}]
    /\ held \subseteq Told /\ given \subseteq Told

LEMMA ReturnStays ==
    ASSUME NEW k, NEW recorded, NEW returned, Return(k, recorded, returned)
    PROVE  Stays
  BY DEF Return, Stays

\* Looking a key up changes nothing of what is known.
LEMMA LookingUp ==
    ASSUME Types, AsKept, NEW k \in Keys \union {None}
    PROVE  /\ LookedUp(k) \in [Keys -> Records \union {None, Unread}]
           /\ \A q \in Keys : unitCalls[q] = None /\ LookedUp(k)[q] # Unread =>
                                  LookedUp(k)[q] = keys[q]
<1>1. /\ keyCache \in [Keys -> Records \union {None, Unread}]
      /\ keys \in [Keys -> Records \union {None}]
  BY DEF Types
<1>2. CASE k # None /\ durable /\ unitCalls[k] = None
  <2>1. k \in Keys /\ LookedUp(k) = [keyCache EXCEPT ![k] = keys[k]]
    BY <1>2 DEF LookedUp, AsKept
  <2>2. \A q \in Keys : q # k => LookedUp(k)[q] = keyCache[q]
    BY <1>1, <2>1
  <2>3. LookedUp(k)[k] = keys[k]
    BY <1>1, <2>1
  <2>4. \A q \in Keys : unitCalls[q] = None /\ keyCache[q] # Unread => keyCache[q] = keys[q]
    BY DEF AsKept, Known
  <2>5. LookedUp(k) \in [Keys -> Records \union {None, Unread}]
    BY <1>1, <2>1
  <2> QED
    BY <2>2, <2>3, <2>4, <2>5
<1>3. CASE ~(k # None /\ durable /\ unitCalls[k] = None)
  <2>1. LookedUp(k) = keyCache
    BY <1>3 DEF LookedUp
  <2> QED
    BY <1>1, <2>1 DEF AsKept, Known
<1> QED
  BY <1>2, <1>3

LEMMA Returning ==
    ASSUME TxInv, mode \in Active, UNCHANGED <<durable, mark>>,
           NEW es, NEW k \in Keys \union {None}, NEW recorded, NEW returned,
           Adds(es, k), Chained', Synced', ~unusable',
           Return(k, recorded, returned),
           k # None => /\ recorded \in {None, keys'[k]} /\ returned \in {None, keys'[k]}
                       /\ keys'[k] # keys[k] => recorded = keys'[k]
    PROVE  AsKept' /\ Answered' /\ Asked' /\ (mode' \notin {"block", "unit"} => held' = {})
<1>0. /\ Types /\ Chained /\ Asked /\ AsKept /\ Answered /\ Places /\ None \notin Keys
      /\ keys' \in [Keys -> Records \union {None}]
  BY TransactionsAssumption DEF TxInv, Types, Chained, Asked
<1>1. /\ \A q \in Keys : keys[q] # None => keys'[q] = keys[q]
      /\ \A q \in Keys : q # k => keys'[q] = keys[q]
  BY DEF Adds
<1>2. None \notin Records
  BY TransactionsAssumption DEF Records, Asks, CallOps
<1>3. /\ Answer(k, returned) \subseteq Told
      /\ \A a \in Answer(k, returned) : keys'[a.key] = a.record
  <2>1. CASE k = None \/ returned = None
    BY <2>1 DEF Answer
  <2>2. CASE k # None /\ returned # None
    <3>1. Answer(k, returned) = {[key |-> k, record |-> returned]}
      BY <2>2 DEF Answer
    <3>2. k \in Keys /\ returned = keys'[k] /\ returned \in Records
      BY <1>0, <2>2
    <3> QED
      BY <3>1, <3>2 DEF Told
  <2> QED
    BY <2>1, <2>2
<1>4. /\ \A a \in given \union held : a.key \in Keys /\ a.record \in Records
      /\ \A a \in given \union held : keys'[a.key] = a.record
  <2>1. \A a \in given \union held : a.key \in Keys /\ a.record \in Records
    BY <1>0 DEF Asked, Told
  <2>2. \A a \in given \union held : keys[a.key] = a.record
    BY <1>0 DEF Answered
  <2> QED
    BY <1>1, <1>2, <2>1, <2>2
<1>5. CASE mode = "bare"
  <2>1. /\ mode' = "idle" /\ given' = given \union Answer(k, returned)
        /\ unitCalls' = NoCalls /\ keyCache' = NotRead /\ held' = held
    BY <1>5 DEF Return
  <2>2. held = {}
    BY <1>0, <1>5 DEF Places
  <2>3. \A q \in Keys : unitCalls'[q] = None /\ keyCache'[q] = Unread
    BY <2>1 DEF NoCalls, NotRead
  <2>4. AsKept'
    BY <2>3 DEF AsKept, Known
  <2>5. Recorded' = keys'
    BY <2>1 DEF Synced, Recorded
  <2>6. Answered'
    BY <1>3, <1>4, <2>1, <2>2, <2>5 DEF Answered
  <2>7. Asked'
    BY <1>0, <1>3, <2>1, <2>2 DEF Asked, NoCalls, NotRead
  <2> QED
    BY <2>1, <2>2, <2>4, <2>6, <2>7
<1>6. CASE mode # "bare"
  <2>1. /\ mode' = mode /\ given' = given
        /\ held' = held \union Answer(k, returned)
        /\ unitCalls' = IF k = None \/ recorded = None THEN unitCalls
                        ELSE [unitCalls EXCEPT ![k] = recorded]
        /\ keyCache' = LookedUp(k)
    BY <1>6 DEF Return
  <2>2. mode \in {"block", "unit"}
    BY <1>6 DEF Active
  <2>3. /\ LookedUp(k) \in [Keys -> Records \union {None, Unread}]
        /\ \A q \in Keys : unitCalls[q] = None /\ LookedUp(k)[q] # Unread =>
                               LookedUp(k)[q] = keys[q]
    BY <1>0, LookingUp
  <2>4. /\ unitCalls \in [Keys -> Records \union {None}]
        /\ \A q \in Keys : unitCalls[q] # None => unitCalls[q] = keys[q]
    BY <1>0 DEF AsKept, Known, Asked
  <2>5. unitCalls' \in [Keys -> Records \union {None}]
    BY <1>0, <2>1, <2>4
  <2>6. ASSUME NEW q \in Keys PROVE Known(q)' = keys'[q]
    <3>1. CASE q # k \/ recorded = None
      <4>1. unitCalls'[q] = unitCalls[q] /\ keys'[q] = keys[q]
        BY <1>0, <1>1, <2>1, <2>4, <3>1
      <4>2. unitCalls[q] # None => unitCalls[q] = keys'[q]
        BY <2>4, <4>1
      <4>3. unitCalls[q] = None /\ keyCache'[q] # Unread => keyCache'[q] = keys'[q]
        BY <2>1, <2>3, <4>1
      <4> QED
        BY <4>1, <4>2, <4>3 DEF Known
    <3>2. CASE q = k /\ recorded # None
      <4>1. unitCalls'[q] = keys'[q] /\ unitCalls'[q] # None
        BY <1>0, <2>1, <2>4, <3>2
      <4> QED
        BY <4>1 DEF Known
    <3> QED
      BY <3>1, <3>2
  <2>7. AsKept'
    BY <2>6 DEF AsKept
  <2>8. durable => diskKeys' = diskKeys
    BY <2>2 DEF Adds, Deferred
  <2>9. \A a \in given : Recorded'[a.key] = a.record
    <3>1. \A a \in given : Recorded[a.key] = a.record /\ keys'[a.key] = a.record
      BY <1>0, <1>4 DEF Answered
    <3>2. Recorded' = IF durable THEN diskKeys ELSE keys'
      BY <2>8 DEF Recorded
    <3> QED
      BY <3>1, <3>2 DEF Recorded
  <2>10. Answered'
    <3>1. ~durable /\ mode = "block" => \A a \in given : a.record.sequence <= mark
      BY <1>0 DEF Answered
    <3> QED
      BY <1>3, <1>4, <2>1, <2>9, <3>1 DEF Answered
  <2>11. Asked'
    BY <1>0, <1>3, <2>1, <2>3, <2>5 DEF Asked
  <2> QED
    BY <2>1, <2>2, <2>7, <2>10, <2>11
<1> QED
  BY <1>5, <1>6

----------------------------------------------------------------------------
(* What a call does to the block it is made in, and to a spend *)

LEMMA CallMarked ==
    ASSUME TxInv, mode \in Active, Stays, UNCHANGED <<durable, mark>>,
           NEW es, NEW k, Adds(es, k)
    PROVE  Marked' /\ Survivors'
<1>1. mode' \notin {"retrip", "raised"}
  BY DEF Stays, Active
<1>2. ASSUME mode' = "block" PROVE Marked'
  <2>1. mode = "block"
    BY <1>2 DEF Stays
  <2>2. CASE durable
    <3>1. mark = Len(disk)
      BY <2>1, <2>2 DEF TxInv, Marked
    <3>2. disk' = disk
      BY <2>1, <2>2 DEF Adds, Deferred
    <3>3. durable' /\ mark' = Len(disk')
      BY <2>2, <3>1, <3>2
    <3> QED
      BY <3>3 DEF Marked
  <2>3. CASE ~durable
    <3>1. mark \in Nat /\ Len(view) \in Nat /\ mark <= Len(view)
      BY <2>1, <2>3, LenProperties DEF TxInv, Types, Marked
    <3>2. Len(view') >= Len(view) /\ Len(view') \in Nat
      BY Joined DEF Adds, TxInv, Types
    <3>3. mark' <= Len(view')
      BY <3>1, <3>2
    <3>4. ~durable'
      BY <2>3
    <3> QED
      BY <3>3, <3>4 DEF Marked
  <2> QED
    BY <2>2, <2>3
<1>3. Marked'
  BY <1>2 DEF Marked
<1> QED
  BY <1>1, <1>3 DEF Survivors

\* The trips of a block, as a call changes them.
Lists == trips' = trips /\ latched' = latched
Notes == trips' = trips /\ \E s \in Scopes : latched' = Latching(s, FALSE)
Trips == /\ \E s \in Scopes : /\ trips' = IF mode = "block" THEN Append(trips, s) ELSE trips
                              /\ latched' = Latching(s, TRUE)

LEMMA CallListed ==
    ASSUME TxInv, mode \in Active, Stays, Lists \/ Notes \/ Trips
    PROVE  /\ Outlived' /\ TripsListed'
           /\ trips' \in Seq(Scopes) /\ latched' \subseteq Latches
           /\ mode' \notin {"block", "retrip"} => trips' = <<>>
           /\ mode' \notin {"block", "retrip", "raised"} => latched' = {}
<1>0. /\ trips \in Seq(Scopes) /\ latched \subseteq Latches /\ Outlived /\ TripsListed
      /\ mode # "block" => trips = <<>> /\ latched = {}
  BY DEF TxInv, Types, Places, Active
<1>1. mode' \notin {"retrip", "raised"} /\ (mode' = "block" <=> mode = "block")
  BY DEF Stays, Active
<1>2. CASE mode # "block"
  <2>1. trips' = <<>> /\ latched' = {}
    BY <1>0, <1>2 DEF Lists, Notes, Trips, Latching
  <2> QED
    BY <1>1, <1>2, <2>1, EmptySeq DEF Outlived, TripsListed
<1>3. CASE mode = "block"
  <2>0. /\ \A l \in latched : l.byTrip => \E i \in DOMAIN trips : trips[i] = l.scope
        /\ \A i \in DOMAIN trips : [scope |-> trips[i], byTrip |-> TRUE] \in latched
    BY <1>0, <1>3 DEF Outlived, TripsListed, Listed
  <2>1. CASE Lists
    <3>1. trips' = trips /\ latched' = latched
      BY <2>1 DEF Lists
    <3> QED
      BY <1>0, <1>1, <1>3, <2>0, <3>1 DEF Outlived, TripsListed, Listed
  <2>2. CASE Notes
    <3>1. PICK s \in Scopes : trips' = trips /\ latched' = latched \union {[scope |-> s, byTrip |-> FALSE]}
      BY <1>3, <2>2 DEF Notes, Latching
    <3>n. [scope |-> s, byTrip |-> FALSE] \in Latches
      BY DEF Latches
    <3>2. latched' \subseteq Latches
      BY <1>0, <3>1, <3>n
    <3>3. \A l \in latched' : l.byTrip => l \in latched
      BY <3>1
    <3> QED
      BY <1>0, <1>1, <1>3, <2>0, <3>1, <3>2, <3>3 DEF Outlived, TripsListed, Listed
  <2>3. CASE Trips
    <3>1. PICK s \in Scopes : /\ trips' = Append(trips, s)
                              /\ latched' = latched \union {[scope |-> s, byTrip |-> TRUE]}
      BY <1>3, <2>3 DEF Trips, Latching
    <3>n. [scope |-> s, byTrip |-> TRUE] \in Latches
      BY DEF Latches
    <3>2. latched' \subseteq Latches
      BY <1>0, <3>1, <3>n
    <3>3. /\ trips' \in Seq(Scopes)
          /\ Len(trips) \in Nat /\ DOMAIN trips = 1..Len(trips)
          /\ DOMAIN trips' = 1..(Len(trips) + 1)
          /\ \A i \in 1..Len(trips) : trips'[i] = trips[i]
          /\ trips'[Len(trips) + 1] = s
      <4>1. /\ Append(trips, s) \in Seq(Scopes) /\ Len(Append(trips, s)) = Len(trips) + 1
            /\ \A i \in 1..Len(trips) : Append(trips, s)[i] = trips[i]
            /\ Append(trips, s)[Len(trips) + 1] = s
        BY <1>0, AppendProperties
      <4>2. Len(trips) \in Nat /\ DOMAIN trips = 1..Len(trips)
        BY <1>0, LenProperties
      <4>3. DOMAIN Append(trips, s) = 1..(Len(trips) + 1)
        BY <4>1, LenProperties
      <4> QED
        BY <3>1, <4>1, <4>2, <4>3
    <3>4. \A l \in latched' : l.byTrip => \E i \in DOMAIN trips' : trips'[i] = l.scope
      <4>1. ASSUME NEW l \in latched, l.byTrip PROVE \E i \in DOMAIN trips' : trips'[i] = l.scope
        <5>1. PICK i \in DOMAIN trips : trips[i] = l.scope
          BY <2>0, <4>1
        <5>2. i \in DOMAIN trips' /\ trips'[i] = l.scope
          BY <3>3, <5>1
        <5> QED
          BY <5>2
      <4>2. Len(trips) + 1 \in DOMAIN trips' /\ trips'[Len(trips) + 1] = s
        BY <3>3
      <4>3. \A l \in latched' : l \in latched \/ l.scope = s
        BY <3>1
      <4> QED
        BY <4>1, <4>2, <4>3
    <3>5. \A i \in DOMAIN trips' : [scope |-> trips'[i], byTrip |-> TRUE] \in latched'
      <4>1. \A i \in DOMAIN trips' : i \in DOMAIN trips \/ i = Len(trips) + 1
        BY <3>3
      <4> QED
        BY <2>0, <3>1, <3>3, <4>1
    <3> QED
      BY <1>1, <1>3, <3>2, <3>3, <3>4, <3>5 DEF Outlived, TripsListed, Listed
  <2> QED
    BY <2>1, <2>2, <2>3
<1> QED
  BY <1>2, <1>3

\* What is settled in a chain stays so as it grows.
LEMMA SettledStays ==
    ASSUME NEW c \in Seq(Entries), NEW es \in Seq(Entries), NEW i
    PROVE  /\ Settled(c, i) => Settled(c \o es, i)
           /\ (\E j \in 1..Len(es) : es[j].kind = "settle" /\ es[j].ref = i) => Settled(c \o es, i)
<1> PICK d : d = c \o es
  OBVIOUS
<1>1. /\ Len(c) \in Nat /\ Len(es) \in Nat /\ DOMAIN c = 1..Len(c)
      /\ DOMAIN d = 1..(Len(c) + Len(es))
      /\ \A j \in 1..Len(c) : d[j] = c[j]
      /\ \A j \in 1..Len(es) : d[Len(c) + j] = es[j]
  BY Joined
<1>2. ASSUME Settled(c, i) PROVE Settled(d, i)
  <2>1. PICK j \in DOMAIN c : c[j].kind = "settle" /\ c[j].ref = i
    BY <1>2 DEF Settled
  <2>2. j \in DOMAIN d /\ d[j] = c[j]
    BY <1>1
  <2> QED
    BY <2>1, <2>2 DEF Settled
<1>3. ASSUME NEW j \in 1..Len(es), es[j].kind = "settle", es[j].ref = i
      PROVE  Settled(d, i)
  <2>1. Len(c) + j \in DOMAIN d /\ d[Len(c) + j] = es[j]
    BY <1>1
  <2> QED
    BY <1>3, <2>1 DEF Settled
<1> QED
  BY <1>2, <1>3

IsSpend(e) == e.kind = "hold" /\ e.op = "spend"

LEMMA CallWhole ==
    ASSUME TxInv, mode \in Active \union {"retrip"}, ~unusable, Stays, UNCHANGED <<durable, unusable>>,
           NEW es, NEW k, Adds(es, k), Synced',
           \A i \in 1..Len(es) : IsSpend(es[i]) =>
               Deferred /\ settling' # None /\ settling'.hold = Len(view) + i,
           \/ UNCHANGED settling \/ settling = None \/ failed' \/ ~Deferred
           \/ \E j \in 1..Len(es) : es[j].kind = "settle" /\ es[j].ref = settling.hold
    PROVE  Whole'
<1>0. /\ view \in Seq(Entries) /\ es \in Seq(Entries) /\ view' = view \o es
      /\ Whole /\ Places /\ ~unusable /\ mode # "down"
  BY DEF TxInv, Types, Adds, Places, Active
<1>1. /\ Len(view) \in Nat /\ DOMAIN view = 1..Len(view)
      /\ DOMAIN view' = 1..(Len(view) + Len(es))
      /\ \A i \in 1..(Len(view) + Len(es)) :
             \/ i \in 1..Len(view) /\ view'[i] = view[i]
             \/ \E j \in 1..Len(es) : i = Len(view) + j /\ view'[i] = es[j]
  BY <1>0, Joined, SMTT(20)
<1>2. ASSUME durable, ~failed',
             NEW i \in DOMAIN view', IsSpend(view'[i])
      PROVE  Settled(view', i) \/ (Deferred /\ settling' # None /\ i = settling'.hold)
  <2>0. ~failed
    BY <1>2 DEF Adds
  <2>1. CASE i \in 1..Len(view) /\ view'[i] = view[i]
    <3>1. Settled(view, i) \/ (Deferred /\ settling # None /\ i = settling.hold)
      BY <1>0, <1>1, <1>2, <2>0, <2>1 DEF Whole, IsSpend
    <3>2. CASE Settled(view, i)
      BY <1>0, <3>2, SettledStays
    <3>3. CASE Deferred /\ settling # None /\ i = settling.hold
      <4>1. CASE UNCHANGED settling
        BY <3>3, <4>1
      <4>2. CASE \E j \in 1..Len(es) : es[j].kind = "settle" /\ es[j].ref = settling.hold
        BY <1>0, <3>3, <4>2, SettledStays
      <4> QED
        BY <1>2, <3>3, <4>1, <4>2
    <3> QED
      BY <3>1, <3>2, <3>3
  <2>2. CASE \E j \in 1..Len(es) : i = Len(view) + j /\ view'[i] = es[j]
    BY <1>2, <2>2
  <2> QED
    BY <1>1, <2>1, <2>2
<1>3. Deferred => Deferred'
  BY DEF Deferred, Stays
<1>4. ASSUME durable', mode' # "down", ~unusable', ~failed', NEW i \in DOMAIN view',
             view'[i].kind = "hold", view'[i].op = "spend"
      PROVE  Settled(view', i) \/ (Deferred' /\ settling' # None /\ i = settling'.hold)
  BY <1>2, <1>3, <1>4 DEF IsSpend
<1>5. ASSUME NEW i \in DOMAIN disk', disk'[i].kind = "hold", disk'[i].op = "spend"
      PROVE  Settled(disk', i)
  <2>1. CASE disk' = disk
    BY <1>0, <1>5, <2>1 DEF Whole
  <2>2. CASE disk' # disk
    <3>1. durable
      <4>1. ASSUME ~durable PROVE FALSE
        <5>1. disk' = <<>> /\ disk = <<>>
          BY <4>1 DEF Synced, TxInv
        <5> QED
          BY <2>2, <5>1
      <4> QED
        BY <4>1
    <3>2. ~Deferred /\ disk' = view' /\ ~failed'
      BY <2>2 DEF Adds
    <3> QED
      BY <1>2, <1>5, <3>1, <3>2 DEF IsSpend
  <2> QED
    BY <2>1, <2>2
<1>6. \A i \in DOMAIN disk' : disk'[i].kind = "hold" /\ disk'[i].op = "spend" => Settled(disk', i)
  BY <1>5
<1>7. durable' /\ mode' # "down" /\ ~unusable' /\ ~failed' =>
        \A i \in DOMAIN view' : view'[i].kind = "hold" /\ view'[i].op = "spend" =>
            Settled(view', i) \/ (Deferred' /\ settling' # None /\ i = settling'.hold)
  BY <1>4
<1> QED
  BY <1>6, <1>7 DEF Whole, Settled

----------------------------------------------------------------------------
(* One call *)

\* What a call leaves alone.
Beside == UNCHANGED <<durable, mark, unwritten, unusable>>

LEMMA CallStep ==
    ASSUME TxInv, mode \in Active, Beside, Stays,
           NEW es, NEW k, Adds(es, k), Chained', Synced', KeyedOnce',
           AsKept', Answered', Asked', mode' \notin {"block", "unit"} => held' = {},
           Lists \/ Notes \/ Trips,
           settling' \in Pending \union {None}, settling' # None => mode' \in Active, Midway',
           \A i \in 1..Len(es) : IsSpend(es[i]) =>
               Deferred /\ settling' # None /\ settling'.hold = Len(view) + i,
           \/ UNCHANGED settling \/ settling = None \/ failed' \/ ~Deferred
           \/ \E j \in 1..Len(es) : es[j].kind = "settle" /\ es[j].ref = settling.hold
    PROVE  TxInv'
<1>0. durable' = durable /\ mark' = mark /\ unwritten' = unwritten /\ unusable' = unusable
  BY DEF Beside
<1>1. Marked' /\ Survivors'
  BY <1>0, CallMarked
<1>2. /\ Outlived' /\ TripsListed'
      /\ trips' \in Seq(Scopes) /\ latched' \subseteq Latches
      /\ mode' \notin {"block", "retrip"} => trips' = <<>>
      /\ mode' \notin {"block", "retrip", "raised"} => latched' = {}
  BY CallListed
<1>4. Types /\ Places
  BY DEF TxInv
<1>u. ~unusable
  BY <1>4 DEF Places, Active
<1>3. Whole'
  BY <1>0, <1>u, CallWhole
<1>5. ~unusable /\ mode' \in Modes /\ (mode' \in {"unit", "down"} => durable)
  BY <1>4 DEF Places, Stays, Active, Modes
<1>6. Types'
  BY <1>0, <1>2, <1>4, <1>5 DEF Types, Chained, Asked, Adds
<1>7. failed' => Deferred'
  BY <1>0 DEF Adds, Deferred, Stays
<1>8. Places'
  BY <1>0, <1>2, <1>5, <1>7 DEF Places
<1> QED
  BY <1>1, <1>2, <1>3, <1>6, <1>8 DEF TxInv

LEMMA CallReturns ==
    ASSUME TxInv, mode \in Active, Beside,
           NEW es, NEW k \in Keys \union {None}, NEW recorded, NEW returned,
           Adds(es, k), Chained', Synced', KeyedOnce',
           Return(k, recorded, returned),
           k # None => /\ recorded \in {None, keys'[k]} /\ returned \in {None, keys'[k]}
                       /\ keys'[k] # keys[k] => recorded = keys'[k],
           Lists \/ Notes \/ Trips, settling' = None,
           \A i \in 1..Len(es) : ~IsSpend(es[i]),
           \/ settling = None \/ failed' \/ ~Deferred
           \/ \E j \in 1..Len(es) : es[j].kind = "settle" /\ es[j].ref = settling.hold
    PROVE  TxInv'
<1>0. /\ UNCHANGED <<durable, mark>> /\ ~unusable' /\ Stays
  BY ReturnStays DEF Beside, TxInv, Places, Active
<1>1. AsKept' /\ Answered' /\ Asked' /\ (mode' \notin {"block", "unit"} => held' = {})
  BY <1>0, Returning
<1>2. Midway'
  BY DEF Midway
<1> QED
  BY <1>0, <1>1, <1>2, CallStep

\* A call that writes nothing, or whose write fails.
LEMMA CallKeeps ==
    ASSUME TxInv, mode \in Active, Beside, NEW k \in Keys \union {None}, NEW returned,
           Fail \/ UNCHANGED <<chain, unit>>,
           Return(k, None, returned), k # None => returned \in {None, keys[k]},
           Lists, settling' = None,
           settling = None \/ failed' \/ ~Deferred
    PROVE  TxInv'
<1>1. UNCHANGED <<durable, unusable>> /\ Stays
  BY ReturnStays DEF Beside
<1>2. /\ Adds(<<>>, k) /\ Chained' /\ Synced' /\ KeyedOnce' /\ keys' = keys
  BY <1>1, KeepAdds
<1>3. \A i \in 1..Len(<<>>) : ~IsSpend(<<>>[i])
  BY EmptySeq
<1> QED
  BY <1>2, <1>3, CallReturns

Kinds == {"open", "hold", "settle", "trip", "reset"}

LEMMA EntryIn ==
    ASSUME NEW kind \in Kinds, NEW s \in Scopes,
           NEW ref \in Nat, NEW op \in Ops, NEW k \in Keys \union {None}
    PROVE  /\ Entry(kind, s, ref, op, k) \in Entries
           /\ Entry(kind, s, ref, op, k).kind = kind /\ Entry(kind, s, ref, op, k).ref = ref
           /\ Entry(kind, s, ref, op, k).key = k /\ Entry(kind, s, ref, op, k).op = op
           /\ Entry(kind, s, ref, op, k).scope = s
  BY DEF Entry, Entries, Kinds

LEMMA OneEntry ==
    ASSUME NEW e \in Entries, NEW k \in Keys \union {None}, NEW r, NEW recorded, e.key = k,
           k # None => /\ recorded[k] = None /\ r \in Asks
                       /\ e.op = r.op /\ e.scope = r.scope
    PROVE  /\ Sound(<<e>>, k, r, recorded) /\ Len(<<e>>) = 1
           /\ \A i \in 1..Len(<<e>>) : <<e>>[i] = e
<1>1. <<e>> \in Seq(Entries) /\ Len(<<e>>) = 1 /\ <<e>>[1] = e
  OBVIOUS
<1>2. \A i \in 1..1 : i = 1
  OBVIOUS
<1> QED
  BY <1>1, <1>2 DEF Sound

LEMMA TwoEntries ==
    ASSUME NEW e \in Entries, NEW t \in Entries, NEW k \in Keys \union {None}, NEW r,
           NEW recorded, e.key = k, t.key = None,
           k # None => /\ recorded[k] = None /\ r \in Asks
                       /\ e.op = r.op /\ e.scope = r.scope
    PROVE  /\ Sound(<<e, t>>, k, r, recorded) /\ Len(<<e, t>>) = 2
           /\ <<e, t>>[1] = e /\ <<e, t>>[2] = t
<1>1. /\ <<e, t>> \in Seq(Entries) /\ Len(<<e, t>>) = 2
      /\ <<e, t>>[1] = e /\ <<e, t>>[2] = t
  OBVIOUS
<1>2. \A i \in 1..2 : i = 1 \/ i = 2
  OBVIOUS
<1> QED
  BY <1>1, <1>2 DEF Sound

\* A write of one entry under no key, whoever called.
LEMMA Unkeyed ==
    ASSUME TxInv, mode \in Active \union {"retrip"}, ~unusable, Stays, UNCHANGED <<durable, unusable>>,
           NEW e \in Entries, e.key = None, Commit(<<e>>, None, None), NEW k
    PROVE  /\ Adds(<<e>>, k) /\ Chained' /\ Synced' /\ KeyedOnce' /\ keys' = keys
           /\ UNCHANGED failed /\ view' = view \o <<e>>
           /\ durable /\ ~Deferred => disk' = view'
<1>1. Sound(<<e>>, None, None, keys)
  BY OneEntry
<1>2. /\ Adds(<<e>>, None) /\ Chained' /\ Synced' /\ KeyedOnce' /\ UNCHANGED failed
      /\ durable /\ ~Deferred => disk' = view'
  BY <1>1, CommitAdds
<1>3. keys' = keys /\ view' = view \o <<e>>
  BY DEF Commit, Record
<1>4. Adds(<<e>>, k)
  BY <1>2, <1>3 DEF Adds
<1> QED
  BY <1>2, <1>3, <1>4

----------------------------------------------------------------------------
(* The calls, one by one *)

LEMMA ReplayStep ==
    ASSUME TxInv, NEW k \in Keys, NEW r, Replay(k, r)
    PROVE  TxInv'
<1>1. mode \in Active /\ settling = None /\ settling' = None /\ Beside /\ Lists
  BY DEF Replay, Running, Active, Beside, Lists, block
<1>2. UNCHANGED <<chain, unit>>
  BY DEF Replay
<1>3. PICK returned : returned \in {None, Known(k)} /\ Return(k, None, returned)
  BY DEF Replay
<1>4. returned \in {None, keys[k]}
  BY <1>3 DEF TxInv, AsKept
<1> QED
  BY <1>1, <1>2, <1>3, <1>4, CallKeeps

LEMMA RefuseStep ==
    ASSUME TxInv, NEW k \in Keys \union {None}, Refuse(k)
    PROVE  TxInv'
<1>1. mode \in Active /\ settling = None /\ settling' = None /\ Beside /\ Lists
  BY DEF Refuse, Running, Active, Beside, Lists, block
<1>2. UNCHANGED <<chain, unit>> /\ Return(k, None, None)
  BY DEF Refuse, Raise
<1> QED
  BY <1>1, <1>2, CallKeeps

\* A breaker is latched, for a call that raises or for an operator.
LEMMA LatchStep ==
    ASSUME TxInv, NEW k \in Keys \union {None}, NEW s \in Scopes, Running, LatchBreaker(s),
           Raise(k), UNCHANGED <<durable, mark, unwritten, settling, unusable>>
    PROVE  TxInv'
<1>1. /\ mode \in Active /\ settling = None /\ settling' = None /\ Beside /\ ~unusable
      /\ Return(k, None, None) /\ Stays /\ UNCHANGED <<durable, unusable>>
  BY ReturnStays DEF Running, Active, Beside, Raise, TxInv, Places
<1>2. CASE Fail /\ UNCHANGED <<trips, latched>>
  <2>1. Lists
    BY <1>2 DEF Lists
  <2> QED
    BY <1>1, <1>2, <2>1, CallKeeps
<1>3. CASE /\ Commit(<<Entry("trip", s, 0, "trip", None)>>, None, None)
           /\ trips' = IF mode = "block" THEN Append(trips, s) ELSE trips
           /\ latched' = Latching(s, TRUE)
  <2> PICK e : e = Entry("trip", s, 0, "trip", None)
    OBVIOUS
  <2>0. "trip" \in Kinds /\ 0 \in Nat /\ "trip" \in Ops /\ None \in Keys \union {None}
    BY DEF Kinds, Ops
  <2>1. e \in Entries /\ e.key = None /\ e.kind = "trip"
    BY <2>0, EntryIn
  <2>2. /\ Adds(<<e>>, k) /\ Chained' /\ Synced' /\ KeyedOnce' /\ keys' = keys
    BY <1>1, <1>3, <2>1, Unkeyed
  <2>3. Trips
    BY <1>3 DEF Trips
  <2>4. \A i \in 1..Len(<<e>>) : ~IsSpend(<<e>>[i])
    BY <2>1, OneEntry DEF IsSpend
  <2> QED
    BY <1>1, <2>2, <2>3, <2>4, CallReturns
<1> QED
  BY <1>2, <1>3 DEF LatchBreaker

LEMMA DenyStep ==
    ASSUME TxInv, NEW k \in Keys \union {None}, NEW s \in Scopes, Deny(k, s)
    PROVE  TxInv'
  BY LatchStep DEF Deny

LEMMA TripStep ==
    ASSUME TxInv, NEW s \in Scopes, Trip(s)
    PROVE  TxInv'
  BY LatchStep DEF Trip

LEMMA ResetStep ==
    ASSUME TxInv, NEW s \in Scopes, Reset(s)
    PROVE  TxInv'
<1>1. /\ mode \in Active /\ settling = None /\ settling' = None /\ Beside /\ ~unusable /\ Lists
      /\ Return(None, None, None) /\ Stays /\ UNCHANGED <<durable, unusable>>
  <2>1. Return(None, None, None) /\ UNCHANGED <<durable, block, settling, unusable>> /\ Running
    BY DEF Reset, Raise
  <2> QED
    BY <2>1, ReturnStays DEF Running, Active, Beside, TxInv, Places, Lists, block
<1>2. CASE Fail
  BY <1>1, <1>2, CallKeeps
<1>3. CASE Commit(<<Entry("reset", s, 0, "reset", None)>>, None, None)
  <2> PICK e : e = Entry("reset", s, 0, "reset", None)
    OBVIOUS
  <2>0. "reset" \in Kinds /\ 0 \in Nat /\ "reset" \in Ops /\ None \in Keys \union {None}
    BY DEF Kinds, Ops
  <2>1. e \in Entries /\ e.key = None /\ e.kind = "reset"
    BY <2>0, EntryIn
  <2>2. /\ Adds(<<e>>, None) /\ Chained' /\ Synced' /\ KeyedOnce' /\ keys' = keys
    BY <1>1, <1>3, <2>1, Unkeyed
  <2>4. \A i \in 1..Len(<<e>>) : ~IsSpend(<<e>>[i])
    BY <2>1, OneEntry DEF IsSpend
  <2> QED
    BY <1>1, <2>2, <2>4, CallReturns
<1> QED
  BY <1>2, <1>3 DEF Reset

\* A call that writes one entry, its result, under its key.
LEMMA KeyedStep ==
    ASSUME TxInv, NEW k \in Keys \union {None}, NEW s \in Scopes, Running, Fresh(k),
           NEW kind \in {"open", "hold"}, NEW op \in CallOps, op # "spend",
           \/ /\ Commit(<<Entry(kind, s, 0, op, k)>>, k, Request(op, s, 0))
              /\ Return(k, Made(k, Request(op, s, 0)), Made(k, Request(op, s, 0)))
           \/ Fail /\ Raise(k),
           UNCHANGED <<durable, block, settling, unusable>>
    PROVE  TxInv'
<1>1. /\ mode \in Active /\ settling = None /\ settling' = None /\ Beside /\ ~unusable /\ Lists
      /\ UNCHANGED <<durable, unusable>>
  BY DEF Running, Active, Beside, TxInv, Places, Lists, block
<1>2. CASE Fail /\ Raise(k)
  BY <1>1, <1>2, CallKeeps DEF Raise
<1>3. CASE /\ Commit(<<Entry(kind, s, 0, op, k)>>, k, Request(op, s, 0))
           /\ Return(k, Made(k, Request(op, s, 0)), Made(k, Request(op, s, 0)))
  <2> PICK e, r : e = Entry(kind, s, 0, op, k) /\ r = Request(op, s, 0)
    OBVIOUS
  <2>0. kind \in Kinds /\ 0 \in Nat /\ op \in Ops
    BY DEF Kinds, Ops
  <2>1. e \in Entries /\ e.key = k /\ e.op = op /\ e.scope = s
    BY <2>0, EntryIn
  <2>2. r \in Asks /\ r.op = op /\ r.scope = s
    BY DEF Request, Asks
  <2>3. k # None => keys[k] = None
    BY DEF Fresh, TxInv, AsKept
  <2>4. Sound(<<e>>, k, r, keys) /\ \A i \in 1..Len(<<e>>) : ~IsSpend(<<e>>[i])
    BY <2>1, <2>2, <2>3, OneEntry DEF IsSpend
  <2>5. Stays
    BY <1>3, ReturnStays
  <2>6. /\ Adds(<<e>>, k) /\ Chained' /\ Synced' /\ KeyedOnce'
        /\ k # None => keys'[k] = Made(k, r)
    BY <1>1, <1>3, <2>4, <2>5, CommitAdds
  <2> QED
    BY <1>1, <1>3, <2>4, <2>6, CallReturns
<1> QED
  BY <1>2, <1>3

LEMMA AuthorizeStep ==
    ASSUME TxInv, NEW k \in Keys \union {None}, NEW s \in Scopes, Authorize(k, s)
    PROVE  TxInv'
<1>1. /\ Running /\ Fresh(k) /\ UNCHANGED <<durable, block, settling, unusable>>
      /\ \/ /\ Commit(<<Entry("hold", s, 0, "authorize", k)>>, k, Request("authorize", s, 0))
            /\ Return(k, Made(k, Request("authorize", s, 0)), Made(k, Request("authorize", s, 0)))
         \/ Fail /\ Raise(k)
  BY DEF Authorize
<1>2. "hold" \in {"open", "hold"} /\ "authorize" \in CallOps /\ "authorize" # "spend"
  BY DEF CallOps
<1> QED
  BY <1>1, <1>2, KeyedStep

LEMMA DelegateStep ==
    ASSUME TxInv, NEW k \in Keys \union {None}, NEW s \in Scopes, Delegate(k, s)
    PROVE  TxInv'
<1>1. /\ Running /\ Fresh(k) /\ UNCHANGED <<durable, block, settling, unusable>>
      /\ \/ /\ Commit(<<Entry("open", s, 0, "delegate", k)>>, k, Request("delegate", s, 0))
            /\ Return(k, Made(k, Request("delegate", s, 0)), Made(k, Request("delegate", s, 0)))
         \/ Fail /\ Raise(k)
  BY DEF Delegate
<1>2. "open" \in {"open", "hold"} /\ "delegate" \in CallOps /\ "delegate" # "spend"
  BY DEF CallOps
<1> QED
  BY <1>1, <1>2, KeyedStep

\* The settlement of a hold, by capture() or void(), or by spend().
LEMMA SettleHoldStep ==
    ASSUME TxInv, mode \in Active, NEW k \in Keys \union {None}, NEW h \in DOMAIN view,
           NEW ref \in Nat, NEW op \in CallOps,
           SettleHold(k, Request(op, view[h].scope, ref), h, op),
           k # None /\ ~durable => keys[k] = None,
           UNCHANGED <<durable, mark, trips, unwritten, unusable>>, settling' = None,
           settling = None \/ settling.hold = h
    PROVE  TxInv'
<1> PICK r, s : r = Request(op, view[h].scope, ref) /\ s = view[h].scope
  OBVIOUS
<1> PICK settle, trip : /\ settle = Entry("settle", s, h, op, k)
                        /\ trip = Entry("trip", s, 0, op, None)
  OBVIOUS
<1>1. /\ Beside /\ ~unusable /\ UNCHANGED <<durable, unusable>>
      /\ trips' = trips
  BY DEF Active, Beside, TxInv, Places
<1>2. h \in Nat /\ s \in Scopes /\ DOMAIN view = 1..Len(view)
  <2>1. view \in Seq(Entries)
    BY DEF TxInv, Types
  <2>2. DOMAIN view = 1..Len(view) /\ Len(view) \in Nat
    BY <2>1, LenProperties
  <2>3. view[h] \in Entries
    BY <2>1, <2>2, ElementOfSeq
  <2> QED
    BY <2>2, <2>3 DEF Entries
<1>3. r \in Asks /\ r.op = op /\ r.scope = s
  BY <1>2 DEF Request, Asks
<1>e. /\ "settle" \in Kinds /\ "trip" \in Kinds /\ 0 \in Nat /\ op \in Ops
      /\ None \in Keys \union {None}
  BY DEF Kinds, Ops
<1>4. /\ settle \in Entries /\ settle.key = k /\ settle.op = op /\ settle.scope = s
      /\ settle.kind = "settle" /\ settle.ref = h
  BY <1>2, <1>e, EntryIn
<1>5. trip \in Entries /\ trip.key = None /\ trip.kind = "trip"
  BY <1>2, <1>e, EntryIn
<1>6. \/ /\ Commit(<<settle>>, k, r)
         /\ \/ Return(k, Made(k, r), Made(k, r))
            \/ Return(k, Made(k, r), None)
         /\ latched' = latched
      \/ /\ Commit(<<settle, trip>>, k, r)
         /\ \/ Return(k, Made(k, r), Made(k, r))
            \/ Return(k, Made(k, r), None)
         /\ latched' = Latching(s, FALSE)
      \/ Fail /\ Return(k, None, None) /\ latched' = latched
  BY DEF SettleHold, Raise
<1>7. ASSUME NEW es, Commit(es, k, r), Sound(es, k, r, keys), Lists \/ Notes,
             \/ Return(k, Made(k, r), Made(k, r))
             \/ Return(k, Made(k, r), None),
             \A i \in 1..Len(es) : ~IsSpend(es[i]),
             1 \in 1..Len(es), es[1] = settle
      PROVE  TxInv'
  <2>1. PICK returned : returned \in {None, Made(k, r)} /\ Return(k, Made(k, r), returned)
    BY <1>7
  <2>2. Stays
    BY <2>1, ReturnStays
  <2>3. /\ Adds(es, k) /\ Chained' /\ Synced' /\ KeyedOnce'
        /\ k # None => keys'[k] = Made(k, r)
    BY <1>1, <1>7, <2>2, CommitAdds
  <2>4. settling = None \/ \E j \in 1..Len(es) : es[j].kind = "settle" /\ es[j].ref = settling.hold
    BY <1>4, <1>7
  <2> QED
    BY <1>1, <1>7, <2>1, <2>3, <2>4, CallReturns
<1>8. CASE /\ Commit(<<settle>>, k, r)
           /\ \/ Return(k, Made(k, r), Made(k, r))
              \/ Return(k, Made(k, r), None)
           /\ latched' = latched
  <2>1. k # None => keys[k] = None
    BY <1>8 DEF Commit
  <2>2. /\ Sound(<<settle>>, k, r, keys) /\ 1 \in 1..Len(<<settle>>) /\ <<settle>>[1] = settle
        /\ \A i \in 1..Len(<<settle>>) : ~IsSpend(<<settle>>[i])
    BY <1>3, <1>4, <2>1, OneEntry DEF IsSpend
  <2>3. Lists
    BY <1>1, <1>8 DEF Lists
  <2> QED
    BY <1>7, <1>8, <2>2, <2>3
<1>9. CASE /\ Commit(<<settle, trip>>, k, r)
           /\ \/ Return(k, Made(k, r), Made(k, r))
              \/ Return(k, Made(k, r), None)
           /\ latched' = Latching(s, FALSE)
  <2>1. k # None => keys[k] = None
    BY <1>9 DEF Commit
  <2>2. /\ Sound(<<settle, trip>>, k, r, keys) /\ Len(<<settle, trip>>) = 2
        /\ <<settle, trip>>[1] = settle /\ <<settle, trip>>[2] = trip
    BY <1>3, <1>4, <1>5, <2>1, TwoEntries
  <2>3. /\ 1 \in 1..Len(<<settle, trip>>)
        /\ \A i \in 1..Len(<<settle, trip>>) : ~IsSpend(<<settle, trip>>[i])
    <3>1. \A i \in 1..2 : i = 1 \/ i = 2
      OBVIOUS
    <3> QED
      BY <1>4, <1>5, <2>2, <3>1 DEF IsSpend
  <2>4. Notes
    BY <1>1, <1>2, <1>9 DEF Notes
  <2> QED
    BY <1>7, <1>9, <2>2, <2>3, <2>4
<1>10. CASE Fail /\ Return(k, None, None) /\ latched' = latched
  <2>1. Lists /\ (failed' \/ ~Deferred)
    BY <1>1, <1>10 DEF Lists, Fail
  <2> QED
    BY <1>1, <1>10, <2>1, CallKeeps
<1> QED
  BY <1>6, <1>8, <1>9, <1>10

LEMMA SettleStep ==
    ASSUME TxInv, NEW k \in Keys \union {None}, NEW h \in OpenHolds(view),
           NEW op \in {"capture", "void"}, Settle(k, h, op)
    PROVE  TxInv'
<1>1. /\ mode \in Active /\ settling = None /\ settling' = None
      /\ UNCHANGED <<durable, mark, trips, unwritten, unusable>>
  BY DEF Settle, Running, Active
<1>2. h \in DOMAIN view /\ op \in CallOps
  BY DEF OpenHolds, CallOps
<1>3. h \in Nat
  BY <1>2, LenProperties DEF TxInv, Types
<1>4. k # None => keys[k] = None
  BY DEF Settle, Fresh, TxInv, AsKept
<1>5. SettleHold(k, Request(op, view[h].scope, h), h, op)
  BY DEF Settle
<1> QED
  BY <1>1, <1>2, <1>3, <1>4, <1>5, SettleHoldStep

LEMMA SpendSettleStep ==
    ASSUME TxInv, SpendSettle
    PROVE  TxInv'
<1>1. /\ settling # None /\ settling' = None
      /\ UNCHANGED <<durable, mark, trips, unwritten, unusable>>
      /\ SettleHold(settling.key, Request("spend", view[settling.hold].scope, 0), settling.hold, "spend")
  BY DEF SpendSettle
<1>2. /\ mode \in Active /\ settling \in Pending /\ settling.hold \in DOMAIN view
      /\ settling.key # None /\ ~durable => keys[settling.key] = None
  BY <1>1 DEF TxInv, Places, Types, Midway
<1>3. settling.key \in Keys \union {None}
  BY <1>2 DEF Pending
<1>4. "spend" \in CallOps /\ 0 \in Nat
  BY DEF CallOps
<1> QED
  BY <1>1, <1>2, <1>3, <1>4, SettleHoldStep

LEMMA SpendHoldStep ==
    ASSUME TxInv, NEW k \in Keys \union {None}, NEW s \in Scopes, SpendHold(k, s)
    PROVE  TxInv'
<1>1. /\ mode \in Active /\ settling = None /\ Beside /\ ~unusable /\ Lists
      /\ UNCHANGED <<durable, unusable>> /\ Fresh(k)
  BY DEF SpendHold, Running, Active, Beside, TxInv, Places, Lists, block
<1>2. CASE Fail /\ Raise(k) /\ UNCHANGED settling
  BY <1>1, <1>2, CallKeeps DEF Raise
<1>3. CASE /\ Commit(<<Entry("hold", s, 0, IF Deferred THEN "spend" ELSE "bare spend", None)>>,
                     None, None)
           /\ settling' = [key |-> k, hold |-> Len(view) + 1]
           /\ keyCache' = LookedUp(k)
           /\ UNCHANGED <<mode, unitCalls, held, given>>
  <2>a. PICK op : op = IF Deferred THEN "spend" ELSE "bare spend"
    OBVIOUS
  <2>b. PICK e : e = Entry("hold", s, 0, op, None)
    OBVIOUS
  <2>0. /\ "hold" \in Kinds /\ 0 \in Nat /\ op \in Ops /\ None \in Keys \union {None}
        /\ op = "spend" => Deferred
    BY <2>a DEF Kinds, Ops, CallOps
  <2>1. e \in Entries /\ e.key = None /\ e.op = op
    BY <2>0, <2>b, EntryIn
  <2>2. Stays
    BY <1>3 DEF Stays
  <2>3. /\ Adds(<<e>>, k) /\ Chained' /\ Synced' /\ KeyedOnce' /\ keys' = keys
        /\ view' = view \o <<e>>
    BY <1>1, <1>3, <2>a, <2>b, <2>1, <2>2, Unkeyed
  <2>4. /\ Types /\ AsKept /\ Answered /\ Synced /\ Places
        /\ keys \in [Keys -> Records \union {None}] /\ view \in Seq(Entries)
    BY DEF TxInv, Types
  <2>5. Len(view) \in Nat /\ Len(view) + 1 \in DOMAIN view'
    <3>1. <<e>> \in Seq(Entries) /\ Len(<<e>>) = 1
      BY <2>1
    <3>2. Len(view) \in Nat /\ DOMAIN (view \o <<e>>) = 1..(Len(view) + Len(<<e>>))
      BY <2>4, <3>1, Joined
    <3> QED
      BY <2>3, <3>1, <3>2
  <2>6. settling' \in Pending /\ settling'.hold = Len(view) + 1 /\ settling'.key = k
    <3>1. settling' = [key |-> k, hold |-> Len(view) + 1]
      BY <1>3, Zenon
    <3> QED
      BY <2>5, <3>1 DEF Pending
  <2>7. settling' # None
    BY <2>6, TransactionsAssumption DEF Pending
  <2>8. Midway'
    <3>1. k # None => keys'[k] = None
      BY <1>1, <2>3, <2>4 DEF Fresh, AsKept
    <3> QED
      BY <2>5, <2>6, <3>1 DEF Midway
  <2>9. /\ LookedUp(k) \in [Keys -> Records \union {None, Unread}]
        /\ \A q \in Keys : unitCalls[q] = None /\ LookedUp(k)[q] # Unread =>
                               LookedUp(k)[q] = keys[q]
    BY <2>4, LookingUp
  <2>10. AsKept'
    <3>1. ASSUME NEW q \in Keys PROVE Known(q)' = keys'[q]
      <4>1. unitCalls[q] # None => unitCalls[q] = keys[q]
        BY <2>4 DEF AsKept, Known
      <4>2. unitCalls'[q] = unitCalls[q] /\ keyCache'[q] = LookedUp(k)[q] /\ keys'[q] = keys[q]
        BY <1>3, <2>3
      <4> QED
        BY <2>9, <4>1, <4>2 DEF Known
    <3> QED
      BY <3>1 DEF AsKept
  <2>11. Asked'
    BY <1>3, <2>4, <2>9 DEF Types, Asked
  <2>12. Recorded' = Recorded
    <3>1. CASE Deferred
      BY <1>1, <2>3, <3>1 DEF Adds, Recorded
    <3>2. CASE durable /\ ~Deferred
      <4>1. mode \notin {"block", "unit"} /\ mode' \notin {"block", "unit"}
        BY <1>3, <3>2 DEF Deferred
      <4>2. keys = diskKeys /\ keys' = diskKeys'
        BY <1>1, <2>3, <2>4, <3>2, <4>1 DEF Synced
      <4> QED
        BY <1>1, <2>3, <4>2 DEF Recorded
    <3>3. CASE ~durable
      BY <1>1, <2>3, <3>3 DEF Recorded
    <3> QED
      BY <3>1, <3>2, <3>3
  <2>13. Answered'
    <3>1. /\ given' = given /\ held' = held /\ mode' = mode /\ durable' = durable /\ mark' = mark
          /\ keys' = keys
      BY <1>1, <1>3, <2>3 DEF Beside
    <3> QED
      BY <2>4, <2>12, <3>1 DEF Answered
  <2>14. \A i \in 1..Len(<<e>>) : IsSpend(<<e>>[i]) =>
             Deferred /\ settling' # None /\ settling'.hold = Len(view) + i
    <3>1. Len(<<e>>) = 1 /\ <<e>>[1] = e /\ \A i \in 1..1 : i = 1
      OBVIOUS
    <3> QED
      BY <2>0, <2>1, <2>6, <2>7, <3>1 DEF IsSpend
  <2>15. mode' \notin {"block", "unit"} => held' = {}
    BY <1>3, <2>4 DEF Places
  <2>16. mode' \in Active
    BY <1>1, <1>3
  <2> QED
    BY <1>1, <2>2, <2>3, <2>6, <2>8, <2>10, <2>11, <2>13, <2>14, <2>15, <2>16, CallStep
<1> QED
  BY <1>2, <1>3 DEF SpendHold

----------------------------------------------------------------------------
(* Units of work *)

LEMMA BeginStep ==
    ASSUME TxInv, BeginBare \/ BeginUnit
    PROVE  TxInv'
<1>1. /\ mode = "idle" /\ ~unusable /\ mode' \in {"bare", "unit"} /\ (mode' = "unit" => durable)
      /\ UNCHANGED <<durable, disk, diskKeys, view, keys, wrote, failed, mark, trips, latched,
                     unwritten, settling, unitCalls, keyCache, held, given, unusable>>
  BY DEF BeginBare, BeginUnit, chain, unit, block, asked
<1>2. Types'
  BY <1>1 DEF TxInv, Types, Modes, Active
<1>3. Places' /\ ~failed
  BY <1>1 DEF TxInv, Places, Deferred, Active
<1>4. Synced' /\ view' = view
  BY <1>1 DEF TxInv, Synced, NoCalls
<1>5. KeyedOnce'
  BY <1>1 DEF TxInv, KeyedOnce, RecordsMatch
<1>6. AsKept'
  BY <1>1 DEF TxInv, AsKept, Known
<1>7. Answered'
  BY <1>1 DEF TxInv, Answered, Recorded
<1>8. Marked' /\ Survivors' /\ Outlived' /\ TripsListed'
  BY <1>1 DEF Marked, Survivors, Outlived, TripsListed
<1>9. Whole'
  BY <1>1 DEF TxInv, Whole, Settled, Deferred
<1>10. Midway'
  BY <1>1 DEF TxInv, Midway
<1> QED
  BY <1>2, <1>3, <1>4, <1>5, <1>6, <1>7, <1>8, <1>9, <1>10 DEF TxInv

LEMMA BeginBlockStep ==
    ASSUME TxInv, BeginBlock
    PROVE  TxInv'
<1>1. /\ mode = "idle" /\ ~unusable /\ mode' = "block" /\ mark' = Len(view)
      /\ UNCHANGED <<durable, disk, diskKeys, view, keys, wrote, failed, trips, latched,
                     unwritten, settling, unitCalls, keyCache, held, given, unusable>>
  BY DEF BeginBlock, chain, unit, asked
<1>0. /\ Types /\ Places /\ Synced /\ KeyedOnce /\ Answered /\ Whole
      /\ view \in Seq(Entries) /\ Len(view) \in Nat /\ DOMAIN view = 1..Len(view)
      /\ latched = {} /\ trips = <<>> /\ held = {} /\ settling = None
  BY <1>1, LenProperties DEF TxInv, Types, Places, Active
<1>2. Types'
  BY <1>0, <1>1 DEF Types, Modes, Active
<1>3. Places'
  BY <1>0, <1>1 DEF Places, Deferred, Active
<1>4. Synced'
  BY <1>0, <1>1 DEF Synced, NoCalls
<1>5. KeyedOnce'
  BY <1>0, <1>1 DEF KeyedOnce, RecordsMatch
<1>6. AsKept'
  BY <1>1 DEF TxInv, AsKept, Known
<1>7. Answered'
  <2>1. ASSUME NEW a \in given, ~durable PROVE a.record.sequence <= mark'
    <3>1. a.key \in Keys /\ a.record \in Records /\ keys[a.key] = a.record
      BY <1>0 DEF Types, Told, Answered
    <3>2. a.record # None
      BY <3>1, TransactionsAssumption DEF Records, Asks, CallOps
    <3>3. a.record.sequence \in DOMAIN view
      BY <1>0, <1>1, <3>1, <3>2 DEF KeyedOnce, RecordsMatch
    <3> QED
      BY <1>0, <1>1, <3>3
  <2>2. \A a \in given : Recorded'[a.key] = a.record /\ keys'[a.key] = a.record
    BY <1>0, <1>1 DEF Answered, Recorded
  <2> QED
    BY <1>0, <1>1, <2>1, <2>2 DEF Answered
<1>8. Marked'
  <2>1. CASE durable
    <3>1. view = disk
      BY <1>0, <1>1, <2>1 DEF Synced
    <3> QED
      BY <1>1, <3>1, <2>1 DEF Marked
  <2>2. CASE ~durable
    BY <1>0, <1>1, <2>2 DEF Marked
  <2> QED
    BY <2>1, <2>2
<1>9. Survivors' /\ Outlived' /\ TripsListed'
  BY <1>0, <1>1, EmptySeq DEF Survivors, Outlived, TripsListed
<1>10. Whole'
  <2>1. ~failed /\ ~Deferred
    BY <1>0, <1>1 DEF Places, Deferred
  <2> QED
    BY <1>0, <1>1, <2>1 DEF Whole, Settled
<1>11. Midway'
  BY <1>0, <1>1 DEF Midway
<1> QED
  BY <1>2, <1>3, <1>4, <1>5, <1>6, <1>7, <1>8, <1>9, <1>10, <1>11 DEF TxInv

\* A unit of work is over: nothing of it is remembered.
LEMMA OverForgets ==
    ASSUME NEW answers, Over(answers)
    PROVE  /\ given' = given \union answers /\ held' = {} /\ failed' = FALSE /\ AsKept'
           /\ unitCalls' \in [Keys -> Records \union {None}]
           /\ keyCache' \in [Keys -> Records \union {None, Unread}]
<1>1. /\ given' = given \union answers /\ held' = {} /\ failed' = FALSE
      /\ unitCalls' = NoCalls /\ keyCache' = NotRead
  BY DEF Over
<1>2. \A q \in Keys : unitCalls'[q] = None /\ keyCache'[q] = Unread
  BY <1>1 DEF NoCalls, NotRead
<1> QED
  BY <1>1, <1>2 DEF NoCalls, NotRead, AsKept, Known

LEMMA SucceedStep ==
    ASSUME TxInv, Succeed
    PROVE  TxInv'
<1>1. /\ mode \in {"block", "unit"} /\ settling = None /\ ~failed /\ mode' = "idle"
      /\ durable => disk' = view /\ diskKeys' = keys
      /\ ~durable => disk' = disk /\ diskKeys' = diskKeys
      /\ mark' = 0 /\ trips' = <<>> /\ latched' = {} /\ unwritten' = {}
      /\ UNCHANGED <<durable, view, keys, settling, unusable>>
      /\ Over(held)
  BY DEF Succeed, Running
<1>2. /\ given' = given \union held /\ held' = {} /\ failed' = FALSE /\ AsKept'
      /\ unitCalls' \in [Keys -> Records \union {None}]
      /\ keyCache' \in [Keys -> Records \union {None, Unread}]
  BY <1>1, OverForgets
<1>0. Types /\ Places /\ Synced /\ KeyedOnce /\ Answered /\ Whole /\ ~unusable
  BY <1>1 DEF TxInv, Places
<1>3. Types'
  BY <1>0, <1>1, <1>2, EmptySeq DEF Types, Modes
<1>4. Places'
  BY <1>0, <1>1, <1>2 DEF Places
<1>5. Synced'
  BY <1>0, <1>1 DEF Synced, NoCalls
<1>6. KeyedOnce'
  <2>1. RecordsMatch(view, keys) /\ RecordsMatch(disk, diskKeys)
    BY <1>0, <1>1 DEF KeyedOnce
  <2>2. RecordsMatch(view', keys') /\ RecordsMatch(disk', diskKeys')
    BY <1>0, <1>1, <2>1 DEF Types
  <2> QED
    BY <2>2 DEF KeyedOnce, RecordsMatch
<1>7. Answered'
  <2>1. \A a \in given' : keys'[a.key] = a.record
    BY <1>0, <1>1, <1>2 DEF Answered
  <2>2. Recorded' = keys'
    BY <1>1 DEF Recorded
  <2> QED
    BY <1>1, <1>2, <2>1, <2>2 DEF Answered
<1>8. Marked' /\ Survivors' /\ Outlived' /\ TripsListed'
  BY <1>1 DEF Marked, Survivors, Outlived, TripsListed
<1>9. Whole'
  <2>1. durable => \A i \in DOMAIN view : view[i].kind = "hold" /\ view[i].op = "spend" => Settled(view, i)
    BY <1>0, <1>1 DEF Whole
  <2>2. \A i \in DOMAIN disk : disk[i].kind = "hold" /\ disk[i].op = "spend" => Settled(disk, i)
    BY <1>0 DEF Whole
  <2>3. CASE durable
    <3>1. disk' = view /\ view' = view
      BY <1>1, <2>3
    <3> QED
      BY <2>1, <2>3, <3>1 DEF Whole, Settled
  <2>4. CASE ~durable
    <3>1. disk' = disk /\ ~durable'
      BY <1>1, <2>4
    <3> QED
      BY <2>2, <3>1 DEF Whole, Settled
  <2> QED
    BY <2>3, <2>4
<1>10. Midway'
  BY <1>1 DEF Midway
<1> QED
  BY <1>2, <1>3, <1>4, <1>5, <1>6, <1>7, <1>8, <1>9, <1>10 DEF TxInv

\* The view goes back to what the store has or, with no store, to the mark.
LEMMA RollsBack ==
    ASSUME TxInv, mode \in {"block", "unit"}, RollBack, UNCHANGED <<durable, disk, diskKeys>>,
           mode' \in {"retrip", "idle"}
    PROVE  /\ Chained' /\ Synced' /\ KeyedOnce' /\ unusable' \in BOOLEAN /\ (unusable' => durable)
           /\ \A a \in given : keys'[a.key] = a.record /\ Recorded'[a.key] = a.record
           /\ ~durable => /\ mode = "block" /\ DOMAIN view' = 1..mark /\ ~unusable'
                          /\ \A k \in Keys : keys'[k] # None => keys'[k].sequence <= mark
           /\ durable /\ ~unusable' => view' = disk
<1>0. /\ Types /\ Places /\ Synced /\ KeyedOnce /\ Answered /\ Marked /\ ~unusable /\ Chained
      /\ RecordsMatch(view, keys) /\ RecordsMatch(disk, diskKeys)
  BY DEF TxInv, Places, Types, Chained, KeyedOnce
<1>u. unusable = FALSE
  BY <1>0 DEF Types
<1>1. CASE durable
  <2>1. /\ keys' = diskKeys
        /\ \/ view' = disk /\ unusable' = unusable
           \/ unusable' = TRUE /\ view' = view
    BY <1>1 DEF RollBack
  <2>u. (unusable' = TRUE \/ unusable' = FALSE) /\ (unusable' = FALSE => view' = disk)
    BY <1>u, <2>1
  <2>c. Chained'
    BY <1>0, <2>1 DEF Chained
  <2>2. Chained' /\ unusable' \in BOOLEAN /\ (~unusable' => view' = disk)
    BY <2>c, <2>u
  <2>3. Synced'
    BY <1>1, <2>1, <2>2 DEF Synced
  <2>4. KeyedOnce'
    <3>1. RecordsMatch(disk', diskKeys') /\ (~unusable' => RecordsMatch(view', keys'))
      BY <1>0, <2>1, <2>2
    <3> QED
      BY <3>1 DEF KeyedOnce, RecordsMatch
  <2>5. \A a \in given : keys'[a.key] = a.record /\ Recorded'[a.key] = a.record
    BY <1>0, <1>1, <2>1 DEF Answered, Recorded
  <2> QED
    BY <1>1, <2>2, <2>3, <2>4, <2>5
<1>2. CASE ~durable
  <2>1. mode = "block" /\ mark \in Nat /\ mark <= Len(view)
    BY <1>0, <1>2 DEF Places, Marked, Types
  <2>2. view' = SubSeq(view, 1, mark) /\ keys' = Without(keys, mark) /\ unusable' = unusable
    BY <1>2 DEF RollBack, Forgotten, Without
  <2>3. /\ SubSeq(view, 1, mark) \in Seq(Entries) /\ Len(SubSeq(view, 1, mark)) = mark
        /\ Without(keys, mark) \in [Keys -> Records \union {None}]
        /\ RecordsMatch(SubSeq(view, 1, mark), Without(keys, mark))
    BY <1>0, <2>1, Rewinding DEF Chained
  <2>4. Chained'
    BY <1>0, <2>2, <2>3 DEF Chained
  <2>5. DOMAIN view' = 1..mark
    BY <2>2, <2>3, LenProperties
  <2>6. Synced'
    BY <1>0, <1>2 DEF Synced, NoCalls
  <2>7. KeyedOnce'
    <3>1. RecordsMatch(disk', diskKeys') /\ RecordsMatch(view', keys')
      BY <1>0, <2>2, <2>3
    <3> QED
      BY <3>1 DEF KeyedOnce, RecordsMatch
  <2>8. ASSUME NEW a \in given PROVE keys'[a.key] = a.record /\ Recorded'[a.key] = a.record
    <3>1. a.key \in Keys /\ a.record \in Records /\ keys[a.key] = a.record /\ a.record.sequence <= mark
      BY <1>0, <1>2, <2>1 DEF Types, Told, Answered
    <3>2. a.record.sequence \in Nat
      BY <3>1 DEF Records
    <3>3. ~(a.record.sequence > mark)
      BY <2>1, <3>1, <3>2
    <3>4. keys'[a.key] = a.record
      BY <2>2, <3>1, <3>3 DEF Without
    <3> QED
      BY <1>2, <3>4 DEF Recorded
  <2>9. ASSUME NEW k \in Keys, keys'[k] # None PROVE keys'[k].sequence <= mark
    <3>1. keys'[k] = keys[k] /\ ~(keys[k].sequence > mark)
      BY <2>2, <2>9 DEF Without
    <3>2. keys[k] \in Records
      BY <1>0, <2>9, <3>1 DEF Chained
    <3>3. keys[k].sequence \in Nat
      BY <3>2 DEF Records
    <3> QED
      BY <2>1, <3>1, <3>3
  <2>10. unusable' = FALSE
    BY <1>u, <2>2
  <2> QED
    BY <1>2, <2>1, <2>10, <2>4, <2>5, <2>6, <2>7, <2>8, <2>9
<1> QED
  BY <1>1, <1>2

\* What both ends of a failed unit of work share.
LEMMA FailedEnds ==
    ASSUME TxInv, mode \in {"block", "unit"}, settling = None, RollBack, Over({}),
           mode' \in {"retrip", "idle"},
           UNCHANGED <<durable, disk, diskKeys, mark, trips, latched, unwritten, settling>>
    PROVE  /\ Types' /\ Synced' /\ KeyedOnce' /\ AsKept' /\ Answered' /\ Whole' /\ Midway'
           /\ held' = {} /\ failed' = FALSE /\ (unusable' => durable)
<1>0. Types /\ Places /\ Whole
  BY DEF TxInv
<1>1. /\ given' = given \union {} /\ held' = {} /\ failed' = FALSE /\ AsKept'
      /\ unitCalls' \in [Keys -> Records \union {None}]
      /\ keyCache' \in [Keys -> Records \union {None, Unread}]
  BY OverForgets
<1>2. /\ Chained' /\ Synced' /\ KeyedOnce' /\ unusable' \in BOOLEAN /\ (unusable' => durable)
      /\ \A a \in given : keys'[a.key] = a.record /\ Recorded'[a.key] = a.record
      /\ durable /\ ~unusable' => view' = disk
  BY RollsBack
<1>3. Types'
  BY <1>0, <1>1, <1>2 DEF Types, Chained, Modes
<1>4. Answered'
  BY <1>1, <1>2 DEF Answered
<1>5. Whole'
  <2>1. \A i \in DOMAIN disk : disk[i].kind = "hold" /\ disk[i].op = "spend" => Settled(disk, i)
    BY <1>0 DEF Whole
  <2> QED
    BY <1>2, <2>1 DEF Whole, Settled
<1>6. Midway'
  BY DEF Midway
<1> QED
  BY <1>1, <1>2, <1>3, <1>4, <1>5, <1>6

LEMMA UnitFailsStep ==
    ASSUME TxInv, UnitFails
    PROVE  TxInv'
<1>1. /\ mode = "unit" /\ settling = None /\ RollBack /\ Over({}) /\ mode' = "idle"
      /\ UNCHANGED <<durable, disk, diskKeys, mark, trips, latched, unwritten, settling>>
  BY DEF UnitFails, block
<1>2. /\ Types' /\ Synced' /\ KeyedOnce' /\ AsKept' /\ Answered' /\ Whole' /\ Midway'
      /\ held' = {} /\ failed' = FALSE /\ (unusable' => durable)
  BY <1>1, FailedEnds
<1>3. latched = {} /\ trips = <<>>
  BY <1>1 DEF TxInv, Places
<1>4. Places'
  BY <1>1, <1>2, <1>3 DEF Places
<1>5. Marked' /\ Survivors' /\ Outlived' /\ TripsListed'
  BY <1>1, <1>3 DEF Marked, Survivors, Outlived, TripsListed
<1> QED
  BY <1>2, <1>4, <1>5 DEF TxInv

LEMMA BlockFailsStep ==
    ASSUME TxInv, BlockFails
    PROVE  TxInv'
<1>1. /\ mode = "block" /\ settling = None /\ RollBack /\ Over({}) /\ mode' = "retrip"
      /\ UNCHANGED <<durable, disk, diskKeys, mark, trips, latched, unwritten, settling>>
  BY DEF BlockFails, block
<1>2. /\ Types' /\ Synced' /\ KeyedOnce' /\ AsKept' /\ Answered' /\ Whole' /\ Midway'
      /\ held' = {} /\ failed' = FALSE /\ (unusable' => durable)
  BY <1>1, FailedEnds
<1>3. /\ ~durable => /\ DOMAIN view' = 1..mark
                     /\ \A k \in Keys : keys'[k] # None => keys'[k].sequence <= mark
  BY <1>1, RollsBack
<1>4. Places'
  BY <1>1, <1>2 DEF Places
<1>5. Marked' /\ TripsListed'
  BY <1>1 DEF Marked, TripsListed
<1>6. /\ \A l \in latched : l.byTrip => Listed(l.scope)
      /\ \A i \in DOMAIN trips : [scope |-> trips[i], byTrip |-> TRUE] \in latched
      /\ mark \in Nat
  BY <1>1 DEF TxInv, Outlived, TripsListed, Types
<1>7. Outlived'
  BY <1>1, <1>6 DEF Outlived, Listed
<1>8. /\ \A i \in DOMAIN Ledger' : ~(i > mark)
      /\ \A k \in Keys : Recorded'[k] # None => Recorded'[k].sequence <= mark
  <2>1. CASE durable
    <3>1. /\ Ledger' = disk /\ Recorded' = diskKeys /\ mark = Len(disk) /\ disk \in Seq(Entries)
          /\ RecordsMatch(disk, diskKeys)
      BY <1>1, <2>1 DEF Ledger, Recorded, TxInv, Marked, Types, KeyedOnce
    <3>2. DOMAIN disk = 1..mark
      BY <3>1, LenProperties
    <3>3. ASSUME NEW k \in Keys, diskKeys[k] # None PROVE diskKeys[k].sequence \in DOMAIN disk
      BY <3>1, <3>3 DEF RecordsMatch
    <3> QED
      BY <1>6, <3>1, <3>2, <3>3
  <2>2. CASE ~durable
    <3>1. Ledger' = view' /\ Recorded' = keys'
      BY <1>1, <2>2 DEF Ledger, Recorded
    <3> QED
      BY <1>3, <1>6, <2>2, <3>1
  <2> QED
    BY <2>1, <2>2
<1>9. Survivors'
  BY <1>1, <1>6, <1>8 DEF Survivors
<1> QED
  BY <1>2, <1>4, <1>5, <1>7, <1>9 DEF TxInv

\* A trip at the end of a chain is in force; it releases no other and
\* registers nothing.
LEMMA TripAppended ==
    ASSUME NEW c \in Seq(Entries), NEW e \in Entries, e.kind = "trip"
    PROVE  /\ Tripped(c \o <<e>>, e.scope)
           /\ \A s : Tripped(c, s) => Tripped(c \o <<e>>, s)
           /\ Registered(c \o <<e>>) = Registered(c)
           /\ Len(c) \in Nat /\ DOMAIN c = 1..Len(c) /\ DOMAIN (c \o <<e>>) = 1..(Len(c) + 1)
           /\ (c \o <<e>>)[Len(c) + 1] = e
           /\ \A i \in 1..Len(c) : (c \o <<e>>)[i] = c[i]
<1> PICK d : d = c \o <<e>>
  OBVIOUS
<1>0. <<e>> \in Seq(Entries) /\ Len(<<e>>) = 1 /\ <<e>>[1] = e
  OBVIOUS
<1>1. /\ Len(c) \in Nat /\ DOMAIN c = 1..Len(c) /\ DOMAIN d = 1..(Len(c) + Len(<<e>>))
      /\ \A i \in 1..Len(c) : d[i] = c[i]
      /\ \A i \in 1..Len(<<e>>) : d[Len(c) + i] = <<e>>[i]
  BY <1>0, Joined
<1>2. /\ DOMAIN d = 1..(Len(c) + 1) /\ d[Len(c) + 1] = e
      /\ Len(c) + 1 \in DOMAIN d
      /\ \A i \in DOMAIN d : i = Len(c) + 1 \/ (i \in DOMAIN c /\ d[i] = c[i])
      /\ \A i \in DOMAIN c : i \in DOMAIN d /\ d[i] = c[i]
  BY <1>0, <1>1
<1>3. Tripped(d, e.scope)
  <2>1. \A j \in DOMAIN d : ~(j > Len(c) + 1)
    BY <1>1, <1>2
  <2> QED
    BY <1>2, <2>1 DEF Tripped
<1>4. ASSUME NEW s, Tripped(c, s) PROVE Tripped(d, s)
  <2>1. PICK i \in DOMAIN c :
            /\ c[i].kind = "trip" /\ c[i].scope = s
            /\ \A j \in DOMAIN c : j > i => ~(c[j].kind = "reset" /\ c[j].scope = s)
    BY <1>4 DEF Tripped
  <2>2. i \in DOMAIN d /\ d[i] = c[i]
    BY <1>2
  <2>3. \A j \in DOMAIN d : j > i => ~(d[j].kind = "reset" /\ d[j].scope = s)
    BY <1>2, <2>1
  <2> QED
    BY <2>1, <2>2, <2>3 DEF Tripped
<1>5. {i \in DOMAIN d : d[i].kind = "open"} = {i \in DOMAIN c : c[i].kind = "open"}
  BY <1>2
<1>6. Registered(d) = Registered(c)
  <2>1. \A i \in {j \in DOMAIN c : c[j].kind = "open"} : d[i] = c[i]
    BY <1>2
  <2>2. {d[i].scope : i \in {j \in DOMAIN c : c[j].kind = "open"}}
          = {c[i].scope : i \in {j \in DOMAIN c : c[j].kind = "open"}}
    BY <2>1
  <2> QED
    BY <1>5, <2>2 DEF Registered
<1> QED
  BY <1>1, <1>2, <1>3, <1>4, <1>6

LEMMA Tailing ==
    ASSUME NEW q \in Seq(Scopes), q # <<>>
    PROVE  /\ Head(q) \in Scopes /\ Tail(q) \in Seq(Scopes)
           /\ 1 \in DOMAIN q /\ q[1] = Head(q)
           /\ \A i \in DOMAIN Tail(q) : \E j \in DOMAIN q : q[j] = Tail(q)[i]
           /\ \A i \in DOMAIN q : q[i] = Head(q) \/ \E j \in DOMAIN Tail(q) : Tail(q)[j] = q[i]
<1> PICK t : t = Tail(q)
  OBVIOUS
<1>1. /\ Head(q) = q[1] /\ Head(q) \in Scopes /\ t \in Seq(Scopes) /\ Len(t) = Len(q) - 1
      /\ \A i \in 1..Len(t) : t[i] = q[i + 1]
  BY HeadTailProperties
<1>2. /\ Len(q) \in Nat /\ Len(q) > 0 /\ DOMAIN q = 1..Len(q) /\ DOMAIN t = 1..Len(t)
  BY <1>1, EmptySeq, LenProperties
<1>3. ASSUME NEW i \in DOMAIN t PROVE \E j \in DOMAIN q : q[j] = t[i]
  <2>1. i + 1 \in DOMAIN q /\ t[i] = q[i + 1]
    BY <1>1, <1>2
  <2> QED
    BY <2>1
<1>4. ASSUME NEW i \in DOMAIN q, q[i] # Head(q) PROVE \E j \in DOMAIN t : t[j] = q[i]
  <2>1. i # 1
    BY <1>1, <1>4
  <2>2. i - 1 \in DOMAIN t /\ (i - 1) + 1 = i
    BY <1>1, <1>2, <2>1
  <2>3. t[i - 1] = q[i]
    BY <1>1, <1>2, <2>2
  <2> QED
    BY <2>2, <2>3
<1> QED
  BY <1>1, <1>2, <1>3, <1>4

LEMMA RetripStep ==
    ASSUME TxInv, Retrip
    PROVE  TxInv'
<1>a. PICK s : s = Head(trips)
  OBVIOUS
<1>1. /\ mode = "retrip" /\ trips # <<>> /\ trips' = Tail(trips)
      /\ mode' = mode /\ durable' = durable /\ mark' = mark /\ latched' = latched
      /\ settling' = settling /\ unusable' = unusable
      /\ UNCHANGED <<unitCalls, keyCache, held, given>>
  BY DEF Retrip, asked
<1>2. \/ /\ Tripped(view, s) /\ ~unusable
         /\ UNCHANGED <<disk, diskKeys, view, keys, failed, unwritten>>
      \/ /\ ~unusable
         /\ Commit(<<Entry("trip", s, 0, "trip", None)>>, None, None)
         /\ unwritten' = unwritten
      \/ /\ unusable \/ durable \/ s \notin Registered(view)
         /\ unwritten' = unwritten \union {s}
         /\ UNCHANGED <<disk, diskKeys, view, keys, failed>>
  BY <1>a DEF Retrip, chain, unit
<1>0. /\ Types /\ Places /\ Synced /\ KeyedOnce /\ AsKept /\ Answered
      /\ Survivors /\ Outlived /\ Whole
      /\ trips \in Seq(Scopes) /\ view \in Seq(Entries) /\ disk \in Seq(Entries)
      /\ settling = None /\ held = {} /\ ~failed /\ ~Deferred
      /\ durable \in BOOLEAN /\ mark \in Nat
  BY <1>1 DEF TxInv, Types, Places, Deferred, Active
<1>3. /\ s \in Scopes /\ trips' \in Seq(Scopes) /\ 1 \in DOMAIN trips /\ trips[1] = s
      /\ \A i \in DOMAIN trips' : \E j \in DOMAIN trips : trips[j] = trips'[i]
      /\ \A i \in DOMAIN trips : trips[i] = s \/ \E j \in DOMAIN trips' : trips'[j] = trips[i]
  BY <1>0, <1>1, <1>a, Tailing
<1>4. /\ \A i \in DOMAIN trips' : [scope |-> trips'[i], byTrip |-> TRUE] \in latched
      /\ [scope |-> s, byTrip |-> TRUE] \in latched
  BY <1>0, <1>1, <1>3 DEF Survivors
<1>5. \A x : Listed(x) => x = s \/ Listed(x)'
  BY <1>3 DEF Listed
<1>6. ~unusable => Ledger = view
  BY <1>0, <1>1 DEF Ledger, Synced
<1>7. Marked' /\ TripsListed' /\ Midway'
  BY <1>0, <1>1 DEF Marked, TripsListed, Midway
<1>8. CASE /\ ~unusable
           /\ Commit(<<Entry("trip", s, 0, "trip", None)>>, None, None)
           /\ unwritten' = unwritten
  <2>a. PICK e : e = Entry("trip", s, 0, "trip", None)
    OBVIOUS
  <2>0. "trip" \in Kinds /\ 0 \in Nat /\ "trip" \in Ops /\ None \in Keys \union {None}
    BY DEF Kinds, Ops
  <2>1. e \in Entries /\ e.key = None /\ e.kind = "trip" /\ e.scope = s
    BY <1>3, <2>0, <2>a, EntryIn
  <2>2. Stays /\ UNCHANGED <<durable, unusable>> /\ mode \in Active \union {"retrip"}
    BY <1>1 DEF Stays
  <2>3. /\ Adds(<<e>>, None) /\ Chained' /\ Synced' /\ KeyedOnce' /\ keys' = keys
        /\ UNCHANGED failed /\ view' = view \o <<e>>
        /\ durable /\ ~Deferred => disk' = view'
    BY <1>8, <2>1, <2>2, <2>a, Unkeyed
  <2>4. Ledger' = Ledger \o <<e>> /\ Ledger \in Seq(Entries)
    BY <1>0, <1>1, <1>6, <1>8, <2>3 DEF Ledger
  <2>5. /\ Tripped(Ledger', s)
        /\ \A x : Tripped(Ledger, x) => Tripped(Ledger', x)
        /\ Registered(Ledger') = Registered(Ledger)
        /\ Len(Ledger) \in Nat /\ DOMAIN Ledger = 1..Len(Ledger)
        /\ DOMAIN Ledger' = 1..(Len(Ledger) + 1)
        /\ Ledger'[Len(Ledger) + 1] = e
        /\ \A i \in 1..Len(Ledger) : Ledger'[i] = Ledger[i]
    BY <2>1, <2>4, TripAppended
  <2>6. Recorded' = Recorded /\ diskKeys' = diskKeys
    <3>1. CASE durable
      <4>1. keys = diskKeys /\ keys' = diskKeys'
        BY <1>0, <1>1, <2>3, <3>1 DEF Synced
      <4> QED
        BY <1>1, <2>3, <4>1, <3>1 DEF Recorded
    <3>2. CASE ~durable
      <4>1. diskKeys = NoCalls /\ diskKeys' = NoCalls
        BY <1>0, <1>1, <2>3, <3>2 DEF Synced, NoCalls
      <4> QED
        BY <1>1, <2>3, <4>1, <3>2 DEF Recorded
    <3> QED
      BY <3>1, <3>2
  <2>7. Types'
    BY <1>0, <1>1, <1>3, <1>8, <2>3 DEF Types, Chained, Adds
  <2>8. Places'
    BY <1>0, <1>1, <2>3 DEF Places
  <2>9. AsKept'
    BY <1>0, <1>1, <2>3 DEF AsKept, Known
  <2>10. Answered'
    BY <1>0, <1>1, <2>3, <2>6 DEF Answered
  <2>11. Survivors'
    <3>1. \A i \in DOMAIN Ledger : i > mark =>
             /\ Ledger[i].kind = "trip"
             /\ [scope |-> Ledger[i].scope, byTrip |-> TRUE] \in latched
      BY <1>0, <1>1 DEF Survivors
    <3>2. \A i \in DOMAIN Ledger' : i \in DOMAIN Ledger \/ i = Len(Ledger) + 1
      BY <2>5
    <3>3. \A i \in DOMAIN Ledger' : i > mark =>
             /\ Ledger'[i].kind = "trip"
             /\ [scope |-> Ledger'[i].scope, byTrip |-> TRUE] \in latched
      BY <1>4, <2>1, <2>5, <3>1, <3>2
    <3>4. \A k \in Keys : Recorded'[k] # None => Recorded'[k].sequence <= mark
      BY <1>0, <1>1, <2>6 DEF Survivors
    <3> QED
      BY <1>1, <1>4, <3>3, <3>4 DEF Survivors
  <2>12. Outlived'
    <3> SUFFICES ASSUME NEW l \in latched, l.byTrip
                 PROVE  \/ Listed(l.scope)' \/ Tripped(Ledger', l.scope)
                        \/ MayBeMissing(l.scope)'
      BY <1>1 DEF Outlived, Tripped
    <3>1. Listed(l.scope) \/ Tripped(Ledger, l.scope) \/ MayBeMissing(l.scope)
      BY <1>0, <1>1 DEF Outlived
    <3>2. ASSUME MayBeMissing(l.scope) PROVE MayBeMissing(l.scope)'
      <4>1. l.scope \in unwritten /\ (durable \/ l.scope \notin Registered(Ledger))
        BY <3>2 DEF MayBeMissing
      <4>2. l.scope \in unwritten' /\ (durable' \/ l.scope \notin Registered(Ledger'))
        BY <1>1, <1>8, <2>5, <4>1
      <4> QED
        BY <4>2 DEF MayBeMissing, Registered
    <3> QED
      BY <1>5, <2>5, <3>1, <3>2
  <2>13. Whole'
    <3>1. \A i \in 1..Len(<<e>>) : IsSpend(<<e>>[i]) =>
              Deferred /\ settling' # None /\ settling'.hold = Len(view) + i
      BY <2>1, OneEntry DEF IsSpend
    <3>2. UNCHANGED settling
      BY <1>1
    <3> QED
      BY <1>8, <2>2, <2>3, <3>1, <3>2, CallWhole
  <2> QED
    BY <1>7, <2>3, <2>7, <2>8, <2>9, <2>10, <2>11, <2>12, <2>13 DEF TxInv
<1>9. ASSUME UNCHANGED <<disk, diskKeys, view, keys, failed>>,
             unwritten' = unwritten \/ unwritten' = unwritten \union {s},
             \/ Tripped(view, s) /\ ~unusable
             \/ s \in unwritten' /\ (unusable \/ durable \/ s \notin Registered(view))
      PROVE  TxInv'
  <2>1. Ledger' = Ledger /\ Recorded' = Recorded
    BY <1>1, <1>9 DEF Ledger, Recorded
  <2>2. Types'
    BY <1>0, <1>1, <1>3, <1>9 DEF Types
  <2>3. Places'
    BY <1>0, <1>1, <1>9 DEF Places
  <2>4. Synced' /\ AsKept'
    BY <1>0, <1>1, <1>9 DEF Synced, AsKept, Known, NoCalls
  <2>5. KeyedOnce'
    BY <1>0, <1>1, <1>9 DEF KeyedOnce, RecordsMatch
  <2>6. Answered'
    BY <1>0, <1>1, <1>9, <2>1 DEF Answered
  <2>7. Survivors'
    BY <1>0, <1>1, <1>4, <2>1 DEF Survivors
  <2>8. Whole'
    BY <1>0, <1>1, <1>9 DEF Whole, Settled, Deferred
  <2>9. Outlived'
    <3> SUFFICES ASSUME NEW l \in latched, l.byTrip
                 PROVE  \/ Listed(l.scope)' \/ Tripped(Ledger', l.scope)
                        \/ MayBeMissing(l.scope)'
      BY <1>1 DEF Outlived, Tripped
    <3>1. Listed(l.scope) \/ Tripped(Ledger, l.scope) \/ MayBeMissing(l.scope)
      BY <1>0, <1>1 DEF Outlived
    <3>2. ASSUME MayBeMissing(l.scope) PROVE MayBeMissing(l.scope)'
      <4>1. l.scope \in unwritten /\ (durable \/ l.scope \notin Registered(Ledger))
        BY <3>2 DEF MayBeMissing
      <4>2. l.scope \in unwritten' /\ (durable' \/ l.scope \notin Registered(Ledger'))
        BY <1>1, <1>9, <2>1, <4>1
      <4> QED
        BY <4>2 DEF MayBeMissing, Registered
    <3>3. ASSUME l.scope = s
          PROVE  Tripped(Ledger', s) \/ MayBeMissing(s)'
      <4>1. CASE Tripped(view, s) /\ ~unusable
        BY <1>6, <2>1, <4>1
      <4>2. CASE s \in unwritten' /\ (unusable \/ durable \/ s \notin Registered(view))
        <5>1. durable' \/ s \notin Registered(Ledger')
          BY <1>0, <1>1, <1>6, <2>1, <4>2 DEF Places
        <5> QED
          BY <4>2, <5>1 DEF MayBeMissing, Registered
      <4> QED
        BY <1>9, <4>1, <4>2
    <3> QED
      BY <1>5, <2>1, <3>1, <3>2, <3>3
  <2> QED
    BY <1>7, <2>2, <2>3, <2>4, <2>5, <2>6, <2>7, <2>8, <2>9 DEF TxInv
<1> QED
  BY <1>2, <1>8, <1>9

LEMMA RaiseFromBlockStep ==
    ASSUME TxInv, RaiseFromBlock
    PROVE  TxInv'
<1>1. /\ mode = "retrip" /\ trips = <<>> /\ mode' = "raised"
      /\ UNCHANGED <<durable, disk, diskKeys, view, keys, failed, mark, trips, latched,
                     unwritten, settling, unitCalls, keyCache, held, given, unusable>>
  BY DEF RaiseFromBlock, chain, unit, block, asked
<1>2. Types'
  BY <1>1 DEF TxInv, Types, Modes
<1>3. Places'
  BY <1>1 DEF TxInv, Places, Deferred, Active
<1>4. Synced' /\ AsKept'
  BY <1>1 DEF TxInv, Synced, AsKept, Known, NoCalls
<1>5. KeyedOnce'
  BY <1>1 DEF TxInv, KeyedOnce, RecordsMatch
<1>6. Answered'
  BY <1>1 DEF TxInv, Answered, Recorded
<1>7. Marked' /\ TripsListed'
  BY <1>1 DEF Marked, TripsListed
<1>8. Ledger' = Ledger /\ Recorded' = Recorded
  BY <1>1 DEF Ledger, Recorded
<1>9. Survivors'
  BY <1>1, <1>8 DEF TxInv, Survivors
<1>10. Outlived'
  BY <1>1 DEF TxInv, Outlived, Listed, Tripped, MayBeMissing, Ledger, Registered
<1>11. Whole' /\ Midway'
  BY <1>1 DEF TxInv, Whole, Settled, Deferred, Midway
<1> QED
  BY <1>2, <1>3, <1>4, <1>5, <1>6, <1>7, <1>9, <1>10, <1>11 DEF TxInv

LEMMA GoOnStep ==
    ASSUME TxInv, GoOn
    PROVE  TxInv'
<1>1. /\ mode = "raised" /\ mode' = "idle"
      /\ mark' = 0 /\ trips' = <<>> /\ latched' = {} /\ unwritten' = {}
      /\ UNCHANGED <<durable, disk, diskKeys, view, keys, failed,
                     settling, unitCalls, keyCache, held, given, unusable>>
  BY DEF GoOn, chain, unit, asked
<1>2. Types'
  BY <1>1, EmptySeq DEF TxInv, Types, Modes
<1>3. Places'
  BY <1>1 DEF TxInv, Places, Deferred, Active
<1>4. Synced' /\ AsKept'
  BY <1>1 DEF TxInv, Synced, AsKept, Known, NoCalls
<1>5. KeyedOnce'
  BY <1>1 DEF TxInv, KeyedOnce, RecordsMatch
<1>6. Answered'
  BY <1>1 DEF TxInv, Answered, Recorded
<1>7. Marked' /\ TripsListed' /\ Survivors' /\ Outlived'
  BY <1>1 DEF Marked, TripsListed, Survivors, Outlived
<1>8. Whole' /\ Midway'
  BY <1>1 DEF TxInv, Whole, Settled, Deferred, Midway
<1> QED
  BY <1>2, <1>3, <1>4, <1>5, <1>6, <1>7, <1>8 DEF TxInv

LEMMA CrashStep ==
    ASSUME TxInv, Crash
    PROVE  TxInv'
<1>1. /\ durable /\ mode' = "down" /\ view' = <<>> /\ keys' = diskKeys
      /\ failed' = FALSE /\ mark' = 0 /\ trips' = <<>> /\ latched' = {} /\ unwritten' = {}
      /\ settling' = None /\ unitCalls' = NoCalls /\ keyCache' = NotRead /\ held' = {}
      /\ unusable' = FALSE
      /\ UNCHANGED <<durable, disk, diskKeys, given>>
  BY DEF Crash
<1>2. Types'
  BY <1>1, EmptySeq DEF TxInv, Types, Modes, NoCalls, NotRead
<1>3. Places'
  BY <1>1 DEF Places
<1>4. Synced'
  BY <1>1 DEF Synced
<1>5. KeyedOnce'
  BY <1>1 DEF TxInv, KeyedOnce, RecordsMatch
<1>6. AsKept'
  <2>1. \A q \in Keys : unitCalls'[q] = None /\ keyCache'[q] = Unread
    BY <1>1 DEF NoCalls, NotRead
  <2> QED
    BY <2>1 DEF AsKept, Known
<1>7. Answered'
  BY <1>1 DEF TxInv, Answered, Recorded
<1>8. Marked' /\ TripsListed' /\ Survivors' /\ Outlived' /\ Midway'
  BY <1>1 DEF Marked, TripsListed, Survivors, Outlived, Midway
<1>9. Whole'
  BY <1>1 DEF TxInv, Whole, Settled
<1> QED
  BY <1>2, <1>3, <1>4, <1>5, <1>6, <1>7, <1>8, <1>9 DEF TxInv

LEMMA RestartStep ==
    ASSUME TxInv, Restart
    PROVE  TxInv'
<1>1. /\ mode = "down" /\ mode' = "idle" /\ view' = disk
      /\ UNCHANGED <<durable, disk, diskKeys, keys, failed, mark, trips, latched,
                     unwritten, settling, unitCalls, keyCache, held, given, unusable>>
  BY DEF Restart, unit, block, asked
<1>0. durable /\ keys = diskKeys /\ settling = None /\ ~unusable
  BY <1>1 DEF TxInv, Places, Synced, Active
<1>2. Types'
  BY <1>1 DEF TxInv, Types, Modes
<1>3. Places'
  BY <1>1 DEF TxInv, Places, Deferred, Active
<1>4. Synced' /\ AsKept'
  BY <1>0, <1>1 DEF TxInv, Synced, AsKept, Known
<1>5. KeyedOnce'
  BY <1>0, <1>1 DEF TxInv, KeyedOnce, RecordsMatch
<1>6. Answered'
  BY <1>1 DEF TxInv, Answered, Recorded
<1>7. Marked' /\ TripsListed' /\ Survivors' /\ Outlived' /\ Midway'
  BY <1>0, <1>1 DEF TxInv, Places, Marked, TripsListed, Survivors, Outlived, Midway
<1>8. Whole'
  BY <1>1 DEF TxInv, Whole, Settled
<1> QED
  BY <1>2, <1>3, <1>4, <1>5, <1>6, <1>7, <1>8 DEF TxInv

LEMMA StutterStep ==
    ASSUME TxInv, UNCHANGED vars
    PROVE  TxInv'
<1>1. UNCHANGED <<durable, disk, diskKeys, view, keys, mode, failed, mark, trips, latched,
                  unwritten, settling, unitCalls, keyCache, held, given, unusable>>
  BY DEF vars, chain, unit, block, asked
<1>2. Types' /\ Places' /\ Synced' /\ AsKept'
  BY <1>1 DEF TxInv, Types, Places, Synced, AsKept, Known, Deferred, NoCalls
<1>3. KeyedOnce' /\ Answered'
  BY <1>1 DEF TxInv, KeyedOnce, RecordsMatch, Answered, Recorded
<1>4. Marked' /\ TripsListed' /\ Whole' /\ Midway'
  BY <1>1 DEF TxInv, Marked, TripsListed, Whole, Settled, Deferred, Midway
<1>5. Ledger' = Ledger /\ Recorded' = Recorded
  BY <1>1 DEF Ledger, Recorded
<1>6. Survivors'
  BY <1>1, <1>5 DEF TxInv, Survivors
<1>7. Outlived'
  BY <1>1 DEF TxInv, Outlived, Listed, Tripped, MayBeMissing, Ledger, Registered
<1> QED
  BY <1>2, <1>3, <1>4, <1>6, <1>7 DEF TxInv

LEMMA TxInit ==
    ASSUME Init
    PROVE  TxInv
<1>1. /\ durable \in BOOLEAN /\ disk = <<>> /\ diskKeys = NoCalls /\ view = <<>>
      /\ keys = NoCalls /\ mode = "idle" /\ failed = FALSE /\ mark = 0 /\ trips = <<>>
      /\ latched = {} /\ unwritten = {} /\ settling = None /\ unitCalls = NoCalls
      /\ keyCache = NotRead /\ held = {} /\ given = {} /\ unusable = FALSE
  BY DEF Init
<1>2. DOMAIN disk = {} /\ DOMAIN view = {} /\ disk \in Seq(Entries) /\ trips \in Seq(Scopes)
  BY <1>1, EmptySeq
<1>3. Types
  BY <1>1, <1>2 DEF Types, Modes, NoCalls, NotRead
<1>4. Places /\ Synced /\ Answered /\ Marked /\ Survivors /\ Outlived /\ TripsListed /\ Midway
  BY <1>1 DEF Places, Synced, Answered, Marked, Survivors, Outlived, TripsListed, Midway
<1>5. KeyedOnce
  <2>1. \A k \in Keys : diskKeys[k] = None /\ keys[k] = None
    BY <1>1 DEF NoCalls
  <2> QED
    BY <1>2, <2>1 DEF KeyedOnce, RecordsMatch
<1>6. AsKept
  <2>1. \A q \in Keys : unitCalls[q] = None /\ keyCache[q] = Unread
    BY <1>1 DEF NoCalls, NotRead
  <2> QED
    BY <2>1 DEF AsKept, Known
<1>7. Whole
  BY <1>2 DEF Whole
<1> QED
  BY <1>3, <1>4, <1>5, <1>6, <1>7 DEF TxInv

LEMMA TxStep ==
    ASSUME TxInv, [Next]_vars
    PROVE  TxInv'
<1>1. ASSUME Calls PROVE TxInv'
  <2>1. ASSUME NEW k \in Keys, NEW r \in Requests, Replay(k, r) PROVE TxInv'
    BY <2>1, ReplayStep
  <2>2. ASSUME NEW k \in Keys \union {None},
               \/ Refuse(k)
               \/ \E s \in Scopes : Deny(k, s) \/ Authorize(k, s) \/ Delegate(k, s) \/ SpendHold(k, s)
               \/ \E h \in OpenHolds(view), op \in {"capture", "void"} : Settle(k, h, op)
        PROVE  TxInv'
    BY <2>2, RefuseStep, DenyStep, AuthorizeStep, DelegateStep, SpendHoldStep, SettleStep
  <2>3. ASSUME NEW s \in Scopes, Trip(s) \/ Reset(s) PROVE TxInv'
    BY <2>3, TripStep, ResetStep
  <2> QED
    BY <1>1, <2>1, <2>2, <2>3, SpendSettleStep DEF Calls
<1> QED
  BY <1>1, BeginStep, BeginBlockStep, SucceedStep, BlockFailsStep, UnitFailsStep, RetripStep,
     RaiseFromBlockStep, GoOnStep, CrashStep, RestartStep, StutterStep DEF Next

----------------------------------------------------------------------------
(* Theorems *)

\* Every unit of work, block, failure, crash and retry keeps the invariant:
\* what the store has, what the view and a unit of work remember of it and
\* what the callers were told stay in step (transaction, _called, _lead).
THEOREM UnitsKeepStep == Spec => []TxInv
<1>1. Init => TxInv
  BY TxInit
<1>2. TxInv /\ [Next]_vars => TxInv'
  BY TxStep
<1> QED
  BY <1>1, <1>2, PTL DEF Spec

\* A call retried under its key, however often and whatever fails, rolls back
\* or crashes in between, is written once and its record names that entry
\* (_called, _commit, _rewind).
THEOREM RetriesWriteOnce == Spec => []KeyedOnce
<1>1. TxInv => KeyedOnce
  BY DEF TxInv
<1> QED
  BY <1>1, UnitsKeepStep, PTL

\* What a caller was told outside a unit of work, or once it committed, stays
\* what the ledger has recorded of the call (_called, _lead, transaction).
THEOREM AnswersAreNotTakenBack == Spec => []AnswersStand
<1>1. TxInv => AnswersStand
  BY DEF TxInv, Answered, AnswersStand
<1> QED
  BY <1>1, UnitsKeepStep, PTL

\* A block whose error reaches its caller has left breaker trips of its own
\* behind and nothing else (_roll_back, _retrip).
THEOREM BlocksLeaveOnlyTrips == Spec => []OnlyTripsSurvive
<1>1. TxInv => OnlyTripsSurvive
  BY DEF TxInv, Survivors, OnlyTripsSurvive
<1> QED
  BY <1>1, UnitsKeepStep, PTL

\* And every trip _trip recorded in it is in force, unless it could not be
\* written again (_retrip).
THEOREM BlocksKeepTheirTrips == Spec => []TripsOutliveTheirBlock
<1>1. TxInv => TripsOutliveTheirBlock
  <2> SUFFICES ASSUME TxInv, mode = "raised", NEW l \in latched, l.byTrip
               PROVE  Tripped(Ledger, l.scope) \/ MayBeMissing(l.scope)
    BY DEF TripsOutliveTheirBlock
  <2>1. trips = <<>>
    BY DEF TxInv, Places
  <2>2. ~Listed(l.scope)
    BY <2>1, EmptySeq DEF Listed
  <2> QED
    BY <2>2 DEF TxInv, Outlived
<1> QED
  BY <1>1, UnitsKeepStep, PTL

\* No committed chain holds the authorization of a spend made in a unit of
\* work without its settlement, whichever of the two writes fails (spend).
THEOREM SpendsAreWhole == Spec => []SpendIsWhole
<1>1. TxInv => SpendIsWhole
  BY DEF TxInv, Whole, Settled, SpendIsWhole, OpenHolds
<1> QED
  BY <1>1, UnitsKeepStep, PTL
=============================================================================
