----------------------------- MODULE ReceiptLog -----------------------------
(***************************************************************************)
(* The durable receipt log (receipts/log.py, _leaves.py), its witness      *)
(* (witness.py) and what a verifier makes of its bundles (verify.py).      *)
(*                                                                         *)
(* Issuing is pipelined: a caller takes the next position under the log's  *)
(* lock, signs outside it, and whoever delivers the receipt whose turn it  *)
(* is appends it and those ready behind it with one write.  A failure      *)
(* takes later positions back.  Publications and rotations of the key run  *)
(* one at a time under a lock of their own, beside the issuing.            *)
(*                                                                         *)
(* Positions and sizes count from 0.  Signatures are the key they were     *)
(* made with; a torn last line is a line that was never written.           *)
(***************************************************************************)
EXTENDS Integers, Sequences, SequencesExt, FiniteSets

CONSTANTS
    Callers,        \* threads that issue or append
    Ids,            \* receipt ids
    Deliveries,     \* the ids that are delivery receipts
    Keys,           \* the log's keys, all trusted by whoever opens it
    FirstKey,       \* the key a new log is signed with
    Outside,        \* the key of whoever signs what append() is given
    EveryReceipts,  \* CheckpointPolicy.every_receipts
    MaxCalls,       \* bound: calls of issue() and append()
    MaxRotations,   \* bound: key transitions
    MaxPublished,   \* bound: checkpoints published
    MaxFaults       \* bound: failed signatures and writes, and crashes

CONSTANTS           \* the log's tree and its proofs (module Merkle)
    TreeEmptyRoot, TreeLeafHash(_), TreeRoot(_, _),
    TreeInclusionProof(_, _, _), TreeVerifyInclusion(_, _, _, _, _),
    TreeConsistencyProof(_, _, _), TreeVerifyConsistency(_, _, _, _, _)

ASSUME ReceiptLogAssumption ==
    /\ IsFiniteSet(Callers) /\ Deliveries \subseteq Ids
    /\ FirstKey \in Keys /\ Outside \notin Keys
    /\ {EveryReceipts, MaxCalls, MaxRotations, MaxPublished, MaxFaults} \subseteq Nat

VARIABLES
    file,         \* the receipts, one per line
    checkpoints,  \* <path>.checkpoints
    transitions,  \* <path>.transitions
    cosigned,     \* the witness's file
    indexed,      \* how many receipts the index holds
    open,         \* this process holds the log
    broken,       \* _broken: the index lags behind the file
    next,         \* _next: the next position to hand out
    caller,       \* each thread's call, and its reservation
    rotating,     \* _rotating
    due,          \* _due
    job,          \* what holds the publish lock, and how far it is
    calls, faults,
    issued,       \* history: the receipts calls have returned
    refusal,      \* history: the witness refused a checkpoint
    published,    \* history: the checkpoints publish() has returned
    lagged        \* history: a rotation read the size of a lagging index

files   == <<file, checkpoints, transitions, cosigned, indexed>>
control == <<rotating, due, job>>
bounds  == <<calls, faults>>
history == <<issued, refusal, published, lagged>>
vars == <<files, open, broken, next, caller, control, bounds, history>>

NoAction == [id |-> "none", at |-> -1, key |-> "none"]
Idle == [pc |-> "idle", mode |-> "issue", id |-> "none", of |-> NoAction,
         at |-> 0, key |-> FirstKey, place |-> "none"]
Free == [stage |-> "free", to |-> FirstKey, size |-> 0, checkpoint |-> <<>>]

-----------------------------------------------------------------------------
(* Keys: KeySchedule.                                                      *)

\* A hand-over: the size the outgoing key signed up to, and the incoming key.
Transition(size, from, to) == [size |-> size, from |-> from, to |-> to]

\* The key in force for a leaf, for a checkpoint, and for what comes next.
ForLeaf(index) ==
    LET held == {n \in DOMAIN transitions : index >= transitions[n].size}
    IN  IF held = {} THEN FirstKey
        ELSE transitions[CHOOSE n \in held : \A k \in held : k <= n].to

\* FAULT: the incoming key is expected on the checkpoint it took over at.
ForCheckpointFrom(size) == ForLeaf(size)

ForCheckpoint(size) ==
    LET held == {n \in DOMAIN transitions : size > transitions[n].size}
    IN  IF held = {} THEN FirstKey
        ELSE transitions[CHOOSE n \in held : \A k \in held : k <= n].to

Current  == IF transitions = <<>> THEN FirstKey ELSE Last(transitions).to
Boundary == IF transitions = <<>> THEN -1 ELSE Last(transitions).size

Follows ==
    \A n \in DOMAIN transitions :
        /\ transitions[n].from = IF n = 1 THEN FirstKey ELSE transitions[n - 1].to
        /\ n > 1 => transitions[n].size >= transitions[n - 1].size

-----------------------------------------------------------------------------
(* The leaves.                                                             *)

\* What the log relies on its tree for: the proof of a leaf verifies, and the
\* proof that a tree begins with a smaller one.
TreeProves(leaves, n) ==
    /\ \A i \in 0..(n - 1) :
         TreeVerifyInclusion(leaves[i + 1], i, n, TreeInclusionProof(leaves, i, n),
                             TreeRoot(leaves, n))
    /\ \A m \in 0..n :
         TreeVerifyConsistency(m, n, TreeRoot([i \in 1..m |-> leaves[i]], m), TreeRoot(leaves, n),
                               TreeConsistencyProof(leaves, m, n))

Leaves(n) == [i \in 1..n |-> TreeLeafHash(file[i])]

\* What a checkpoint says, and the key that signed it.
Checkpoint(size, key, root) == [size |-> size, key |-> key, root |-> root]

Latest == IF checkpoints = <<>> THEN Checkpoint(0, FirstKey, TreeEmptyRoot) ELSE Last(checkpoints)

Reference(doc) == [id |-> doc.id, at |-> doc.at, key |-> doc.key]

\* _check_binding: the leaf a delivery names is that action receipt.
Binds(doc, lines) ==
    doc.id \in Deliveries =>
        /\ doc.of.at + 1 \in DOMAIN lines
        /\ lines[doc.of.at + 1].id \notin Deliveries
        /\ Reference(lines[doc.of.at + 1]) = doc.of

Held == {c \in Callers : caller[c].place = "held"}
Signed == {c \in Held : caller[c].pc = "waiting"}

\* The index finds a receipt by its id.
Indexed(id) == \E i \in 1..indexed : file[i].id = id

\* _check_new, against the index and the positions held.
IsNew(id) ==
    /\ ~Indexed(id)
    /\ \A c \in Held : caller[c].id # id

\* A delivery is made of an action receipt its caller was shown: one in the
\* log, or one whose signer still waits for it to be appended.
Shown ==
    {Reference(file[i]) : i \in {j \in DOMAIN file : file[j].id \notin Deliveries}}
      \cup {[id |-> caller[c].id, at |-> caller[c].at, key |-> caller[c].key] :
              c \in {d \in Signed : caller[d].id \notin Deliveries}}

\* A delivery that would be placed before its action is refused.
Placed(id, of) == id \in Deliveries => of.at < next

-----------------------------------------------------------------------------
(* Taking a position.                                                      *)

Hold(c, mode, id, of, key) ==
    /\ caller' = [caller EXCEPT ![c] =
                    [pc |-> "signing", mode |-> mode, id |-> id, of |-> of,
                     at |-> next, key |-> key, place |-> "held"]]
    /\ next' = next + 1
    /\ UNCHANGED <<files, open, broken, control, faults, history>>

Drafts == {[id |-> i, of |-> NoAction] : i \in Ids \ Deliveries}
            \cup [id : Deliveries, of : Shown]

\* issue(): _reserve.
Reserve(c) ==
    /\ open /\ ~broken /\ ~rotating
    /\ caller[c].pc = "idle" /\ calls < MaxCalls
    /\ calls' = calls + 1
    /\ \E d \in Drafts :
         /\ IsNew(d.id) /\ Placed(d.id, d.of)
         /\ Hold(c, "issue", d.id, d.of, Current)

\* append(): someone else signed it for the next position; it does not wait
\* for a rotation.
AppendSigned(c) ==
    /\ open /\ ~broken
    /\ caller[c].pc = "idle" /\ calls < MaxCalls
    /\ calls' = calls + 1
    /\ \E d \in Drafts :
         /\ IsNew(d.id) /\ Placed(d.id, d.of)
         /\ next = indexed =>
              Binds([id |-> d.id, at |-> next, key |-> Outside, of |-> d.of], file)
         /\ Hold(c, "append", d.id, d.of, Outside)

\* A caller whose position was taken back signs again, for a new one, unless
\* it would now be refused.
Again(c) ==
    /\ caller[c].pc = "again"
    /\ UNCHANGED calls
    /\ IF open /\ ~broken
         THEN /\ ~rotating
              /\ IF IsNew(caller[c].id) /\ Placed(caller[c].id, caller[c].of)
                   THEN Hold(c, "issue", caller[c].id, caller[c].of, Current)
                   ELSE /\ caller' = [caller EXCEPT ![c] = Idle]
                        /\ UNCHANGED <<files, open, broken, next, control, faults, history>>
         ELSE /\ caller' = [caller EXCEPT ![c] = Idle]
              /\ UNCHANGED <<files, open, broken, next, control, faults, history>>

-----------------------------------------------------------------------------
(* The sequencer.                                                          *)

\* FAULT: only the failing position is given back.
TakeBackOne(who, at, failed) ==
    /\ caller' = [c \in Callers |->
                    IF c \in failed THEN [who[c] EXCEPT !.place = "failed"] ELSE who[c]]
    /\ next' = at

\* _take_back: positions from at on are released; the callers in failed learn
\* of it as an error, the others sign again.
TakeBack(who, at, failed) ==
    /\ caller' = [c \in Callers |->
                    IF who[c].place = "held" /\ who[c].at >= at
                      THEN [who[c] EXCEPT !.place = IF c \in failed THEN "failed" ELSE "taken"]
                      ELSE who[c]]
    /\ next' = at

\* The key service fails: _abandon.
SignFails(c) ==
    /\ caller[c].pc = "signing" /\ caller[c].mode = "issue" /\ faults < MaxFaults
    /\ faults' = faults + 1
    /\ LET gone == [caller EXCEPT ![c] = Idle]
       IN  IF caller[c].place = "held" THEN TakeBack(gone, caller[c].at, {})
           ELSE caller' = gone /\ UNCHANGED next
    /\ UNCHANGED <<files, open, broken, control, calls, history>>

\* The delivery of c makes its position ready; from the first the index does
\* not hold, the run of positions that are ready and bind is the batch.
Doc(c) == [id |-> caller[c].id, at |-> caller[c].at, key |-> caller[c].key, of |-> caller[c].of]

At(ready, n) == CHOOSE c \in ready : caller[c].at = n

Batches(ready) ==
    {n \in 0..Cardinality(ready) :
        \A k \in 0..(n - 1) : \E c \in ready : caller[c].at = indexed + k}

Batch(ready) ==
    LET longest == CHOOSE n \in Batches(ready) : \A k \in Batches(ready) : k <= n
        lines(n) == [k \in 1..n |-> Doc(At(ready, indexed + k - 1))]
        bound == {n \in 0..longest :
                    \A k \in 1..n : Binds(lines(n)[k], file \o lines(k - 1))}
    IN  IF ~open \/ broken THEN <<>>
        ELSE lines(CHOOSE n \in bound : \A k \in bound : k <= n)

\* The position after the batch, if ready, is refused.
Refused(ready) ==
    {c \in ready : caller[c].at = indexed + Len(Batch(ready))}

\* _note_due: by count, or because the interval has passed.
NoteDue(length) ==
    \/ due' = TRUE
    \/ length - Latest.size < EveryReceipts /\ UNCHANGED due

\* FileLeaves.extend: written to the file, then to the index, which may fail.
Extend(batch) ==
    /\ file' = file \o batch
    /\ \/ indexed' = indexed + Len(batch) /\ UNCHANGED <<broken, faults>>
       \/ /\ batch # <<>> /\ faults < MaxFaults
          /\ faults' = faults + 1
          /\ broken' = TRUE
          /\ UNCHANGED indexed

Deliver(c) ==
    LET ready == Signed \cup {c}
        batch == Batch(ready)
        waiting == [caller EXCEPT ![c].pc = "waiting"]
        settled == [d \in Callers |->
                      IF d \in ready /\ caller[d].at < indexed + Len(batch)
                        THEN [waiting[d] EXCEPT !.place = "appended"] ELSE waiting[d]]
    IN  /\ caller[c].pc = "signing"
        /\ IF caller[c].place # "held"
             THEN /\ caller' = waiting
                  /\ UNCHANGED <<files, broken, next, due, faults>>
             ELSE \/ /\ Extend(batch)
                     /\ IF batch = <<>> THEN UNCHANGED due ELSE NoteDue(indexed + Len(batch))
                     /\ IF Refused(ready) = {} THEN caller' = settled /\ UNCHANGED next
                        ELSE TakeBack(settled, indexed + Len(batch), Refused(ready))
                     /\ UNCHANGED <<checkpoints, transitions, cosigned>>
                  \/ \* Not written: the whole batch fails.
                     /\ batch # <<>> /\ faults < MaxFaults
                     /\ faults' = faults + 1
                     /\ TakeBack(waiting, indexed,
                                 {d \in ready : caller[d].at < indexed + Len(batch)})
                     /\ UNCHANGED <<files, broken, due>>
        /\ UNCHANGED <<open, rotating, job, calls, history>>

\* FAULT: the error of a position that failed is not raised.
ReturnAnyway(c) ==
    /\ caller[c].pc = "waiting" /\ caller[c].place # "held"
    /\ caller' = [caller EXCEPT ![c] =
                    IF @.place = "taken" /\ @.mode = "issue"
                      THEN [@ EXCEPT !.pc = "again", !.place = "none"] ELSE Idle]
    /\ issued' = IF caller[c].place # "taken" THEN issued \cup {Doc(c)} ELSE issued
    /\ UNCHANGED <<files, open, broken, next, control, bounds, refusal, published, lagged>>

\* issue() and append() return, raise, or go round again.
Return(c) ==
    /\ caller[c].pc = "waiting" /\ caller[c].place # "held"
    /\ caller' = [caller EXCEPT ![c] =
                    IF @.place = "taken" /\ @.mode = "issue"
                      THEN [@ EXCEPT !.pc = "again", !.place = "none"] ELSE Idle]
    /\ issued' = IF caller[c].place = "appended" THEN issued \cup {Doc(c)} ELSE issued
    /\ UNCHANGED <<files, open, broken, next, control, bounds, refusal, published, lagged>>

-----------------------------------------------------------------------------
(* Publishing and rotating, under the publish lock.                        *)

\* _checkpoint reads the log as it stands; at a boundary the outgoing key's
\* last checkpoint stands, and there must be one.
Read(then) ==
    IF indexed <= Boundary
      THEN job' = IF Latest.size = indexed
                    THEN [job EXCEPT !.stage = then, !.checkpoint = Latest] ELSE Free
      ELSE job' = [job EXCEPT !.stage = "signing",
                     !.checkpoint = Checkpoint(indexed, Current, TreeRoot(Leaves(indexed), indexed))]

\* publish(), by the publisher when a checkpoint is due, by flush() or bundle().
Publish ==
    /\ open /\ job.stage = "free" /\ Len(checkpoints) < MaxPublished
    /\ due' = FALSE
    /\ Read("cosigning")
    /\ UNCHANGED <<files, open, broken, next, caller, rotating, bounds, history>>

SignCheckpoint ==
    /\ job.stage = "signing"
    /\ checkpoints' = Append(checkpoints, job.checkpoint)
    /\ job' = [job EXCEPT !.stage = IF rotating THEN "handing" ELSE "cosigning"]
    /\ UNCHANGED <<file, transitions, cosigned, indexed, open, broken, next, caller>>
    /\ UNCHANGED <<rotating, due, bounds, history>>

\* FileWitness.latest.
LastCosigned == IF cosigned = <<>> THEN [size |-> 0, root |-> TreeEmptyRoot] ELSE Last(cosigned)

\* publish() with a witness, whose cosign() checks what it was given against
\* the last it cosigned.
Cosign ==
    LET seen == LastCosigned
        cp == job.checkpoint
        new == [size |-> cp.size, root |-> cp.root]
        proof == IF seen.size <= cp.size
                   THEN TreeConsistencyProof(Leaves(cp.size), seen.size, cp.size) ELSE <<>>
        accepts == IF cosigned = <<>> THEN TRUE
                   ELSE TreeVerifyConsistency(seen.size, cp.size, seen.root, cp.root, proof)
    IN  /\ job.stage = "cosigning"
        /\ cosigned' = IF accepts /\ (cosigned = <<>> \/ new # seen)
                         THEN Append(cosigned, new) ELSE cosigned
        /\ refusal' = (refusal \/ ~accepts)
        /\ published' = IF accepts THEN published \cup {cp} ELSE published
        /\ job' = Free
        /\ UNCHANGED <<file, checkpoints, transitions, indexed, open, broken, next, caller>>
        /\ UNCHANGED <<rotating, due, bounds, issued, lagged>>

\* A checkpoint, a transition or a cosignature cannot be signed or written.
JobFails ==
    /\ job.stage \in {"signing", "cosigning", "handing"} /\ faults < MaxFaults
    /\ faults' = faults + 1
    /\ job' = Free
    /\ rotating' = FALSE
    /\ UNCHANGED <<files, open, broken, next, caller, due, calls, history>>

Rotate ==
    /\ open /\ ~broken /\ job.stage = "free" /\ Len(transitions) < MaxRotations
    /\ \E k \in Keys \ {Current} : job' = [Free EXCEPT !.stage = "draining", !.to = k]
    /\ rotating' = TRUE
    /\ UNCHANGED <<files, open, broken, next, caller, due, bounds, history>>

\* FAULT: issues in flight are not waited for.
DrainedAtOnce ==
    /\ job.stage = "draining"
    /\ job' = [job EXCEPT !.size = indexed,
                 !.stage = IF checkpoints # <<>> /\ Latest.size = indexed
                             THEN "handing" ELSE "sealing"]
    /\ lagged' = (lagged \/ broken)
    /\ UNCHANGED <<files, open, broken, next, caller, rotating, due, bounds>>
    /\ UNCHANGED <<issued, refusal, published>>

\* Issues in flight have finished: the size the outgoing key vouches for.
Drained ==
    /\ job.stage = "draining" /\ Held = {}
    /\ job' = [job EXCEPT !.size = indexed,
                 !.stage = IF checkpoints # <<>> /\ Latest.size = indexed
                             THEN "handing" ELSE "sealing"]
    /\ lagged' = (lagged \/ broken)
    /\ UNCHANGED <<files, open, broken, next, caller, rotating, due, bounds>>
    /\ UNCHANGED <<issued, refusal, published>>

Seal ==
    /\ job.stage = "sealing"
    /\ Read("handing")
    /\ rotating' = (job'.stage # "free")
    /\ UNCHANGED <<files, open, broken, next, caller, due, bounds, history>>

HandOver ==
    /\ job.stage = "handing"
    /\ transitions' = Append(transitions, Transition(job.size, Current, job.to))
    /\ job' = Free
    /\ rotating' = FALSE
    /\ UNCHANGED <<file, checkpoints, cosigned, indexed, open, broken, next, caller>>
    /\ UNCHANGED <<due, bounds, history>>

-----------------------------------------------------------------------------
(* Closing, crashing, reopening.                                           *)

\* close(): the publisher (CheckpointPolicy.background) has published what was due.
Close ==
    /\ open /\ job.stage = "free" /\ ~due
    /\ open' = FALSE
    /\ UNCHANGED <<files, broken, next, caller, control, bounds, history>>

\* A crash; one in the middle of an append leaves some of its lines.
Crash ==
    /\ open /\ faults < MaxFaults
    /\ faults' = faults + 1
    /\ open' = FALSE
    /\ caller' = [c \in Callers |-> Idle]
    /\ job' = Free /\ rotating' = FALSE /\ due' = FALSE
    /\ \/ UNCHANGED file
       \/ \E c \in Callers :
            /\ caller[c].pc = "signing" /\ caller[c].place = "held"
            /\ \E n \in 1..Len(Batch(Signed \cup {c})) :
                 file' = file \o SubSeq(Batch(Signed \cup {c}), 1, n)
    /\ UNCHANGED <<checkpoints, transitions, cosigned, indexed, broken, next, calls, history>>

\* What _resume checks of the files.
LinesCheck ==
    \A i \in DOMAIN file :
        /\ file[i].at = i - 1
        /\ \A j \in 1..(i - 1) : file[j].id # file[i].id
        /\ Binds(file[i], SubSeq(file, 1, i - 1))

CheckpointsCheck ==
    /\ \A n \in DOMAIN checkpoints :
         /\ checkpoints[n].key = ForCheckpoint(checkpoints[n].size)
         /\ checkpoints[n].size <= Len(file)
    /\ checkpoints # <<>> => Latest.root = TreeRoot(Leaves(Latest.size), Latest.size)

CanOpen ==
    /\ Follows
    /\ LinesCheck
    /\ CheckpointsCheck
    /\ Boundary <= Len(file)
    /\ \A i \in (Latest.size + 1)..Len(file) :
         file[i].key \in Keys => file[i].key = ForLeaf(i - 1)

Reopen ==
    /\ ~open /\ \A c \in Callers : caller[c].pc = "idle"
    /\ CanOpen
    /\ open' = TRUE
    /\ indexed' = Len(file) /\ next' = Len(file)
    /\ broken' = FALSE /\ due' = FALSE
    /\ UNCHANGED <<file, checkpoints, transitions, cosigned, caller, rotating, job, bounds, history>>

-----------------------------------------------------------------------------

Init ==
    /\ file = <<>> /\ checkpoints = <<>> /\ transitions = <<>> /\ cosigned = <<>>
    /\ indexed = 0 /\ next = 0
    /\ open = TRUE /\ broken = FALSE
    /\ caller = [c \in Callers |-> Idle]
    /\ rotating = FALSE /\ due = FALSE /\ job = Free
    /\ calls = 0 /\ faults = 0
    /\ issued = {} /\ refusal = FALSE /\ published = {} /\ lagged = FALSE

Next ==
    \/ \E c \in Callers :
         \/ Reserve(c) \/ AppendSigned(c) \/ Again(c)
         \/ SignFails(c) \/ Deliver(c) \/ Return(c)
    \/ Publish \/ SignCheckpoint \/ Cosign \/ JobFails
    \/ Rotate \/ Drained \/ Seal \/ HandOver
    \/ Close \/ Crash \/ Reopen

Spec == Init /\ [][Next]_vars

-----------------------------------------------------------------------------
(* Verifying a bundle with the log's transitions (verify.py).              *)

CheckSignature(doc) == doc.key = ForLeaf(doc.at)

CheckInclusion(doc, index, cp) ==
    /\ cp.key = ForCheckpoint(cp.size)
    /\ doc.at = index
    /\ TreeVerifyInclusion(TreeLeafHash(doc), index, cp.size,
                           TreeInclusionProof(Leaves(cp.size), index, cp.size), cp.root)

\* find_cosignature: cosigned, and no other root at its size.
CheckWitness(cp) ==
    /\ \E n \in DOMAIN cosigned : cosigned[n].size = cp.size /\ cosigned[n].root = cp.root
    /\ \A n \in DOMAIN cosigned : cosigned[n].size = cp.size => cosigned[n].root = cp.root

\* A delivery carries the bundle of its action, which is verified in turn.
CheckBinding(bundle) ==
    bundle.doc.id \in Deliveries =>
        LET action == file[bundle.doc.of.at + 1]
        IN  /\ Binds(bundle.doc, SubSeq(file, 1, bundle.index))
            /\ CheckSignature(action)
            /\ CheckInclusion(action, bundle.doc.of.at, bundle.checkpoint)

\* bundle(): a receipt, where it is, and a checkpoint that covers it.
Bundle(index, cp) == [doc |-> file[index + 1], index |-> index, checkpoint |-> cp]

\* The witness's record is checked by whoever is given it.
VerifyBundle(bundle, witnessed) ==
    /\ CheckSignature(bundle.doc)
    /\ CheckInclusion(bundle.doc, bundle.index, bundle.checkpoint)
    /\ witnessed => CheckWitness(bundle.checkpoint)
    /\ CheckBinding(bundle)

-----------------------------------------------------------------------------
(* Properties.                                                             *)

\* Nobody appended a receipt of his own to a log that changes keys, and the
\* index kept up with the file until the keys changed.
Ours ==
    /\ ~lagged
    /\ (transitions = <<>> /\ ~rotating) \/ \A i \in DOMAIN file : file[i].key # Outside

\* A receipt a call returned is in the log for good, at the place it signs,
\* whatever failed or crashed after (issue, _drain, _take_back, _resume).
IssuedStays == \A doc \in issued : doc.at + 1 \in DOMAIN file /\ file[doc.at + 1] = doc

\* However a log was left, by close(), by a crash between or inside its
\* writes, in the middle of a rotation, it opens again: no line is out of its
\* place, no id is twice in it, each delivery follows its action, and every
\* signature is by the key in force for its position (_resume, rotate).
Reopens == ~open /\ Ours => CanOpen

\* Every receipt under a checkpoint can be proved to be in the log, by the
\* transitions from the first key on, against every checkpoint that covers it,
\* and with the witness's record as well for every one publish() has returned,
\* whatever crashed, was reopened or rotated since; and the witness never refuses
\* (bundle, verify_bundle, cosign, find_cosignature).  A checkpoint rotate()
\* signed, or whose cosigning failed, is not published.
BundlesVerify ==
    /\ ~refusal
    /\ Ours => \A n \in DOMAIN checkpoints :
                 \A i \in 0..(checkpoints[n].size - 1) :
                    Outside \notin {file[i + 1].key, file[i + 1].of.key} =>
                        VerifyBundle(Bundle(i, checkpoints[n]), checkpoints[n] \in published)

\* "Append every signed receipt whose turn has come, in order": a receipt that
\* was signed and delivered waits only for one before it that is not (_drain).
TurnsComeUp ==
    \A c \in Signed : \E d \in Held \ Signed : caller[d].at < caller[c].at

\* While the index keeps up, nobody is left waiting for a turn that has come
\* or that will not: not by a batch another caller wrote, nor by a position
\* that was taken back (issue, _deliver, _drain, _take_back).
NobodyStranded == broken \/ TurnsComeUp

=============================================================================
