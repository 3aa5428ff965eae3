---------------------------- MODULE GroupCommit ----------------------------
(***************************************************************************)
(* Group commit (BudgetManager._submit and _lead in src/agentgov/core.py)  *)
(* over a SQLite store's unit of work (SqliteStore.unit and _write in      *)
(* src/agentgov/storage.py): callers of one governor queue their mutations *)
(* and one of them, the leader, runs everything queued in one transaction. *)
(*                                                                         *)
(* A request is one call, made by a thread of its own.  What its work is   *)
(* does not matter here, only how it ends: it writes and returns, it       *)
(* writes and raises (an overdraft is settled or a breaker tripped, then   *)
(* DenialOfWalletError), it raises having written nothing, or the store    *)
(* fails under it.                                                         *)
(***************************************************************************)
EXTENDS Naturals, Sequences, FiniteSets

CONSTANTS
    Requests,       \* calls made of the governor, one thread each
    None,           \* no request
    BATCH           \* most requests one unit of work carries

ASSUME GroupAssumption ==
    /\ None \notin Requests
    /\ BATCH \in Nat \ {0}

VARIABLES
    pc,         \* where each request's thread is
    queue,      \* requests waiting for a unit of work
    leading,    \* some thread has, or has been handed, the lead
    lock,       \* the thread holding the governor's lock, a re-entrant one
    inside,     \* threads that took it around a check and the call it decides
    checked,    \* what such a thread read at its check (history)
    wake,       \* times each request's wake lock stands released
    settled,    \* request.settled
    outcome,    \* how each request ended
    successor,  \* the request a thread that led is about to wake
    phase,      \* what the leader is doing inside _lead
    batch,      \* requests the unit of work carries
    todo,       \* those of them taken and not yet run
    wrote,      \* a write was tried in the unit
    failed,     \* a write in the unit failed: it can only roll back
    memory,     \* requests whose writes the governor's view holds
    durable,    \* requests whose writes the database holds
    unusable    \* the view could not be read again after a rollback

vars == <<pc, queue, leading, lock, inside, checked, wake, settled, outcome, successor,
          phase, batch, todo, wrote, failed, memory, durable, unusable>>

section == <<inside, checked>>
caller  == <<pc, queue, leading, lock, section, wake, settled, successor>>
unit    == <<phase, batch, todo, wrote, failed>>
ledger  == <<memory, durable, unusable>>

Smaller(m, n)  == IF m < n THEN m ELSE n
Members(seq)   == {seq[i] : i \in DOMAIN seq}
FirstOf(q, n)  == SubSeq(q, 1, Smaller(n, Len(q)))
RestOf(q, n)   == SubSeq(q, Smaller(n, Len(q)) + 1, Len(q))

----------------------------------------------------------------------------
(* _submit: queue, wait or lead *)

\* Fault: the caller is not asked whether it holds the lock.
OwnedNever(r) == FALSE

\* The caller holds the governor's lock: its call is made inside its own check
\* and act, and is to run there and then.
Owned(r) == lock = r

\* The first to find nobody leading leads; the others wait to be woken.
Submit(r) ==
    /\ pc[r] = "new"
    /\ ~Owned(r)
    /\ queue' = Append(queue, r)
    /\ leading' = TRUE
    /\ pc' = [pc EXCEPT ![r] = IF leading THEN "waiting" ELSE "leader"]
    /\ UNCHANGED <<lock, section, wake, settled, outcome, successor, unit, ledger>>

\* request.wake.acquire() returns: its work is settled, or it has the lead.
Woken(r) ==
    /\ pc[r] = "waiting"
    /\ wake[r] > 0
    /\ wake' = [wake EXCEPT ![r] = @ - 1]
    /\ pc' = [pc EXCEPT ![r] = IF settled[r] THEN "answered" ELSE "leader"]
    /\ UNCHANGED <<queue, leading, lock, section, settled, outcome, successor, unit, ledger>>

\* A signal handler raises in the thread while it waits: it leaves, and its
\* request stays queued.
Interrupted(r) ==
    /\ pc[r] = "waiting"
    /\ pc' = [pc EXCEPT ![r] = "gone"]
    /\ UNCHANGED <<queue, leading, lock, section, wake, settled, outcome, successor, unit,
                   ledger>>

\* with self._lock: granted at once to a thread that holds it already.
TakeLock(r) ==
    /\ pc[r] = "leader"
    /\ lock \in {None, r}
    /\ lock' = r
    /\ pc' = [pc EXCEPT ![r] = "leading"]
    /\ phase' = "begin"
    /\ UNCHANGED <<queue, leading, section, wake, settled, outcome, successor, batch, todo,
                   wrote, failed, ledger>>

\* The leader's own request is settled: the lock is released, as often as it was
\* taken here.  Until it is settled, another unit of work follows.
LeadAgainOrLeave(r) ==
    /\ lock = r
    /\ phase = "ended"
    /\ \/ /\ settled[r]
          /\ lock' = IF r \in inside THEN r ELSE None
          /\ pc' = [pc EXCEPT ![r] = "handing over"]
          /\ phase' = "idle"
       \/ /\ ~settled[r]
          /\ phase' = "begin"
          /\ UNCHANGED <<lock, pc>>
    /\ UNCHANGED <<queue, leading, section, wake, settled, outcome, successor, batch, todo,
                   wrote, failed, ledger>>

\* Fault: the lead is given up even though others are queued.
LeaveTheQueue(r) ==
    /\ pc[r] = "handing over"
    /\ leading' = FALSE
    /\ pc' = [pc EXCEPT ![r] = "answered"]
    /\ UNCHANGED <<queue, lock, section, wake, settled, outcome, successor, unit, ledger>>

\* Under the queue lock: the oldest caller still queued leads next.
HandOver(r) ==
    /\ pc[r] = "handing over"
    /\ IF queue = <<>>
         THEN /\ leading' = FALSE
              /\ pc' = [pc EXCEPT ![r] = "answered"]
              /\ UNCHANGED successor
         ELSE /\ successor' = [successor EXCEPT ![r] = Head(queue)]
              /\ pc' = [pc EXCEPT ![r] = "waking"]
              /\ UNCHANGED leading
    /\ UNCHANGED <<queue, lock, section, wake, settled, outcome, unit, ledger>>

\* successor.wake.release(), after the queue lock was let go.
WakeSuccessor(r) ==
    /\ pc[r] = "waking"
    /\ wake' = [wake EXCEPT ![successor[r]] = @ + 1]
    /\ pc' = [pc EXCEPT ![r] = "answered"]
    /\ UNCHANGED <<queue, leading, lock, section, settled, outcome, successor, unit, ledger>>

----------------------------------------------------------------------------
(* A caller that holds the governor's lock runs its work there and then *)

\* with ledger.lock: the thread reads the view and decides on the call it makes.
HoldLock(r) ==
    /\ pc[r] = "new"
    /\ lock = None
    /\ lock' = r
    /\ inside' = inside \cup {r}
    /\ checked' = memory
    /\ UNCHANGED <<pc, queue, leading, wake, settled, outcome, successor, unit, ledger>>

\* One transaction of its own: made durable, then visible; or neither.
RunAlone(r, result) ==
    /\ pc[r] = "new"
    /\ Owned(r)
    /\ unusable => result = "storage error"
    /\ outcome' = [outcome EXCEPT ![r] = result]
    /\ IF result \in {"value", "denied"}
         THEN memory' = memory \cup {r} /\ durable' = durable \cup {r}
         ELSE UNCHANGED <<memory, durable>>
    /\ pc' = [pc EXCEPT ![r] = "answered"]
    /\ UNCHANGED <<queue, leading, lock, section, wake, settled, successor, unit, unusable>>

\* The call has returned and the thread leaves its section.
Unlock(r) ==
    /\ r \in inside
    /\ pc[r] = "answered"
    /\ lock' = None
    /\ inside' = inside \ {r}
    /\ checked' = {}
    /\ UNCHANGED <<pc, queue, leading, wake, settled, outcome, successor, unit, ledger>>

----------------------------------------------------------------------------
(* _lead: one unit of work *)

\* finally: every request the unit carried is settled and its caller woken.
SettleAll(carried) ==
    /\ settled' = [r \in Requests |-> settled[r] \/ r \in Members(carried)]
    /\ wake' = [r \in Requests |-> IF r \in Members(carried) THEN wake[r] + 1 ELSE wake[r]]
    /\ phase' = "ended"
    /\ batch' = <<>>
    /\ todo' = <<>>
    /\ wrote' = FALSE
    /\ failed' = FALSE

\* Fault: what a request returned stands even though the unit did not commit.
FailUnsettled(carried) ==
    outcome' = [r \in Requests |->
                  IF r \in Members(carried) /\ outcome[r] = "none"
                    THEN "storage error" ELSE outcome[r]]

\* Whoever has no error of its own gets the unit's.
FailAll(carried) ==
    outcome' = [r \in Requests |->
                  IF r \in Members(carried) /\ outcome[r] \in {"none", "value"}
                    THEN "storage error" ELSE outcome[r]]

BeginUnit ==
    /\ phase = "begin"
    /\ ~unusable
    /\ phase' = "taking"
    /\ UNCHANGED <<caller, outcome, batch, todo, wrote, failed, ledger>>

\* The unit could not begin: what is queued fails with it.
BeginFails ==
    /\ phase = "begin"
    /\ SettleAll(FirstOf(queue, BATCH))
    /\ FailAll(FirstOf(queue, BATCH))
    /\ queue' = RestOf(queue, BATCH)
    /\ UNCHANGED <<pc, leading, lock, section, successor, ledger>>

\* Drain the queue, as far as the unit has room, and again until it is empty.
TakeQueued ==
    LET room == BATCH - Len(batch)
        taken == FirstOf(queue, room)
    IN
    /\ phase = "taking"
    /\ \/ /\ taken # <<>>
          /\ batch' = batch \o taken
          /\ todo' = taken
          /\ queue' = RestOf(queue, room)
          /\ phase' = "running"
       \/ /\ taken = <<>>
          /\ phase' = "ending"
          /\ UNCHANGED <<batch, todo, queue>>
    /\ UNCHANGED <<pc, leading, lock, section, wake, settled, outcome, successor, wrote,
                   failed, ledger>>

\* One request's work.  After a write failed, no later one can be made.
RunNext(result) ==
    LET r == Head(todo) IN
    /\ phase = "running"
    /\ todo # <<>>
    /\ failed => result \in {"refused", "storage error"}
    /\ outcome' = [outcome EXCEPT ![r] = result]
    /\ memory' = IF result \in {"value", "denied"} THEN memory \cup {r} ELSE memory
    /\ wrote' = (wrote \/ result # "refused")
    /\ failed' = (failed \/ result = "storage error")
    /\ todo' = Tail(todo)
    /\ phase' = IF Tail(todo) = <<>> THEN "taking" ELSE "running"
    /\ UNCHANGED <<caller, batch, durable, unusable>>

\* A view a unit wrote into is read again from the database; one that cannot
\* be read is closed to every later mutation.
RollBack(dirtied) ==
    \/ ~dirtied /\ UNCHANGED ledger
    \/ dirtied /\ memory' = durable /\ UNCHANGED <<durable, unusable>>
    \/ dirtied /\ unusable' = TRUE /\ UNCHANGED <<memory, durable>>

CommitUnit ==
    /\ phase = "ending"
    /\ ~failed
    /\ durable' = memory
    /\ SettleAll(batch)
    /\ UNCHANGED <<pc, queue, leading, lock, section, successor, outcome, memory, unusable>>

\* The commit fails, a write had failed, or (while requests run) an exception
\* that is no Exception, or the look-up of their keys, escapes (the one running
\* may have begun to write).
UnitFails ==
    /\ phase \in {"ending", "running"}
    /\ FailAll(batch)
    /\ \E dirtied \in {wrote, wrote \/ phase = "running"} : RollBack(dirtied)
    /\ SettleAll(batch)
    /\ UNCHANGED <<pc, queue, leading, lock, section, successor>>

----------------------------------------------------------------------------

Results == {"value", "denied", "refused", "storage error"}

Init ==
    /\ pc = [r \in Requests |-> "new"]
    /\ queue = <<>>
    /\ leading = FALSE
    /\ lock = None
    /\ inside = {}
    /\ checked = {}
    /\ wake = [r \in Requests |-> 0]
    /\ settled = [r \in Requests |-> FALSE]
    /\ outcome = [r \in Requests |-> "none"]
    /\ successor = [r \in Requests |-> None]
    /\ phase = "idle"
    /\ batch = <<>>
    /\ todo = <<>>
    /\ wrote = FALSE
    /\ failed = FALSE
    /\ memory = {}
    /\ durable = {}
    /\ unusable = FALSE

Lead ==
    \/ BeginUnit \/ BeginFails \/ TakeQueued \/ CommitUnit \/ UnitFails
    \/ \E result \in Results : RunNext(result)

Step(r) ==
    \/ Woken(r) \/ TakeLock(r) \/ LeadAgainOrLeave(r) \/ HandOver(r) \/ WakeSuccessor(r)
    \/ Unlock(r)
    \/ \E result \in Results : RunAlone(r, result)

Next ==
    \/ \E r \in Requests : Submit(r) \/ HoldLock(r) \/ Interrupted(r) \/ Step(r)
    \/ Lead

Spec == Init /\ [][Next]_vars

\* A thread that can run does, in the end; no call need be made.  The lock's
\* waiters need no more than that: each request takes it once.
FairSpec == Spec /\ WF_vars(Lead) /\ \A r \in Requests : WF_vars(Step(r))

----------------------------------------------------------------------------
(* Properties *)

\* What a caller is told is what the database holds: a result only for what
\* was committed, a refusal or a failed unit only for what was not.
AnswersMatchLedger ==
    \A r \in Requests : pc[r] = "answered" =>
        /\ outcome[r] = "value" => r \in durable
        /\ outcome[r] \in {"refused", "storage error"} => r \notin durable
        /\ outcome[r] # "none"

\* From its check to the end of its section a caller that took the governor's lock
\* sees its own call's writes and no other's, and no other's are committed
\* meanwhile (_submit: "others' work never runs inside its critical section");
\* what it read at its check was committed, unless the view is closed.
SectionUndisturbed ==
    \A r \in inside :
        /\ memory \ {r} = checked
        /\ ~unusable => durable \ {r} = checked

\* Every call that queues is answered, however units of work end and the lead
\* changes hands, unless a thread was interrupted while it waited: it stays
\* queued, may be handed the lead, and then nobody leads (_submit, _lead).
EveryCallAnswered ==
    \A r \in Requests :
        pc[r] = "waiting" ~> (pc[r] = "answered" \/ \E t \in Requests : pc[t] = "gone")

=============================================================================
