-------------------------------- MODULE Fleet --------------------------------
(***************************************************************************)
(* Governors that share one ledger in PostgreSQL (core.py: _mutating,      *)
(* _follow, _catch_up, _recover, _reload, joined, redeem; postgres.py:     *)
(* writer, _end, commit, join, claim).                                     *)
(*                                                                         *)
(* Each governor keeps a view of the chain.  It writes in a session: it    *)
(* takes the fleet's writer lock, catches its view up under it, decides on *)
(* the view, and sends its writes with the COMMIT.  The answer to that     *)
(* COMMIT may be lost, the server may end an idle session and give its     *)
(* lock away, a governor may die, and the database may fail over to a      *)
(* replica that lacks the last commit.  A caller's own transaction may     *)
(* take the lock through a governor, to leave a settlement claim.          *)
(*                                                                         *)
(* A governor's threads share its view under one mutex (GroupCommit), so   *)
(* each governor here is one process.                                      *)
(***************************************************************************)
EXTENDS Integers, Sequences, FiniteSets, SequencesExt

CONSTANTS Governors, Keys, None, ClaimIds, ClaimAmounts, Budget,
          MaxEntries, MaxUnit,
          MaxFailovers  \* bound on failovers

VARIABLES
    db,        \* the database: [chain, claims, owed]
    replica,   \* what a failover restores: the database before its last commit
    failovers, \* how many there were
    lock,      \* who holds the writer lock, or None
    pc,        \* where each governor is
    view,      \* _state: the chain each governor has verified, or written
    sess,      \* its session: where its writes begin, the operations made
               \* in it, the claims booked
    staged,    \* the claims of the caller's transaction it joined
    dirty,     \* _dirty: the view may be ahead of the database
    unusable   \* _unusable: it could not follow the ledger, and writes no more

vars == <<db, replica, failovers, lock, pc, view, sess, staged,
          dirty, unusable>>

\* A governor's entries are told apart by who wrote them and after which
\* failover: the entry ids and the hashes are fresh.
Writers == Governors \X (0..MaxFailovers)

Ledger == INSTANCE SharedLedger WITH
    ledger <- db, earlier <- replica, cuts <- failovers

ASSUME FleetAssumption ==
    /\ MaxFailovers \in Nat
    /\ ClaimAmounts \subseteq Nat
    /\ Budget \in Nat /\ MaxEntries \in Nat /\ MaxUnit \in Nat \ {0}
    /\ None \notin Governors \cup Keys \cup ClaimIds

NoSession == [base |-> 0, made |-> 0, booked |-> {}]

Init ==
    /\ db = Ledger!Empty /\ replica = Ledger!Empty /\ failovers = 0
    /\ lock = None
    /\ pc = [g \in Governors |-> "idle"]
    /\ view = [g \in Governors |-> <<>>]
    /\ sess = [g \in Governors |-> NoSession]
    /\ staged = [g \in Governors |-> {}]
    /\ dirty = [g \in Governors |-> FALSE]
    /\ unusable = [g \in Governors |-> FALSE]

-----------------------------------------------------------------------------
(* Reading: catching up, and starting over.                                *)

\* A read is of one snapshot of what is committed.
Fetched == db.chain

\* _catch_up: the new entries, if the ledger still holds, at the length this
\* view verified, the hash it verified there: a hash commits to all before it.
CatchUp(g) ==
    \/ /\ IsPrefix(view[g], Fetched)
       /\ view' = [view EXCEPT ![g] = Fetched]
       /\ UNCHANGED unusable
    \/ /\ ~IsPrefix(view[g], Fetched)
       /\ unusable' = [unusable EXCEPT ![g] = TRUE]
       /\ UNCHANGED view

\* _reload: a fresh open's view, whole.
Reload(g) ==
    /\ view' = [view EXCEPT ![g] = Fetched]
    /\ UNCHANGED unusable

\* FAULT: a view left ahead of the database is followed like any other.
FollowDirty(g) ==
    /\ CatchUp(g)
    /\ dirty' = [dirty EXCEPT ![g] = FALSE]

\* _follow; with a dirty view it starts over.
Follow(g) ==
    \/ /\ dirty[g]
       /\ Reload(g)
       /\ dirty' = [dirty EXCEPT ![g] = FALSE]
    \/ /\ ~dirty[g]
       /\ CatchUp(g)
       /\ UNCHANGED dirty

\* refresh(), between mutations; and what a mutation does before it asks for
\* the writer lock, with a view that is dirty or was last found behind.
Refresh(g) ==
    /\ pc[g] = "idle" /\ ~unusable[g]
    /\ Follow(g)
    /\ UNCHANGED <<db, replica, failovers, lock, pc, sess, staged>>

-----------------------------------------------------------------------------
(* A session of a governor's own.                                          *)

Free(g) == IF lock = g THEN None ELSE lock

\* The message that takes the lock reads what was committed after the view.
\* A view that cannot follow ends the session there, a dirty one is read
\* again before.  (A lock not granted in time leaves all as it is.)
Granted(g) ==
    /\ pc[g] = "idle" /\ ~unusable[g] /\ ~dirty[g] /\ lock = None
    /\ Follow(g)
    /\ \/ /\ ~unusable'[g]
          /\ lock' = g
          /\ pc' = [pc EXCEPT ![g] = "in"]
          /\ sess' = [sess EXCEPT ![g] = [NoSession EXCEPT !.base = Len(view'[g])]]
       \/ /\ unusable'[g]
          /\ UNCHANGED <<lock, pc, sess>>
    /\ UNCHANGED <<db, replica, failovers, staged>>

Wrote(g) == Len(view[g]) > sess[g].base

Queued(g) == SubSeq(view[g], sess[g].base + 1, Len(view[g]))

\* What an operation is decided on: the view, and the claims the database
\* holds pending, less those this session booked.
Seen(g) == [db EXCEPT !.chain = view[g], !.claims = @ \ sess[g].booked]

\* One operation: checked on the view, queued for the COMMIT, merged into the
\* view.  Booking a claim sends what is queued, so it needs a live session.
Operate(g) ==
    /\ pc[g] = "in" /\ sess[g].made < MaxUnit
    /\ \E l \in Ledger!Operations(Seen(g), <<g, failovers>>) :
         LET booked == Seen(g).claims \ l.claims
         IN  /\ booked # {} => lock = g
             /\ view' = [view EXCEPT ![g] = l.chain]
             /\ sess' = [sess EXCEPT ![g].booked = @ \cup booked, ![g].made = @ + 1]
    /\ UNCHANGED <<db, replica, failovers, lock, pc, staged, dirty,
                   unusable>>

\* The trigger on the entries' table, and the count of claims deleted.
Admits(g) ==
    /\ Len(db.chain) = sess[g].base
    /\ IsPrefix(db.chain, view[g])
    /\ sess[g].booked \subseteq db.claims

\* FAULT: the claims booked are not deleted with the entries that book them.
WrittenKeeping(g) == [db EXCEPT !.chain = @ \o Queued(g)]

Written(g) == [db EXCEPT !.chain = @ \o Queued(g), !.claims = @ \ sess[g].booked]

Ended(g) ==
    /\ lock' = Free(g)
    /\ pc' = [pc EXCEPT ![g] = "idle"]
    /\ sess' = [sess EXCEPT ![g] = NoSession]
    /\ UNCHANGED <<failovers, staged>>

\* FAULT: nothing is read again.
RecoverBlindly(g) == UNCHANGED <<view, dirty, unusable>>

\* _recover: the ledger is read again before anyone reads this view; when it
\* cannot be, the view stays dirty, and the next mutation reads it first.
Recover(g) ==
    \/ /\ view' = [view EXCEPT ![g] = Fetched']
       /\ UNCHANGED <<dirty, unusable>>
    \/ /\ dirty' = [dirty EXCEPT ![g] = TRUE]
       /\ UNCHANGED <<view, unusable>>

\* Nothing was written: whatever becomes of the COMMIT, nothing is in doubt.
EndEmpty(g) ==
    /\ pc[g] = "in" /\ ~Wrote(g)
    /\ Ended(g)
    /\ UNCHANGED <<db, replica, view, dirty, unusable>>

Committing(g) == pc[g] = "in" /\ Wrote(g) /\ lock = g /\ Admits(g)

EndCommitted(g) ==
    /\ Committing(g)
    /\ db' = Written(g) /\ replica' = db
    /\ Ended(g)
    /\ UNCHANGED <<view, dirty, unusable>>

\* The COMMIT was carried out and its answer lost.
EndLost(g) ==
    /\ Committing(g)
    /\ db' = Written(g) /\ replica' = db
    /\ Ended(g)
    /\ Recover(g)

\* Rolled back: its block raised, a statement was refused, or the connection
\* was gone before the COMMIT arrived.
EndRolledBack(g) ==
    /\ pc[g] = "in" /\ Wrote(g)
    /\ Ended(g)
    /\ UNCHANGED <<db, replica>>
    /\ Recover(g)

-----------------------------------------------------------------------------
(* A caller's transaction, joined.                                         *)

\* FAULT: joined without the writer lock.
JoinUnlocked(g) ==
    /\ pc[g] = "idle" /\ ~unusable[g] /\ ~dirty[g]
    /\ Follow(g)
    /\ \/ /\ ~unusable'[g]
          /\ pc' = [pc EXCEPT ![g] = "joined"]
       \/ /\ unusable'[g]
          /\ UNCHANGED pc
    /\ UNCHANGED <<db, replica, failovers, lock, sess, staged>>

\* A dirty view is read again before the caller's transaction has the lock.
Join(g) ==
    /\ pc[g] = "idle" /\ ~unusable[g] /\ ~dirty[g]
    /\ lock = None
    /\ Follow(g)
    /\ \/ /\ ~unusable'[g]
          /\ lock' = g
          /\ pc' = [pc EXCEPT ![g] = "joined"]
       \/ /\ unusable'[g]   \* the caller's transaction rolls back
          /\ UNCHANGED <<lock, pc>>
    /\ UNCHANGED <<db, replica, failovers, sess, staged>>

\* claim(), by a caller that looked at the breaker first.
Claim(g) ==
    /\ pc[g] = "joined"
    /\ ~Ledger!Halted(view[g])
    /\ staged[g] = {}
    /\ \E l \in Ledger!Claimed([db EXCEPT !.chain = view[g]]) :
         staged' = [staged EXCEPT ![g] = l.claims \ db.claims]
    /\ UNCHANGED <<db, replica, failovers, lock, pc, view, sess, dirty,
                   unusable>>

Left(g) ==
    /\ pc' = [pc EXCEPT ![g] = "idle"]
    /\ lock' = Free(g)
    /\ staged' = [staged EXCEPT ![g] = {}]
    /\ UNCHANGED <<failovers, view, sess, dirty, unusable>>

CallerCommits(g) ==
    /\ pc[g] = "joined" /\ staged[g] # {}
    /\ db' = [db EXCEPT !.claims = @ \cup staged[g], !.owed = @ \cup staged[g]]
    /\ replica' = db
    /\ Left(g)

CallerRollsBack(g) ==
    /\ pc[g] = "joined"
    /\ Left(g)
    /\ UNCHANGED <<db, replica>>

-----------------------------------------------------------------------------
(* What the world does.                                                    *)

\* The server ends a session that sat idle: its transaction is rolled back
\* and its lock free, and the governor does not know.
IdleTimeout(g) ==
    /\ lock = g /\ pc[g] = "in"
    /\ lock' = None
    /\ UNCHANGED <<db, replica, failovers, pc, view, sess, staged, dirty,
                   unusable>>

\* A governor dies, and another opens in its place.
Restart(g) ==
    /\ view' = [view EXCEPT ![g] = Fetched]
    /\ sess' = [sess EXCEPT ![g] = NoSession]
    /\ pc' = [pc EXCEPT ![g] = "idle"]
    /\ lock' = Free(g)
    /\ staged' = [staged EXCEPT ![g] = {}]
    /\ dirty' = [dirty EXCEPT ![g] = FALSE]
    /\ unusable' = [unusable EXCEPT ![g] = FALSE]
    /\ UNCHANGED <<db, replica, failovers>>

\* The replica becomes the database; every session with the old one is gone.
Failover ==
    /\ failovers < MaxFailovers
    /\ db' = replica
    /\ failovers' = failovers + 1
    /\ lock' = None
    /\ pc' = [g \in Governors |-> IF pc[g] = "joined" THEN "idle" ELSE pc[g]]
    /\ staged' = [g \in Governors |-> {}]
    /\ UNCHANGED <<replica, view, sess, dirty, unusable>>

Next ==
    \/ \E g \in Governors :
         \/ Refresh(g) \/ Granted(g)
         \/ Operate(g)
         \/ EndEmpty(g) \/ EndCommitted(g) \/ EndLost(g) \/ EndRolledBack(g)
         \/ Join(g) \/ Claim(g) \/ CallerCommits(g) \/ CallerRollsBack(g)
         \/ IdleTimeout(g) \/ Restart(g)
    \/ Failover

Spec == Init /\ [][Next]_vars

-----------------------------------------------------------------------------
(* Properties.                                                             *)

\* The shared ledger is what its governors promise together: every commit,
\* whoever made it and whatever became of its answer, is a unit of work
\* decided on exactly the ledger it extends, a claim is left only while the
\* breaker is not latched, and nothing else ever changes the ledger but a
\* failover.
SerialLedger == Ledger!Spec

\* A claim whose transaction committed is pending, or booked by exactly one
\* entry of the chain, and never both: however many governors redeem it, and
\* whichever of them lost the answer to its COMMIT.
ClaimsBookedOnce ==
    \A claim \in db.owed :
        LET booked == {i \in DOMAIN db.chain : db.chain[i].claim = claim.id}
        IN  IF claim \in db.claims THEN booked = {} ELSE Cardinality(booked) = 1

\* A governor stops following its ledger only if the ledger really was cut
\* back: never because of a write of its own that did not commit, or did and
\* did not say so.
NoFalseAlarm == \A g \in Governors : unusable[g] => failovers > 0

\* What a governor serves between its mutations is committed, except while it
\* knows its view may be ahead (no failover having taken commits back).
ServedIsCommitted ==
    failovers = 0 =>
        \A g \in Governors :
            (pc[g] = "idle" /\ ~dirty[g]) => IsPrefix(view[g], db.chain)

=============================================================================
