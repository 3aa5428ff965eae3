---------------------------- MODULE Transactions ----------------------------
(***************************************************************************)
(* Units of work and retried calls (BudgetManager.transaction, _roll_back, *)
(* _retrip, _called, _answered, _recorded and _commit in                   *)
(* src/agentgov/core.py) over a ledger with no store, or over SQLite's     *)
(* transactions (SqliteStore.unit, _write and commit in                    *)
(* src/agentgov/storage.py).                                               *)
(*                                                                         *)
(* A call runs in a transaction() block, in a unit of work the group       *)
(* commit's leader runs for queued callers, or bare: on a ledger with no   *)
(* store, or made by a thread that holds ledger.lock.  Amounts are left    *)
(* out (Governor has them): whether a scope can pay is a choice.  Stores   *)
(* fail, processes crash and open the ledger again, and callers retry      *)
(* under their idempotency key as often as they like.                      *)
(***************************************************************************)
EXTENDS Naturals, Sequences, FiniteSets

CONSTANTS
    Scopes,         \* budget scopes
    Root,           \* the one scope the ledger is opened with
    Keys,           \* idempotency keys
    None,           \* no key, no record
    Unread,         \* a key this unit of work has not looked up
    LockHeld,       \* whether callers hold ledger.lock over a store
    MaxEntries      \* bound: entries in the chain

ASSUME TransactionsAssumption ==
    /\ Root \in Scopes
    /\ None \notin Keys
    /\ None \notin [request : [op : {"authorize", "delegate", "spend", "capture", "void"},
                               scope : Scopes, ref : Nat],
                    sequence : Nat]
    /\ None \notin [key : Keys \union {None}, hold : Nat]
    /\ Unread # None
    /\ LockHeld \in BOOLEAN
    /\ MaxEntries \in Nat

VARIABLES
    durable,    \* over SQLite, or kept in memory only: settled when it is opened
    disk,       \* entries the database holds, committed
    diskKeys,   \* calls the database has recorded, committed
    view,       \* entries the governor's view holds
    keys,       \* calls recorded, as this connection (or _ledger._keys) has them
    mode,       \* what the governor's lock is held for
    mark,       \* entries the view held when the block began
    wrote,      \* unit.wrote
    failed,     \* unit.failed
    trips,      \* Transaction._trips
    settling,   \* a spend between its hold and its settlement
    unitCalls,  \* _unit_calls: calls made in this unit of work
    keyCache,   \* _key_cache: records looked up in this unit of work
    held,       \* answers that stand only if the unit of work commits
    given,      \* answers that stand
    latched,    \* breaker trips recorded in the block: history, read by properties only
    unwritten,  \* scopes whose trip was not written after the block: history
    unusable    \* the view could not be read again after a rollback

chain   == <<disk, diskKeys, view, keys>>
unit    == <<wrote, failed>>
block   == <<mark, trips, latched, unwritten>>
asked   == <<unitCalls, keyCache, held, given>>
vars    == <<durable, chain, mode, unit, block, settling, asked, unusable>>

Entry(kind, scope, ref, op, key) ==
    [kind |-> kind, scope |-> scope, ref |-> ref, op |-> op, key |-> key]
Request(op, scope, ref) == [op |-> op, scope |-> scope, ref |-> ref]

----------------------------------------------------------------------------
(* What a chain says *)

Registered(c) == {Root} \union {c[i].scope : i \in {j \in DOMAIN c : c[j].kind = "open"}}

Tripped(c, s) ==
    \E i \in DOMAIN c :
        /\ c[i].kind = "trip" /\ c[i].scope = s
        /\ \A j \in DOMAIN c : j > i => ~(c[j].kind = "reset" /\ c[j].scope = s)

\* Every other scope is a child of the root.
Halted(c, s) == Tripped(c, s) \/ Tripped(c, Root)

OpenHolds(c) ==
    {i \in DOMAIN c : c[i].kind = "hold" /\ ~\E j \in DOMAIN c : c[j].kind = "settle" /\ c[j].ref = i}

----------------------------------------------------------------------------
(* Writing *)

\* Fault: a block opens no transaction of the store.
DeferredInUnit == durable /\ mode = "unit"

\* In a block or a shared unit of work over a store, commits wait for its end.
Deferred == durable /\ mode \in {"block", "unit"}

NoCalls == [k \in Keys |-> None]
NotRead == [k \in Keys |-> Unread]

\* Fault: the call's record is not part of the write of its entries.
RecordLater(k, r) == keys

\* The call made under a key is recorded in the write of its entries; the
\* entry that is its result comes first among them.
Record(k, r) ==
    IF k = None THEN keys ELSE [keys EXCEPT ![k] = [request |-> r, sequence |-> Len(view) + 1]]

\* Durable, then visible.  A key is the records' primary key.
Commit(entries, k, r) ==
    /\ Len(view) + Len(entries) <= MaxEntries
    /\ ~failed
    /\ durable /\ k # None => keys[k] = None
    /\ view' = view \o entries
    /\ keys' = Record(k, r)
    /\ IF durable /\ ~Deferred
         THEN disk' = view' /\ diskKeys' = keys'
         ELSE UNCHANGED <<disk, diskKeys>>
    /\ wrote' = Deferred
    /\ UNCHANGED failed

\* Fault: a unit of work goes on after a write in it failed.
FailLightly ==
    /\ durable
    /\ wrote' = Deferred
    /\ UNCHANGED <<failed, chain>>

\* The write fails: nothing is kept, and a unit it was part of can only roll back.
Fail ==
    /\ durable
    /\ wrote' = Deferred
    /\ failed' = Deferred
    /\ UNCHANGED chain

----------------------------------------------------------------------------
(* Calls under a key *)

\* _called and _recorded: the call made under a key, in this unit of work or before.
Known(k) ==
    IF unitCalls[k] # None THEN unitCalls[k]
    ELSE IF keyCache[k] # Unread THEN keyCache[k]
    ELSE keys[k]

Fresh(k) == k # None => Known(k) = None

\* A store is asked once in a unit of work about each key.
LookedUp(k) ==
    IF k # None /\ durable /\ unitCalls[k] = None
      THEN [keyCache EXCEPT ![k] = Known(k)]
      ELSE keyCache

Answer(k, record) == IF k = None \/ record = None THEN {} ELSE {[key |-> k, record |-> record]}

\* A call ends, having recorded one record for a retry in the same unit of
\* work and returned another.  A bare call is a unit of work of its own.
Return(k, recorded, returned) ==
    IF mode = "bare"
      THEN /\ mode' = "idle"
           /\ given' = given \union Answer(k, returned)
           /\ unitCalls' = NoCalls
           /\ keyCache' = NotRead
           /\ UNCHANGED held
      ELSE /\ held' = held \union Answer(k, returned)
           /\ unitCalls' = IF k = None \/ recorded = None
                             THEN unitCalls
                             ELSE [unitCalls EXCEPT ![k] = recorded]
           /\ keyCache' = LookedUp(k)
           /\ UNCHANGED <<mode, given>>

Raise(k) == Return(k, None, None)

\* What the call being written now is recorded as.
Made(k, r) == IF k = None THEN None ELSE [request |-> r, sequence |-> Len(view) + 1]

Running == mode \in {"bare", "block", "unit"} /\ settling = None

\* A retry returns what the call returned; another call under the key, or a
\* record that names no entry of this view, raises.
Replay(k, r) ==
    /\ Running
    /\ ~Fresh(k)
    /\ Return(k, None, IF Known(k).request = r /\ Known(k).sequence \in DOMAIN view
                         THEN Known(k) ELSE None)
    /\ UNCHANGED <<durable, chain, unit, block, settling, unusable>>

----------------------------------------------------------------------------
(* The calls *)

\* Refused: an unknown or halted scope, no funds in advisory mode, a hold
\* already settled, a failed look-up.
Refuse(k) ==
    /\ Running
    /\ Fresh(k)
    /\ Raise(k)
    /\ UNCHANGED <<durable, chain, unit, block, settling, unusable>>

\* What the block's breaker trips were, by _trip or by a settlement.
Latching(s, byTrip) ==
    IF mode = "block" THEN latched \union {[scope |-> s, byTrip |-> byTrip]} ELSE latched

\* Fault: the block keeps no list of the trips recorded in it.
LatchUnlisted(s) ==
    \/ /\ Commit(<<Entry("trip", s, 0, "trip", None)>>, None, None)
       /\ latched' = Latching(s, TRUE)
       /\ UNCHANGED trips
    \/ Fail /\ UNCHANGED <<trips, latched>>

\* _trip: latch the breaker, in a unit of work of its own or in the block's.
LatchBreaker(s) ==
    \/ /\ Commit(<<Entry("trip", s, 0, "trip", None)>>, None, None)
       /\ trips' = IF mode = "block" THEN Append(trips, s) ELSE trips
       /\ latched' = Latching(s, TRUE)
    \/ Fail /\ UNCHANGED <<trips, latched>>

\* _authorize asks for more than there is, or too often: the breaker trips.
Deny(k, s) ==
    /\ Running
    /\ Fresh(k)
    /\ s \in Registered(view) /\ ~Halted(view, s)
    /\ LatchBreaker(s)
    /\ Raise(k)
    /\ UNCHANGED <<durable, mark, unwritten, settling, unusable>>

Authorize(k, s) ==
    LET r == Request("authorize", s, 0) IN
    /\ Running
    /\ Fresh(k)
    /\ s \in Registered(view) /\ ~Halted(view, s)
    /\ \/ Commit(<<Entry("hold", s, 0, "authorize", k)>>, k, r) /\ Return(k, Made(k, r), Made(k, r))
       \/ Fail /\ Raise(k)
    /\ UNCHANGED <<durable, block, settling, unusable>>

\* delegate(): a new scope under the root.
Delegate(k, s) ==
    LET r == Request("delegate", s, 0) IN
    /\ Running
    /\ Fresh(k)
    /\ s \notin Registered(view) /\ ~Halted(view, Root)
    /\ \/ Commit(<<Entry("open", s, 0, "delegate", k)>>, k, r) /\ Return(k, Made(k, r), Made(k, r))
       \/ Fail /\ Raise(k)
    /\ UNCHANGED <<durable, block, settling, unusable>>

\* _capture and _void_locked: one write settles the hold and, when the cost
\* overdrew the scope or spent it out, trips its breaker unless it is latched
\* already.  An overdraft raises once it is written.
SettleHold(k, r, h, op) ==
    LET s      == view[h].scope
        settle == Entry("settle", s, h, op, k)
        trip   == Entry("trip", s, 0, op, None)
    IN  \/ /\ Commit(<<settle>>, k, r)
           /\ \/ Return(k, Made(k, r), Made(k, r))
              \/ op # "void" /\ Tripped(view, s) /\ Return(k, Made(k, r), None)
           /\ UNCHANGED latched
        \/ /\ op # "void"
           /\ ~Tripped(view, s)
           /\ Commit(<<settle, trip>>, k, r)
           /\ \/ Return(k, Made(k, r), Made(k, r))
              \/ Return(k, Made(k, r), None)
           /\ latched' = Latching(s, FALSE)
        \/ Fail /\ Raise(k) /\ UNCHANGED latched

\* capture() and void().
Settle(k, h, op) ==
    /\ Running
    /\ Fresh(k)
    /\ h \in OpenHolds(view)
    /\ SettleHold(k, Request(op, view[h].scope, h), h, op)
    /\ UNCHANGED <<durable, mark, trips, unwritten, settling, unusable>>

\* spend(): a hold, under no key, ...
SpendHold(k, s) ==
    /\ Running
    /\ Fresh(k)
    /\ s \in Registered(view) /\ ~Halted(view, s)
    /\ Len(view) + 2 <= MaxEntries        \* room for the settlement
    /\ \/ /\ Commit(<<Entry("hold", s, 0, IF Deferred THEN "spend" ELSE "bare spend", None)>>,
                    None, None)
          /\ settling' = [key |-> k, hold |-> Len(view) + 1]
          /\ keyCache' = LookedUp(k)
          /\ UNCHANGED <<mode, unitCalls, held, given>>
       \/ Fail /\ Raise(k) /\ UNCHANGED settling
    /\ UNCHANGED <<durable, block, unusable>>

\* ... and its settlement, under the call's key.
SpendSettle ==
    LET h == settling.hold IN
    /\ settling # None
    /\ SettleHold(settling.key, Request("spend", view[h].scope, 0), h, "spend")
    /\ settling' = None
    /\ UNCHANGED <<durable, mark, trips, unwritten, unusable>>

\* trip(), by an operator: nothing is written for a scope already latched.
Trip(s) ==
    /\ Running
    /\ s \in Registered(view)
    /\ ~Tripped(view, s)
    /\ LatchBreaker(s)
    /\ Raise(None)
    /\ UNCHANGED <<durable, mark, unwritten, settling, unusable>>

Reset(s) ==
    /\ Running
    /\ Tripped(view, s)
    /\ \/ Commit(<<Entry("reset", s, 0, "reset", None)>>, None, None)
       \/ Fail
    /\ Raise(None)
    /\ UNCHANGED <<durable, block, settling, unusable>>

----------------------------------------------------------------------------
(* Units of work *)

\* A call made alone, each of its commits durable by itself.
BeginBare ==
    /\ mode = "idle"
    /\ ~unusable
    /\ ~durable \/ LockHeld
    /\ mode' = "bare"
    /\ UNCHANGED <<durable, chain, unit, block, settling, asked, unusable>>

\* _lead: a unit of work for the callers queued.
BeginUnit ==
    /\ mode = "idle"
    /\ ~unusable
    /\ durable
    /\ mode' = "unit"
    /\ UNCHANGED <<durable, chain, unit, block, settling, asked, unusable>>

\* transaction() is entered.
BeginBlock ==
    /\ mode = "idle"
    /\ ~unusable
    /\ mode' = "block"
    /\ mark' = Len(view)
    /\ UNCHANGED <<durable, chain, unit, trips, latched, unwritten, settling, asked, unusable>>

\* Fault: the calls of a unit of work are answered however it ends.
OverAnswered(answers) ==
    /\ given' = given \union held
    /\ held' = {}
    /\ unitCalls' = NoCalls
    /\ keyCache' = NotRead
    /\ wrote' = FALSE
    /\ failed' = FALSE

\* The unit of work is over: _mutating forgets the calls made in it.
Over(answers) ==
    /\ given' = given \union answers
    /\ held' = {}
    /\ unitCalls' = NoCalls
    /\ keyCache' = NotRead
    /\ wrote' = FALSE
    /\ failed' = FALSE

\* The block, or the leader's unit of work, ends and its commit succeeds.
Succeed ==
    /\ Running /\ mode # "bare"
    /\ ~failed
    /\ IF durable THEN disk' = view /\ diskKeys' = keys ELSE UNCHANGED <<disk, diskKeys>>
    /\ Over(held)
    /\ mode' = "idle"
    /\ mark' = 0 /\ trips' = <<>> /\ latched' = {} /\ unwritten' = {}
    /\ UNCHANGED <<durable, view, keys, settling, unusable>>

\* Without a store: the calls recorded after the block began are forgotten.
Forgotten == [k \in Keys |-> IF keys[k] # None /\ keys[k].sequence > mark THEN None ELSE keys[k]]

\* _roll_back: the view is rebuilt as the store has it or, with no store, to
\* the block's mark.  A view that cannot be read again serves nothing more.
RollBack ==
    IF ~durable
      THEN view' = SubSeq(view, 1, mark) /\ keys' = Forgotten /\ UNCHANGED unusable
      ELSE /\ keys' = diskKeys
           /\ \/ view' = disk /\ UNCHANGED unusable
              \/ wrote /\ unusable' = TRUE /\ UNCHANGED view

\* The block raises, a write in it failed, or its commit does: nothing it did
\* is written, and its trips are.
BlockFails ==
    /\ mode = "block"
    /\ settling = None
    /\ RollBack
    /\ Over({})
    /\ mode' = "retrip"
    /\ UNCHANGED <<durable, disk, diskKeys, block, settling>>

\* The leader's unit of work fails: every call in it does.
UnitFails ==
    /\ mode = "unit"
    /\ settling = None
    /\ RollBack
    /\ Over({})
    /\ mode' = "idle"
    /\ UNCHANGED <<durable, disk, diskKeys, block, settling>>

\* _retrip: one trip of the block is written, in a unit of work of its own.
\* It fails on a view that stopped following the ledger and for a scope that
\* went with the block; a store's failure is logged.
Retrip ==
    /\ mode = "retrip"
    /\ trips # <<>>
    /\ LET s == Head(trips) IN
       \/ /\ Tripped(view, s) /\ ~unusable
          /\ UNCHANGED <<chain, unit, unwritten>>
       \/ /\ ~Tripped(view, s) /\ ~unusable
          /\ s \in Registered(view)
          /\ Commit(<<Entry("trip", s, 0, "trip", None)>>, None, None)
          /\ UNCHANGED unwritten
       \/ /\ \/ unusable
             \/ ~Tripped(view, s) /\ (durable \/ s \notin Registered(view))
          /\ unwritten' = unwritten \union {s}
          /\ UNCHANGED <<chain, unit>>
    /\ trips' = Tail(trips)
    /\ UNCHANGED <<durable, mode, mark, latched, settling, asked, unusable>>

\* The block's own error reaches the caller.
RaiseFromBlock ==
    /\ mode = "retrip"
    /\ trips = <<>>
    /\ mode' = "raised"
    /\ UNCHANGED <<durable, chain, unit, block, settling, asked, unusable>>

\* The caller goes on.
GoOn ==
    /\ mode = "raised"
    /\ mode' = "idle"
    /\ mark' = 0 /\ trips' = <<>> /\ latched' = {} /\ unwritten' = {}
    /\ UNCHANGED <<durable, chain, unit, settling, asked, unusable>>

\* The process ends, wherever it is, and SQLite drops what did not commit.
Crash ==
    /\ durable
    /\ mode # "down"
    /\ mode' = "down"
    /\ view' = <<>> /\ keys' = diskKeys
    /\ wrote' = FALSE /\ failed' = FALSE
    /\ mark' = 0 /\ trips' = <<>> /\ latched' = {} /\ unwritten' = {}
    /\ settling' = None
    /\ unitCalls' = NoCalls /\ keyCache' = NotRead /\ held' = {}
    /\ unusable' = FALSE
    /\ UNCHANGED <<durable, disk, diskKeys, given>>

\* The ledger is opened again.
Restart ==
    /\ mode = "down"
    /\ mode' = "idle"
    /\ view' = disk
    /\ UNCHANGED <<durable, disk, diskKeys, keys, unit, block, settling, asked, unusable>>

Init ==
    /\ durable \in BOOLEAN
    /\ disk = <<>> /\ diskKeys = NoCalls
    /\ view = <<>> /\ keys = NoCalls
    /\ mode = "idle"
    /\ wrote = FALSE /\ failed = FALSE
    /\ mark = 0 /\ trips = <<>> /\ latched = {} /\ unwritten = {}
    /\ settling = None
    /\ unitCalls = NoCalls /\ keyCache = NotRead
    /\ held = {} /\ given = {}
    /\ unusable = FALSE

\* Every request a caller may name under a key.
Requests ==
    {Request(op, s, 0) : op \in {"authorize", "spend", "delegate"}, s \in Scopes}
        \union {Request(op, view[h].scope, h) : op \in {"capture", "void"},
                                              h \in {i \in DOMAIN view : view[i].kind = "hold"}}

Calls ==
    \/ \E k \in Keys : \E r \in Requests : Replay(k, r)
    \/ \E k \in Keys \union {None} :
         \/ Refuse(k)
         \/ \E s \in Scopes :
              \/ Deny(k, s)
              \/ Authorize(k, s)
              \/ Delegate(k, s)
              \/ SpendHold(k, s)
         \/ \E h \in OpenHolds(view), op \in {"capture", "void"} : Settle(k, h, op)
    \/ SpendSettle
    \/ \E s \in Scopes : Trip(s) \/ Reset(s)

Next ==
    \/ Calls
    \/ BeginBare \/ BeginUnit \/ BeginBlock
    \/ Succeed \/ BlockFails \/ UnitFails
    \/ Retrip \/ RaiseFromBlock \/ GoOn
    \/ Crash \/ Restart

Spec == Init /\ [][Next]_vars

----------------------------------------------------------------------------
(* Properties *)

\* What a chain and the records beside it say of the calls made under a key.
RecordsMatch(c, recorded) ==
    \A k \in Keys :
        IF recorded[k] = None
          THEN \A i \in DOMAIN c : c[i].key # k
          ELSE LET call == recorded[k].request IN
               /\ {i \in DOMAIN c : c[i].key = k} = {recorded[k].sequence}
               /\ LET e == c[recorded[k].sequence] IN e.op = call.op /\ e.scope = call.scope

\* However often a call is retried under its key, and whatever fails, rolls
\* back or crashes in between, its result is written once, and its record
\* names that entry and no other: the two are one write, undone together.  It
\* holds on disk always, and in the view whenever the governor acts on it
\* (_called, _commit, _rewind).
KeyedOnce ==
    /\ RecordsMatch(disk, diskKeys)
    /\ mode # "down" /\ ~unusable => RecordsMatch(view, keys)

\* What outlives the process or, with no store, the unit of work.
Ledger   == IF durable THEN disk ELSE view
Recorded == IF durable THEN diskKeys ELSE keys

\* An answer that reached its caller outside a unit of work, or with the unit
\* of work's commit, is what the ledger has recorded ever after: no rollback,
\* crash or retry takes it back or gives another (_called, _lead, transaction).
AnswersStand == \A a \in given : Recorded[a.key] = a.record

\* When a block's error reaches its caller the ledger holds what it held when
\* the block began and breaker trips of the block, and no call the block made.
OnlyTripsSurvive ==
    mode = "raised" =>
        /\ \A i \in DOMAIN Ledger : i > mark =>
               /\ Ledger[i].kind = "trip"
               /\ [scope |-> Ledger[i].scope, byTrip |-> TRUE] \in latched
        /\ \A k \in Keys : Recorded[k] # None => Recorded[k].sequence <= mark

\* A trip may be missing after the block only if its scope went with the block
\* or a store failed while it was written again.
MayBeMissing(s) == s \in unwritten /\ (durable \/ s \notin Registered(Ledger))

\* A trip that _trip recorded in a block that failed is in force when the
\* block's error reaches its caller, unless it could not be written (_retrip).
TripsOutliveTheirBlock ==
    mode = "raised" =>
        \A l \in latched : l.byTrip => Tripped(Ledger, l.scope) \/ MayBeMissing(l.scope)

\* A spend made in a shared unit of work or a block is one step for the ledger:
\* no committed chain holds its authorization without its settlement (spend).
SpendIsWhole ==
    \A i \in DOMAIN disk :
        disk[i].kind = "hold" /\ disk[i].op = "spend" => i \notin OpenHolds(disk)
=============================================================================
