------------------------------ MODULE Governor ------------------------------
(***************************************************************************)
(* The spend governor of src/agentgov/core.py: BudgetManager's operations  *)
(* over the chain state its Ledger keeps, for one governor whose lock      *)
(* makes every operation one step.                                         *)
(*                                                                         *)
(* Money is an integer number of the ledger's quanta.  A caller asks in    *)
(* finer parts (PARTS to the quantum): what it pays rounds up (Cost), what *)
(* it is granted rounds down (Credit).  A hold is named by the id of its   *)
(* HOLD entry; the SPEND that settles it is named by the same id, since    *)
(* here every spend settles exactly one hold.  An operation that raises    *)
(* and writes nothing is a disabled action; one that raises and writes (a  *)
(* refused overdraft that trips the breaker, say) is an action.            *)
(***************************************************************************)
EXTENDS Integers, FiniteSets, Functions

CONSTANTS
    Scopes,             \* the scope ids callers may use
    HoldIds,            \* entry ids of HOLD entries; bounds how many are placed
    None,               \* the parent of a root, the scope of an unused hold id
    Asks,               \* the amounts callers pass, in parts of a quantum
    PARTS,              \* parts to the quantum
    MaxDepth,           \* GovernancePolicy.max_depth
    TripOnOverdraft,    \* GovernancePolicy.trip_on_overdraft
    TripOnExhaustion,   \* GovernancePolicy.trip_on_exhaustion
    MaxCalls,           \* GovernancePolicy.max_calls_per_window; 0 disables
    Window,             \* GovernancePolicy.window_seconds
    MaxTime,            \* bound on the clock
    MaxFunded           \* bound on what the treasury issues

ASSUME ConstantsAssumption ==
    /\ IsFiniteSet(Scopes)
    /\ IsFiniteSet(HoldIds)
    /\ None \notin Scopes
    /\ Asks \subseteq Nat
    /\ PARTS \in Nat \ {0}
    /\ MaxDepth \in Nat
    /\ TripOnOverdraft \in BOOLEAN
    /\ TripOnExhaustion \in BOOLEAN
    /\ MaxCalls \in Nat
    /\ Window \in Nat
    /\ MaxTime \in Nat
    /\ MaxFunded \in Nat

VARIABLES
    nodes,      \* registered scopes
    parent,     \* BudgetNode.parent_id
    depth,      \* BudgetNode.depth
    allocated,  \* BudgetNode.allocated: lifetime total credited to the node
    balance,    \* each scope's available balance
    holds,      \* what the chain says of each hold id, and of its spend
    holdCount,  \* how many holds are open in each scope
    spent,      \* each scope's lifetime spend
    refunded,   \* each scope's lifetime refunds
    fundedTotal,    \* all the treasury issued
    heldTotal,      \* all that open holds encumber
    spentTotal,     \* all that was spent
    reversedTotal,  \* all that was refunded
    tripped,    \* scopes whose own breaker is latched
    calls,      \* this process's recent authorizations, by scope and time
    clock,      \* the monotonic clock
    stale       \* holds a void_stale() survey found and has yet to release

tree   == <<nodes, parent, depth, allocated>>
flows  == <<spent, refunded>>
totals == <<fundedTotal, heldTotal, spentTotal, reversedTotal>>
vars   == <<nodes, parent, depth, allocated, balance, holds, holdCount,
            spent, refunded, fundedTotal, heldTotal, spentTotal, reversedTotal, tripped,
            calls, clock, stale>>

Times == 0..MaxTime

----------------------------------------------------------------------------
(* Amounts *)

\* What the governor pays out rounds up; what it grants rounds down.
Cost(x)   == (x + (PARTS - 1)) \div PARTS
Credit(x) == x \div PARTS

----------------------------------------------------------------------------
(* Derived state *)

OpenHolds       == {h \in HoldIds : holds[h].st = "open"}
OpenHoldsIn(s)  == {h \in HoldIds : holds[h].st = "open" /\ holds[h].scope = s}
FreshIds        == {h \in HoldIds : holds[h].st = "fresh"}

\* The walk from s up parent_id to its root, as the n-th scope met.
Up(s) ==
    LET up[n \in 0..depth[s]] ==
            IF n = 0 THEN s ELSE IF up[n-1] = None THEN None ELSE parent[up[n-1]]
    IN  up

Ancestry(s) == {Up(s)[n] : n \in 0..depth[s]}

\* Fault: only the scope's own breaker is looked at.
HaltedByOwnOnly(s) == s \in tripped

\* Halted by its own breaker or an ancestor's.
Halted(s) == Ancestry(s) \cap tripped # {}

----------------------------------------------------------------------------
(* The runaway-loop detector *)

\* call_times of s once this call is appended and those before the window are
\* dropped.
Recorded(s) ==
    [t \in Times |->
        IF t < clock - Window THEN 0
        ELSE IF t = clock THEN calls[s][t] + 1 ELSE calls[s][t]]

RecordVelocity(s) ==
    IF MaxCalls = 0 \/ Window = 0 THEN calls ELSE [calls EXCEPT ![s] = Recorded(s)]

Runaway(s) ==
    MaxCalls > 0 /\ Window > 0 /\ SumFunction(Recorded(s)) > MaxCalls

----------------------------------------------------------------------------
(* The tree: open_root, fund, delegate, release *)

OpenRoot(s, x) ==
    LET amount == Credit(x) IN
    /\ amount > 0
    /\ s \notin nodes
    /\ fundedTotal + amount <= MaxFunded
    /\ nodes' = nodes \cup {s}
    /\ parent' = [parent EXCEPT ![s] = None]
    /\ depth' = [depth EXCEPT ![s] = 0]
    /\ allocated' = [allocated EXCEPT ![s] = amount]
    /\ balance' = [balance EXCEPT ![s] = @ + amount]
    /\ fundedTotal' = fundedTotal + amount
    /\ UNCHANGED <<heldTotal, spentTotal, reversedTotal>>
    /\ UNCHANGED <<holds, holdCount, flows, tripped, calls, clock, stale>>

\* Fault: a child is funded from outside, past its parent.
FundAnyScope(s, x) ==
    LET amount == Credit(x) IN
    /\ amount > 0
    /\ s \in nodes
    /\ fundedTotal + amount <= MaxFunded
    /\ allocated' = [allocated EXCEPT ![s] = @ + amount]
    /\ balance' = [balance EXCEPT ![s] = @ + amount]
    /\ fundedTotal' = fundedTotal + amount
    /\ UNCHANGED <<heldTotal, spentTotal, reversedTotal>>
    /\ UNCHANGED <<nodes, parent, depth, holds, holdCount, flows, tripped, calls,
                   clock, stale>>

Fund(s, x) ==
    LET amount == Credit(x) IN
    /\ amount > 0
    /\ s \in nodes
    /\ parent[s] = None
    /\ fundedTotal + amount <= MaxFunded
    /\ allocated' = [allocated EXCEPT ![s] = @ + amount]
    /\ balance' = [balance EXCEPT ![s] = @ + amount]
    /\ fundedTotal' = fundedTotal + amount
    /\ UNCHANGED <<heldTotal, spentTotal, reversedTotal>>
    /\ UNCHANGED <<nodes, parent, depth, holds, holdCount, flows, tripped, calls,
                   clock, stale>>

Delegate(p, c, x) ==
    LET amount == Credit(x) IN
    /\ amount > 0
    /\ p \in nodes
    /\ c \notin nodes
    /\ ~Halted(p)
    /\ depth[p] + 1 <= MaxDepth
    /\ amount <= balance[p]
    /\ nodes' = nodes \cup {c}
    /\ parent' = [parent EXCEPT ![c] = p]
    /\ depth' = [depth EXCEPT ![c] = depth[p] + 1]
    /\ allocated' = [allocated EXCEPT ![c] = amount]
    /\ balance' = [balance EXCEPT ![p] = @ - amount, ![c] = @ + amount]
    /\ UNCHANGED <<holds, holdCount, flows, totals, tripped, calls, clock, stale>>

\* release(scope, amount): not refused on a halted scope.
ReturnToParent(s, amount) ==
    /\ s \in nodes
    /\ parent[s] # None
    /\ amount > 0
    /\ amount <= balance[s]
    /\ balance' = [balance EXCEPT ![s] = @ - amount, ![parent[s]] = @ + amount]
    /\ UNCHANGED <<tree, holds, holdCount, flows, totals, tripped, calls, clock, stale>>

Release(s, x) == ReturnToParent(s, Credit(x))
ReleaseAll(s) == ReturnToParent(s, balance[s])

----------------------------------------------------------------------------
(* authorize, try_authorize *)

Admitted(s, x) ==
    /\ Cost(x) > 0
    /\ s \in nodes
    /\ ~Halted(s)

\* More authorizations in the window than the policy allows: the call trips.
RefuseRunaway(s, x) ==
    /\ Admitted(s, x)
    /\ Runaway(s)
    /\ calls' = RecordVelocity(s)
    /\ tripped' = tripped \cup {s}
    /\ UNCHANGED <<tree, balance, holds, holdCount, flows, totals, clock, stale>>

\* Not enough available: authorize() trips, try_authorize() and the advisory
\* mode refuse and leave the breaker alone.
RefuseOverdraft(s, x, trip) ==
    /\ Admitted(s, x)
    /\ ~Runaway(s)
    /\ Cost(x) > balance[s]
    /\ calls' = RecordVelocity(s)
    /\ tripped' = IF trip /\ TripOnOverdraft THEN tripped \cup {s} ELSE tripped
    /\ UNCHANGED <<tree, balance, holds, holdCount, flows, totals, clock, stale>>

PlaceHold(s, x, h) ==
    LET held == Cost(x) IN
    /\ Admitted(s, x)
    /\ ~Runaway(s)
    /\ held <= balance[s]
    /\ h \in FreshIds
    /\ calls' = RecordVelocity(s)
    /\ balance' = [balance EXCEPT ![s] = @ - held]
    /\ holds' = [holds EXCEPT ![h] = [st |-> "open", scope |-> s, amount |-> held,
                                      at |-> clock, cost |-> 0, back |-> 0]]
    /\ holdCount' = [holdCount EXCEPT ![s] = @ + 1]
    /\ heldTotal' = heldTotal + held
    /\ UNCHANGED <<fundedTotal, spentTotal, reversedTotal>>
    /\ UNCHANGED <<tree, flows, tripped, clock, stale>>

Authorize(s, x, trip) ==
    \/ RefuseRunaway(s, x)
    \/ RefuseOverdraft(s, x, trip)
    \/ \E h \in HoldIds : PlaceHold(s, x, h)

----------------------------------------------------------------------------
(* capture, void, spend *)

\* Fault: an overdraft latches only where the policy trips on refused ones.
LatchedByPolicy(b, n) ==
    \/ TripOnOverdraft /\ b < 0
    \/ TripOnExhaustion /\ b = 0 /\ n = 0

\* Whether a settlement that leaves s at balance b, with n holds open, latches
\* its breaker: always when overdrawn, by policy when spent out.
LatchedBySettlement(b, n) ==
    \/ b < 0
    \/ TripOnExhaustion /\ b = 0 /\ n = 0

\* _void_locked: the hold's release, by its name.
Lift(h) ==
    LET s == holds[h].scope IN
    /\ balance' = [balance EXCEPT ![s] = @ + holds[h].amount]
    /\ holds' = [holds EXCEPT ![h].st = "closed"]
    /\ holdCount' = [holdCount EXCEPT ![s] = @ - 1]
    /\ heldTotal' = heldTotal - holds[h].amount
    /\ UNCHANGED <<fundedTotal, spentTotal, reversedTotal>>

Void(h) ==
    /\ holds[h].st = "open"
    /\ Lift(h)
    /\ UNCHANGED <<tree, flows, tripped, calls, clock, stale>>

\* Fault: the settlement forgets to release the hold.
SettleKeepingHold(h, cost) ==
    LET s == holds[h].scope
        left == balance[s] - cost
    IN
    /\ holds[h].st = "open"
    /\ cost > 0
    /\ balance' = [balance EXCEPT ![s] = left]
    /\ holds' = [holds EXCEPT ![h].st = "closed", ![h].cost = cost]
    /\ holdCount' = [holdCount EXCEPT ![s] = @ - 1]
    /\ spent' = [spent EXCEPT ![s] = @ + cost]
    /\ heldTotal' = heldTotal - holds[h].amount
    /\ spentTotal' = spentTotal + cost
    /\ UNCHANGED <<fundedTotal, reversedTotal>>
    /\ tripped' = IF left < 0 THEN tripped \cup {s} ELSE tripped
    /\ UNCHANGED <<tree, refunded, calls, clock, stale>>

\* The release and the spend are one transaction; so is the trip they cause.
Settle(h, cost) ==
    LET s == holds[h].scope
        left == balance[s] + holds[h].amount - cost
    IN
    /\ holds[h].st = "open"
    /\ cost > 0
    /\ balance' = [balance EXCEPT ![s] = left]
    /\ holds' = [holds EXCEPT ![h].st = "closed", ![h].cost = cost]
    /\ holdCount' = [holdCount EXCEPT ![s] = @ - 1]
    /\ spent' = [spent EXCEPT ![s] = @ + cost]
    /\ heldTotal' = heldTotal - holds[h].amount
    /\ spentTotal' = spentTotal + cost
    /\ UNCHANGED <<fundedTotal, reversedTotal>>
    /\ tripped' = IF LatchedBySettlement(left, holdCount[s] - 1)
                    THEN tripped \cup {s} ELSE tripped
    /\ UNCHANGED <<tree, refunded, calls, clock, stale>>

\* A capture at zero cost only lifts the hold.
Capture(h, x) ==
    \/ Cost(x) = 0 /\ Void(h)
    \/ Settle(h, Cost(x))

\* authorize and capture at the same cost, under one lock.
SpendThrough(s, x, h) ==
    LET cost == Cost(x)
        left == balance[s] - cost
    IN
    /\ Admitted(s, x)
    /\ ~Runaway(s)
    /\ cost <= balance[s]
    /\ h \in FreshIds
    /\ calls' = RecordVelocity(s)
    /\ balance' = [balance EXCEPT ![s] = left]
    /\ holds' = [holds EXCEPT ![h] = [st |-> "closed", scope |-> s, amount |-> cost,
                                      at |-> clock, cost |-> cost, back |-> 0]]
    /\ spent' = [spent EXCEPT ![s] = @ + cost]
    /\ spentTotal' = spentTotal + cost
    /\ UNCHANGED <<fundedTotal, heldTotal, reversedTotal>>
    /\ tripped' = IF LatchedBySettlement(left, holdCount[s])
                    THEN tripped \cup {s} ELSE tripped
    /\ UNCHANGED <<tree, holdCount, refunded, clock, stale>>

Spend(s, x) ==
    \/ RefuseRunaway(s, x)
    \/ RefuseOverdraft(s, x, TRUE)
    \/ \E h \in HoldIds : SpendThrough(s, x, h)

----------------------------------------------------------------------------
(* refund *)

\* Fault: a named refund forgets what unnamed ones already returned.
RefundNamedOnly(h, x) ==
    LET amount == Credit(x)
        s == holds[h].scope
    IN
    /\ amount > 0
    /\ holds[h].cost > 0
    /\ amount <= holds[h].cost - holds[h].back
    /\ balance' = [balance EXCEPT ![s] = @ + amount]
    /\ holds' = [holds EXCEPT ![h].back = @ + amount]
    /\ refunded' = [refunded EXCEPT ![s] = @ + amount]
    /\ reversedTotal' = reversedTotal + amount
    /\ UNCHANGED <<fundedTotal, heldTotal, spentTotal>>
    /\ UNCHANGED <<tree, holdCount, spent, tripped, calls, clock, stale>>

\* A refund that names the spend it reverses (that of hold h).
RefundNamed(h, x) ==
    LET amount == Credit(x)
        s == holds[h].scope
    IN
    /\ amount > 0
    /\ holds[h].cost > 0
    /\ amount <= holds[h].cost - holds[h].back
    /\ amount <= spent[s] - refunded[s]
    /\ balance' = [balance EXCEPT ![s] = @ + amount]
    /\ holds' = [holds EXCEPT ![h].back = @ + amount]
    /\ refunded' = [refunded EXCEPT ![s] = @ + amount]
    /\ reversedTotal' = reversedTotal + amount
    /\ UNCHANGED <<fundedTotal, heldTotal, spentTotal>>
    /\ UNCHANGED <<tree, holdCount, spent, tripped, calls, clock, stale>>

\* The deprecated refund that names none.
RefundUnnamed(s, x) ==
    LET amount == Credit(x) IN
    /\ amount > 0
    /\ s \in nodes
    /\ amount <= spent[s] - refunded[s]
    /\ balance' = [balance EXCEPT ![s] = @ + amount]
    /\ refunded' = [refunded EXCEPT ![s] = @ + amount]
    /\ reversedTotal' = reversedTotal + amount
    /\ UNCHANGED <<fundedTotal, heldTotal, spentTotal>>
    /\ UNCHANGED <<tree, holds, holdCount, spent, tripped, calls, clock, stale>>

----------------------------------------------------------------------------
(* trip, reset *)

\* Fault: a scope nobody registered is tripped.
TripUnknown(s) ==
    /\ s \notin tripped
    /\ tripped' = tripped \cup {s}
    /\ UNCHANGED <<tree, balance, holds, holdCount, flows, totals, calls, clock, stale>>

Trip(s) ==
    /\ s \in nodes
    /\ s \notin tripped
    /\ tripped' = tripped \cup {s}
    /\ UNCHANGED <<tree, balance, holds, holdCount, flows, totals, calls, clock, stale>>

\* Fault: the calls that led to the trip outlive it.
ResetKeepingCalls(s) ==
    /\ s \in tripped
    /\ tripped' = tripped \ {s}
    /\ UNCHANGED <<tree, balance, holds, holdCount, flows, totals, calls, clock, stale>>

\* Re-arming also forgets the calls that led to the trip.
Reset(s) ==
    /\ s \in tripped
    /\ tripped' = tripped \ {s}
    /\ calls' = [calls EXCEPT ![s] = [t \in Times |-> 0]]
    /\ UNCHANGED <<tree, balance, holds, holdCount, flows, totals, clock, stale>>

----------------------------------------------------------------------------
(* void_stale: a survey under the lock, then each release under the lock    *)
(* again, after other callers may have settled what the survey found.       *)

SurveyStale(cutoff) ==
    /\ stale = {}
    /\ stale' = {h \in OpenHolds : holds[h].at <= cutoff}
    /\ stale' # {}
    /\ UNCHANGED <<tree, balance, holds, holdCount, flows, totals, tripped, calls, clock>>

\* Fault: what the survey found is released without looking again.
VoidStaleBlind(h) ==
    /\ h \in stale
    /\ stale' = stale \ {h}
    /\ Lift(h)
    /\ UNCHANGED <<tree, flows, tripped, calls, clock>>

\* Still open: released.  Settled meanwhile: passed over.
VoidStale(h) ==
    /\ h \in stale
    /\ stale' = stale \ {h}
    /\ \/ holds[h].st = "open" /\ Lift(h)
       \/ holds[h].st # "open" /\ UNCHANGED <<balance, holds, holdCount, totals>>
    /\ UNCHANGED <<tree, flows, tripped, calls, clock>>

Tick ==
    /\ clock < MaxTime
    /\ clock' = clock + 1
    /\ UNCHANGED <<tree, balance, holds, holdCount, flows, totals, tripped, calls, stale>>

----------------------------------------------------------------------------

Unplaced == [st |-> "fresh", scope |-> None, amount |-> 0, at |-> 0, cost |-> 0, back |-> 0]

Init ==
    /\ nodes = {}
    /\ parent = [s \in Scopes |-> None]
    /\ depth = [s \in Scopes |-> 0]
    /\ allocated = [s \in Scopes |-> 0]
    /\ balance = [s \in Scopes |-> 0]
    /\ holds = [h \in HoldIds |-> Unplaced]
    /\ holdCount = [s \in Scopes |-> 0]
    /\ spent = [s \in Scopes |-> 0]
    /\ refunded = [s \in Scopes |-> 0]
    /\ fundedTotal = 0
    /\ heldTotal = 0
    /\ spentTotal = 0
    /\ reversedTotal = 0
    /\ tripped = {}
    /\ calls = [s \in Scopes |-> [t \in Times |-> 0]]
    /\ clock = 0
    /\ stale = {}

Next ==
    \/ \E s \in Scopes, x \in Asks :
        \/ OpenRoot(s, x)
        \/ Fund(s, x)
        \/ \E c \in Scopes : Delegate(s, c, x)
        \/ Release(s, x)
        \/ \E trip \in BOOLEAN : Authorize(s, x, trip)
        \/ Spend(s, x)
        \/ RefundUnnamed(s, x)
    \/ \E h \in HoldIds :
        \/ \E x \in Asks : Capture(h, x) \/ RefundNamed(h, x)
        \/ Void(h)
        \/ VoidStale(h)
    \/ \E s \in Scopes : ReleaseAll(s) \/ Trip(s) \/ Reset(s)
    \/ \E cutoff \in Times : SurveyStale(cutoff)
    \/ Tick

Spec == Init /\ [][Next]_vars

----------------------------------------------------------------------------
(* Properties *)

HoldRecord ==
    [st : {"fresh", "open", "closed"}, scope : Scopes \cup {None}, amount : Nat,
     at : Times, cost : Nat, back : Nat]

\* A hold that was placed, and no other, names a registered scope; one that was
\* not settled has no spend to refund.
HoldsSound ==
    \A h \in HoldIds :
        /\ IF holds[h].st = "fresh" THEN holds[h].scope = None ELSE holds[h].scope \in nodes
        /\ holds[h].st # "closed" => holds[h].cost = 0 /\ holds[h].back = 0

\* Every variable has its type.
TypeOK ==
    /\ nodes \subseteq Scopes
    /\ parent \in [Scopes -> Scopes \cup {None}]
    /\ depth \in [Scopes -> Nat]
    /\ allocated \in [Scopes -> Nat]
    /\ balance \in [Scopes -> Int]
    /\ holds \in [HoldIds -> HoldRecord]
    /\ holdCount \in [Scopes -> Int]
    /\ spent \in [Scopes -> Nat]
    /\ refunded \in [Scopes -> Nat]
    /\ fundedTotal \in Nat
    /\ heldTotal \in Int
    /\ spentTotal \in Nat
    /\ reversedTotal \in Nat
    /\ tripped \subseteq nodes
    /\ calls \in [Scopes -> [Times -> Nat]]
    /\ clock \in Times
    /\ stale \subseteq HoldIds
    /\ HoldsSound

\* verify_conservation(): what the treasury funded is, to the quantum, what
\* the scopes hold, what holds encumber and what was spent and not refunded.
Conservation ==
    SumFunctionOnSet(balance, Scopes) + heldTotal + spentTotal - reversedTotal
        = fundedTotal

\* The figures kept incrementally (the open-hold counts, the encumbered and
\* spent totals) are what the holds themselves say.
CachesMatchHolds ==
    /\ \A s \in Scopes : holdCount[s] = Cardinality(OpenHoldsIn(s))
    /\ heldTotal = SumFunctionOnSet([h \in HoldIds |-> holds[h].amount], OpenHolds)
    /\ spentTotal = SumFunctionOnSet(spent, Scopes)
    /\ \A s \in Scopes :
        spent[s] = SumFunctionOnSet([h \in HoldIds |-> holds[h].cost],
                                    {h \in HoldIds : holds[h].scope = s})

Subtree(s) == {d \in nodes : s \in Ancestry(d)}

\* What s's subtree holds, encumbers and spent, net of refunds.
Committed(s) ==
    LET net == [d \in Scopes |-> balance[d] + spent[d] - refunded[d]]
        kept == [h \in HoldIds |-> holds[h].amount]
    IN  SumFunctionOnSet(net, Subtree(s))
        + SumFunctionOnSet(kept, {h \in OpenHolds : holds[h].scope \in Subtree(s)})

\* The delegation invariant: a subtree never commands more than its top was
\* granted, at any depth; a root's commands exactly what it was funded.
DelegationBound ==
    \A s \in nodes :
        /\ Committed(s) <= allocated[s]
        /\ parent[s] = None => Committed(s) = allocated[s]

\* A refund returns money that was spent: never more than the scope ever spent,
\* never more than the spend it names, across every refund naming either.
RefundsBounded ==
    /\ \A s \in Scopes : refunded[s] <= spent[s]
    /\ \A h \in HoldIds : holds[h].back <= holds[h].cost

\* A scope whose recorded calls in the window exceed the limit is latched
\* until an operator resets it, and a reset starts the count over.
RunawayLatched ==
    \A s \in Scopes :
        MaxCalls > 0 /\ SumFunction(calls[s]) > MaxCalls => s \in tripped

\* The tree stays a tree within the depth limit: a child's parent is
\* registered one level above it, so no walk to the root can cycle.
TreeSound ==
    \A s \in nodes :
        IF parent[s] = None THEN depth[s] = 0
        ELSE /\ parent[s] \in nodes
             /\ depth[s] = depth[parent[s]] + 1
             /\ depth[s] <= MaxDepth

\* Nothing but a settlement takes a balance below zero, and the step that does
\* (or sinks it further) latches the scope's breaker with it.
OverdrawLatches ==
    [][\A s \in Scopes :
        balance'[s] < balance[s] /\ balance'[s] < 0 => s \in tripped' ]_vars

\* A hold is settled once: nothing but a refund of its spend touches it after.
SettledOnce ==
    [][\A h \in HoldIds : holds[h].st = "closed" =>
        /\ holds'[h].st = "closed"
        /\ holds'[h].cost = holds[h].cost
        /\ holds'[h].back >= holds[h].back ]_vars

\* At any depth below a tripped scope no new encumbrance is placed, no budget
\* is delegated, and money is spent only against holds open when it tripped.
HaltedSpendsNothingNew ==
    [][\A a \in tripped : \A s \in Subtree(a) :
        /\ \A h \in HoldIds : holds[h].st = "fresh" => holds'[h].scope # s
        /\ \A c \in nodes' \ nodes : parent'[c] # s
        /\ spent'[s] > spent[s] => holdCount'[s] < holdCount[s] ]_vars

=============================================================================
