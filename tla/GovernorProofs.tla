--------------------------- MODULE GovernorProofs ---------------------------
(* Theorems about Governor, for every set of scopes, holds and policies. *)
EXTENDS Governor, FiniteSums

\* A cost rounded up and a grant rounded down are whole numbers of quanta.
LEMMA AmountsWhole ==
    ASSUME NEW x \in Asks
    PROVE  Cost(x) \in Nat /\ Credit(x) \in Nat
<1>1. x \in Nat /\ PARTS \in Nat /\ PARTS > 0
  BY ConstantsAssumption
<1>2. Credit(x) \in Nat
  BY <1>1, Z3 DEF Credit
<1>3. Cost(x) \in Nat
  BY <1>1, Z3 DEF Cost
<1> QED
  BY <1>2, <1>3

\* Recording a call keeps the count of calls a count.
LEMMA VelocityType ==
    ASSUME TypeOK, NEW s \in Scopes
    PROVE  RecordVelocity(s) \in [Scopes -> [Times -> Nat]]
<1>1. Recorded(s) \in [Times -> Nat]
  BY DEF Recorded, TypeOK, HoldsSound
<1> QED
  BY <1>1 DEF RecordVelocity, TypeOK, HoldsSound

LEMMA HoldFields ==
    ASSUME NEW r \in HoldRecord
    PROVE  /\ r.st \in {"fresh", "open", "closed"}
           /\ r.scope \in Scopes \cup {None}
           /\ r.amount \in Nat /\ r.cost \in Nat /\ r.back \in Nat /\ r.at \in Times
  BY DEF HoldRecord

\* Closing a hold, settling it and refunding its spend leave it a hold of the
\* same scope and amount.
LEMMA HoldSet ==
    ASSUME NEW r \in HoldRecord, NEW n \in Nat
    PROVE  /\ [r EXCEPT !.st = "closed"] \in HoldRecord
           /\ [r EXCEPT !.st = "closed", !.cost = n] \in HoldRecord
           /\ [r EXCEPT !.back = n] \in HoldRecord
  BY DEF HoldRecord

LEMMA HoldPlacedType ==
    ASSUME TypeOK, NEW s \in Scopes, NEW n \in Nat, NEW k \in Nat, NEW st \in {"open", "closed"}
    PROVE  [st |-> st, scope |-> s, amount |-> n, at |-> clock, cost |-> k, back |-> 0]
             \in HoldRecord
  BY DEF TypeOK, HoldsSound, HoldRecord

LEMMA OpenHoldFields ==
    ASSUME TypeOK, NEW h \in HoldIds, holds[h].st # "fresh"
    PROVE  /\ holds[h].scope \in nodes /\ holds[h].scope \in Scopes
           /\ holds[h].amount \in Nat /\ holds[h].cost \in Nat /\ holds[h].back \in Nat
  BY HoldFields DEF TypeOK, HoldsSound

\* Releasing an open hold keeps what it touches in its type.
LEMMA LiftType ==
    ASSUME TypeOK, NEW h \in HoldIds, holds[h].st = "open", Lift(h), nodes' = nodes
    PROVE  /\ balance' \in [Scopes -> Int]
           /\ holds' \in [HoldIds -> HoldRecord]
           /\ holdCount' \in [Scopes -> Int]
           /\ fundedTotal' \in Nat /\ heldTotal' \in Int
           /\ spentTotal' \in Nat /\ reversedTotal' \in Nat
           /\ HoldsSound'
<1>1. holds' \in [HoldIds -> HoldRecord]
  BY HoldSet DEF Lift, TypeOK, HoldsSound
<1>2. HoldsSound'
  BY HoldFields DEF Lift, TypeOK, HoldsSound, HoldRecord
<1> QED
  BY <1>1, <1>2, OpenHoldFields DEF Lift, TypeOK

\* Each step keeps every variable in its type.
LEMMA TypeStep == TypeOK /\ [Next]_vars => TypeOK'
<1> SUFFICES ASSUME TypeOK, [Next]_vars PROVE TypeOK'
  OBVIOUS
<1> USE ConstantsAssumption
<1>1. ASSUME NEW s \in Scopes, NEW x \in Asks, OpenRoot(s, x) PROVE TypeOK'
  BY <1>1, AmountsWhole DEF OpenRoot, TypeOK, HoldsSound, flows, totals
<1>2. ASSUME NEW s \in Scopes, NEW x \in Asks, Fund(s, x) PROVE TypeOK'
  BY <1>2, AmountsWhole DEF Fund, TypeOK, HoldsSound, flows, totals
<1>3. ASSUME NEW s \in Scopes, NEW c \in Scopes, NEW x \in Asks, Delegate(s, c, x) PROVE TypeOK'
  BY <1>3, AmountsWhole DEF Delegate, TypeOK, HoldsSound, flows, totals
<1>4. ASSUME NEW s \in Scopes, NEW amount \in Int, ReturnToParent(s, amount) PROVE TypeOK'
  BY <1>4 DEF ReturnToParent, TypeOK, HoldsSound, flows, totals, tree
<1>5. ASSUME NEW s \in Scopes, NEW x \in Asks, RefuseRunaway(s, x) PROVE TypeOK'
  BY <1>5, VelocityType DEF RefuseRunaway, Admitted, TypeOK, HoldsSound, flows, totals, tree
<1>6. ASSUME NEW s \in Scopes, NEW x \in Asks, NEW trip \in BOOLEAN, RefuseOverdraft(s, x, trip)
      PROVE TypeOK'
  BY <1>6, VelocityType DEF RefuseOverdraft, Admitted, TypeOK, HoldsSound, flows, totals, tree
<1>7. ASSUME NEW s \in Scopes, NEW x \in Asks, NEW h \in HoldIds, PlaceHold(s, x, h) PROVE TypeOK'
  <2>1. holds' \in [HoldIds -> HoldRecord]
    BY <1>7, AmountsWhole, HoldPlacedType DEF PlaceHold, TypeOK, HoldsSound
  <2>2. HoldsSound'
    BY <1>7 DEF PlaceHold, Admitted, TypeOK, HoldsSound, HoldRecord, tree
  <2> QED
    BY <1>7, <2>1, <2>2, VelocityType, AmountsWhole DEF PlaceHold, TypeOK, flows, totals, tree
<1>8. ASSUME NEW h \in HoldIds, Void(h) PROVE TypeOK'
  BY <1>8, LiftType DEF Void, TypeOK, HoldsSound, flows, tree
<1>9. ASSUME NEW h \in HoldIds, NEW cost \in Nat, Settle(h, cost) PROVE TypeOK'
  <2>1. holds' \in [HoldIds -> HoldRecord]
    BY <1>9, HoldSet DEF Settle, TypeOK, HoldsSound
  <2>2. HoldsSound'
    BY <1>9 DEF Settle, TypeOK, HoldsSound, HoldRecord, tree
  <2> QED
    BY <1>9, <2>1, <2>2, OpenHoldFields DEF Settle, TypeOK, flows, totals, tree
<1>10. ASSUME NEW s \in Scopes, NEW x \in Asks, NEW h \in HoldIds, SpendThrough(s, x, h)
       PROVE TypeOK'
  <2>1. holds' \in [HoldIds -> HoldRecord]
    BY <1>10, AmountsWhole, HoldPlacedType DEF SpendThrough, TypeOK, HoldsSound
  <2>2. HoldsSound'
    BY <1>10 DEF SpendThrough, Admitted, TypeOK, HoldsSound, HoldRecord, tree
  <2> QED
    BY <1>10, <2>1, <2>2, VelocityType, AmountsWhole
    DEF SpendThrough, Admitted, TypeOK, HoldsSound, flows, totals, tree
<1>11. ASSUME NEW h \in HoldIds, NEW x \in Asks, RefundNamed(h, x) PROVE TypeOK'
  <2> DEFINE back == holds[h].back + Credit(x)
  <2>0. /\ back \in Nat
        /\ holds[h] \in HoldRecord
        /\ holds' = [holds EXCEPT ![h] = [holds[h] EXCEPT !.back = back]]
    BY <1>11, AmountsWhole, HoldFields DEF RefundNamed, TypeOK, HoldsSound
  <2> HIDE DEF back
  <2>1. holds' \in [HoldIds -> HoldRecord]
    BY <2>0, HoldSet DEF TypeOK, HoldsSound
  <2>2. HoldsSound'
    BY <1>11, <2>0 DEF RefundNamed, TypeOK, HoldsSound, HoldRecord, tree
  <2>3. /\ balance' \in [Scopes -> Int]
        /\ refunded' \in [Scopes -> Nat]
        /\ reversedTotal' \in Nat
        /\ nodes' = nodes
    BY <1>11, AmountsWhole DEF RefundNamed, TypeOK, HoldsSound, tree
  <2> QED
    BY <1>11, <2>1, <2>2, <2>3 DEF RefundNamed, TypeOK, flows, totals, tree
<1>12. ASSUME NEW s \in Scopes, NEW x \in Asks, RefundUnnamed(s, x) PROVE TypeOK'
  BY <1>12, AmountsWhole DEF RefundUnnamed, TypeOK, HoldsSound, flows, totals, tree
<1>13. ASSUME NEW s \in Scopes, Trip(s) PROVE TypeOK'
  BY <1>13 DEF Trip, TypeOK, HoldsSound, flows, totals, tree
<1>14. ASSUME NEW s \in Scopes, Reset(s) PROVE TypeOK'
  BY <1>14 DEF Reset, TypeOK, HoldsSound, flows, totals, tree
<1>15. ASSUME NEW cutoff \in Times, SurveyStale(cutoff) PROVE TypeOK'
  BY <1>15 DEF SurveyStale, OpenHolds, TypeOK, HoldsSound, flows, totals, tree
<1>16. ASSUME NEW h \in HoldIds, VoidStale(h) PROVE TypeOK'
  <2>1. CASE holds[h].st = "open" /\ Lift(h)
    BY <1>16, <2>1, LiftType DEF VoidStale, TypeOK, HoldsSound, flows, tree
  <2>2. CASE UNCHANGED <<balance, holds, holdCount, totals>>
    BY <1>16, <2>2 DEF VoidStale, TypeOK, HoldsSound, flows, totals, tree
  <2> QED
    BY <1>16, <2>1, <2>2 DEF VoidStale
<1>17. CASE Tick
  BY <1>17 DEF Tick, TypeOK, HoldsSound, Times, flows, totals, tree
<1>18. CASE UNCHANGED vars
  BY <1>18 DEF vars, TypeOK, HoldsSound
<1>19. ASSUME NEW s \in Scopes, NEW x \in Asks, Release(s, x) PROVE TypeOK'
  BY <1>4, <1>19, AmountsWhole DEF Release
<1>20. ASSUME NEW s \in Scopes, NEW x \in Asks, NEW trip \in BOOLEAN, Authorize(s, x, trip)
       PROVE TypeOK'
  BY <1>5, <1>6, <1>7, <1>20 DEF Authorize
<1>21. ASSUME NEW s \in Scopes, NEW x \in Asks, Spend(s, x) PROVE TypeOK'
  BY <1>5, <1>6, <1>10, <1>21 DEF Spend
<1>22. ASSUME NEW h \in HoldIds, NEW x \in Asks, Capture(h, x) PROVE TypeOK'
  BY <1>8, <1>9, <1>22, AmountsWhole DEF Capture
<1>23. ASSUME NEW s \in Scopes, ReleaseAll(s) PROVE TypeOK'
  BY <1>4, <1>23 DEF ReleaseAll, TypeOK, HoldsSound
<1>24. ASSUME NEW s \in Scopes, NEW x \in Asks,
              \/ OpenRoot(s, x) \/ Fund(s, x) \/ \E c \in Scopes : Delegate(s, c, x)
              \/ Release(s, x) \/ \E trip \in BOOLEAN : Authorize(s, x, trip)
              \/ Spend(s, x) \/ RefundUnnamed(s, x)
       PROVE TypeOK'
  BY <1>1, <1>2, <1>3, <1>12, <1>19, <1>20, <1>21, <1>24
<1>25. ASSUME NEW h \in HoldIds,
              \/ \E x \in Asks : Capture(h, x) \/ RefundNamed(h, x)
              \/ Void(h) \/ VoidStale(h)
       PROVE TypeOK'
  BY <1>8, <1>11, <1>16, <1>22, <1>25
<1>26. ASSUME NEW s \in Scopes, ReleaseAll(s) \/ Trip(s) \/ Reset(s) PROVE TypeOK'
  BY <1>13, <1>14, <1>23, <1>26
<1> QED
  BY <1>15, <1>17, <1>18, <1>24, <1>25, <1>26 DEF Next

\* The governor never leaves its types: in particular only a registered scope
\* is latched, and a hold that was placed names one.
THEOREM TypeCorrect == Spec => []TypeOK
<1>1. Init => TypeOK
  BY ConstantsAssumption DEF Init, TypeOK, HoldsSound, Unplaced, HoldRecord, Times
<1> QED
  BY <1>1, TypeStep, PTL DEF Spec

----------------------------------------------------------------------------
(* Conservation *)

Banked == SumFunctionOnSet(balance, Scopes)

LEMMA BankedType == TypeOK => Banked \in Int
  BY SumType, ConstantsAssumption DEF TypeOK, Banked

LEMMA BankedDiffers ==
    ASSUME TypeOK, TypeOK', NEW s \in Scopes, \A y \in Scopes \ {s} : balance[y] = balance'[y]
    PROVE  Banked' = Banked + (balance'[s] - balance[s])
<1>1. balance \in [Scopes -> Int] /\ balance' \in [Scopes -> Int] /\ IsFiniteSet(Scopes)
  BY ConstantsAssumption DEF TypeOK
<1> QED
  BY <1>1, SumMove DEF Banked

\* One scope's balance moves.
LEMMA BankedMove ==
    ASSUME TypeOK, TypeOK', NEW s \in Scopes, NEW d \in Int,
           balance' = [balance EXCEPT ![s] = balance[s] + d]
    PROVE  Banked' = Banked + d
<1>1. balance \in [Scopes -> Int]
  BY DEF TypeOK
<1>2. \A y \in Scopes \ {s} : balance[y] = balance'[y]
  BY <1>1
<1>3. Banked' = Banked + (balance'[s] - balance[s])
  BY <1>2, BankedDiffers
<1>4. Banked \in Int /\ balance[s] \in Int /\ balance'[s] = balance[s] + d
  BY <1>1, BankedType
<1> QED
  BY <1>3, <1>4

LEMMA BankedSame ==
    ASSUME TypeOK, TypeOK', NEW p \in Scopes, NEW c \in Scopes, p # c,
           balance[p] + balance[c] = balance'[p] + balance'[c],
           \A z \in Scopes \ {p, c} : balance[z] = balance'[z]
    PROVE  Banked' = Banked
<1>1. balance \in [Scopes -> Int] /\ balance' \in [Scopes -> Int] /\ IsFiniteSet(Scopes)
  BY ConstantsAssumption DEF TypeOK
<1> QED
  BY <1>1, SumTransfer DEF Banked

\* Money passes from one scope to another.
LEMMA BankedTransfer ==
    ASSUME TypeOK, TypeOK', NEW p \in Scopes, NEW c \in Scopes, NEW d \in Int, p # c,
           balance' = [balance EXCEPT ![p] = @ - d, ![c] = @ + d]
    PROVE  Banked' = Banked
<1>1. balance \in [Scopes -> Int]
  BY DEF TypeOK
<1>2. \A z \in Scopes \ {p, c} : balance[z] = balance'[z]
  BY <1>1
<1>3. balance[p] + balance[c] = balance'[p] + balance'[c]
  BY <1>1
<1> QED
  BY <1>2, <1>3, BankedSame

LEMMA BankedKept == ASSUME UNCHANGED balance PROVE Banked' = Banked
  BY DEF Banked

----------------------------------------------------------------------------
(* The steps, one disjunct for each way an operation ends *)

Moves ==
    \/ \E s \in Scopes, x \in Asks : OpenRoot(s, x)
    \/ \E s \in Scopes, x \in Asks : Fund(s, x)
    \/ \E s \in Scopes, c \in Scopes, x \in Asks : Delegate(s, c, x)
    \/ \E s \in Scopes, amount \in Int : ReturnToParent(s, amount)
    \/ \E s \in Scopes, x \in Asks, h \in HoldIds : PlaceHold(s, x, h)
    \/ \E s \in Scopes, x \in Asks, h \in HoldIds : SpendThrough(s, x, h)
    \/ \E h \in HoldIds, cost \in Nat : Settle(h, cost)
    \/ \E h \in HoldIds : Void(h)
    \/ \E h \in HoldIds : VoidStale(h)
    \/ \E h \in HoldIds, x \in Asks : RefundNamed(h, x)
    \/ \E s \in Scopes, x \in Asks : RefundUnnamed(s, x)

\* A step that moves no money and leaves the tree and the holds alone.
Idle ==
    /\ UNCHANGED <<tree, balance, holds, holdCount, flows, totals>>
    /\ \/ \E s \in Scopes : tripped' = tripped \cup {s}
       \/ \E s \in Scopes : s \in tripped /\ tripped' = tripped \ {s}
       \/ UNCHANGED tripped

LEMMA StepKinds == TypeOK /\ [Next]_vars => Moves \/ Idle
<1> SUFFICES ASSUME TypeOK, [Next]_vars PROVE Moves \/ Idle
  OBVIOUS
<1>1. ASSUME NEW s \in Scopes, NEW x \in Asks, RefuseRunaway(s, x) PROVE Idle
  BY <1>1 DEF RefuseRunaway, Idle
<1>2. ASSUME NEW s \in Scopes, NEW x \in Asks, NEW trip \in BOOLEAN, RefuseOverdraft(s, x, trip)
      PROVE Idle
  BY <1>2 DEF RefuseOverdraft, Idle
<1>3. ASSUME NEW s \in Scopes, Trip(s) \/ Reset(s) PROVE Idle
  BY <1>3 DEF Trip, Reset, Idle
<1>4. ASSUME NEW cutoff \in Times, SurveyStale(cutoff) PROVE Idle
  BY <1>4 DEF SurveyStale, Idle
<1>5. CASE Tick
  BY <1>5 DEF Tick, Idle
<1>6. CASE UNCHANGED vars
  BY <1>6 DEF vars, Idle, tree, flows, totals
<1>7. ASSUME NEW s \in Scopes, NEW x \in Asks, Release(s, x) PROVE Moves
  BY <1>7, AmountsWhole DEF Release, Moves
<1>8. ASSUME NEW s \in Scopes, ReleaseAll(s) PROVE Moves
  <2>1. balance[s] \in Int
    BY DEF TypeOK
  <2> QED
    BY <1>8, <2>1 DEF ReleaseAll, Moves
<1>9. ASSUME NEW s \in Scopes, NEW x \in Asks, NEW trip \in BOOLEAN, Authorize(s, x, trip)
      PROVE Moves \/ Idle
  BY <1>1, <1>2, <1>9 DEF Authorize, Moves
<1>10. ASSUME NEW s \in Scopes, NEW x \in Asks, Spend(s, x) PROVE Moves \/ Idle
  BY <1>1, <1>2, <1>10 DEF Spend, Moves
<1>11. ASSUME NEW h \in HoldIds, NEW x \in Asks, Capture(h, x) PROVE Moves
  BY <1>11, AmountsWhole DEF Capture, Moves
<1>12. ASSUME NEW s \in Scopes, NEW x \in Asks,
              \/ OpenRoot(s, x) \/ Fund(s, x) \/ \E c \in Scopes : Delegate(s, c, x)
              \/ Release(s, x) \/ \E trip \in BOOLEAN : Authorize(s, x, trip)
              \/ Spend(s, x) \/ RefundUnnamed(s, x)
       PROVE Moves \/ Idle
  BY <1>7, <1>9, <1>10, <1>12 DEF Moves
<1>13. ASSUME NEW h \in HoldIds,
              \/ \E x \in Asks : Capture(h, x) \/ RefundNamed(h, x)
              \/ Void(h) \/ VoidStale(h)
       PROVE Moves
  BY <1>11, <1>13 DEF Moves
<1> QED
  BY <1>3, <1>4, <1>5, <1>6, <1>8, <1>12, <1>13 DEF Next

----------------------------------------------------------------------------
(* The tree *)

LEMMA TreeStep == TypeOK /\ TreeSound /\ [Next]_vars => TreeSound'
<1> SUFFICES ASSUME TypeOK, TreeSound, [Next]_vars PROVE TreeSound'
  OBVIOUS
<1> USE ConstantsAssumption
<1>1. CASE UNCHANGED <<nodes, parent, depth>>
  BY <1>1 DEF TreeSound
<1>2. ASSUME NEW s \in Scopes, NEW x \in Asks, OpenRoot(s, x) PROVE TreeSound'
  BY <1>2 DEF OpenRoot, TreeSound, TypeOK
<1>3. ASSUME NEW p \in Scopes, NEW c \in Scopes, NEW x \in Asks, Delegate(p, c, x)
      PROVE TreeSound'
  BY <1>3 DEF Delegate, TreeSound, TypeOK
<1>4. ASSUME NEW h \in HoldIds, VoidStale(h) \/ Void(h) PROVE UNCHANGED <<nodes, parent, depth>>
  BY <1>4 DEF VoidStale, Void, tree
<1>5. CASE Idle
  BY <1>1, <1>5 DEF Idle, tree
<1>6. CASE Moves
  BY <1>1, <1>2, <1>3, <1>4, <1>6, ZenonT(40)
  DEF Moves, Fund, ReturnToParent, PlaceHold, SpendThrough, Settle, RefundNamed, RefundUnnamed, tree
<1> QED
  BY <1>5, <1>6, StepKinds

\* The scopes stay a forest within the depth limit whatever is opened and
\* delegated: delegate() registers a child under a registered parent, once.
THEOREM Forest == Spec => []TreeSound
<1>1. Init => TreeSound
  BY DEF Init, TreeSound
<1> QED
  BY <1>1, TreeStep, TypeCorrect, PTL DEF Spec

----------------------------------------------------------------------------
(* Conservation of money *)

LEMMA ConservationStep ==
    TypeOK /\ TypeOK' /\ TreeSound /\ Conservation /\ [Next]_vars => Conservation'
<1> SUFFICES ASSUME TypeOK, TypeOK', TreeSound, Conservation, [Next]_vars PROVE Conservation'
  OBVIOUS
<1> DEFINE Balanced == Banked + heldTotal + spentTotal - reversedTotal = fundedTotal
<1>0. Balanced
  BY DEF Conservation, Banked
<1>b. /\ Banked \in Int
      /\ fundedTotal \in Int /\ heldTotal \in Int /\ spentTotal \in Int /\ reversedTotal \in Int
      /\ fundedTotal' \in Int /\ heldTotal' \in Int /\ spentTotal' \in Int /\ reversedTotal' \in Int
  BY BankedType DEF TypeOK
<1> SUFFICES Balanced'
  BY DEF Conservation, Banked
<1>1. ASSUME NEW s \in Scopes, NEW x \in Asks, OpenRoot(s, x) \/ Fund(s, x) PROVE Balanced'
  <2>1. Credit(x) \in Int /\ balance' = [balance EXCEPT ![s] = balance[s] + Credit(x)]
    BY <1>1, AmountsWhole DEF OpenRoot, Fund
  <2>2. Banked' = Banked + Credit(x)
    BY <2>1, BankedMove
  <2> QED
    BY <1>0, <1>b, <1>1, <2>1, <2>2 DEF OpenRoot, Fund
<1>2. ASSUME NEW p \in Scopes, NEW c \in Scopes, NEW x \in Asks, Delegate(p, c, x)
      PROVE Balanced'
  <2>1. Credit(x) \in Int /\ p # c
        /\ balance' = [balance EXCEPT ![p] = @ - Credit(x), ![c] = @ + Credit(x)]
    BY <1>2, AmountsWhole DEF Delegate
  <2>2. Banked' = Banked
    BY <2>1, BankedTransfer
  <2> QED
    BY <1>0, <1>b, <1>2, <2>2 DEF Delegate, totals
<1>3. ASSUME NEW s \in Scopes, NEW amount \in Int, ReturnToParent(s, amount)
      PROVE Balanced'
  <2>1. parent[s] \in Scopes /\ s # parent[s]
    BY <1>3 DEF ReturnToParent, TreeSound, TypeOK
  <2>2. balance' = [balance EXCEPT ![s] = @ - amount, ![parent[s]] = @ + amount]
    BY <1>3 DEF ReturnToParent
  <2>3. Banked' = Banked
    BY <2>1, <2>2, BankedTransfer
  <2> QED
    BY <1>0, <1>b, <1>3, <2>3 DEF ReturnToParent, totals
<1>4. ASSUME NEW s \in Scopes, NEW x \in Asks, NEW h \in HoldIds,
             PlaceHold(s, x, h) \/ SpendThrough(s, x, h)
      PROVE Balanced'
  <2>1. PICK d \in Int : d = -Cost(x)
    BY AmountsWhole
  <2>2. balance' = [balance EXCEPT ![s] = balance[s] + d]
    <3>1. balance[s] \in Int /\ Cost(x) \in Int
      BY AmountsWhole DEF TypeOK
    <3>2. balance[s] - Cost(x) = balance[s] + d
      BY <2>1, <3>1
    <3> QED
      BY <1>4, <3>2 DEF PlaceHold, SpendThrough
  <2>3. Banked' = Banked + d
    BY <2>2, BankedMove
  <2>4. Cost(x) \in Int
    BY AmountsWhole
  <2>5. CASE PlaceHold(s, x, h)
    <3>1. /\ heldTotal' = heldTotal + Cost(x)
          /\ UNCHANGED <<fundedTotal, spentTotal, reversedTotal>>
      BY <2>5 DEF PlaceHold
    <3> QED
      BY <1>0, <1>b, <2>1, <2>3, <2>4, <3>1
  <2>6. CASE SpendThrough(s, x, h)
    <3>1. /\ spentTotal' = spentTotal + Cost(x)
          /\ UNCHANGED <<fundedTotal, heldTotal, reversedTotal>>
      BY <2>6 DEF SpendThrough
    <3> QED
      BY <1>0, <1>b, <2>1, <2>3, <2>4, <3>1
  <2> QED
    BY <1>4, <2>5, <2>6
<1>5. ASSUME NEW h \in HoldIds, holds[h].st = "open", Lift(h) PROVE Balanced'
  <2>1. holds[h].scope \in Scopes /\ holds[h].amount \in Int
    BY <1>5, OpenHoldFields
  <2>2. Banked' = Banked + holds[h].amount
    BY <1>5, <2>1, BankedMove DEF Lift
  <2> QED
    BY <1>0, <1>b, <1>5, <2>1, <2>2 DEF Lift
<1>6. ASSUME NEW h \in HoldIds, VoidStale(h) \/ Void(h) PROVE Balanced'
  <2>1. CASE UNCHANGED <<balance, holds, holdCount, totals>>
    BY <1>0, <1>b, <2>1, BankedKept DEF totals
  <2> QED
    BY <1>5, <1>6, <2>1 DEF VoidStale, Void
<1>7. ASSUME NEW h \in HoldIds, NEW cost \in Nat, Settle(h, cost) PROVE Balanced'
  <2> DEFINE s == holds[h].scope
             d == holds[h].amount - cost
  <2>1. s \in Scopes /\ holds[h].amount \in Int /\ balance[s] \in Int /\ d \in Int
    BY <1>7, OpenHoldFields DEF Settle, TypeOK
  <2>2. balance[s] + holds[h].amount - cost = balance[s] + d
    BY <2>1
  <2>3. balance' = [balance EXCEPT ![s] = balance[s] + d]
    BY <1>7, <2>2 DEF Settle
  <2>4. Banked' = Banked + d
    <3> HIDE DEF d
    <3> QED
      BY <2>1, <2>3, BankedMove
  <2> QED
    BY <1>0, <1>b, <1>7, <2>1, <2>4 DEF Settle
<1>8. ASSUME NEW h \in HoldIds, NEW x \in Asks, RefundNamed(h, x) PROVE Balanced'
  <2>1. /\ holds[h].scope \in Scopes
        /\ Credit(x) \in Int
        /\ balance' = [balance EXCEPT ![holds[h].scope] = balance[holds[h].scope] + Credit(x)]
    <3>1. holds[h].st # "fresh"
      BY <1>8, SMTT(20) DEF RefundNamed, TypeOK, HoldsSound
    <3> QED
      BY <1>8, <3>1, OpenHoldFields, AmountsWhole DEF RefundNamed
  <2>2. Banked' = Banked + Credit(x)
    BY <2>1, BankedMove
  <2> QED
    BY <1>0, <1>b, <1>8, <2>1, <2>2 DEF RefundNamed
<1>9. ASSUME NEW s \in Scopes, NEW x \in Asks, RefundUnnamed(s, x) PROVE Balanced'
  <2>1. Credit(x) \in Int /\ balance' = [balance EXCEPT ![s] = balance[s] + Credit(x)]
    BY <1>9, AmountsWhole DEF RefundUnnamed
  <2>2. Banked' = Banked + Credit(x)
    BY <2>1, BankedMove
  <2> QED
    BY <1>0, <1>b, <1>9, <2>1, <2>2 DEF RefundUnnamed
<1>10. CASE Idle
  BY <1>0, <1>b, <1>10, BankedKept DEF Idle, totals
<1>11. CASE Moves
  BY <1>1, <1>2, <1>3, <1>4, <1>6, <1>7, <1>8, <1>9, <1>11 DEF Moves
<1> QED
  BY <1>10, <1>11, StepKinds

\* Money is neither made nor lost: whatever is opened, delegated, returned,
\* held, settled at any cost, voided and refunded, what the treasury funded is
\* what is banked, held and spent, net of refunds.
THEOREM Conserved == Spec => []Conservation
<1>1. Init => Conservation
  <2> SUFFICES ASSUME Init PROVE Conservation
    OBVIOUS
  <2>1. balance \in [Scopes -> Int] /\ \A s \in Scopes : balance[s] = 0
    BY DEF Init
  <2>2. SumFunctionOnSet(balance, Scopes) = 0
    BY <2>1, SumZero, ConstantsAssumption
  <2> QED
    BY <2>2 DEF Init, Conservation
<1> QED
  BY <1>1, ConservationStep, TypeCorrect, Forest, PTL DEF Spec

----------------------------------------------------------------------------
(* Refunds *)

LEMMA RefundsStep == TypeOK /\ RefundsBounded /\ [Next]_vars => RefundsBounded'
<1> SUFFICES ASSUME TypeOK, RefundsBounded, [Next]_vars PROVE RefundsBounded'
  OBVIOUS
<1>1. CASE UNCHANGED <<holds, spent, refunded>>
  BY <1>1 DEF RefundsBounded
<1>2. ASSUME NEW s \in Scopes, NEW x \in Asks, NEW h \in HoldIds,
             PlaceHold(s, x, h) \/ SpendThrough(s, x, h)
      PROVE RefundsBounded'
  <2>1. Cost(x) \in Nat
    BY AmountsWhole
  <2>2. \A t \in Scopes : refunded'[t] = refunded[t] /\ spent'[t] >= spent[t] /\ spent'[t] \in Nat
    <3>1. CASE PlaceHold(s, x, h)
      BY <3>1 DEF PlaceHold, flows, TypeOK
    <3>2. CASE SpendThrough(s, x, h)
      BY <3>2, <2>1 DEF SpendThrough, TypeOK
    <3> QED
      BY <1>2, <3>1, <3>2
  <2>3. \A g \in HoldIds : holds'[g].back <= holds'[g].cost
    BY <1>2, <2>1, SMTT(20) DEF PlaceHold, SpendThrough, RefundsBounded, TypeOK
  <2> QED
    BY <2>2, <2>3 DEF RefundsBounded, TypeOK
<1>3. ASSUME NEW h \in HoldIds, NEW cost \in Nat, Settle(h, cost) PROVE RefundsBounded'
  <2>1. \A t \in Scopes : refunded'[t] = refunded[t] /\ spent'[t] >= spent[t] /\ spent'[t] \in Nat
    BY <1>3 DEF Settle, TypeOK
  <2>2. \A g \in HoldIds : holds'[g].back <= holds'[g].cost
    BY <1>3 DEF Settle, RefundsBounded, TypeOK, HoldsSound, HoldRecord
  <2> QED
    BY <2>1, <2>2 DEF RefundsBounded, TypeOK
<1>4. ASSUME NEW h \in HoldIds, VoidStale(h) \/ Void(h) PROVE RefundsBounded'
  <2>1. \A g \in HoldIds : holds'[g].back = holds[g].back /\ holds'[g].cost = holds[g].cost
    <3>1. CASE Lift(h)
      BY <3>1 DEF Lift, TypeOK, HoldRecord
    <3>2. CASE UNCHANGED holds
      BY <3>2
    <3> QED
      BY <1>4, <3>1, <3>2 DEF VoidStale, Void
  <2> QED
    BY <1>4, <2>1 DEF VoidStale, Void, flows, RefundsBounded
<1>5. ASSUME NEW h \in HoldIds, NEW x \in Asks, RefundNamed(h, x) PROVE RefundsBounded'
  <2>1. Credit(x) \in Nat /\ holds[h].cost \in Nat /\ holds[h].back \in Nat /\ holds[h].scope \in Scopes
    BY <1>5, AmountsWhole, HoldFields, OpenHoldFields DEF RefundNamed, TypeOK, HoldsSound
  <2>2. \A t \in Scopes : refunded'[t] <= spent'[t]
    BY <1>5, <2>1 DEF RefundNamed, RefundsBounded, TypeOK
  <2>3. \A g \in HoldIds : holds'[g].back <= holds'[g].cost
    BY <1>5, <2>1 DEF RefundNamed, RefundsBounded, TypeOK, HoldRecord
  <2> QED
    BY <2>2, <2>3 DEF RefundsBounded
<1>6. ASSUME NEW s \in Scopes, NEW x \in Asks, RefundUnnamed(s, x) PROVE RefundsBounded'
  BY <1>6, AmountsWhole DEF RefundUnnamed, RefundsBounded, TypeOK
<1>7. CASE Idle
  BY <1>1, <1>7 DEF Idle, flows
<1>8. CASE Moves
  BY <1>1, <1>2, <1>3, <1>4, <1>5, <1>6, <1>8
  DEF Moves, OpenRoot, Fund, Delegate, ReturnToParent, flows
<1> QED
  BY <1>7, <1>8, StepKinds

\* However named and unnamed refunds mix, no scope and no spend gets back more
\* than was spent.
THEOREM RefundsWithinSpend == Spec => []RefundsBounded
<1>1. Init => RefundsBounded
  BY DEF Init, RefundsBounded, Unplaced
<1> QED
  BY <1>1, RefundsStep, TypeCorrect, PTL DEF Spec

----------------------------------------------------------------------------
(* Overdrafts *)

Latching == \A s \in Scopes : balance'[s] < balance[s] /\ balance'[s] < 0 => s \in tripped'

LEMMA LatchingStep == TypeOK /\ [Next]_vars => Latching
<1> SUFFICES ASSUME TypeOK, [Next]_vars, NEW t \in Scopes, balance'[t] < balance[t], balance'[t] < 0
             PROVE  t \in tripped'
  BY DEF Latching
<1>0. balance \in [Scopes -> Int] /\ balance[t] \in Int
  BY DEF TypeOK
<1>1. ASSUME NEW s \in Scopes, NEW x \in Asks, OpenRoot(s, x) \/ Fund(s, x) \/ RefundUnnamed(s, x)
      PROVE FALSE
  <2>1. balance' = [balance EXCEPT ![s] = @ + Credit(x)] /\ Credit(x) \in Nat
    BY <1>1, AmountsWhole DEF OpenRoot, Fund, RefundUnnamed
  <2> QED
    BY <1>0, <2>1
<1>2. ASSUME NEW s \in Scopes, NEW c \in Scopes, NEW x \in Asks, Delegate(s, c, x) PROVE FALSE
  BY <1>0, <1>2, AmountsWhole DEF Delegate
<1>3. ASSUME NEW s \in Scopes, NEW amount \in Int, ReturnToParent(s, amount) PROVE FALSE
  BY <1>0, <1>3 DEF ReturnToParent, TypeOK
<1>4. ASSUME NEW s \in Scopes, NEW x \in Asks, NEW h \in HoldIds,
             PlaceHold(s, x, h) \/ SpendThrough(s, x, h)
      PROVE FALSE
  <2>1. balance' = [balance EXCEPT ![s] = balance[s] - Cost(x)] /\ Cost(x) <= balance[s] /\ Cost(x) \in Nat
    BY <1>4, AmountsWhole DEF PlaceHold, SpendThrough
  <2> QED
    BY <1>0, <2>1
<1>5. ASSUME NEW h \in HoldIds, NEW cost \in Nat, Settle(h, cost) PROVE t \in tripped'
  BY <1>0, <1>5, OpenHoldFields DEF Settle, LatchedBySettlement
<1>6. ASSUME NEW h \in HoldIds, holds[h].st = "open", Lift(h) PROVE FALSE
  BY <1>0, <1>6, OpenHoldFields DEF Lift
<1>7. ASSUME NEW h \in HoldIds, NEW x \in Asks, RefundNamed(h, x) PROVE FALSE
  <2>1. Credit(x) \in Nat /\ balance' = [balance EXCEPT ![holds[h].scope] = @ + Credit(x)]
    BY <1>7, AmountsWhole DEF RefundNamed
  <2> QED
    BY <1>0, <2>1
<1>8. ASSUME UNCHANGED balance PROVE FALSE
  BY <1>0, <1>8
<1>9. ASSUME NEW h \in HoldIds, VoidStale(h) \/ Void(h) PROVE FALSE
  BY <1>6, <1>8, <1>9 DEF VoidStale, Void
<1>10. CASE Idle
  BY <1>8, <1>10 DEF Idle
<1>11. CASE Moves
  BY <1>1, <1>2, <1>3, <1>4, <1>5, <1>7, <1>9, <1>11 DEF Moves
<1> QED
  BY <1>10, <1>11, StepKinds

\* Only a settlement overdraws a scope, and never without latching it in the
\* same step, whatever the policy says of refused overdrafts.
THEOREM OverdraftLatched == Spec => OverdrawLatches
<1>1. TypeOK /\ [Next]_vars => [Latching]_vars
  BY LatchingStep
<1> QED
  BY <1>1, TypeCorrect, PTL DEF Spec, OverdrawLatches, Latching

----------------------------------------------------------------------------
(* Holds are settled once *)

Settled ==
    \A h \in HoldIds : holds[h].st = "closed" =>
        /\ holds'[h].st = "closed"
        /\ holds'[h].cost = holds[h].cost
        /\ holds'[h].back >= holds[h].back

LEMMA SettledStep == TypeOK /\ [Next]_vars => Settled
<1> SUFFICES ASSUME TypeOK, [Next]_vars, NEW g \in HoldIds, holds[g].st = "closed"
             PROVE  /\ holds'[g].st = "closed"
                    /\ holds'[g].cost = holds[g].cost
                    /\ holds'[g].back >= holds[g].back
  BY DEF Settled
<1>0. holds \in [HoldIds -> HoldRecord] /\ holds[g].back \in Nat
  BY HoldFields DEF TypeOK
<1> DEFINE Kept == /\ holds'[g].st = "closed"
                   /\ holds'[g].cost = holds[g].cost
                   /\ holds'[g].back >= holds[g].back
<1>1. CASE holds'[g] = holds[g]
  BY <1>0, <1>1
<1>2. ASSUME NEW s \in Scopes, NEW x \in Asks, NEW h \in HoldIds,
             PlaceHold(s, x, h) \/ SpendThrough(s, x, h)
      PROVE holds'[g] = holds[g]
  BY <1>0, <1>2 DEF PlaceHold, SpendThrough, FreshIds
<1>3. ASSUME NEW h \in HoldIds, NEW cost \in Nat, Settle(h, cost) PROVE holds'[g] = holds[g]
  BY <1>0, <1>3 DEF Settle
<1>4. ASSUME NEW h \in HoldIds, VoidStale(h) \/ Void(h) PROVE holds'[g] = holds[g]
  BY <1>0, <1>4 DEF VoidStale, Void, Lift
<1>5. ASSUME NEW h \in HoldIds, NEW x \in Asks, RefundNamed(h, x) PROVE Kept
  <2>1. Credit(x) \in Nat /\ holds' = [holds EXCEPT ![h].back = @ + Credit(x)]
    BY <1>5, AmountsWhole DEF RefundNamed
  <2> QED
    BY <1>0, <2>1 DEF HoldRecord
<1>6. CASE Idle
  BY <1>1, <1>6 DEF Idle
<1>7. CASE Moves
  BY <1>1, <1>2, <1>3, <1>4, <1>5, <1>7
  DEF Moves, OpenRoot, Fund, Delegate, ReturnToParent, RefundUnnamed
<1> QED
  BY <1>6, <1>7, StepKinds

\* A hold settles once, whoever captures, voids or sweeps it: after that only
\* refunds of its spend touch it.
THEOREM HoldSettledOnce == Spec => SettledOnce
<1>1. TypeOK /\ [Next]_vars => [Settled]_vars
  BY SettledStep
<1> QED
  BY <1>1, TypeCorrect, PTL DEF Spec, SettledOnce, Settled

----------------------------------------------------------------------------
(* The breaker *)

Quiet ==
    \A a \in tripped : \A s \in Subtree(a) :
        /\ \A h \in HoldIds : holds[h].st = "fresh" => holds'[h].scope # s
        /\ \A c \in nodes' \ nodes : parent'[c] # s
        /\ spent'[s] > spent[s] => holdCount'[s] < holdCount[s]

LEMMA QuietStep == TypeOK /\ [Next]_vars => Quiet
<1> SUFFICES ASSUME TypeOK, [Next]_vars, NEW t \in nodes, Halted(t)
             PROVE  /\ \A h \in HoldIds : holds[h].st = "fresh" => holds'[h].scope # t
                    /\ \A c \in nodes' \ nodes : parent'[c] # t
                    /\ spent'[t] > spent[t] => holdCount'[t] < holdCount[t]
  BY DEF Quiet, Halted, Subtree
<1> DEFINE NoHold == \A h \in HoldIds : holds[h].st = "fresh" => holds'[h].scope # t
           NoChild == \A c \in nodes' \ nodes : parent'[c] # t
           NoSpend == spent'[t] > spent[t] => holdCount'[t] < holdCount[t]
<1>0. /\ t \in Scopes /\ t # None
      /\ \A h \in HoldIds : holds[h].st = "fresh" => holds[h].scope # t
      /\ spent \in [Scopes -> Nat] /\ holdCount \in [Scopes -> Int]
      /\ holds \in [HoldIds -> HoldRecord]
      /\ parent \in [Scopes -> Scopes \cup {None}]
  BY ConstantsAssumption DEF TypeOK, HoldsSound
<1>1. UNCHANGED holds => NoHold
  BY <1>0
<1>2. UNCHANGED nodes => NoChild
  OBVIOUS
<1>3. UNCHANGED spent => NoSpend
  BY <1>0
<1>4. ASSUME NEW s \in Scopes, NEW x \in Asks, OpenRoot(s, x)
      PROVE NoHold /\ NoChild /\ NoSpend
  BY <1>0, <1>1, <1>3, <1>4 DEF OpenRoot, flows
<1>5. ASSUME NEW p \in Scopes, NEW c \in Scopes, NEW x \in Asks, Delegate(p, c, x)
      PROVE NoHold /\ NoChild /\ NoSpend
  <2>1. p # t
    BY <1>5 DEF Delegate
  <2> QED
    BY <1>0, <1>1, <1>3, <1>5, <2>1 DEF Delegate, flows
<1>6. ASSUME NEW s \in Scopes, NEW x \in Asks, NEW g \in HoldIds,
             PlaceHold(s, x, g) \/ SpendThrough(s, x, g)
      PROVE NoHold /\ NoChild /\ NoSpend
  <2>1. s # t
    BY <1>6 DEF PlaceHold, SpendThrough, Admitted
  <2>2. NoHold
    BY <1>0, <1>6, <2>1 DEF PlaceHold, SpendThrough
  <2>3. NoChild
    BY <1>2, <1>6 DEF PlaceHold, SpendThrough, tree
  <2>4. NoSpend
    BY <1>0, <1>3, <1>6, <2>1 DEF PlaceHold, SpendThrough, flows
  <2> QED
    BY <2>2, <2>3, <2>4
<1>7. ASSUME NEW g \in HoldIds, NEW cost \in Nat, Settle(g, cost)
      PROVE NoHold /\ NoChild /\ NoSpend
  <2>1. NoHold
    BY <1>0, <1>7 DEF Settle
  <2>2. NoSpend
    BY <1>0, <1>7, OpenHoldFields DEF Settle
  <2> QED
    BY <1>2, <1>7, <2>1, <2>2 DEF Settle, tree
<1>8. ASSUME NEW g \in HoldIds, VoidStale(g) \/ Void(g) PROVE NoHold /\ NoChild /\ NoSpend
  <2>1. NoHold
    <3>1. ASSUME holds[g].st = "open", Lift(g) PROVE NoHold
      BY <1>0, <3>1 DEF Lift
    <3> QED
      BY <1>1, <1>8, <3>1 DEF VoidStale, Void
  <2> QED
    BY <1>2, <1>3, <1>8, <2>1 DEF VoidStale, Void, tree, flows
<1>9. ASSUME NEW g \in HoldIds, NEW x \in Asks, RefundNamed(g, x)
      PROVE NoHold /\ NoChild /\ NoSpend
  <2>1. NoHold
    BY <1>0, <1>9 DEF RefundNamed, HoldRecord
  <2> QED
    BY <1>2, <1>3, <1>9, <2>1 DEF RefundNamed, tree
<1>10. CASE Idle
  BY <1>1, <1>2, <1>3, <1>10 DEF Idle, tree, flows
<1>11. CASE \E s \in Scopes, x \in Asks : Fund(s, x) \/ RefundUnnamed(s, x)
  BY <1>1, <1>2, <1>3, <1>11 DEF Fund, RefundUnnamed, tree, flows
<1>12. CASE \E s \in Scopes, amount \in Int : ReturnToParent(s, amount)
  BY <1>1, <1>2, <1>3, <1>12 DEF ReturnToParent, tree, flows
<1>13. CASE Moves
  BY <1>4, <1>5, <1>6, <1>7, <1>8, <1>9, <1>11, <1>12, <1>13 DEF Moves
<1> QED
  BY <1>10, <1>13, StepKinds

\* A tripped scope stops its whole subtree from committing anything new, at any
\* depth and in any order of trips, while holds placed before still settle.
THEOREM HaltedIsQuiet == Spec => HaltedSpendsNothingNew
<1>1. TypeOK /\ [Next]_vars => [Quiet]_vars
  BY QuietStep
<1> QED
  BY <1>1, TypeCorrect, PTL DEF Spec, HaltedSpendsNothingNew, Quiet

----------------------------------------------------------------------------
(* The runaway-loop detector *)

\* What a step may do to the detector: nothing; record a call that is within
\* the limit; latch the scope whose call is not; forget what a reset scope did.
LEMMA CallsStep ==
    ASSUME TypeOK, [Next]_vars
    PROVE  \/ UNCHANGED calls /\ tripped \subseteq tripped'
           \/ \E s \in Scopes : /\ calls' = RecordVelocity(s)
                                /\ tripped \subseteq tripped'
                                /\ Runaway(s) => s \in tripped'
           \/ \E s \in Scopes : /\ calls' = [calls EXCEPT ![s] = [t \in Times |-> 0]]
                                /\ tripped' = tripped \ {s}
<1> DEFINE Quieter == UNCHANGED calls /\ tripped \subseteq tripped'
           Records(s) == /\ calls' = RecordVelocity(s)
                         /\ tripped \subseteq tripped'
                         /\ Runaway(s) => s \in tripped'
           Forgets(s) == calls' = [calls EXCEPT ![s] = [t \in Times |-> 0]] /\ tripped' = tripped \ {s}
<1>1. ASSUME NEW s \in Scopes, NEW x \in Asks, NEW trip \in BOOLEAN,
             Authorize(s, x, trip) \/ Spend(s, x)
      PROVE Records(s)
  BY <1>1 DEF Authorize, Spend, RefuseRunaway, RefuseOverdraft, PlaceHold, SpendThrough
<1>2. ASSUME NEW s \in Scopes, Reset(s) PROVE Forgets(s)
  BY <1>2 DEF Reset
<1>3. ASSUME NEW s \in Scopes, NEW x \in Asks,
             \/ OpenRoot(s, x) \/ Fund(s, x) \/ \E c \in Scopes : Delegate(s, c, x)
             \/ Release(s, x) \/ RefundUnnamed(s, x)
      PROVE Quieter
  BY <1>3 DEF OpenRoot, Fund, Delegate, Release, ReturnToParent, RefundUnnamed
<1>4. ASSUME NEW h \in HoldIds,
             \/ \E x \in Asks : Capture(h, x) \/ RefundNamed(h, x)
             \/ Void(h) \/ VoidStale(h)
      PROVE Quieter
  BY <1>4 DEF Capture, Settle, RefundNamed, Void, VoidStale
<1>5. ASSUME NEW s \in Scopes, ReleaseAll(s) \/ Trip(s) PROVE Quieter
  BY <1>5 DEF ReleaseAll, ReturnToParent, Trip
<1>6. ASSUME (\E cutoff \in Times : SurveyStale(cutoff)) \/ Tick \/ UNCHANGED vars
      PROVE Quieter
  BY <1>6 DEF SurveyStale, Tick, vars
<1> HIDE DEF Quieter, Records, Forgets
<1> DEFINE Some == Quieter \/ (\E s \in Scopes : Records(s)) \/ (\E s \in Scopes : Forgets(s))
<1>7. ASSUME NEW s \in Scopes, NEW x \in Asks,
             \/ OpenRoot(s, x) \/ Fund(s, x) \/ \E c \in Scopes : Delegate(s, c, x)
             \/ Release(s, x) \/ \E trip \in BOOLEAN : Authorize(s, x, trip)
             \/ Spend(s, x) \/ RefundUnnamed(s, x)
      PROVE Some
  BY <1>1, <1>3, <1>7
<1>8. ASSUME NEW s \in Scopes, ReleaseAll(s) \/ Trip(s) \/ Reset(s) PROVE Some
  BY <1>2, <1>5, <1>8
<1>9. Some
  <2> HIDE DEF Some
  <2>1. Quieter => Some
    BY DEF Some
  <2> QED
    BY <1>4, <1>6, <1>7, <1>8, <2>1 DEF Next
<1> QED
  BY <1>9 DEF Quieter, Records, Forgets

LEMMA RunawayStep == TypeOK /\ RunawayLatched /\ [Next]_vars => RunawayLatched'
<1> SUFFICES ASSUME TypeOK, RunawayLatched, [Next]_vars, NEW t \in Scopes,
                    MaxCalls > 0, SumFunction(calls'[t]) > MaxCalls
             PROVE  t \in tripped'
  BY DEF RunawayLatched
<1>0. calls \in [Scopes -> [Times -> Nat]]
  BY DEF TypeOK
<1>1. CASE UNCHANGED calls /\ tripped \subseteq tripped'
  BY <1>1 DEF RunawayLatched
<1>2. ASSUME NEW s \in Scopes, calls' = RecordVelocity(s), tripped \subseteq tripped',
             Runaway(s) => s \in tripped'
      PROVE t \in tripped'
  <2>1. CASE calls'[t] = calls[t]
    BY <1>2, <2>1 DEF RunawayLatched
  <2>2. CASE Window > 0 /\ s = t
    BY <1>0, <1>2, <2>2, ConstantsAssumption DEF RecordVelocity, Runaway
  <2> QED
    BY <1>0, <1>2, <2>1, <2>2, ConstantsAssumption DEF RecordVelocity
<1>3. ASSUME NEW s \in Scopes, calls' = [calls EXCEPT ![s] = [u \in Times |-> 0]],
             tripped' = tripped \ {s}
      PROVE t \in tripped'
  <2>1. CASE s # t
    BY <1>0, <1>3, <2>1 DEF RunawayLatched
  <2>2. CASE s = t
    <3> DEFINE f == [u \in Times |-> 0]
    <3>1. calls'[t] = f /\ f \in [Times -> Int] /\ DOMAIN f = Times /\ \A u \in Times : f[u] = 0
      BY <1>0, <1>3, <2>2
    <3> HIDE DEF f
    <3>2. IsFiniteSet(Times)
      BY FS_Interval, ConstantsAssumption DEF Times
    <3>3. SumFunctionOnSet(f, Times) = 0
      BY <3>1, <3>2, SumZero
    <3>4. SumFunction(calls'[t]) = 0
      BY <3>1, <3>3 DEF SumFunction
    <3> QED
      BY <3>4, ConstantsAssumption
  <2> QED
    BY <2>1, <2>2
<1> QED
  BY <1>1, <1>2, <1>3, CallsStep

\* A scope that called too often within the window stays latched until it is
\* reset, and a reset scope starts from an empty window.
THEOREM RunawaysLatched == Spec => []RunawayLatched
<1>1. Init => RunawayLatched
  <2> SUFFICES ASSUME Init, NEW s \in Scopes PROVE SumFunction(calls[s]) = 0
    BY ConstantsAssumption DEF RunawayLatched
  <2> DEFINE f == calls[s]
  <2>1. f \in [Times -> Int] /\ DOMAIN f = Times /\ \A u \in Times : f[u] = 0
    BY DEF Init
  <2> HIDE DEF f
  <2>2. IsFiniteSet(Times)
    BY FS_Interval, ConstantsAssumption DEF Times
  <2>3. SumFunctionOnSet(f, Times) = 0
    BY <2>1, <2>2, SumZero
  <2> QED
    BY <2>1, <2>3 DEF SumFunction, f
<1> QED
  BY <1>1, RunawayStep, TypeCorrect, PTL DEF Spec

----------------------------------------------------------------------------
(* The walk to the root *)

Above(x) == IF x = None THEN None ELSE parent[x]

LEMMA UpIs ==
    ASSUME NEW s, depth[s] \in Nat
    PROVE  /\ Up(s)[0] = s
           /\ \A n \in 1..depth[s] : Up(s)[n] = Above(Up(s)[n - 1])
<1> DEFINE Is(f, k) == f = [n \in 0..k |-> IF n = 0 THEN s ELSE Above(f[n - 1])]
           Bad == {k \in Nat : ~\E f : Is(f, k)}
<1>1. ASSUME Bad # {} PROVE FALSE
  <2>1. PICK k \in Bad : \A n \in Bad : k <= n
    BY <1>1, LeastOf
  <2>2. k \in Nat /\ ~\E f : Is(f, k)
    OBVIOUS
  <2>3. k # 0
    <3> DEFINE f == [n \in 0..0 |-> s]
    <3>1. Is(f, 0)
      OBVIOUS
    <3> QED
      BY <2>2, <3>1
  <2>4. k - 1 \in Nat /\ k - 1 \notin Bad
    <3> HIDE DEF Bad
    <3> QED
      BY <2>1, <2>2, <2>3
  <2>5. PICK f : Is(f, k - 1)
    BY <2>4
  <2> HIDE DEF Bad
  <2> DEFINE g == [n \in 0..k |-> IF n = k THEN Above(f[k - 1]) ELSE f[n]]
  <2>6. \A n \in 0..(k - 1) : f[n] = IF n = 0 THEN s ELSE Above(f[n - 1])
    <3> DEFINE fs == [n \in 0..(k - 1) |-> IF n = 0 THEN s ELSE Above(f[n - 1])]
    <3>1. \A n \in 0..(k - 1) : fs[n] = IF n = 0 THEN s ELSE Above(f[n - 1])
      OBVIOUS
    <3>2. f = fs
      BY <2>5
    <3> HIDE DEF fs
    <3> QED
      BY <3>1, <3>2
  <2>7. \A n \in 0..k : g[n] = IF n = 0 THEN s ELSE Above(g[n - 1])
    <3> TAKE n \in 0..k
    <3>1. CASE n = k
      <4>1. k - 1 \in 0..k /\ k - 1 # k
        BY <2>2, <2>4
      <4> QED
        BY <2>3, <3>1, <4>1
    <3>2. CASE n # k /\ n # 0
      <4>1. n \in 0..(k - 1) /\ n - 1 \in 0..k /\ n - 1 # k
        BY <2>2, <3>2
      <4> QED
        BY <2>6, <3>2, <4>1
    <3>3. CASE n # k /\ n = 0
      <4>1. n \in 0..(k - 1)
        BY <2>2, <3>3
      <4> QED
        BY <2>6, <3>3, <4>1
    <3> QED
      BY <3>1, <3>2, <3>3
  <2>8. Is(g, k)
    <3> HIDE DEF g
    <3>1. g = [n \in 0..k |-> g[n]]
      BY DEF g
    <3> QED
      BY <2>7, <3>1
  <2> QED
    BY <2>2, <2>8
<1>2. \E f : Is(f, depth[s])
  BY <1>1
<1>3. Up(s) = CHOOSE f : Is(f, depth[s])
  BY DEF Up, Above
<1> DEFINE r == Up(s)
<1>4. Is(r, depth[s])
  BY <1>2, <1>3
<1>5. \A n \in 0..depth[s] : r[n] = IF n = 0 THEN s ELSE Above(r[n - 1])
  <2> DEFINE rs == [n \in 0..depth[s] |-> IF n = 0 THEN s ELSE Above(r[n - 1])]
  <2> HIDE DEF r
  <2>1. \A n \in 0..depth[s] : rs[n] = IF n = 0 THEN s ELSE Above(r[n - 1])
    OBVIOUS
  <2>2. r = rs
    BY <1>4
  <2> HIDE DEF rs
  <2> QED
    BY <2>1, <2>2
<1> QED
  BY <1>5

LEMMA RootAncestry ==
    ASSUME TypeOK, TreeSound, NEW d \in nodes, parent[d] = None
    PROVE  Ancestry(d) = {d}
<1>1. depth[d] = 0
  BY DEF TreeSound
<1>2. Up(d)[0] = d
  BY <1>1, UpIs
<1>3. 0..depth[d] = {0}
  BY <1>1
<1> QED
  BY <1>2, <1>3 DEF Ancestry

LEMMA ChildAncestry ==
    ASSUME TypeOK, TreeSound, NEW d \in nodes, parent[d] # None
    PROVE  Ancestry(d) = {d} \cup Ancestry(parent[d])
<1> DEFINE p == parent[d]
           u == Up(d)
           v == Up(p)
           k == depth[p]
<1>1. p \in nodes /\ k \in Nat /\ depth[d] = k + 1 /\ d # None
  BY ConstantsAssumption DEF TreeSound, TypeOK
<1>2. /\ u[0] = d /\ \A n \in 1..(k + 1) : u[n] = Above(u[n - 1])
      /\ v[0] = p /\ \A n \in 1..k : v[n] = Above(v[n - 1])
  BY <1>1, UpIs
<1>a. Ancestry(d) = {u[n] : n \in 0..(k + 1)} /\ Ancestry(p) = {v[n] : n \in 0..k}
  BY <1>1 DEF Ancestry
<1>b. Above(d) = p
  BY <1>1 DEF Above
<1> HIDE DEF p, u, v, k
<1> DEFINE Bad == {n \in 0..k : u[n + 1] # v[n]}
<1>3. ASSUME Bad # {} PROVE FALSE
  <2>1. PICK n \in Bad : \A m \in Bad : n <= m
    <3>1. Bad \in SUBSET Nat
      BY <1>1
    <3> HIDE DEF Bad
    <3> QED
      BY <1>3, <3>1, LeastOf
  <2>2. n \in Nat /\ n <= k /\ u[n + 1] # v[n]
    BY <1>1
  <2>3. n # 0
    BY <1>1, <1>2, <1>b, <2>2
  <2>4. n - 1 \in 0..k /\ n - 1 \notin Bad
    BY <1>1, <2>1, <2>2, <2>3
  <2>5. u[n] = v[n - 1]
    BY <2>2, <2>4
  <2>6. v[n] = Above(v[n - 1]) /\ u[n + 1] = Above(u[n])
    BY <1>1, <1>2, <2>2, <2>3
  <2> QED
    BY <2>2, <2>5, <2>6
<1>4. \A n \in 0..k : u[n + 1] = v[n]
  BY <1>3
<1>5. ASSUME NEW a \in {u[n] : n \in 0..(k + 1)} PROVE a \in {d} \cup {v[n] : n \in 0..k}
  <2>1. PICK n \in 0..(k + 1) : a = u[n]
    BY <1>5
  <2>2. CASE n = 0
    BY <1>2, <2>1, <2>2
  <2>3. CASE n # 0
    <3>1. n - 1 \in 0..k /\ (n - 1) + 1 = n
      BY <1>1, <2>1, <2>3
    <3> QED
      BY <1>4, <2>1, <3>1
  <2> QED
    BY <2>2, <2>3
<1>6. ASSUME NEW a \in {d} \cup {v[n] : n \in 0..k} PROVE a \in {u[n] : n \in 0..(k + 1)}
  <2>1. CASE a = d
    BY <1>1, <1>2, <2>1
  <2>2. CASE a \in {v[n] : n \in 0..k}
    <3>1. PICK n \in 0..k : a = v[n]
      BY <2>2
    <3>2. n + 1 \in 0..(k + 1)
      BY <1>1
    <3> QED
      BY <1>4, <3>1, <3>2
  <2> QED
    BY <1>6, <2>1, <2>2
<1>7. Ancestry(d) = {d} \cup Ancestry(p)
  BY <1>5, <1>6, <1>a
<1> QED
  BY <1>7 DEF p

\* Every walk is its scope and the walk from its parent.
Walks ==
    \A d \in nodes :
        Ancestry(d) = IF parent[d] = None THEN {d} ELSE {d} \cup Ancestry(parent[d])

LEMMA WalksHold == TypeOK /\ TreeSound => Walks
  BY RootAncestry, ChildAncestry DEF Walks

\* A walk meets registered scopes only, each nearer the root than the last.
LEMMA WalkClimbs ==
    ASSUME TypeOK, TreeSound
    PROVE  \A d \in nodes : \A a \in Ancestry(d) :
             a \in nodes /\ (a = d \/ depth[a] < depth[d])
<1> DEFINE Climbs(d) == \A a \in Ancestry(d) : a \in nodes /\ (a = d \/ depth[a] < depth[d])
           Bad == {n \in Nat : \E d \in nodes : depth[d] = n /\ ~Climbs(d)}
<1>0. \A d \in nodes : depth[d] \in Nat
  BY DEF TypeOK
<1>1. ASSUME Bad # {} PROVE FALSE
  <2>1. PICK n \in Bad : \A m \in Bad : n <= m
    <3> HIDE DEF Bad
    <3>1. Bad \in SUBSET Nat
      BY DEF Bad
    <3> QED
      BY <1>1, <3>1, LeastOf
  <2>2. PICK d \in nodes : depth[d] = n /\ ~Climbs(d)
    BY <2>1
  <2>3. CASE parent[d] = None
    BY <2>2, <2>3, RootAncestry
  <2>4. CASE parent[d] # None
    <3> DEFINE p == parent[d]
    <3>1. p \in nodes /\ depth[d] = depth[p] + 1 /\ depth[p] \in Nat
      BY <1>0, <2>2, <2>4 DEF TreeSound
    <3>2. Ancestry(d) = {d} \cup Ancestry(p)
      BY <2>2, <2>4, ChildAncestry
    <3>3. Climbs(p)
      <4>1. ~(n <= depth[p])
        BY <1>0, <2>2, <3>1
      <4>2. depth[p] \notin Bad
        BY <2>1, <4>1
      <4> QED
        BY <3>1, <4>2
    <3>4. \A a \in Ancestry(p) : a \in nodes /\ depth[a] <= depth[p] /\ depth[a] \in Nat
      BY <1>0, <3>1, <3>3
    <3>5. Climbs(d)
      BY <2>2, <3>1, <3>2, <3>4
    <3> QED
      BY <2>2, <3>5
  <2> QED
    BY <2>3, <2>4
<1> QED
  BY <1>0, <1>1

\* Whatever is registered later, the walk from a registered scope stays as it is.
LEMMA WalkStays ==
    ASSUME TypeOK, TreeSound, TypeOK', TreeSound', nodes \subseteq nodes',
           \A d \in nodes : parent'[d] = parent[d] /\ depth'[d] = depth[d]
    PROVE  \A d \in nodes : Ancestry(d)' = Ancestry(d)
<1> DEFINE Bad == {n \in Nat : \E d \in nodes : depth[d] = n /\ Ancestry(d)' # Ancestry(d)}
<1>0. \A d \in nodes : depth[d] \in Nat
  BY DEF TypeOK
<1>1. ASSUME Bad # {} PROVE FALSE
  <2>1. PICK n \in Bad : \A m \in Bad : n <= m
    <3> HIDE DEF Bad
    <3>1. Bad \in SUBSET Nat
      BY DEF Bad
    <3> QED
      BY <1>1, <3>1, LeastOf
  <2>2. PICK d \in nodes : depth[d] = n /\ Ancestry(d)' # Ancestry(d)
    BY <2>1
  <2>3. d \in nodes' /\ parent'[d] = parent[d]
    OBVIOUS
  <2>a. Walks /\ Walks'
    BY WalksHold, PTL
  <2>4. CASE parent[d] = None
    BY <2>2, <2>3, <2>4, <2>a DEF Walks
  <2>5. CASE parent[d] # None
    <3> DEFINE p == parent[d]
    <3>1. p \in nodes /\ depth[d] = depth[p] + 1 /\ depth[p] \in Nat
      BY <1>0, <2>2, <2>5 DEF TreeSound
    <3>2. PICK q : q = p
      OBVIOUS
    <3>3. Ancestry(d) = {d} \cup Ancestry(q)
      BY <2>2, <2>5, <2>a, <3>2 DEF Walks
    <3>4. Ancestry(d)' = {d} \cup Ancestry(q)'
      BY <2>2, <2>3, <2>5, <2>a, <3>2 DEF Walks
    <3>5. Ancestry(q)' = Ancestry(q)
      <4>1. ~(n <= depth[q])
        BY <1>0, <2>2, <3>1, <3>2
      <4>2. depth[q] \notin Bad
        BY <2>1, <4>1
      <4> QED
        BY <3>1, <3>2, <4>2
    <3> QED
      BY <2>2, <3>3, <3>4, <3>5
  <2> QED
    BY <2>4, <2>5
<1> QED
  BY <1>0, <1>1

----------------------------------------------------------------------------
(* What scopes and holds keep, step by step *)

Net == [d \in Scopes |-> balance[d] + spent[d] - refunded[d]]
Kept == [h \in HoldIds |-> holds[h].amount]
HeldIn(T) == {h \in OpenHolds : holds[h].scope \in T}
Worth(T) == SumFunctionOnSet(Net, T) + SumFunctionOnSet(Kept, HeldIn(T))

LEMMA KeepTypes ==
    ASSUME TypeOK
    PROVE  /\ Net \in [Scopes -> Int] /\ Kept \in [HoldIds -> Int]
           /\ \A T : HeldIn(T) \in SUBSET HoldIds
           /\ IsFiniteSet(Scopes) /\ IsFiniteSet(HoldIds)
<1>1. Net \in [Scopes -> Int]
  BY DEF TypeOK, Net
<1>2. Kept \in [HoldIds -> Int]
  <2>1. \A h \in HoldIds : holds[h].amount \in Int
    BY HoldFields DEF TypeOK
  <2> QED
    BY <2>1 DEF Kept
<1> QED
  BY <1>1, <1>2, ConstantsAssumption DEF HeldIn, OpenHolds

LEMMA TypesKept == TypeOK => Net \in [Scopes -> Int] /\ Kept \in [HoldIds -> Int]
  BY KeepTypes

\* One scope's figures change.
LEMMA NetChange ==
    ASSUME TypeOK, TypeOK', NEW t \in Scopes, NEW T \in SUBSET Scopes,
           \A y \in Scopes \ {t} : Net'[y] = Net[y]
    PROVE  SumFunctionOnSet(Net', T)
             = SumFunctionOnSet(Net, T) + (IF t \in T THEN Net'[t] - Net[t] ELSE 0)
<1>1. Net \in [Scopes -> Int] /\ Net' \in [Scopes -> Int] /\ IsFiniteSet(Scopes)
  <2>1. (Net \in [Scopes -> Int] /\ Kept \in [HoldIds -> Int])'
    BY TypesKept, PTL
  <2> QED
    BY <2>1, KeepTypes
<1>2. SumFunctionOnSet(Net', T)
        = SumFunctionOnSet(Net, T) + (IF t \in T THEN Net'[t] ELSE 0) - (IF t \in T THEN Net[t] ELSE 0)
  BY <1>1, SumChange
<1>3. SumFunctionOnSet(Net, T) \in Int /\ Net[t] \in Int /\ Net'[t] \in Int
  BY <1>1, SumType
<1> QED
  BY <1>2, <1>3

\* One hold changes.
LEMMA KeptChange ==
    ASSUME TypeOK, TypeOK', NEW h \in HoldIds, NEW T,
           \A g \in HoldIds \ {h} : holds'[g] = holds[g]
    PROVE  SumFunctionOnSet(Kept, HeldIn(T))'
             = SumFunctionOnSet(Kept, HeldIn(T))
                 + (IF h \in HeldIn(T)' THEN holds'[h].amount ELSE 0)
                 - (IF h \in HeldIn(T) THEN holds[h].amount ELSE 0)
<1>1. /\ Kept \in [HoldIds -> Int] /\ Kept' \in [HoldIds -> Int] /\ IsFiniteSet(HoldIds)
      /\ HeldIn(T) \in SUBSET HoldIds /\ HeldIn(T)' \in SUBSET HoldIds
  <2>1. (Net \in [Scopes -> Int] /\ Kept \in [HoldIds -> Int])'
    BY TypesKept, PTL
  <2> QED
    BY <2>1, KeepTypes DEF HeldIn, OpenHolds
<1>2. \A g \in HoldIds \ {h} :
        (g \in HeldIn(T) <=> g \in HeldIn(T)') /\ (g \in HeldIn(T) => Kept[g] = Kept'[g])
  BY DEF HeldIn, OpenHolds, Kept
<1>3. Kept[h] = holds[h].amount /\ Kept'[h] = holds'[h].amount
  BY DEF Kept
<1> QED
  BY <1>1, <1>2, <1>3, SumChange

\* A hold placed, settled or lifted, and what it was worth.
LEMMA PlacedIs ==
    ASSUME TypeOK, NEW s \in Scopes, NEW x \in Asks, NEW h \in HoldIds, PlaceHold(s, x, h)
    PROVE  /\ \A g \in HoldIds \ {h} : holds'[g] = holds[g]
           /\ holds'[h].st = "open" /\ holds'[h].scope = s
           /\ holds'[h].amount = Cost(x) /\ holds'[h].cost = 0
           /\ holds[h].st = "fresh" /\ holds[h].scope = None /\ holds[h].cost = 0
  BY DEF PlaceHold, FreshIds, TypeOK, HoldsSound

LEMMA SpentIs ==
    ASSUME TypeOK, NEW s \in Scopes, NEW x \in Asks, NEW h \in HoldIds, SpendThrough(s, x, h)
    PROVE  /\ \A g \in HoldIds \ {h} : holds'[g] = holds[g]
           /\ holds'[h].st = "closed" /\ holds'[h].scope = s
           /\ holds'[h].cost = Cost(x)
           /\ holds[h].st = "fresh" /\ holds[h].scope = None /\ holds[h].cost = 0
  BY DEF SpendThrough, FreshIds, TypeOK, HoldsSound

LEMMA LiftedIs ==
    ASSUME TypeOK, NEW h \in HoldIds, holds[h].st = "open", Lift(h)
    PROVE  /\ \A g \in HoldIds \ {h} : holds'[g] = holds[g]
           /\ holds'[h].st = "closed" /\ holds'[h].scope = holds[h].scope
           /\ holds'[h].cost = holds[h].cost
  BY DEF Lift, TypeOK, HoldRecord

LEMMA SettledIs ==
    ASSUME TypeOK, NEW h \in HoldIds, NEW cost \in Nat, Settle(h, cost)
    PROVE  /\ \A g \in HoldIds \ {h} : holds'[g] = holds[g]
           /\ holds'[h].st = "closed" /\ holds'[h].scope = holds[h].scope
           /\ holds'[h].cost = cost /\ holds[h].cost = 0
  BY DEF Settle, TypeOK, HoldRecord, HoldsSound

LEMMA RefundedIs ==
    ASSUME TypeOK, NEW h \in HoldIds, NEW x \in Asks, RefundNamed(h, x)
    PROVE  /\ \A g \in HoldIds \ {h} : holds'[g] = holds[g]
           /\ holds'[h].st = holds[h].st /\ holds'[h].scope = holds[h].scope
           /\ holds'[h].amount = holds[h].amount /\ holds'[h].cost = holds[h].cost
           /\ holds[h].st = "closed"
<1>1. holds[h].st = "closed"
  BY HoldFields DEF RefundNamed, TypeOK, HoldsSound
<1> QED
  BY <1>1 DEF RefundNamed, TypeOK, HoldRecord

----------------------------------------------------------------------------
(* The figures kept incrementally *)

Costs == [h \in HoldIds |-> holds[h].cost]
ChargedTo(s) == {h \in HoldIds : holds[h].scope = s}

If(b, n) == IF b THEN n ELSE 0

\* The step touches hold h alone, and moves each figure by what h says of it.
CountsMove(h) ==
    \A s \in Scopes : holdCount'[s] = holdCount[s]
        + If(holds'[h].st = "open" /\ holds'[h].scope = s, 1)
        - If(holds[h].st = "open" /\ holds[h].scope = s, 1)

HeldMoves(h) ==
    heldTotal' = heldTotal + If(holds'[h].st = "open", holds'[h].amount)
                           - If(holds[h].st = "open", holds[h].amount)

SpentMoves(h) ==
    \A s \in Scopes : spent'[s] = spent[s] + If(holds'[h].scope = s, holds'[h].cost)
                                          - If(holds[h].scope = s, holds[h].cost)

Charges(t, c) == spent' = [spent EXCEPT ![t] = @ + c] /\ spentTotal' = spentTotal + c

Touches(h) ==
    /\ \A g \in HoldIds \ {h} : holds'[g] = holds[g]
    /\ CountsMove(h)
    /\ HeldMoves(h)
    /\ SpentMoves(h)
    /\ \E t \in Scopes, c \in Int : Charges(t, c)

LEMMA CachesFollow ==
    ASSUME TypeOK, TypeOK', CachesMatchHolds, NEW h \in HoldIds, Touches(h)
    PROVE  CachesMatchHolds'
<1>0. /\ holds[h].cost \in Int /\ holds'[h].cost \in Int /\ IsFiniteSet(HoldIds) /\ IsFiniteSet(Scopes)
      /\ holds[h].amount \in Int /\ holds'[h].amount \in Int
      /\ Kept \in [HoldIds -> Int] /\ Kept' \in [HoldIds -> Int]
      /\ Costs \in [HoldIds -> Int] /\ Costs' \in [HoldIds -> Int]
  <2>1. \A g \in HoldIds : holds[g] \in HoldRecord /\ holds'[g] \in HoldRecord
    BY DEF TypeOK
  <2>2. \A g \in HoldIds : /\ holds[g].cost \in Int /\ holds'[g].cost \in Int
                           /\ holds[g].amount \in Int /\ holds'[g].amount \in Int
    BY <2>1, HoldFields
  <2> QED
    BY <2>2, ConstantsAssumption DEF Kept, Costs
<1>1. ASSUME NEW s \in Scopes PROVE holdCount'[s] = Cardinality(OpenHoldsIn(s)')
  <2> DEFINE A == OpenHoldsIn(s)
             B == OpenHoldsIn(s)'
             R == A \ {h}
  <2>1. /\ h \in A <=> holds[h].st = "open" /\ holds[h].scope = s
        /\ h \in B <=> holds'[h].st = "open" /\ holds'[h].scope = s
        /\ R = B \ {h} /\ A \subseteq HoldIds
    BY DEF OpenHoldsIn, Touches
  <2>2. IsFiniteSet(A) /\ IsFiniteSet(R) /\ holdCount[s] = Cardinality(A)
    BY <1>0, <2>1, FS_Subset DEF CachesMatchHolds
  <2>3. holdCount'[s] = holdCount[s] + If(h \in B, 1) - If(h \in A, 1)
    BY <2>1 DEF Touches, CountsMove, HeldMoves, SpentMoves, If
  <2> HIDE DEF A, B
  <2>4. Cardinality(A) = Cardinality(R) + If(h \in A, 1) /\ Cardinality(R) \in Nat
    <3>1. CASE h \in A
      <4>1. Cardinality(A \ {h}) = Cardinality(A) - 1 /\ Cardinality(A) \in Nat
        BY <2>2, <3>1, FS_RemoveElement, FS_CardinalityType
      <4> QED
        BY <2>2, <3>1, <4>1, FS_CardinalityType DEF If
    <3>2. CASE h \notin A
      <4>1. R = A
        BY <3>2
      <4> HIDE DEF R
      <4>2. Cardinality(A) \in Nat
        BY <2>2, FS_CardinalityType
      <4> QED
        BY <3>2, <4>1, <4>2 DEF If
    <3> QED
      BY <3>1, <3>2
  <2>5. Cardinality(B) = Cardinality(R) + If(h \in B, 1)
    <3>1. CASE h \in B
      <4>1. B = R \cup {h} /\ h \notin R
        BY <2>1, <3>1
      <4> HIDE DEF R
      <4>2. Cardinality(R \cup {h}) = Cardinality(R) + 1
        BY <2>2, <4>1, FS_AddElement
      <4> QED
        BY <3>1, <4>1, <4>2 DEF If
    <3>2. CASE h \notin B
      <4>1. B = R
        BY <2>1, <3>2
      <4> HIDE DEF R
      <4> QED
        BY <2>4, <3>2, <4>1 DEF If
    <3> QED
      BY <3>1, <3>2
  <2>6. holdCount'[s] = Cardinality(B)
    BY <2>2, <2>3, <2>4, <2>5 DEF If
  <2> QED
    BY <2>6 DEF B
<1>2. heldTotal' = SumFunctionOnSet(Kept', OpenHolds')
  <2>1. /\ OpenHolds \in SUBSET HoldIds /\ OpenHolds' \in SUBSET HoldIds
        /\ h \in OpenHolds <=> holds[h].st = "open"
        /\ h \in OpenHolds' <=> holds'[h].st = "open"
        /\ Kept[h] = holds[h].amount /\ Kept'[h] = holds'[h].amount
        /\ \A g \in HoldIds \ {h} :
             (g \in OpenHolds <=> g \in OpenHolds') /\ (g \in OpenHolds => Kept[g] = Kept'[g])
    BY DEF OpenHolds, Kept, Touches
  <2>2. SumFunctionOnSet(Kept', OpenHolds')
          = SumFunctionOnSet(Kept, OpenHolds) + (IF h \in OpenHolds' THEN Kept'[h] ELSE 0)
                                              - (IF h \in OpenHolds THEN Kept[h] ELSE 0)
    BY <1>0, <2>1, SumChange
  <2>3. heldTotal = SumFunctionOnSet(Kept, OpenHolds)
    BY DEF CachesMatchHolds, Kept
  <2> QED
    BY <2>1, <2>2, <2>3 DEF Touches, CountsMove, HeldMoves, SpentMoves, If
<1>3. spentTotal' = SumFunctionOnSet(spent', Scopes)
  <2>1. PICK t \in Scopes, c \in Int :
          spent' = [spent EXCEPT ![t] = @ + c] /\ spentTotal' = spentTotal + c
    BY DEF Touches, Charges
  <2>2. /\ spent \in [Scopes -> Int] /\ spent' \in [Scopes -> Int]
        /\ spent'[t] = spent[t] + c /\ spent[t] \in Int
        /\ \A y \in Scopes \ {t} : spent[y] = spent'[y]
    BY <2>1 DEF TypeOK
  <2>3. SumFunctionOnSet(spent', Scopes) = SumFunctionOnSet(spent, Scopes) + (spent'[t] - spent[t])
    BY <1>0, <2>2, SumMove
  <2>4. spentTotal = SumFunctionOnSet(spent, Scopes) /\ spentTotal \in Int
    BY DEF CachesMatchHolds, TypeOK
  <2> QED
    BY <2>1, <2>2, <2>3, <2>4
<1>4. ASSUME NEW s \in Scopes PROVE spent'[s] = SumFunctionOnSet(Costs', ChargedTo(s)')
  <2>1. /\ ChargedTo(s) \in SUBSET HoldIds /\ ChargedTo(s)' \in SUBSET HoldIds
        /\ h \in ChargedTo(s) <=> holds[h].scope = s
        /\ h \in ChargedTo(s)' <=> holds'[h].scope = s
        /\ Costs[h] = holds[h].cost /\ Costs'[h] = holds'[h].cost
        /\ \A g \in HoldIds \ {h} :
             (g \in ChargedTo(s) <=> g \in ChargedTo(s)') /\ (g \in ChargedTo(s) => Costs[g] = Costs'[g])
    BY DEF ChargedTo, Costs, Touches
  <2>2. SumFunctionOnSet(Costs', ChargedTo(s)')
          = SumFunctionOnSet(Costs, ChargedTo(s)) + (IF h \in ChargedTo(s)' THEN Costs'[h] ELSE 0)
                                                  - (IF h \in ChargedTo(s) THEN Costs[h] ELSE 0)
    BY <1>0, <2>1, SumChange
  <2>3. spent[s] = SumFunctionOnSet(Costs, ChargedTo(s))
    BY DEF CachesMatchHolds, Costs, ChargedTo
  <2> QED
    BY <2>1, <2>2, <2>3 DEF Touches, CountsMove, HeldMoves, SpentMoves, If
<1> QED
  BY <1>1, <1>2, <1>3, <1>4 DEF CachesMatchHolds, Kept, Costs, ChargedTo

LEMMA CachesStep ==
    TypeOK /\ TypeOK' /\ CachesMatchHolds /\ [Next]_vars => CachesMatchHolds'
<1> SUFFICES ASSUME TypeOK, TypeOK', CachesMatchHolds, [Next]_vars PROVE CachesMatchHolds'
  OBVIOUS
<1>0. /\ holdCount \in [Scopes -> Int] /\ spent \in [Scopes -> Nat] /\ heldTotal \in Int
      /\ spentTotal \in Int /\ None \notin Scopes
      /\ \A s \in Scopes : holdCount[s] \in Int /\ spent[s] \in Int
  BY ConstantsAssumption DEF TypeOK
<1>1. CASE UNCHANGED <<holds, holdCount, heldTotal, spent, spentTotal>>
  BY <1>1 DEF CachesMatchHolds, OpenHolds, OpenHoldsIn
<1>2. ASSUME NEW s \in Scopes, NEW x \in Asks, NEW h \in HoldIds, PlaceHold(s, x, h)
      PROVE Touches(h)
  <2>1. Cost(x) \in Int
    BY AmountsWhole
  <2>2. /\ holdCount' = [holdCount EXCEPT ![s] = @ + 1] /\ heldTotal' = heldTotal + Cost(x)
        /\ spent' = spent /\ spentTotal' = spentTotal
    BY <1>2 DEF PlaceHold, flows
  <2>3. /\ \A g \in HoldIds \ {h} : holds'[g] = holds[g]
        /\ holds'[h].st = "open" /\ holds'[h].scope = s
        /\ holds'[h].amount = Cost(x) /\ holds'[h].cost = 0
        /\ holds[h].st = "fresh" /\ holds[h].scope = None
    BY <1>2, PlacedIs
  <2>c. CountsMove(h)
    BY <1>0, <2>1, <2>2, <2>3 DEF CountsMove, If
  <2>h. HeldMoves(h)
    BY <1>0, <2>1, <2>2, <2>3 DEF HeldMoves, If
  <2>s. SpentMoves(h)
    BY <1>0, <2>1, <2>2, <2>3 DEF SpentMoves, If
  <2>t. Charges(s, 0) /\ s \in Scopes /\ 0 \in Int
    BY <1>0, <2>1, <2>2, <2>3 DEF Charges
  <2> HIDE DEF CountsMove, HeldMoves, SpentMoves, Charges
  <2> QED
    BY <1>0, <2>1, <2>2, <2>3, <2>c, <2>h, <2>s, <2>t DEF Touches
<1>3. ASSUME NEW s \in Scopes, NEW x \in Asks, NEW h \in HoldIds, SpendThrough(s, x, h)
      PROVE Touches(h)
  <2>1. Cost(x) \in Int
    BY AmountsWhole
  <2>2. /\ spent' = [spent EXCEPT ![s] = @ + Cost(x)] /\ spentTotal' = spentTotal + Cost(x)
        /\ holdCount' = holdCount /\ heldTotal' = heldTotal
    BY <1>3 DEF SpendThrough
  <2>3. /\ \A g \in HoldIds \ {h} : holds'[g] = holds[g]
        /\ holds'[h].st = "closed" /\ holds'[h].scope = s /\ holds'[h].cost = Cost(x)
        /\ holds[h].st = "fresh" /\ holds[h].scope = None
    BY <1>3, SpentIs
  <2>c. CountsMove(h)
    BY <1>0, <2>1, <2>2, <2>3 DEF CountsMove, If
  <2>h. HeldMoves(h)
    BY <1>0, <2>1, <2>2, <2>3 DEF HeldMoves, If
  <2>s. SpentMoves(h)
    BY <1>0, <2>1, <2>2, <2>3 DEF SpentMoves, If
  <2>t. Charges(s, Cost(x)) /\ s \in Scopes /\ Cost(x) \in Int
    BY <1>0, <2>1, <2>2, <2>3 DEF Charges
  <2> HIDE DEF CountsMove, HeldMoves, SpentMoves, Charges
  <2> QED
    BY <1>0, <2>1, <2>2, <2>3, <2>c, <2>h, <2>s, <2>t DEF Touches
<1>4. ASSUME NEW h \in HoldIds, NEW cost \in Nat, Settle(h, cost) PROVE Touches(h)
  <2>1. PICK s \in Scopes : s = holds[h].scope
    BY <1>4, OpenHoldFields DEF Settle
  <2>2. holds[h].amount \in Int /\ holds[h].st = "open"
    BY <1>4, OpenHoldFields DEF Settle
  <2>3. /\ spent' = [spent EXCEPT ![s] = @ + cost] /\ spentTotal' = spentTotal + cost
        /\ holdCount' = [holdCount EXCEPT ![s] = @ - 1] /\ heldTotal' = heldTotal - holds[h].amount
    BY <1>4, <2>1 DEF Settle
  <2>4. /\ \A g \in HoldIds \ {h} : holds'[g] = holds[g]
        /\ holds'[h].st = "closed" /\ holds'[h].scope = s
        /\ holds'[h].cost = cost /\ holds[h].cost = 0
    BY <1>4, <2>1, SettledIs
  <2>c. CountsMove(h)
    BY <1>0, <2>1, <2>2, <2>3, <2>4 DEF CountsMove, If
  <2>h. HeldMoves(h)
    BY <1>0, <2>1, <2>2, <2>3, <2>4 DEF HeldMoves, If
  <2>s. SpentMoves(h)
    BY <1>0, <2>1, <2>2, <2>3, <2>4 DEF SpentMoves, If
  <2>t. Charges(s, cost) /\ s \in Scopes /\ cost \in Int
    BY <1>0, <2>1, <2>2, <2>3, <2>4 DEF Charges
  <2> HIDE DEF CountsMove, HeldMoves, SpentMoves, Charges
  <2> QED
    BY <1>0, <2>1, <2>2, <2>3, <2>4, <2>c, <2>h, <2>s, <2>t DEF Touches
<1>5. ASSUME NEW h \in HoldIds, holds[h].st = "open", Lift(h), UNCHANGED flows PROVE Touches(h)
  <2>1. PICK s \in Scopes : s = holds[h].scope
    BY <1>5, OpenHoldFields
  <2>2. holds[h].amount \in Int /\ holds[h].cost \in Int /\ holds[h].st = "open"
    BY <1>5, OpenHoldFields
  <2>3. /\ spent' = spent /\ spentTotal' = spentTotal
        /\ holdCount' = [holdCount EXCEPT ![s] = @ - 1] /\ heldTotal' = heldTotal - holds[h].amount
    BY <1>5, <2>1 DEF Lift, flows
  <2>4. /\ \A g \in HoldIds \ {h} : holds'[g] = holds[g]
        /\ holds'[h].st = "closed" /\ holds'[h].scope = s /\ holds'[h].cost = holds[h].cost
    BY <1>5, <2>1, LiftedIs
  <2>c. CountsMove(h)
    BY <1>0, <2>1, <2>2, <2>3, <2>4 DEF CountsMove, If
  <2>h. HeldMoves(h)
    BY <1>0, <2>1, <2>2, <2>3, <2>4 DEF HeldMoves, If
  <2>s. SpentMoves(h)
    BY <1>0, <2>1, <2>2, <2>3, <2>4 DEF SpentMoves, If
  <2>t. Charges(s, 0) /\ s \in Scopes /\ 0 \in Int
    BY <1>0, <2>1, <2>2, <2>3, <2>4 DEF Charges
  <2> HIDE DEF CountsMove, HeldMoves, SpentMoves, Charges
  <2> QED
    BY <1>0, <2>1, <2>2, <2>3, <2>4, <2>c, <2>h, <2>s, <2>t DEF Touches
<1>6. ASSUME NEW h \in HoldIds, NEW x \in Asks, RefundNamed(h, x) PROVE Touches(h)
  <2>0. holds[h].st = "closed" /\ holds[h].st # "fresh"
    BY <1>6, RefundedIs
  <2>1. PICK s \in Scopes : s = holds[h].scope
    BY <2>0, OpenHoldFields
  <2>2. holds[h].cost \in Int /\ UNCHANGED <<holdCount, heldTotal, spent, spentTotal>>
    BY <1>6, <2>0, OpenHoldFields DEF RefundNamed
  <2>3. /\ \A g \in HoldIds \ {h} : holds'[g] = holds[g]
        /\ holds'[h].st = "closed" /\ holds'[h].scope = s
        /\ holds'[h].cost = holds[h].cost
    BY <1>6, <2>0, <2>1, RefundedIs
  <2>c. CountsMove(h)
    BY <1>0, <2>0, <2>1, <2>2, <2>3 DEF CountsMove, If
  <2>h. HeldMoves(h)
    BY <1>0, <2>0, <2>1, <2>2, <2>3 DEF HeldMoves, If
  <2>s. SpentMoves(h)
    BY <1>0, <2>0, <2>1, <2>2, <2>3 DEF SpentMoves, If
  <2>t. Charges(s, 0) /\ s \in Scopes /\ 0 \in Int
    BY <1>0, <2>0, <2>1, <2>2, <2>3 DEF Charges
  <2> HIDE DEF CountsMove, HeldMoves, SpentMoves, Charges
  <2> QED
    BY <1>0, <2>0, <2>1, <2>2, <2>3, <2>c, <2>h, <2>s, <2>t DEF Touches
<1>7. ASSUME NEW h \in HoldIds, Void(h) \/ VoidStale(h) PROVE CachesMatchHolds'
  BY <1>1, <1>5, <1>7, CachesFollow DEF Void, VoidStale, flows, totals
<1>8. CASE Idle
  BY <1>1, <1>8 DEF Idle, flows, totals
<1>9. CASE Moves
  BY <1>1, <1>2, <1>3, <1>4, <1>6, <1>7, <1>9, CachesFollow
  DEF Moves, OpenRoot, Fund, Delegate, ReturnToParent, RefundUnnamed, flows, totals
<1> QED
  BY <1>8, <1>9, StepKinds

\* The figures the ledger keeps beside its entries (open-hold counts, the
\* encumbered and spent totals) never drift from what the holds say.
THEOREM CachesNeverDrift == Spec => []CachesMatchHolds
<1>1. Init => CachesMatchHolds
  <2> SUFFICES ASSUME Init PROVE CachesMatchHolds
    OBVIOUS
  <2>0. IsFiniteSet(HoldIds) /\ IsFiniteSet(Scopes) /\ None \notin Scopes
    BY ConstantsAssumption
  <2>1. ASSUME NEW s \in Scopes PROVE holdCount[s] = Cardinality(OpenHoldsIn(s))
    <3>1. OpenHoldsIn(s) = {}
      BY DEF Init, Unplaced, OpenHoldsIn
    <3> QED
      BY <3>1, FS_EmptySet DEF Init
  <2>2. heldTotal = SumFunctionOnSet(Kept, OpenHolds)
    <3>1. OpenHolds = {} /\ {} \in SUBSET HoldIds
      BY DEF Init, Unplaced, OpenHolds
    <3>2. SumFunctionOnSet(Kept, {}) = 0
      BY <2>0, <3>1, SumStep
    <3> QED
      BY <3>1, <3>2 DEF Init
  <2>3. spentTotal = SumFunctionOnSet(spent, Scopes)
    <3>1. spent \in [Scopes -> Int] /\ \A s \in Scopes : spent[s] = 0
      BY DEF Init
    <3> QED
      BY <2>0, <3>1, SumZero DEF Init
  <2>4. ASSUME NEW s \in Scopes PROVE spent[s] = SumFunctionOnSet(Costs, ChargedTo(s))
    <3>1. ChargedTo(s) = {} /\ {} \in SUBSET HoldIds
      BY <2>0 DEF Init, Unplaced, ChargedTo
    <3>2. SumFunctionOnSet(Costs, {}) = 0
      BY <2>0, <3>1, SumStep
    <3> QED
      BY <3>1, <3>2 DEF Init
  <2> QED
    BY <2>1, <2>2, <2>3, <2>4 DEF CachesMatchHolds, Kept, Costs, ChargedTo
<1> QED
  BY <1>1, CachesStep, TypeCorrect, PTL DEF Spec

----------------------------------------------------------------------------
(* Delegation *)

LEMMA WorthType ==
    ASSUME TypeOK, NEW T \in SUBSET Scopes
    PROVE  /\ SumFunctionOnSet(Net, T) \in Int
           /\ SumFunctionOnSet(Kept, HeldIn(T)) \in Int
           /\ Worth(T) \in Int
<1>1. SumFunctionOnSet(Net, T) \in Int /\ SumFunctionOnSet(Kept, HeldIn(T)) \in Int
  BY KeepTypes, SumType
<1> QED
  BY <1>1 DEF Worth

LEMMA CommittedIs == \A s : Committed(s) = Worth(Subtree(s))
  BY DEF Committed, Worth, Net, Kept, HeldIn

\* What a subtree commands, when one hold changes with the figures of one scope.
LEMMA WorthTouched ==
    ASSUME TypeOK, TypeOK', NEW T \in SUBSET Scopes, NEW t \in Scopes, NEW h \in HoldIds,
           \A y \in Scopes \ {t} : Net'[y] = Net[y],
           \A g \in HoldIds \ {h} : holds'[g] = holds[g]
    PROVE  Worth(T)' = Worth(T) + (IF t \in T THEN Net'[t] - Net[t] ELSE 0)
                         + (IF h \in HeldIn(T)' THEN holds'[h].amount ELSE 0)
                         - (IF h \in HeldIn(T) THEN holds[h].amount ELSE 0)
<1>1. SumFunctionOnSet(Net', T)
        = SumFunctionOnSet(Net, T) + (IF t \in T THEN Net'[t] - Net[t] ELSE 0)
  BY NetChange
<1>2. SumFunctionOnSet(Kept, HeldIn(T))'
        = SumFunctionOnSet(Kept, HeldIn(T))
            + (IF h \in HeldIn(T)' THEN holds'[h].amount ELSE 0)
            - (IF h \in HeldIn(T) THEN holds[h].amount ELSE 0)
  BY KeptChange
<1>3. /\ SumFunctionOnSet(Net, T) \in Int /\ SumFunctionOnSet(Kept, HeldIn(T)) \in Int
      /\ holds[h].amount \in Int /\ holds'[h].amount \in Int
  BY WorthType, HoldFields DEF TypeOK
<1>4. Net[t] \in Int /\ Net'[t] \in Int
  BY DEF Net, TypeOK
<1>5. Worth(T) = SumFunctionOnSet(Net, T) + SumFunctionOnSet(Kept, HeldIn(T))
  BY DEF Worth
<1>6. Worth(T)' = SumFunctionOnSet(Net', T) + SumFunctionOnSet(Kept, HeldIn(T))'
  BY DEF Worth
<1> QED
  BY <1>1, <1>2, <1>3, <1>4, <1>5, <1>6

\* A hold placed, settled, lifted or refunded moves money within its scope.
LEMMA WorthStays ==
    ASSUME TypeOK, TypeOK', NEW T \in SUBSET Scopes,
           \/ \E s \in Scopes, x \in Asks, h \in HoldIds : PlaceHold(s, x, h) \/ SpendThrough(s, x, h)
           \/ \E h \in HoldIds, cost \in Nat : Settle(h, cost)
           \/ \E h \in HoldIds : holds[h].st = "open" /\ Lift(h) /\ UNCHANGED flows
           \/ \E h \in HoldIds, x \in Asks : RefundNamed(h, x)
           \/ UNCHANGED <<balance, holds, flows>>
    PROVE  Worth(T)' = Worth(T)
<1>0. /\ balance \in [Scopes -> Int] /\ spent \in [Scopes -> Nat] /\ refunded \in [Scopes -> Nat]
      /\ \A y \in Scopes : Net[y] = balance[y] + spent[y] - refunded[y]
      /\ \A y \in Scopes : Net'[y] = balance'[y] + spent'[y] - refunded'[y]
      /\ \A y \in Scopes : balance[y] \in Int /\ spent[y] \in Int /\ refunded[y] \in Int
      /\ Worth(T) \in Int
  <2>1. Worth(T) \in Int
    BY WorthType
  <2>2. balance \in [Scopes -> Int] /\ spent \in [Scopes -> Nat] /\ refunded \in [Scopes -> Nat]
    BY DEF TypeOK
  <2>3. /\ \A y \in Scopes : Net[y] = balance[y] + spent[y] - refunded[y]
        /\ \A y \in Scopes : Net'[y] = balance'[y] + spent'[y] - refunded'[y]
    BY DEF Net
  <2> QED
    BY <2>1, <2>2, <2>3
<1>a. /\ \A h \in HoldIds : h \in HeldIn(T) <=> holds[h].st = "open" /\ holds[h].scope \in T
      /\ \A h \in HoldIds : h \in HeldIn(T)' <=> holds'[h].st = "open" /\ holds'[h].scope \in T
  BY DEF HeldIn, OpenHolds
<1>1. ASSUME NEW s \in Scopes, NEW x \in Asks, NEW h \in HoldIds, PlaceHold(s, x, h)
      PROVE Worth(T)' = Worth(T)
  <2>1. /\ balance' = [balance EXCEPT ![s] = @ - Cost(x)] /\ spent' = spent /\ refunded' = refunded
        /\ Cost(x) \in Int
    BY <1>1, AmountsWhole DEF PlaceHold, flows
  <2>2. Net'[s] = Net[s] - Cost(x) /\ \A y \in Scopes \ {s} : Net'[y] = Net[y]
    BY <1>0, <2>1
  <2>3. /\ \A g \in HoldIds \ {h} : holds'[g] = holds[g]
        /\ h \in HeldIn(T)' <=> s \in T
        /\ h \notin HeldIn(T) /\ holds'[h].amount = Cost(x)
    BY <1>1, <1>a, PlacedIs
  <2>4. Worth(T)' = Worth(T) + (IF s \in T THEN Net'[s] - Net[s] ELSE 0)
                      + (IF h \in HeldIn(T)' THEN holds'[h].amount ELSE 0)
                      - (IF h \in HeldIn(T) THEN holds[h].amount ELSE 0)
    BY <2>2, <2>3, WorthTouched
  <2>5. Net[s] \in Int
    BY <1>0
  <2> QED
    BY <1>0, <2>1, <2>2, <2>3, <2>4, <2>5
<1>2. ASSUME NEW s \in Scopes, NEW x \in Asks, NEW h \in HoldIds, SpendThrough(s, x, h)
      PROVE Worth(T)' = Worth(T)
  <2>1. /\ balance' = [balance EXCEPT ![s] = balance[s] - Cost(x)]
        /\ spent' = [spent EXCEPT ![s] = @ + Cost(x)] /\ refunded' = refunded
        /\ Cost(x) \in Int
    BY <1>2, AmountsWhole DEF SpendThrough
  <2>2. Net'[s] = Net[s] /\ \A y \in Scopes \ {s} : Net'[y] = Net[y]
    BY <1>0, <2>1
  <2>3. /\ \A g \in HoldIds \ {h} : holds'[g] = holds[g]
        /\ h \notin HeldIn(T)' /\ h \notin HeldIn(T)
    BY <1>2, <1>a, SpentIs
  <2>4. Worth(T)' = Worth(T) + (IF s \in T THEN Net'[s] - Net[s] ELSE 0)
                      + (IF h \in HeldIn(T)' THEN holds'[h].amount ELSE 0)
                      - (IF h \in HeldIn(T) THEN holds[h].amount ELSE 0)
    BY <2>2, <2>3, WorthTouched
  <2>5. Net[s] \in Int
    BY <1>0
  <2> QED
    BY <1>0, <2>2, <2>3, <2>4, <2>5
<1>3. ASSUME NEW h \in HoldIds, NEW s \in Scopes, s = holds[h].scope, holds[h].st = "open",
             holds'[h].st = "closed", \A g \in HoldIds \ {h} : holds'[g] = holds[g],
             Net'[s] = Net[s] + holds[h].amount, \A y \in Scopes \ {s} : Net'[y] = Net[y]
      PROVE Worth(T)' = Worth(T)
  <2>3. h \notin HeldIn(T)' /\ (h \in HeldIn(T) <=> s \in T)
    BY <1>3, <1>a
  <2>4. Worth(T)' = Worth(T) + (IF s \in T THEN Net'[s] - Net[s] ELSE 0)
                      + (IF h \in HeldIn(T)' THEN holds'[h].amount ELSE 0)
                      - (IF h \in HeldIn(T) THEN holds[h].amount ELSE 0)
    BY <1>3, WorthTouched
  <2>5. Net[s] \in Int /\ holds[h].amount \in Int
    BY <1>0, <1>3, OpenHoldFields
  <2> QED
    BY <1>0, <1>3, <2>3, <2>4, <2>5
<1>4. ASSUME NEW h \in HoldIds, NEW cost \in Nat, Settle(h, cost) PROVE Worth(T)' = Worth(T)
  <2>1. PICK s \in Scopes : s = holds[h].scope
    BY <1>4, OpenHoldFields DEF Settle
  <2>2. holds[h].amount \in Int /\ holds[h].st = "open"
    BY <1>4, OpenHoldFields, SMTT(20) DEF Settle
  <2>3. /\ spent' = [spent EXCEPT ![s] = @ + cost] /\ refunded' = refunded
        /\ balance' = [balance EXCEPT ![s] = balance[s] + holds[h].amount - cost]
    BY <1>4, <2>1 DEF Settle
  <2>4. Net'[s] = Net[s] + holds[h].amount /\ \A y \in Scopes \ {s} : Net'[y] = Net[y]
    BY <1>0, <2>2, <2>3
  <2>5. holds'[h].st = "closed" /\ \A g \in HoldIds \ {h} : holds'[g] = holds[g]
    BY <1>4, SettledIs
  <2> QED
    BY <1>3, <2>1, <2>2, <2>4, <2>5
<1>5. ASSUME NEW h \in HoldIds, holds[h].st = "open", Lift(h), UNCHANGED flows
      PROVE Worth(T)' = Worth(T)
  <2>1. PICK s \in Scopes : s = holds[h].scope
    BY <1>5, OpenHoldFields
  <2>2. holds[h].amount \in Int
    BY <1>5, OpenHoldFields
  <2>3. /\ spent' = spent /\ refunded' = refunded
        /\ balance' = [balance EXCEPT ![s] = balance[s] + holds[h].amount]
    BY <1>5, <2>1 DEF Lift, flows
  <2>4. Net'[s] = Net[s] + holds[h].amount /\ \A y \in Scopes \ {s} : Net'[y] = Net[y]
    BY <1>0, <2>2, <2>3
  <2>5. holds'[h].st = "closed" /\ \A g \in HoldIds \ {h} : holds'[g] = holds[g]
    BY <1>5, LiftedIs
  <2> QED
    BY <1>3, <1>5, <2>1, <2>4, <2>5
<1>6. ASSUME NEW h \in HoldIds, NEW x \in Asks, RefundNamed(h, x) PROVE Worth(T)' = Worth(T)
  <2>0. holds[h].st = "closed" /\ holds'[h].st = "closed" /\ holds[h].st # "fresh"
    BY <1>6, RefundedIs
  <2>1. PICK s \in Scopes : s = holds[h].scope
    BY <2>0, OpenHoldFields
  <2>2. /\ spent' = spent /\ refunded' = [refunded EXCEPT ![s] = @ + Credit(x)]
        /\ balance' = [balance EXCEPT ![s] = @ + Credit(x)] /\ Credit(x) \in Int
    BY <1>6, <2>1, AmountsWhole DEF RefundNamed
  <2>3. Net'[s] = Net[s] /\ \A y \in Scopes \ {s} : Net'[y] = Net[y]
    BY <1>0, <2>2
  <2>4. /\ \A g \in HoldIds \ {h} : holds'[g] = holds[g]
        /\ h \notin HeldIn(T)' /\ h \notin HeldIn(T)
    BY <1>6, <1>a, <2>0, RefundedIs
  <2>5. Worth(T)' = Worth(T) + (IF s \in T THEN Net'[s] - Net[s] ELSE 0)
                      + (IF h \in HeldIn(T)' THEN holds'[h].amount ELSE 0)
                      - (IF h \in HeldIn(T) THEN holds[h].amount ELSE 0)
    BY <2>3, <2>4, WorthTouched
  <2>6. Net[s] \in Int
    BY <1>0
  <2> QED
    BY <1>0, <2>3, <2>4, <2>5, <2>6
<1>7. CASE UNCHANGED <<balance, holds, flows>>
  BY <1>7 DEF Worth, Net, Kept, HeldIn, OpenHolds, flows
<1> QED
  BY <1>1, <1>2, <1>4, <1>5, <1>6, <1>7

\* No hold changes, and one scope's figures do.
LEMMA WorthGrows ==
    ASSUME TypeOK, TypeOK', NEW T \in SUBSET Scopes, NEW t \in Scopes, UNCHANGED holds,
           \A y \in Scopes \ {t} : Net'[y] = Net[y]
    PROVE  Worth(T)' = Worth(T) + (IF t \in T THEN Net'[t] - Net[t] ELSE 0)
<1>1. SumFunctionOnSet(Net', T)
        = SumFunctionOnSet(Net, T) + (IF t \in T THEN Net'[t] - Net[t] ELSE 0)
  BY NetChange
<1>2. SumFunctionOnSet(Kept, HeldIn(T))' = SumFunctionOnSet(Kept, HeldIn(T))
  BY DEF Kept, HeldIn, OpenHolds
<1>3. SumFunctionOnSet(Net, T) \in Int /\ SumFunctionOnSet(Kept, HeldIn(T)) \in Int
  BY WorthType
<1>4. Net[t] \in Int /\ Net'[t] \in Int
  BY DEF Net, TypeOK
<1>5. Worth(T) = SumFunctionOnSet(Net, T) + SumFunctionOnSet(Kept, HeldIn(T))
  BY DEF Worth
<1>6. Worth(T)' = SumFunctionOnSet(Net', T) + SumFunctionOnSet(Kept, HeldIn(T))'
  BY DEF Worth
<1> QED
  BY <1>1, <1>2, <1>3, <1>4, <1>5, <1>6

\* Money passes from one scope to another.
LEMMA WorthShifts ==
    ASSUME TypeOK, TypeOK', NEW T \in SUBSET Scopes, NEW p \in Scopes, NEW c \in Scopes, p # c,
           NEW d \in Int, UNCHANGED <<holds, flows>>,
           balance' = [balance EXCEPT ![p] = @ - d, ![c] = @ + d]
    PROVE  Worth(T)' = Worth(T) + (IF c \in T THEN d ELSE 0) - (IF p \in T THEN d ELSE 0)
<1>0. /\ Net \in [Scopes -> Int] /\ Net' \in [Scopes -> Int] /\ IsFiniteSet(Scopes)
      /\ Net[p] \in Int /\ Net[c] \in Int
      /\ Net'[p] = Net[p] - d /\ Net'[c] = Net[c] + d
      /\ \A y \in Scopes \ {p, c} : Net'[y] = Net[y]
  <2>1. (Net \in [Scopes -> Int] /\ Kept \in [HoldIds -> Int])'
    BY TypesKept, PTL
  <2>2. Net \in [Scopes -> Int] /\ IsFiniteSet(Scopes)
    BY KeepTypes
  <2>3. balance \in [Scopes -> Int] /\ spent \in [Scopes -> Nat] /\ refunded \in [Scopes -> Nat]
    BY DEF TypeOK
  <2>4. /\ \A y \in Scopes : Net[y] = balance[y] + spent[y] - refunded[y]
        /\ \A y \in Scopes : Net'[y] = balance'[y] + spent[y] - refunded[y]
    BY DEF Net, flows
  <2> QED
    BY <2>1, <2>2, <2>3, <2>4
<1> DEFINE m == [Net EXCEPT ![p] = Net[p] - d]
<1>1. /\ m \in [Scopes -> Int] /\ m[p] = Net[p] - d /\ m[c] = Net[c]
      /\ \A y \in Scopes \ {p} : m[y] = Net[y]
      /\ \A y \in Scopes \ {c} : m[y] = Net'[y]
  BY <1>0
<1> HIDE DEF m
<1>2. SumFunctionOnSet(m, T)
        = SumFunctionOnSet(Net, T) + (IF p \in T THEN m[p] ELSE 0) - (IF p \in T THEN Net[p] ELSE 0)
  BY <1>0, <1>1, SumChange
<1>3. SumFunctionOnSet(Net', T)
        = SumFunctionOnSet(m, T) + (IF c \in T THEN Net'[c] ELSE 0) - (IF c \in T THEN m[c] ELSE 0)
  BY <1>0, <1>1, SumChange
<1>4. SumFunctionOnSet(Kept, HeldIn(T))' = SumFunctionOnSet(Kept, HeldIn(T))
  BY DEF Kept, HeldIn, OpenHolds
<1>5. SumFunctionOnSet(Net, T) \in Int /\ SumFunctionOnSet(Kept, HeldIn(T)) \in Int
  BY WorthType
<1>6. Worth(T) = SumFunctionOnSet(Net, T) + SumFunctionOnSet(Kept, HeldIn(T))
  BY DEF Worth
<1>7. Worth(T)' = SumFunctionOnSet(Net', T) + SumFunctionOnSet(Kept, HeldIn(T))'
  BY DEF Worth
<1>8. SumFunctionOnSet(Net', T)
        = SumFunctionOnSet(Net, T) + (IF c \in T THEN d ELSE 0) - (IF p \in T THEN d ELSE 0)
  BY <1>0, <1>1, <1>2, <1>3, <1>5
<1> QED
  BY <1>4, <1>5, <1>6, <1>7, <1>8

----------------------------------------------------------------------------

\* A scope nobody registered has no figures yet.
Untouched == \A s \in Scopes \ nodes : balance[s] = 0 /\ spent[s] = 0 /\ refunded[s] = 0

LEMMA UntouchedStep == TypeOK /\ TreeSound /\ Untouched /\ [Next]_vars => Untouched'
<1> SUFFICES ASSUME TypeOK, TreeSound, Untouched, [Next]_vars, NEW t \in Scopes, t \notin nodes'
             PROVE  balance'[t] = 0 /\ spent'[t] = 0 /\ refunded'[t] = 0
  BY DEF Untouched
<1>0. /\ nodes \subseteq Scopes /\ balance \in [Scopes -> Int]
      /\ spent \in [Scopes -> Nat] /\ refunded \in [Scopes -> Nat]
  BY DEF TypeOK
<1>1. t \notin nodes => balance[t] = 0 /\ spent[t] = 0 /\ refunded[t] = 0
  BY DEF Untouched
<1>2. ASSUME NEW s \in Scopes, NEW x \in Asks, OpenRoot(s, x) \/ Fund(s, x) \/ RefundUnnamed(s, x)
      PROVE balance'[t] = 0 /\ spent'[t] = 0 /\ refunded'[t] = 0
  BY <1>0, <1>1, <1>2 DEF OpenRoot, Fund, RefundUnnamed, flows, tree
<1>3. ASSUME NEW p \in Scopes, NEW c \in Scopes, NEW x \in Asks, Delegate(p, c, x)
      PROVE balance'[t] = 0 /\ spent'[t] = 0 /\ refunded'[t] = 0
  BY <1>0, <1>1, <1>3 DEF Delegate, flows
<1>4. ASSUME NEW s \in Scopes, NEW amount \in Int, ReturnToParent(s, amount)
      PROVE balance'[t] = 0 /\ spent'[t] = 0 /\ refunded'[t] = 0
  <2>1. parent[s] \in nodes
    BY <1>4 DEF ReturnToParent, TreeSound
  <2> QED
    BY <1>0, <1>1, <1>4, <2>1 DEF ReturnToParent, flows, tree
<1>5. ASSUME NEW s \in Scopes, NEW x \in Asks, NEW h \in HoldIds,
             PlaceHold(s, x, h) \/ SpendThrough(s, x, h)
      PROVE balance'[t] = 0 /\ spent'[t] = 0 /\ refunded'[t] = 0
  BY <1>0, <1>1, <1>5 DEF PlaceHold, SpendThrough, Admitted, flows, tree
<1>6. ASSUME NEW h \in HoldIds, NEW cost \in Nat, Settle(h, cost)
      PROVE balance'[t] = 0 /\ spent'[t] = 0 /\ refunded'[t] = 0
  <2>1. holds[h].scope \in nodes
    BY <1>6, OpenHoldFields DEF Settle
  <2> QED
    BY <1>0, <1>1, <1>6, <2>1 DEF Settle, tree
<1>7. ASSUME NEW h \in HoldIds, Void(h) \/ VoidStale(h)
      PROVE balance'[t] = 0 /\ spent'[t] = 0 /\ refunded'[t] = 0
  <2>1. ASSUME holds[h].st = "open", Lift(h), UNCHANGED <<tree, flows>>
        PROVE balance'[t] = 0 /\ spent'[t] = 0 /\ refunded'[t] = 0
    <3>1. holds[h].scope \in nodes
      BY <2>1, OpenHoldFields
    <3> QED
      BY <1>0, <1>1, <2>1, <3>1 DEF Lift, tree, flows
  <2> QED
    BY <1>1, <1>7, <2>1 DEF Void, VoidStale, tree, flows
<1>8. ASSUME NEW h \in HoldIds, NEW x \in Asks, RefundNamed(h, x)
      PROVE balance'[t] = 0 /\ spent'[t] = 0 /\ refunded'[t] = 0
  <2>1. holds[h].scope \in nodes
    <3>1. holds[h].st # "fresh"
      BY <1>8, RefundedIs
    <3> QED
      BY <3>1, OpenHoldFields
  <2> QED
    BY <1>0, <1>1, <1>8, <2>1 DEF RefundNamed, tree
<1>9. CASE Idle
  BY <1>1, <1>9 DEF Idle, flows, tree
<1>10. CASE Moves
  BY <1>2, <1>3, <1>4, <1>5, <1>6, <1>7, <1>8, <1>10 DEF Moves
<1> QED
  BY <1>9, <1>10, StepKinds

Bounded(s) ==
    /\ Committed(s) <= allocated[s]
    /\ parent[s] = None => Committed(s) = allocated[s]

\* A new scope adds nothing to what a set of scopes is worth.
LEMMA WorthOfNew ==
    ASSUME TypeOK, Untouched, NEW T \in SUBSET Scopes, NEW c \in Scopes, c \notin nodes, c \notin T
    PROVE  Worth(T \cup {c}) = Worth(T) /\ Worth({c}) = 0
<1>1. Net \in [Scopes -> Int] /\ IsFiniteSet(Scopes) /\ Net[c] = 0
  BY KeepTypes DEF Net, Untouched
<1>2. HeldIn(T \cup {c}) = HeldIn(T) /\ HeldIn({c}) = {}
  BY DEF HeldIn, OpenHolds, TypeOK, HoldsSound
<1>3. SumFunctionOnSet(Net, T) \in Int /\ SumFunctionOnSet(Kept, HeldIn(T)) \in Int
  BY WorthType
<1>4. SumFunctionOnSet(Net, T \cup {c}) = SumFunctionOnSet(Net, T)
  <2>1. (T \cup {c}) \in SUBSET Scopes /\ c \in T \cup {c} /\ (T \cup {c}) \ {c} = T
    OBVIOUS
  <2>2. SumFunctionOnSet(Net, T \cup {c}) = Net[c] + SumFunctionOnSet(Net, (T \cup {c}) \ {c})
    BY <1>1, <2>1, SumRemove
  <2>3. SumFunctionOnSet(Net, (T \cup {c}) \ {c}) = SumFunctionOnSet(Net, T)
    BY <2>1
  <2> QED
    BY <1>1, <1>3, <2>2, <2>3
<1>5. SumFunctionOnSet(Net, {c}) = 0 /\ SumFunctionOnSet(Kept, {}) = 0
  <2>1. {c} \in SUBSET Scopes /\ c \in {c} /\ {c} \ {c} = {} /\ {} \in SUBSET Scopes /\ {} \in SUBSET HoldIds
    OBVIOUS
  <2>2. SumFunctionOnSet(Net, {c}) = Net[c] + SumFunctionOnSet(Net, {c} \ {c})
    BY <1>1, <2>1, SumRemove
  <2>3. SumFunctionOnSet(Net, {}) = 0 /\ SumFunctionOnSet(Kept, {}) = 0
    BY <2>1, SumStep, ConstantsAssumption
  <2> QED
    BY <1>1, <2>1, <2>2, <2>3
<1>6. Worth({c}) = 0
  BY <1>2, <1>5 DEF Worth
<1>7. Worth(T \cup {c}) = Worth(T)
  BY <1>2, <1>4 DEF Worth
<1> QED
  BY <1>6, <1>7

\* A step that leaves the tree, and what every set of scopes is worth, alone.
LEMMA BoundedStays ==
    ASSUME TypeOK, UNCHANGED tree, NEW s \in nodes, Bounded(s),
           \A T \in SUBSET Scopes : Worth(T)' = Worth(T)
    PROVE  Bounded(s)'
<1>1. PICK T \in SUBSET Scopes : T = Subtree(s)
  BY DEF Subtree, TypeOK
<1>2. Subtree(s)' = T
  BY <1>1 DEF Subtree, Ancestry, Up, tree
<1>3. Committed(s) = Worth(T)
  BY <1>1, CommittedIs
<1>4. Committed(s)' = Worth(T)'
  BY <1>2 DEF Committed, Worth, Net, Kept, HeldIn
<1>5. Committed(s)' = Committed(s)
  BY <1>1, <1>3, <1>4
<1> QED
  BY <1>5 DEF Bounded, tree

\* A subtree after a scope c was registered.
LEMMA GrownSubtree ==
    ASSUME TypeOK, TreeSound, TypeOK', TreeSound', NEW c \in Scopes, c \notin nodes,
           nodes' = nodes \cup {c},
           \A d \in nodes : parent'[d] = parent[d] /\ depth'[d] = depth[d]
    PROVE  /\ Subtree(c)' = {c}
           /\ \A s \in nodes : Subtree(s)' = Subtree(s) \cup {d \in {c} : s \in Ancestry(c)'}
<1>1. \A d \in nodes : Ancestry(d)' = Ancestry(d)
  BY WalkStays
<1>2. \A d \in nodes : c \notin Ancestry(d)
  BY WalkClimbs
<1>3. c \in Ancestry(c)'
  <2>1. Walks'
    BY WalksHold, PTL
  <2> QED
    BY <2>1 DEF Walks
<1>4. \A s : Subtree(s)' = {d \in nodes \cup {c} : s \in Ancestry(d)'}
  BY DEF Subtree
<1>5. \A s : Subtree(s) = {d \in nodes : s \in Ancestry(d)}
  BY DEF Subtree
<1>6. Subtree(c)' = {c}
  BY <1>1, <1>2, <1>3, <1>4
<1>7. ASSUME NEW s \in nodes
      PROVE  Subtree(s)' = Subtree(s) \cup {d \in {c} : s \in Ancestry(c)'}
  BY <1>1, <1>4, <1>5
<1> QED
  BY <1>6, <1>7

LEMMA DelegationStep ==
    TypeOK /\ TypeOK' /\ TreeSound /\ TreeSound' /\ Untouched /\ DelegationBound /\ [Next]_vars
      => DelegationBound'
<1> SUFFICES ASSUME TypeOK, TypeOK', TreeSound, TreeSound', Untouched, DelegationBound, [Next]_vars
             PROVE  DelegationBound'
  OBVIOUS
<1> DEFINE Kind == \A s \in nodes' : Bounded(s)'
<1> SUFFICES Kind
  BY DEF Bounded, DelegationBound
<1> USE ConstantsAssumption
<1>0. /\ nodes \subseteq Scopes /\ \A s \in nodes : Bounded(s)
      /\ balance \in [Scopes -> Int] /\ allocated \in [Scopes -> Nat]
      /\ parent \in [Scopes -> Scopes \cup {None}] /\ depth \in [Scopes -> Nat]
  BY DEF Bounded, DelegationBound, TypeOK
<1>1. ASSUME UNCHANGED tree, \A T \in SUBSET Scopes : Worth(T)' = Worth(T) PROVE Kind
  BY <1>0, <1>1, BoundedStays DEF tree
<1>n. \A y \in Scopes : Net[y] = balance[y] + spent[y] - refunded[y] /\ Net[y] \in Int
  BY DEF Net, TypeOK
<1>m. \A y \in Scopes : Net'[y] = balance'[y] + spent'[y] - refunded'[y]
  BY DEF Net
<1>t. \A y \in Scopes : spent[y] \in Int /\ refunded[y] \in Int
  BY DEF TypeOK
<1>2. ASSUME NEW t \in Scopes, NEW x \in Asks, Fund(t, x) PROVE Kind
  <2>1. /\ Credit(x) \in Int /\ t \in nodes /\ parent[t] = None
        /\ UNCHANGED <<nodes, parent, depth, holds, flows>>
        /\ balance' = [balance EXCEPT ![t] = @ + Credit(x)]
        /\ allocated' = [allocated EXCEPT ![t] = @ + Credit(x)]
    <3>1. Credit(x) \in Int
      BY AmountsWhole
    <3> QED
      BY <1>2, <3>1 DEF Fund
  <2>2. Net'[t] = Net[t] + Credit(x) /\ \A y \in Scopes \ {t} : Net'[y] = Net[y]
    BY <1>0, <1>n, <1>m, <1>t, <2>1 DEF flows
  <2>3. ASSUME NEW s \in nodes PROVE Bounded(s)'
    <3>1. PICK T \in SUBSET Scopes : T = Subtree(s)
      BY DEF Subtree, TypeOK
    <3>2. Subtree(s)' = T
      BY <2>1, <3>1 DEF Subtree, Ancestry, Up
    <3>3. Committed(s) = Worth(T) /\ Worth(T) \in Int
      BY <3>1, CommittedIs, WorthType
    <3>4. Committed(s)' = Worth(T)'
      BY <3>2 DEF Committed, Worth, Net, Kept, HeldIn
    <3>5. Worth(T)' = Worth(T) + (IF t \in T THEN Net'[t] - Net[t] ELSE 0)
      BY <2>1, <2>2, WorthGrows
    <3>6. t \in T <=> s = t
      BY <2>1, <3>1, RootAncestry DEF Subtree
    <3>7. /\ Committed(s)' = Committed(s) + (IF s = t THEN Credit(x) ELSE 0)
          /\ allocated'[s] = allocated[s] + (IF s = t THEN Credit(x) ELSE 0)
          /\ parent'[s] = parent[s]
      BY <1>0, <1>n, <2>1, <2>2, <3>3, <3>4, <3>5, <3>6
    <3>8. Committed(s) \in Int /\ allocated[s] \in Int /\ Bounded(s)
      BY <1>0, <3>3
    <3> QED
      BY <2>1, <3>7, <3>8 DEF Bounded
  <2> QED
    BY <2>1, <2>3
<1>3. ASSUME NEW c \in Scopes, NEW x \in Asks, OpenRoot(c, x) PROVE Kind
  <2>1. /\ Credit(x) \in Int /\ c \notin nodes /\ nodes' = nodes \cup {c}
        /\ parent' = [parent EXCEPT ![c] = None] /\ depth' = [depth EXCEPT ![c] = 0]
        /\ UNCHANGED <<holds, flows>>
        /\ balance' = [balance EXCEPT ![c] = @ + Credit(x)]
        /\ allocated' = [allocated EXCEPT ![c] = Credit(x)]
    BY <1>3, AmountsWhole DEF OpenRoot
  <2>2. Net'[c] = Net[c] + Credit(x) /\ \A y \in Scopes \ {c} : Net'[y] = Net[y]
    BY <1>0, <1>n, <1>m, <1>t, <2>1 DEF flows
  <2>3. /\ Subtree(c)' = {c}
        /\ \A s \in nodes : Subtree(s)' = Subtree(s) \cup {d \in {c} : s \in Ancestry(c)'}
    BY <1>0, <2>1, GrownSubtree
  <2>4. Ancestry(c)' = {c}
    <3>1. Walks'
      BY WalksHold, PTL
    <3> QED
      BY <1>0, <2>1, <3>1 DEF Walks
  <2>5. \A T \in SUBSET Scopes : Worth(T)' = Worth(T) + (IF c \in T THEN Net'[c] - Net[c] ELSE 0)
    BY <2>1, <2>2, WorthGrows
  <2>6. Bounded(c)'
    <3>1. Committed(c)' = Worth({c})'
      BY <2>3 DEF Committed, Worth, Net, Kept, HeldIn
    <3>2. Worth({c}) = 0
      <4>1. {} \in SUBSET Scopes /\ c \notin {}
        OBVIOUS
      <4> QED
        BY <2>1, <4>1, WorthOfNew
    <3>3. Worth({c})' = Credit(x)
      BY <1>n, <2>1, <2>2, <2>5, <3>2
    <3> QED
      BY <1>0, <2>1, <3>1, <3>3 DEF Bounded
  <2>7. ASSUME NEW s \in nodes PROVE Bounded(s)'
    <3>1. PICK T \in SUBSET Scopes : T = Subtree(s)
      BY DEF Subtree, TypeOK
    <3>2. Subtree(s)' = T /\ c \notin T
      BY <2>1, <2>3, <2>4, <3>1 DEF Subtree
    <3>3. Committed(s) = Worth(T) /\ Worth(T) \in Int
      BY <3>1, CommittedIs, WorthType
    <3>4. Committed(s)' = Worth(T)'
      BY <3>2 DEF Committed, Worth, Net, Kept, HeldIn
    <3>5. Committed(s)' = Committed(s)
      BY <2>5, <3>2, <3>3, <3>4
    <3>6. allocated'[s] = allocated[s] /\ parent'[s] = parent[s]
      BY <1>0, <2>1
    <3> QED
      BY <1>0, <3>5, <3>6 DEF Bounded
  <2> QED
    BY <2>1, <2>6, <2>7
<1>4. ASSUME NEW p \in Scopes, NEW c \in Scopes, NEW x \in Asks, Delegate(p, c, x) PROVE Kind
  <2>1. /\ Credit(x) \in Int /\ p \in nodes /\ c \notin nodes /\ p # c /\ nodes' = nodes \cup {c}
        /\ parent' = [parent EXCEPT ![c] = p] /\ depth' = [depth EXCEPT ![c] = depth[p] + 1]
        /\ UNCHANGED <<holds, flows>>
        /\ balance' = [balance EXCEPT ![p] = @ - Credit(x), ![c] = @ + Credit(x)]
        /\ allocated' = [allocated EXCEPT ![c] = Credit(x)]
    BY <1>4, AmountsWhole DEF Delegate
  <2>2. /\ Subtree(c)' = {c}
        /\ \A s \in nodes : Subtree(s)' = Subtree(s) \cup {d \in {c} : s \in Ancestry(c)'}
    BY <1>0, <2>1, GrownSubtree
  <2>3. Ancestry(c)' = {c} \cup Ancestry(p)
    <3>1. Walks'
      BY WalksHold, PTL
    <3>2. c \in nodes' /\ parent'[c] = p /\ p # None
      BY <1>0, <2>1
    <3>3. Ancestry(c)' = {c} \cup Ancestry(p)'
      BY <3>1, <3>2 DEF Walks
    <3>4. Ancestry(p)' = Ancestry(p)
      <4>1. \A d \in nodes : parent'[d] = parent[d] /\ depth'[d] = depth[d]
        BY <1>0, <2>1
      <4> QED
        BY <2>1, <4>1, WalkStays
    <3> QED
      BY <3>3, <3>4
  <2>4. \A T \in SUBSET Scopes : Worth(T)' = Worth(T) + (IF c \in T THEN Credit(x) ELSE 0)
                                                      - (IF p \in T THEN Credit(x) ELSE 0)
    BY <2>1, WorthShifts
  <2>5. Bounded(c)'
    <3>1. Committed(c)' = Worth({c})'
      BY <2>2 DEF Committed, Worth, Net, Kept, HeldIn
    <3>2. Worth({c}) = 0
      <4>1. {} \in SUBSET Scopes /\ c \notin {}
        OBVIOUS
      <4> QED
        BY <2>1, <4>1, WorthOfNew
    <3>3. Worth({c})' = Credit(x)
      BY <2>1, <2>4, <3>2
    <3> QED
      BY <1>0, <2>1, <3>1, <3>3 DEF Bounded
  <2>6. ASSUME NEW s \in nodes PROVE Bounded(s)'
    <3>1. PICK T \in SUBSET Scopes : T = Subtree(s)
      BY DEF Subtree, TypeOK
    <3>2. PICK U \in SUBSET Scopes : U = IF p \in T THEN T \cup {c} ELSE T
      OBVIOUS
    <3>3. Subtree(s)' = U /\ c \notin T
      BY <2>1, <2>2, <2>3, <3>1, <3>2 DEF Subtree
    <3>4. Committed(s) = Worth(T) /\ Worth(T) \in Int
      BY <3>1, CommittedIs, WorthType
    <3>5. Committed(s)' = Worth(U)'
      BY <3>3 DEF Committed, Worth, Net, Kept, HeldIn
    <3>6. Worth(U) = Worth(T)
      <4>1. Worth(T \cup {c}) = Worth(T)
        BY <2>1, <3>3, WorthOfNew
      <4> QED
        BY <3>2, <4>1
    <3>7. Worth(U)' = Worth(U)
      <4>1. c \in U <=> p \in U
        BY <2>1, <3>2, <3>3
      <4> QED
        BY <2>1, <2>4, <3>4, <3>6, <4>1
    <3>8. Committed(s)' = Committed(s)
      BY <3>4, <3>5, <3>6, <3>7
    <3>9. allocated'[s] = allocated[s] /\ parent'[s] = parent[s]
      BY <1>0, <2>1
    <3> QED
      BY <1>0, <3>8, <3>9 DEF Bounded
  <2> QED
    BY <2>1, <2>5, <2>6
<1>5. ASSUME NEW t \in Scopes, NEW amount \in Int, ReturnToParent(t, amount) PROVE Kind
  <2>1. PICK p \in Scopes : p = parent[t]
    BY <1>0, <1>5 DEF ReturnToParent
  <2>2. /\ t \in nodes /\ p \in nodes /\ p # None /\ p # t /\ depth[t] = depth[p] + 1 /\ amount > 0
        /\ UNCHANGED <<tree, holds, flows>>
        /\ balance' = [balance EXCEPT ![t] = @ - amount, ![p] = @ + amount]
    BY <1>0, <1>5, <2>1 DEF ReturnToParent, TreeSound
  <2>3. \A T \in SUBSET Scopes : Worth(T)' = Worth(T) + (IF p \in T THEN amount ELSE 0)
                                                      - (IF t \in T THEN amount ELSE 0)
    BY <2>2, WorthShifts
  <2>4. Ancestry(t) = {t} \cup Ancestry(p)
    BY <2>1, <2>2, ChildAncestry
  <2>5. ASSUME NEW s \in nodes PROVE Bounded(s)'
    <3>1. PICK T \in SUBSET Scopes : T = Subtree(s)
      BY DEF Subtree, TypeOK
    <3>2. Subtree(s)' = T
      BY <2>2, <3>1 DEF Subtree, Ancestry, Up, tree
    <3>3. Committed(s) = Worth(T) /\ Worth(T) \in Int
      BY <3>1, CommittedIs, WorthType
    <3>4. Committed(s)' = Worth(T)'
      BY <3>2 DEF Committed, Worth, Net, Kept, HeldIn
    <3>5. t \in T <=> s = t \/ p \in T
      BY <2>2, <2>4, <3>1 DEF Subtree
    <3>6. s = t => p \notin T
      <4>1. t \in Ancestry(p) => depth[t] < depth[p]
        BY <2>2, WalkClimbs
      <4>2. t \notin Ancestry(p)
        BY <1>0, <2>2, <4>1
      <4> QED
        BY <3>1, <4>2 DEF Subtree
    <3>7. allocated'[s] = allocated[s] /\ parent'[s] = parent[s] /\ allocated[s] \in Int
      BY <1>0, <2>2 DEF tree
    <3>8. CASE s = t
      <4>1. Committed(s)' = Committed(s) - amount
        BY <2>3, <3>3, <3>4, <3>5, <3>6, <3>8
      <4> QED
        BY <1>0, <2>1, <2>2, <3>3, <3>7, <3>8, <4>1 DEF Bounded
    <3>9. CASE s # t
      <4>1. Committed(s)' = Committed(s)
        BY <2>3, <3>3, <3>4, <3>5, <3>9
      <4> QED
        BY <1>0, <3>7, <4>1 DEF Bounded
    <3> QED
      BY <3>8, <3>9
  <2> QED
    BY <2>2, <2>5 DEF tree
<1>6. ASSUME NEW t \in Scopes, NEW x \in Asks, RefundUnnamed(t, x) PROVE Kind
  <2>1. /\ Credit(x) \in Int /\ UNCHANGED <<tree, holds, spent>>
        /\ balance' = [balance EXCEPT ![t] = @ + Credit(x)]
        /\ refunded' = [refunded EXCEPT ![t] = @ + Credit(x)] /\ refunded \in [Scopes -> Nat]
    BY <1>6, AmountsWhole DEF RefundUnnamed, TypeOK
  <2>2. \A y \in Scopes : Net'[y] = Net[y]
    BY <1>0, <1>n, <1>m, <1>t, <2>1
  <2>3. ASSUME NEW T \in SUBSET Scopes PROVE Worth(T)' = Worth(T)
    <3>1. Worth(T)' = Worth(T) + (IF t \in T THEN Net'[t] - Net[t] ELSE 0)
      BY <2>1, <2>2, WorthGrows
    <3>2. Worth(T) \in Int
      BY WorthType
    <3> QED
      BY <1>n, <2>2, <3>1, <3>2
  <2> QED
    BY <1>1, <2>1, <2>3
<1>7. ASSUME NEW s \in Scopes, NEW x \in Asks, NEW h \in HoldIds,
             PlaceHold(s, x, h) \/ SpendThrough(s, x, h)
      PROVE Kind
  <2>1. \A T \in SUBSET Scopes : Worth(T)' = Worth(T)
    BY <1>7, WorthStays
  <2> QED
    BY <1>1, <1>7, <2>1 DEF PlaceHold, SpendThrough
<1>8. ASSUME NEW h \in HoldIds, NEW cost \in Nat, Settle(h, cost) PROVE Kind
  <2>1. \A T \in SUBSET Scopes : Worth(T)' = Worth(T)
    BY <1>8, WorthStays
  <2> QED
    BY <1>1, <1>8, <2>1 DEF Settle
<1>9. ASSUME NEW h \in HoldIds, Void(h) \/ VoidStale(h) PROVE Kind
  <2>1. ASSUME NEW T \in SUBSET Scopes PROVE Worth(T)' = Worth(T)
    <3>1. \/ holds[h].st = "open" /\ Lift(h) /\ UNCHANGED flows
          \/ UNCHANGED <<balance, holds, flows>>
      BY <1>9 DEF Void, VoidStale
    <3> QED
      BY <3>1, WorthStays
  <2> QED
    BY <1>1, <1>9, <2>1 DEF Void, VoidStale
<1>10. ASSUME NEW h \in HoldIds, NEW x \in Asks, RefundNamed(h, x) PROVE Kind
  <2>1. \A T \in SUBSET Scopes : Worth(T)' = Worth(T)
    BY <1>10, WorthStays
  <2> QED
    BY <1>1, <1>10, <2>1 DEF RefundNamed
<1>11. CASE Idle
  <2>1. \A T \in SUBSET Scopes : Worth(T)' = Worth(T)
    BY <1>11, WorthStays DEF Idle
  <2> QED
    BY <1>1, <1>11, <2>1 DEF Idle
<1>12. CASE Moves
  <2> HIDE DEF Kind
  <2> QED
    BY <1>2, <1>3, <1>4, <1>5, <1>6, <1>7, <1>8, <1>9, <1>10, <1>12 DEF Moves
<1> QED
  BY <1>11, <1>12, StepKinds

\* No subtree ever commands more than its top was granted, whatever is
\* delegated, held, settled, refunded and returned below it, and a root's
\* subtree commands exactly what the treasury funded.
THEOREM DelegationHolds == Spec => []DelegationBound
<1>1. Init => DelegationBound /\ Untouched
  BY DEF Init, DelegationBound, Untouched
<1> QED
  BY <1>1, UntouchedStep, DelegationStep, TypeCorrect, Forest, PTL DEF Spec

=============================================================================
