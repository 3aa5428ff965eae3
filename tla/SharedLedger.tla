---------------------------- MODULE SharedLedger ----------------------------
(***************************************************************************)
(* What a ledger shared through PostgreSQL promises, with no governors, no *)
(* lock and no connections in sight: a chain of entries and a set of       *)
(* settlement claims, to which units of work are applied one at a time,    *)
(* each decided on exactly the ledger it is applied to.                    *)
(*                                                                         *)
(* The operations are the governor's own (core.py), on one scope: each     *)
(* takes a ledger and gives the set of ledgers it may leave, empty when it *)
(* is refused and writes nothing.  Module Fleet runs them in governors     *)
(* that share the database, and is shown to implement this specification.  *)
(***************************************************************************)
EXTENDS Integers, Sequences, FiniteSets, FiniteSetsExt, SequencesExt

CONSTANTS
    Writers,      \* who may sign an entry: what tells two equal entries apart
    Keys,         \* idempotency keys: every authorization is made under one
    None,         \* no key (of the other entries), no hold, no claim
    ClaimIds,     \* settlement claims
    ClaimAmounts, \* what a claim may owe
    Budget,       \* what the scope was allocated
    MaxEntries,   \* bound on the chain
    MaxUnit       \* bound on the operations of one unit of work

-----------------------------------------------------------------------------
(* Entries and what a chain of them says.                                  *)

HoldAmount == 1

\* An entry's hash commits to all before it; its place and its writer are
\* what is kept of that.
Entry(c, who, type, amount, ref, key, claim) ==
    [id |-> <<Len(c) + 1, who>>, type |-> type, amount |-> amount,
     ref |-> ref, key |-> key, claim |-> claim]

Credit(e) ==
    CASE e.type = "HOLD_VOID" -> e.amount
      [] e.type \in {"HOLD", "SPEND"} -> 0 - e.amount
      [] OTHER -> 0

Balance(c) == Budget + MapThenSumSet(LAMBDA i : Credit(c[i]), DOMAIN c)

Ids(c, type) == {c[i].id : i \in {j \in DOMAIN c : c[j].type = type}}

OpenHolds(c) ==
    Ids(c, "HOLD") \ {c[i].ref : i \in {j \in DOMAIN c : c[j].type = "HOLD_VOID"}}

\* A latched breaker stays latched: who resets it, and when, is module
\* Governor's subject.
Halted(c) == Ids(c, "CIRCUIT_TRIPPED") # {}

Recorded(c, key) == \E i \in DOMAIN c : c[i].key = key

-----------------------------------------------------------------------------
(* The operations.                                                         *)

StageTrip(c, who) ==
    IF Halted(c) THEN c
    ELSE Append(c, Entry(c, who, "CIRCUIT_TRIPPED", 0, None, None, None))

\* A hold within the balance; one above it is refused, and trips the breaker.
\* A call made before under its key answers from its record.
Authorize(l, who, key) ==
    LET c == l.chain IN
    IF Recorded(c, key) \/ Halted(c) THEN {}
    ELSE IF HoldAmount > Balance(c)
    THEN {[l EXCEPT !.chain = StageTrip(c, who)]}
    ELSE {[l EXCEPT !.chain = Append(c, Entry(c, who, "HOLD", HoldAmount, None, key, None))]}

Void(l, who) ==
    {[l EXCEPT !.chain =
        Append(l.chain, Entry(l.chain, who, "HOLD_VOID", HoldAmount, h, None, None))]
        : h \in OpenHolds(l.chain)}

Trip(l, who) ==
    IF Halted(l.chain) THEN {} ELSE {[l EXCEPT !.chain = StageTrip(l.chain, who)]}

\* The entries that book a claim: the release of its hold, if it is still
\* open, and the spend; an anchor when neither is due.  What it pays for has
\* happened, so nothing refuses it: an overdraw trips the breaker.
Settled(c, who, claim) ==
    LET open == claim.hold \in OpenHolds(c)
        ref == IF open THEN claim.hold ELSE None
        spends == claim.amount > 0
        voided == IF ~open THEN c
                  ELSE Append(c, Entry(c, who, "HOLD_VOID", HoldAmount, ref, None,
                                       IF spends THEN None ELSE claim.id))
        spent == IF ~spends THEN voided
                 ELSE Append(voided, Entry(voided, who, "SPEND", claim.amount, ref,
                                           None, claim.id))
        overdrawn == Balance(spent) < 0
        exhausted == open /\ Balance(spent) <= 0 /\ OpenHolds(spent) = {}
    IN  IF ~open /\ ~spends
        THEN Append(c, Entry(c, who, "ANCHOR", 0, None, None, claim.id))
        ELSE IF overdrawn \/ exhausted THEN StageTrip(spent, who) ELSE spent

\* redeem(claim): booked and no longer pending, in one write.
Redeem(l, who) ==
    {[l EXCEPT !.chain = Settled(l.chain, who, claim), !.claims = @ \ {claim}]
        : claim \in l.claims}

Operations(l, who) ==
    {m \in Void(l, who) \cup Trip(l, who) \cup Redeem(l, who)
           \cup UNION {Authorize(l, who, key) : key \in Keys}
        : Len(m.chain) <= MaxEntries}

\* What is left by at most n operations, one after another.
Reach(l, who) ==
    LET After[n \in 0..MaxUnit] ==
            IF n = 0 THEN {l}
            ELSE After[n - 1] \cup UNION {Operations(m, who) : m \in After[n - 1]}
    IN  After

\* What one commit may carry: one operation after another, all or nothing.
Units(l, who) == Reach(l, who)[MaxUnit]

\* The claims a transaction joined by a governor may leave owed: none while
\* the breaker is latched.
Claimed(l) ==
    {[l EXCEPT !.claims = @ \cup {new}, !.owed = @ \cup {new}]
        : new \in {claim \in [id : ClaimIds, amount : ClaimAmounts,
                              hold : {None} \cup Ids(l.chain, "HOLD")] :
                     \A old \in l.owed : claim.id # old.id}}

-----------------------------------------------------------------------------
VARIABLES
    ledger,   \* [chain, claims: pending, owed: every claim committed]
    earlier,  \* the ledger before the last commit: what a lagging replica has
    cuts      \* how often the ledger was cut back

vars == <<ledger, earlier, cuts>>

Empty == [chain |-> <<>>, claims |-> {}, owed |-> {}]

Init == ledger = Empty /\ earlier = Empty /\ cuts = 0

Commit ==
    /\ \E who \in Writers : ledger' \in Units(ledger, who)
    /\ earlier' = ledger
    /\ UNCHANGED cuts

Claim ==
    /\ ~Halted(ledger.chain)
    /\ ledger' \in Claimed(ledger)
    /\ earlier' = ledger
    /\ UNCHANGED cuts

\* A failover to a replica that had not received the last commit.
CutBack ==
    /\ ledger' = earlier
    /\ cuts' = cuts + 1
    /\ UNCHANGED earlier

Next == Commit \/ Claim \/ CutBack

Spec == Init /\ [][Next]_vars

=============================================================================
