----------------------------- MODULE ChainRules -----------------------------
(***************************************************************************)
(* The rule engine of src/agentgov/core.py: _Overlay stages entries over a *)
(* _ChainState, refuses the ones that break a rule, and merges the rest.   *)
(* A unit of work, a replay, a catch-up and an open all go through it.     *)
(*                                                                         *)
(* An entry's id is its sequence number, its transaction the sequence of   *)
(* its first line.  Hashes, timestamps and texts are left out: what they   *)
(* add is that an entry read is the entry written.                         *)
(***************************************************************************)
EXTENDS Integers, Sequences, FiniteSetsExt, SequencesExt, TLC

CONSTANTS
    Scopes,         \* scopes entries may name
    None,           \* no scope
    Amounts         \* amounts of money

ASSUME RulesAssumption == None \notin Scopes /\ Amounts \subseteq Nat \ {0}

----------------------------------------------------------------------------
(* Entries *)

ZeroValue == {"TRIPPED", "RESET", "ANCHOR", "SEAL", "CHECKPOINT"}
Balanced  == {"ALLOCATION", "RELEASE"}
Scopeless == {"SEAL", "CHECKPOINT"}
Control   == {"TRIPPED", "RESET"}

LegalDirections(type) ==
    CASE type \in {"FUNDING", "HOLD_VOID", "REVERSAL"} -> {"CREDIT"}
      [] type \in {"HOLD", "SPEND"}                    -> {"DEBIT"}
      [] type \in Balanced                             -> {"CREDIT", "DEBIT"}
      [] type \in ZeroValue                            -> {"NONE"}

Referencing(ver) == {"HOLD_VOID", "SPEND"} \cup (IF ver = 3 THEN {"REVERSAL"} ELSE {})

Signed(e) == CASE e.dir = "CREDIT" -> e.amt [] e.dir = "DEBIT" -> -e.amt [] OTHER -> 0

\* The keys of either, the top one's value first: {**below, **top}.
Over(top, below) ==
    [k \in DOMAIN top \cup DOMAIN below |-> IF k \in DOMAIN top THEN top[k] ELSE below[k]]

Put(f, k, x) == [j \in DOMAIN f \cup {k} |-> IF j = k THEN x ELSE f[j]]

\* Without the keys whose value says there is nothing to keep.
Without(f, nothing) == [k \in {j \in DOMAIN f : f[j] # nothing} |-> f[k]]

----------------------------------------------------------------------------
(* The state, and a view staged over it *)

Empty(events) ==
    [bal |-> <<>>, funded |-> 0, spentAll |-> 0, reversed |-> 0, held |-> 0, len |-> 0,
     holds |-> {}, ambiguous |-> {}, sawV1 |-> FALSE, sawV2 |-> FALSE, sawV3 |-> FALSE,
     seal |-> FALSE, nodes |-> <<>>, tripped |-> <<>>, legacy |-> events,
     legacyApplied |-> FALSE, spent |-> <<>>, refunded |-> <<>>, counts |-> <<>>,
     spendRefunds |-> <<>>, checkpoint |-> 0]

\* What a view carries whole, and what it stages over its base.
Whole == {"funded", "spentAll", "reversed", "held", "len", "sawV1", "sawV2", "sawV3",
          "seal", "legacy", "legacyApplied", "checkpoint"}

\* keeps: the store answers for history, so the state remembers no refunds.
Overlay(base, keeps) ==
    Over([f \in Whole |-> base[f]],
         [base |-> base, keeps |-> keeps, bal |-> <<>>, opened |-> {}, closed |-> {},
          ambiguous |-> {}, nodes |-> <<>>, children |-> <<>>, rowScopes |-> {},
          tripped |-> <<>>, events |-> {}, spent |-> <<>>, refunded |-> <<>>,
          counts |-> <<>>, spendRefunds |-> <<>>, txn |-> 0, settleable |-> {}, net |-> 0])

\* Staged first, then the base.
Look(v, f, k, default) ==
    IF k \in DOMAIN v[f] THEN v[f][k]
    ELSE IF k \in DOMAIN v.base[f] THEN v.base[f][k] ELSE default

Balance(v, s)   == Look(v, "bal", s, 0)
Known(v, s)     == s \in DOMAIN v.nodes \cup DOMAIN v.base.nodes
Node(v, s)      == Look(v, "nodes", s, None)
OpenHolds(v)    == {h \in v.base.holds : h.id \notin v.closed} \cup v.opened
Ambiguous(v, k) == k \in v.ambiguous \cup v.base.ambiguous
Key(h)          == <<h.scope, h.amt>>

\* What the first n entries refund of a spend.
RefundsIn(entries, n, spend) ==
    SumFunctionOnSet([i \in DOMAIN entries |-> entries[i].amt],
                     {i \in 1..n : entries[i].type = "REVERSAL" /\ entries[i].ref = spend})

\* What refunds have returned of a spend: staged here, or before this view, as
\* the store's entries say or as the state remembers.
RefundedOf(v, spend, entries) ==
    IF spend \in DOMAIN v.spendRefunds THEN v.spendRefunds[spend]
    ELSE IF v.keeps THEN RefundsIn(entries, v.base.len, spend)
    ELSE Look(v, "spendRefunds", spend, 0)

----------------------------------------------------------------------------
(* The rules: what apply() checks *)

CheckVersion(v, e) ==
    /\ e.ver = 1 => ~v.sawV2 /\ e.ref = 0 /\ e.type \notin ZeroValue
    /\ e.ver # 1 /\ v.sawV1 /\ ~v.sawV2 => e.type = "SEAL"
    /\ e.ver = 2 => ~v.sawV3

CheckShape(v, e) ==
    /\ e.dir \in LegalDirections(e.type)
    /\ IF e.type \in ZeroValue THEN e.amt = 0 ELSE e.amt > 0
    /\ e.type \in Scopeless <=> e.scope = None
    /\ e.type = "CHECKPOINT" => e.ver = 3 /\ e.memo[1] < e.seq /\ e.memo[1] > v.checkpoint
    /\ e.type = "SEAL" => ~v.seal /\ v.sawV1

\* The transaction before this entry's has ended: its transfers net to zero.
CheckTransaction(v, e) == e.txn # v.txn => v.net = 0

CheckBalance(v, e) == e.bal = Balance(v, e.scope) + Signed(e)

\* Holds a spend in this entry's transaction may settle.
Settleable(v, e) == IF e.txn = v.txn THEN v.settleable ELSE {}

CheckHolds(v, e, entries) ==
    /\ e.ref # 0 => e.type \in Referencing(e.ver)
    /\ e.type = "HOLD_VOID" =>
         \E h \in OpenHolds(v) : Key(h) = Key(e) /\ (e.ver # 1 => h.id = e.ref)
    /\ e.type = "SPEND" /\ e.ref # 0 => e.ref \in Settleable(v, e)
    /\ e.type = "REVERSAL" /\ e.ref # 0 =>
         \E s \in Range(entries) :
            /\ s.seq = e.ref /\ s.type = "SPEND" /\ s.scope = e.scope
            /\ RefundedOf(v, e.ref, entries) + e.amt <= s.amt

CheckFlows(v, e, writing) ==
    e.type = "REVERSAL" /\ (writing \/ e.ver = 3) =>
        Look(v, "refunded", e.scope, 0) + e.amt <= Look(v, "spent", e.scope, 0)

\* The first entry written from v0.1.2 on folds the legacy events in.
FoldsLegacy(v, e) == e.ver # 1 /\ ~v.legacyApplied

CheckGovernance(v, e) ==
    /\ FoldsLegacy(v, e) =>
         /\ IF e.type = "SEAL" THEN e.memo = v.legacy ELSE v.legacy = <<>>
         /\ \A i \in DOMAIN v.legacy : Known(v, v.legacy[i].scope)
    /\ e.type = "FUNDING" => ~Known(v, e.scope) \/ Node(v, e.scope).parent = None
    /\ e.type = "ALLOCATION" =>
         IF e.dir = "DEBIT" THEN Known(v, e.scope) ELSE ~Known(v, e.scope) /\ Known(v, e.cpty)
    /\ e.type = "RELEASE" =>
         LET child  == IF e.dir = "DEBIT" THEN e.scope ELSE e.cpty
             parent == IF e.dir = "DEBIT" THEN e.cpty ELSE e.scope
         IN Known(v, e.scope) /\ Known(v, child) /\ Node(v, child).parent = parent
    /\ e.type \notin {"FUNDING", "ALLOCATION", "RELEASE"} \cup Scopeless => Known(v, e.scope)

Accepts(v, e, entries, writing) ==
    /\ e.seq = v.len + 1
    /\ CheckVersion(v, e) /\ CheckShape(v, e) /\ CheckTransaction(v, e) /\ CheckBalance(v, e)
    /\ CheckHolds(v, e, entries) /\ CheckFlows(v, e, writing) /\ CheckGovernance(v, e)

----------------------------------------------------------------------------
(* What apply() folds in *)

FoldPosition(v, e) ==
    [v EXCEPT !.len = e.seq,
              !.sawV1 = @ \/ e.ver = 1, !.sawV2 = @ \/ e.ver # 1, !.sawV3 = @ \/ e.ver = 3,
              !.seal = @ \/ e.type = "SEAL",
              !.checkpoint = IF e.type = "CHECKPOINT" THEN e.memo[1] ELSE @,
              !.net = @ + (IF e.type \in Balanced THEN Signed(e) ELSE 0)]

FoldMoney(v, e) ==
    [v EXCEPT
       !.bal = IF e.type \in ZeroValue THEN @ ELSE Put(@, e.scope, e.bal),
       !.funded   = @ + (IF e.type = "FUNDING" THEN e.amt ELSE 0),
       !.spentAll = @ + (IF e.type = "SPEND" THEN e.amt ELSE 0),
       !.reversed = @ + (IF e.type = "REVERSAL" THEN e.amt ELSE 0),
       !.held = @ + (CASE e.type = "HOLD" -> e.amt [] e.type = "HOLD_VOID" -> -e.amt
                       [] OTHER -> 0),
       !.spent = IF e.type = "SPEND"
                   THEN Put(@, e.scope, Look(v, "spent", e.scope, 0) + e.amt) ELSE @,
       !.refunded = IF e.type = "REVERSAL"
                      THEN Put(@, e.scope, Look(v, "refunded", e.scope, 0) + e.amt) ELSE @]

\* The hold a release closes: the one it names, or the oldest of its key.
Closing(v, e) ==
    LET match == {h \in OpenHolds(v) : Key(h) = Key(e) /\ (e.ver # 1 => h.id = e.ref)}
    IN CHOOSE h \in match : \A g \in match : h.id <= g.id

FoldHolds(v, e, entries) ==
    LET count(n) == Put(v.counts, e.scope, Look(v, "counts", e.scope, 0) + n) IN
    CASE e.type = "HOLD" ->
           [v EXCEPT !.opened = @ \cup {[id |-> e.seq, scope |-> e.scope, amt |-> e.amt]},
                     !.counts = count(1)]
      [] e.type = "HOLD_VOID" ->
           LET h == Closing(v, e) IN
           [v EXCEPT !.opened = @ \ {h},
                     !.closed = IF h \in v.opened THEN @ ELSE @ \cup {h.id},
                     !.counts = count(-1),
                     !.ambiguous = IF e.ver = 1 THEN @ \cup {Key(e)} ELSE @,
                     !.settleable = IF e.ver = 1 THEN @ ELSE @ \cup {h.id}]
      [] e.type = "REVERSAL" /\ e.ref # 0 ->
           [v EXCEPT !.spendRefunds = Put(@, e.ref, RefundedOf(v, e.ref, entries) + e.amt)]
      [] OTHER -> v

\* Trips and resets over what is staged: the last one of a scope counts.
Tripping(tripped, events) ==
    LET of(s) == {i \in DOMAIN events : events[i].scope = s}
    IN [s \in DOMAIN tripped \cup {events[i].scope : i \in DOMAIN events} |->
          IF of(s) = {} THEN tripped[s] ELSE events[Max(of(s))].type]

FoldGovernance(v, e) ==
    LET control == IF e.type \in Control THEN <<[type |-> e.type, scope |-> e.scope]>> ELSE <<>>
        folded  == IF FoldsLegacy(v, e) THEN v.legacy ELSE <<>>
        created == [parent |-> e.cpty, amt |-> e.amt, children |-> {},
                    depth |-> IF e.cpty = None THEN 0 ELSE Node(v, e.cpty).depth + 1]
        creates == e.type \in {"FUNDING", "ALLOCATION"} /\ e.dir = "CREDIT"
    IN
    [v EXCEPT
       !.legacyApplied = @ \/ FoldsLegacy(v, e),
       !.tripped = Tripping(@, folded \o control),
       !.events = IF e.type \in Control THEN @ \cup {e.seq} ELSE @,
       !.nodes = IF ~creates THEN @
                 ELSE IF ~Known(v, e.scope) THEN Put(@, e.scope, created)
                 ELSE Put(@, e.scope, [Node(v, e.scope) EXCEPT !.amt = @ + e.amt]),
       !.rowScopes = IF creates THEN @ \cup {e.scope} ELSE @,
       !.children = IF creates /\ e.type = "ALLOCATION"
                      THEN Put(@, e.cpty, {e.scope} \cup
                               (IF e.cpty \in DOMAIN v.children THEN v.children[e.cpty] ELSE {}))
                      ELSE @]

BeginTransaction(v, e) == [v EXCEPT !.settleable = Settleable(v, e), !.txn = e.txn]

Fold(v, e, entries) ==
    FoldPosition(FoldGovernance(FoldMoney(FoldHolds(BeginTransaction(v, e), e, entries), e), e), e)

\* One more entry: taken, unless it or one before it was refused.
Take(last, e, entries, writing) ==
    IF last.ok /\ Accepts(last.view, e, entries, writing)
      THEN [ok |-> TRUE, view |-> Fold(last.view, e, entries)]
      ELSE [ok |-> FALSE, view |-> last.view]

\* The view after each entry, and whether all up to there were accepted.
Staged(v, new, entries, writing) ==
    LET after[n \in 0..Len(new)] ==
          IF n = 0 THEN [ok |-> TRUE, view |-> v]
          ELSE Take(after[n - 1], new[n], entries, writing)
    IN after

Apply(v, new, entries, writing) == Staged(v, new, entries, writing)[Len(new)]

EndTransaction(v) == [v EXCEPT !.txn = 0, !.settleable = {}]

\* A node already there keeps its place: only its allocation, and its new
\* children, change.
MergedNodes(v) ==
    LET added(s)  == IF s \in DOMAIN v.children THEN v.children[s] ELSE {}
        before(s) == IF s \in DOMAIN v.base.nodes THEN v.base.nodes[s] ELSE v.nodes[s]
    IN [s \in DOMAIN v.nodes \cup DOMAIN v.base.nodes |->
          [before(s) EXCEPT !.amt = Node(v, s).amt, !.children = @ \cup added(s)]]

\* The view's own fields whole, and what it stages over its base's; holds are
\* the ones left open.
Folded(v, holds) ==
    Over([f \in Whole |-> v[f]],
         [bal |-> Over(v.bal, v.base.bal),
          holds |-> holds,
          ambiguous |-> v.base.ambiguous \cup v.ambiguous,
          nodes |-> MergedNodes(v),
          tripped |-> Without(Over(v.tripped, v.base.tripped), "RESET"),
          spent |-> Over(v.spent, v.base.spent),
          refunded |-> Over(v.refunded, v.base.refunded),
          counts |-> Without(Over(v.counts, v.base.counts), 0),
          spendRefunds |-> IF v.keeps THEN v.base.spendRefunds
                           ELSE Over(v.spendRefunds, v.base.spendRefunds)])

\* Fault: a hold released in this view stays in the state below.
MergeKeepingClosed(v) == Folded(v, v.base.holds \cup v.opened)

\* Fold every verified change into the state below.
Merge(v) == Folded(v, OpenHolds(v))

\* _replay: one view over nothing.  Named spends are found anywhere in the chain.
Replay(entries, legacy, keeps) ==
    Apply(Overlay(Empty(legacy), keeps), entries, entries, FALSE)

Replays(entries, legacy) ==
    LET end == Replay(entries, legacy, FALSE) IN end.ok /\ end.view.net = 0

StateOf(entries, legacy, keeps) == Merge(EndTransaction(Replay(entries, legacy, keeps).view))

----------------------------------------------------------------------------
(* Transactions a caller posts *)

Line(type, dir, s, cpty, amt, ref, memo) ==
    [type |-> type, dir |-> dir, scope |-> s, cpty |-> cpty, amt |-> amt, ref |-> ref,
     memo |-> memo]

\* What the governor's operations, and tools over Ledger._post, may ask for, of
\* the kinds named.  refs are entries that may be named.
Transactions(kinds, refs) ==
    (UNION {{<<Line(type, dir, s, None, a, 0, <<>>)>> : dir \in LegalDirections(type)} :
              type \in kinds \cap {"FUNDING", "HOLD", "SPEND", "REVERSAL"},
              s \in Scopes, a \in Amounts})
    \cup
    (UNION {{<<Line(type, "DEBIT", s, t, a, 0, <<>>), Line(type, "CREDIT", t, s, a, 0, <<>>)>>,
             <<Line(type, "CREDIT", t, s, a, 0, <<>>)>>} :
              type \in kinds \cap Balanced, s \in Scopes, t \in Scopes, a \in Amounts})
    \cup
    (UNION {{<<Line("HOLD_VOID", "CREDIT", s, None, a, r, <<>>)>>,
             <<Line("HOLD_VOID", "CREDIT", s, None, a, r, <<>>),
               Line("SPEND", "DEBIT", s, None, a, r, <<>>)>>} :
              s \in IF "HOLD_VOID" \in kinds THEN Scopes ELSE {}, a \in Amounts, r \in refs})
    \cup
    {<<Line("REVERSAL", "CREDIT", s, None, a, r, <<>>)>> :
             s \in IF "REVERSAL" \in kinds THEN Scopes ELSE {}, a \in Amounts, r \in refs}
    \cup
    {<<Line(type, "NONE", s, None, 0, 0, <<>>)>> :
             type \in kinds \cap (Control \cup {"ANCHOR"}), s \in Scopes}

\* The entries post() builds: the next sequences, and balances run forward.
Build(v, lines, ver) ==
    [i \in DOMAIN lines |->
       [type |-> lines[i].type, dir |-> lines[i].dir, scope |-> lines[i].scope,
        cpty |-> lines[i].cpty, amt |-> lines[i].amt, ref |-> lines[i].ref,
        memo |-> lines[i].memo, seq |-> v.len + i, txn |-> v.len + 1, ver |-> ver,
        bal |-> Balance(v, lines[i].scope) +
                SumFunctionOnSet([j \in DOMAIN lines |-> Signed(lines[j])],
                                 {j \in 1..i : lines[j].scope = lines[i].scope})]]

\* Fault: the transfers of a transaction need not balance.
PostUnbalanced(v, lines, entries) ==
    LET built == Build(v, lines, 3)
        end == Apply(v, built, entries, TRUE)
    IN [ok |-> end.ok, view |-> [EndTransaction(end.view) EXCEPT !.net = 0], built |-> built]

\* post(): one transaction, held to every rule before anything is durable.
Posted(v, lines, entries) ==
    LET built == Build(v, lines, 3)
        end == Apply(v, built, entries, TRUE)
    IN [ok |-> end.ok /\ end.view.net = 0, view |-> EndTransaction(end.view), built |-> built]

=============================================================================
