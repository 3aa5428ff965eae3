--------------------------- MODULE Reconciliation ---------------------------
(***************************************************************************)
(* Matching a provider's invoice against the ledger (reconciliation.py):   *)
(* what a governor settled, the token counts its journal kept, the lines a *)
(* provider billed, and the report reconcile() makes of them.              *)
(*                                                                         *)
(* Amounts and drifts are integers: a drift is in hundredths of a percent, *)
(* rounded down, and a second of distance weighs 100 of them, as in the    *)
(* score of the code.                                                      *)
(***************************************************************************)
EXTENDS Integers, Sequences, FiniteSets, FiniteSetsExt

CONSTANTS
    Models,          \* models by normalised name
    Variants,        \* pairs one of which is a prefix of the other
    Price,           \* the rate card: a price per token, of some models
    Tokens,          \* sizes of calls
    MaxTime,         \* bound: the billing window, in seconds
    MaxSettled,      \* bound: governed calls
    MaxLines,        \* bound: billed lines
    TimeTolerance,   \* seconds
    TokenTolerance,  \* hundredths of a percent
    CostTolerance

Unknown == "unknown"

\* The rate card gives a price to models, and the bounds and tolerances are numbers.
ASSUME ReconciliationAssumption ==
    /\ Unknown \notin Models
    /\ Variants \subseteq SUBSET Models
    /\ DOMAIN Price \subseteq Models /\ Price \in [DOMAIN Price -> Nat]
    /\ Tokens \subseteq Nat
    /\ {MaxTime, MaxSettled, MaxLines, TimeTolerance, TokenTolerance, CostTolerance} \subseteq Nat

VARIABLES
    spends,   \* the SPEND entries, oldest first, with what was spent on
    journal,  \* the transactions this process's journal holds
    saved,    \* those of the journal file
    invoice   \* the billed lines; of is the call a line is for, 0 if none governed

bookVars == <<spends, journal, saved, invoice>>

Calls == [time : 0..MaxTime, model : DOMAIN Price, tokens : Tokens]

Cost(model, tokens) == Price[model] * tokens

-----------------------------------------------------------------------------
(* What happens before an audit.                                           *)

\* A governed call settles, at its price; the journal records it, unless
\* whoever made the call does not (MeteringJournal.record).
Settle ==
    /\ Len(spends) < MaxSettled
    /\ \E call \in Calls :
         /\ spends # <<>> => call.time >= spends[Len(spends)].time
         /\ spends' = Append(spends, [time |-> call.time, model |-> call.model,
                                      tokens |-> call.tokens,
                                      cost |-> Cost(call.model, call.tokens)])
    /\ journal' \in {journal, journal \cup {Len(spends')}}
    /\ UNCHANGED <<saved, invoice>>

\* save() writes the whole journal over the file.
Save ==
    /\ saved' = journal
    /\ UNCHANGED <<spends, journal, invoice>>

\* The process stops inside save(), which empties the file as it opens it and
\* then writes the calls in the order they were recorded.  A line cut short is
\* one load() refuses: the next process then starts without a journal.
SaveCut ==
    \E last \in 0..Len(spends) :
        /\ saved' = {i \in journal : i <= last}
        /\ journal' \in {{}, saved'}
        /\ UNCHANGED <<spends, invoice>>

\* The process ends; the next starts with an empty journal, or load()s the file.
Restart ==
    /\ journal' \in {{}, saved}
    /\ UNCHANGED <<spends, saved, invoice>>

\* _derive_cost: a line the export does not price.
DeriveCost(model, tokens) == IF model \in DOMAIN Price THEN Cost(model, tokens) ELSE 0

\* _record_from_row: what a parser reads of a billed call.
RecordFromRow(row) ==
    [time |-> row.time, tokens |-> row.tokens, of |-> row.of, model |-> row.model,
     derived |-> row.cost = -1,
     cost |-> IF row.cost = -1 THEN DeriveCost(row.model, row.tokens) ELSE row.cost]

\* The provider bills a governed call, when it ended or within the tolerance
\* after, at its price, at twice that, or without a price.
Bill ==
    /\ Len(invoice) < MaxLines
    /\ \E i \in DOMAIN spends, lag \in 0..TimeTolerance, cost \in {1, 2, -1} :
         /\ \A n \in DOMAIN invoice : invoice[n].of # i
         /\ invoice' = Append(invoice, RecordFromRow(
                [time |-> spends[i].time + lag, model |-> spends[i].model,
                 tokens |-> spends[i].tokens, of |-> i,
                 cost |-> IF cost = -1 THEN -1 ELSE cost * spends[i].cost]))
    /\ UNCHANGED <<spends, journal, saved>>

\* It bills a call that no governor saw, of a model that may not be priced.
BillUngoverned ==
    /\ Len(invoice) < MaxLines
    /\ \E time \in 0..MaxTime, model \in Models, tokens \in Tokens :
         invoice' = Append(invoice, RecordFromRow(
            [time |-> time, model |-> model, tokens |-> tokens, of |-> 0,
             cost |-> IF model \in DOMAIN Price THEN Cost(model, tokens) ELSE -1]))
    /\ UNCHANGED <<spends, journal, saved>>

BooksInit == spends = <<>> /\ journal = {} /\ saved = {} /\ invoice = <<>>

BooksNext == Settle \/ Save \/ SaveCut \/ Restart \/ Bill \/ BillUngoverned

BooksSpec == BooksInit /\ [][BooksNext]_bookVars

-----------------------------------------------------------------------------
(* reconcile().                                                            *)

\* metered_records: the ledger has no model or tokens; the journal file has.
Metered(i) ==
    [time |-> spends[i].time, cost |-> spends[i].cost,
     model |-> IF i \in saved THEN spends[i].model ELSE Unknown,
     tokens |-> IF i \in saved THEN spends[i].tokens ELSE -1]

\* FAULT: a settlement the journal does not know agrees with no model.
ModelsAgreeNamed(a, b) == a = b \/ {a, b} \in Variants

ModelsAgree(a, b) == Unknown \in {a, b} \/ a = b \/ {a, b} \in Variants

Distance(a, b) == IF a < b THEN b - a ELSE a - b

Drift(billed, settled) ==
    CASE settled = 0 /\ billed = 0 -> 0
      [] settled = 0 /\ billed # 0 -> 10000
      [] OTHER -> (Distance(billed, settled) * 10000) \div settled

TokenDrift(line, m) == IF m.tokens = -1 THEN 0 ELSE Drift(line.tokens, m.tokens)

Plausible(line, m) ==
    /\ Distance(line.time, m.time) <= TimeTolerance
    /\ ModelsAgree(line.model, m.model)
    /\ TokenDrift(line, m) <= TokenTolerance

Score(line, m) ==
    TokenDrift(line, m) + Drift(line.cost, m.cost) + 100 * Distance(line.time, m.time)

Candidates ==
    {c \in {[line |-> n, spend |-> i, score |-> Score(invoice[n], Metered(i))] :
              n \in DOMAIN invoice, i \in DOMAIN spends} :
        Plausible(invoice[c.line], Metered(c.spend))}

\* FAULT: lines are taken in the order of the invoice.
BeforeInOrder(a, b) ==
    \/ a.line < b.line
    \/ a.line = b.line /\ a.score < b.score
    \/ a.line = b.line /\ a.score = b.score /\ a.spend < b.spend

\* The order candidates are sorted in.
Before(a, b) ==
    \/ a.score < b.score
    \/ a.score = b.score /\ a.line < b.line
    \/ a.score = b.score /\ a.line = b.line /\ a.spend < b.spend

Best(pairs) == CHOOSE a \in pairs : \A b \in pairs \ {a} : Before(a, b)

\* FAULT: a settlement may explain several lines.
RestSharing(pairs, best) == {c \in pairs : c.line # best.line}

\* What is left to choose from once the best is claimed, on both sides.
Rest(pairs, best) == {c \in pairs : c.line # best.line /\ c.spend # best.spend}

\* Best first, until none is left.
Claimed(pairs) ==
    LET claims[left \in SUBSET pairs] ==
            IF left = {} THEN {}
            ELSE {Best(left)} \cup claims[Rest(left, Best(left))]
    IN  claims[pairs]

Report ==
    LET claimed == Claimed(Candidates)
        costly == {c \in claimed :
                     Drift(invoice[c.line].cost, spends[c.spend].cost) > CostTolerance}
    IN  [matched    |-> claimed \ costly,
         discrepant |-> costly,
         phantom    |-> DOMAIN invoice \ {c.line : c \in claimed},
         unsettled  |-> DOMAIN spends \ {c.spend : c \in claimed}]

Passed(report) == report.phantom = {} /\ report.discrepant = {}

-----------------------------------------------------------------------------
(* Properties.                                                             *)

\* Spend outside the governor cannot hide behind a call that was governed:
\* once the provider has billed every settled call, an invoice with a line
\* more never passes, journal or no journal (reconcile, passed).
UngovernedSpendFound ==
    LET all == \A i \in DOMAIN spends : \E n \in DOMAIN invoice : invoice[n].of = i
        ungoverned == \E n \in DOMAIN invoice : invoice[n].of = 0
    IN  all /\ ungoverned => ~Passed(Report)

\* An honest invoice passes, however much of the journal was lost: lines at
\* the settled price, or priced from the card, each within the tolerance after
\* its call, of calls more than twice the tolerance apart.
HonestInvoicePasses ==
    LET honest == \A n \in DOMAIN invoice :
                    invoice[n].of # 0 /\ invoice[n].cost = spends[invoice[n].of].cost
        apart == \A i, j \in DOMAIN spends :
                   i # j => Distance(spends[i].time, spends[j].time) > 2 * TimeTolerance
    IN  honest /\ apart => Passed(Report)

\* The matching is stable: no line and settlement that could be the same call
\* fit better together than with what the report pairs each with; so a
\* phantom line is one whose every settlement explains another line better
\* (reconcile: "assigned greedily best-first and one-to-one").
NoBetterPair ==
    LET claimed == Report.matched \cup Report.discrepant
    IN  \A c \in Candidates :
            \E d \in claimed : (d.line = c.line \/ d.spend = c.spend) /\ d.score <= c.score

=============================================================================
