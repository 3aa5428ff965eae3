# AgentGov in TLA+

A specification of AgentGov (`src/agentgov`): its spend governor, the ledgers it
keeps, and what stands round them. It is model-checked with TLC on small
instances and proved with TLAPS where that is possible. Line numbers below are
of `src/agentgov/core.py` unless another file is named.

## Inventory

| Component | State it keeps | Operations | What makes it correct | Module |
|---|---|---|---|---|
| Budget operations (`BudgetManager`) | tree, balances, open holds, lifetime spend and refunds, totals, latched breakers; the process's call windows | `open_root fund delegate release authorize try_authorize capture void spend refund trip reset void_stale anchor` | money is conserved; a subtree never commands more than it was granted; a hold settles once; a halted subtree commits nothing new | `Governor` |
| Group commit (`_submit`, `_lead`) | a queue of requests, a leading flag, one wake lock per request | queue, lead, run a batch in one unit of work, hand the lead on | answers agree with the database; nobody else's work runs inside the section of a caller that holds the lock; every caller is answered | `GroupCommit` |
| Transactions and keys (`transaction`, `_retrip`, `_called`) | trips made in the block; calls recorded under keys | run a block in one transaction; roll back; latch again; replay an answer | all or nothing, but a breaker trip survives; a retry writes nothing | `Transactions` |
| Chain rules (`_Overlay`, `_ChainState`, `_replay`) | the state the entries imply | stage, apply, merge, replay | what a write may commit is what a replay accepts | `ChainRules` |
| Checkpoints and opening (`checkpoint`, `_restore_from_store`, `opening.py`) | snapshots by sequence, cache rows | write, open from one, reconcile authorization rows, seal old history | opening from a snapshot gives what a full replay gives | `Opening` |
| Shared ledger (`_mutating`, `_catch_up`, `_recover`, `postgres.py`) | the fleet's writer lock; each governor's view, possibly dirty | lock, catch up, write, commit; claims, `joined`, `redeem` | governors together behave as one; no claim is booked twice | `Fleet`, `SharedLedger` |
| SQLite store (`storage.py`) | one transaction at a time, snapshots, marks | `unit`, `commit`, `idempotency`, `put_snapshot`, `rebuild_caches` | a unit is durable whole or not at all, and a failed write fails it | in the above |
| Auditor (`audit.py`) | marks and failures in the database | replay in chunks from the newest mark, check snapshots, record marks | what is marked verified was replayed; damage is found | `Audit` |
| Cognitive breaker (`cognitive.py`) | ring buffers, a bounded queue, a latched verdict | observe, record a result, asynchronous verdict, close | no loop the policy names goes on; a verdict stops every call until a reset or an eviction | `CognitiveBreaker` |
| Interceptor, proxy (`interceptor.py`, `proxy.py`) | the hold of a call in flight | authorize, call, capture or void | every hold is resolved | `MeteredCalls` |
| Metered streams (`streaming.py`) | usage seen so far | accumulate, resolve | charged once, what was observed | `MeteredCalls` |
| Asyncio bridge (`_aio.py`) | a call running off the loop | run, cancel, undo | a cancelled call is undone once it has completed | `MeteredCalls` |
| Adapters (`adapters/`) | holds by run id; a crew's watermark | callbacks of the frameworks, crews, any agent | as the interceptor; no token charged twice or not at all | `Adapters` |
| Receipts (`receipts/`) | an append-only log, its index and Merkle tree, checkpoints, key transitions, witness statements | issue, append, publish, rotate, reopen, prove, witness, verify | what was issued stays and can be proved; the log reopens | `ReceiptLog`, `Merkle` |
| Reconciliation (`reconciliation.py`) | a metering journal | match invoice lines with spends | ungoverned spend is found, honest invoices pass | `Reconciliation` |
| Signing and encoding; command line, metrics, fakes, exceptions | none of their own | | | not modelled |

Every mutation of a governor runs under its lock. A governor over a store puts
its callers through group commit: several operations share one transaction. A
governor of a shared ledger holds the fleet's writer lock round that
transaction. The interceptor, the streams and the adapters call the budget
operations with no lock held while the model call is in flight. The auditor
reads the same database, the cognitive breaker trips the governor's breakers
from its own threads, and the receipt log and the reconciliation take entries
as they were committed.

The hard behaviours are: what one caller does between another's survey and its
act (`void_stale`); a settlement above its hold; the lead of the queue passing
between threads; a unit of work that fails after its requests have returned; a
trip made inside a transaction that rolls back; a commit whose answer is lost; a
session ended under its owner; views that lag the chain or are ahead of it; a
crash between a snapshot and its entry; auditors that build on each other's
marks; positions of a log taken back while others sign for them; runs of one
crew that settle in any order. `PROJECT.json` lists them under `hazards`, each
at its line, those no property covers included.

## Plan

Built: `Governor`, `GroupCommit`, `Transactions`, `ChainRules`
and `Opening`, `SharedLedger` and `Fleet` (which implements it), `Audit`,
`CognitiveBreaker`, `MeteredCalls` and `Adapters`, `Merkle` and `ReceiptLog`,
`Reconciliation`.

Proved: `Governor`, `GroupCommit`, `Transactions`, `Opening`, `Fleet` with its
refinement, `Audit`, `CognitiveBreaker`, `MeteredCalls`, `Adapters`,
`ReceiptLog` and `Reconciliation` (see Proofs).

To prove next, in the modules there are: that a mark and a record of a key are
never taken back once committed, as action properties of `Audit` and
`Transactions`; that the lead of the queue is held once.

To model, if it is worth the states: the fleet's call windows, `reset` in the
fleet, the row disclosures and attestations of receipts, `reconcile_actions`.

## Modules

**`Governor`**: one governor, each operation one step, as its lock makes it.

- Amounts are whole quanta. A caller's amount comes in `PARTS` to the quantum;
  `Cost` rounds it up and `Credit` down, as `_cost` and `_credit` do. Upper
  limits on amounts and the decimal context are left out.
- A hold is named by the id of its HOLD entry, which is how the chain names it;
  `holds[h]` keeps its status, its scope and amount, and the cost and the
  refunds of the spend that settled it. A hold id is used once.
- `holdCount`, `spent`, `refunded` and the four totals are variables because
  the code keeps them incrementally (`_ChainState`, `_Totals`); that they agree
  with the holds is `CachesMatchHolds`.
- A call that raises and writes nothing is a disabled action. A call that
  raises having written (a refused overdraft, a runaway, a settlement that
  overdraws) is an action. A retried trip or reset that changes nothing, and
  `anchor()`, which adds an entry no property reads, are left out.
- `Trip` and the trips of refusals are monotone in `tripped`; `Reset` also
  empties the scope's call window. `Halted` walks up `parent` as `_halted_by`.
- `void_stale` is two actions. A governor with no store runs it without group
  commit, taking its lock for the survey and again for each release: anything
  may happen between. With group commit it runs in one go, a special case. One
  sweep at a time is modelled.
- `Recorded` is `call_times` by clock value. `fleet_velocity` is not modelled.

**`GroupCommit`**: `_submit` and `_lead` step by step, one thread to a request.
The steps are the code's: queueing under the queue lock, waiting on the wake
lock, taking the governor's lock, beginning the unit, draining the queue,
running each request, committing, settling all, handing the lead over under the
queue lock and only then waking the successor. A request's work is its result:
`value` (wrote, returned), `denied` (wrote, raised), `refused` (raised, wrote
nothing), `storage error` (its write failed, so the unit can only roll back).
`memory` is the requests the governor's view contains, `durable` those the
database does. A unit may fail to begin, while a request runs, or at its
commit; the view is then read again, or closed for good when it cannot be.
A caller may hold the governor's lock round several calls (`ledger.lock`: `HoldLock`,
`RunAlone`, `Unlock`). The lock is re-entrant, and `Owned` is the test by which such
a caller neither queues nor leads. `checked` is the view it saw when it took the
lock, less its own call, so that a property can say what it may rely on until
it lets go.

**`Transactions`**: what is durable, what the view holds and what callers were
told, over the life of units of work. `mode` says what the governor's lock is
held for: a `transaction()` block, a unit the leader runs (which `GroupCommit`
takes apart), a bare call (no store, or a caller that holds `ledger.lock`), the
writing of a failed block's trips (`retrip`), or nothing. `view` and `keys` are
what the governor and its connection see, `disk` and `diskKeys` what is
committed; inside a block or a unit over SQLite they drift apart (`Deferred`)
and `Succeed` or `RollBack` brings them together. `durable` says whether there
is a store: with none there is only `view`, and `RollBack` is `Ledger._rewind`.
`keyCache` and `unitCalls` are the two dictionaries `_called` consults before
the store. An entry is its kind, its scope, the hold it settles and, so that
properties can speak of it, the call that wrote it. `given` is the answers
callers can rely on: those of a bare call at once, the others when their unit
commits. Amounts are left out, so whether a scope can pay, overruns or is spent
out is a choice; whether it is halted is not. Any write, commit or re-read may
fail over a store, and the process may crash between any two steps. `spend` is
two steps because it is two writes.

**`ChainRules`**: operators only. `Overlay` is a view staged over a state; the
rules of `_Overlay` accept or refuse the next entry of a view by its version,
type, direction, transaction and reference, fold it in, and merge the view into
its base; a replay takes the entries of a chain one by one under the same rules
(`Take`, `Staged`), over nothing. A map staged over another is `Over`, the
code's lookup in the view and then in its base, and what `merge` pops is
`Without`. The three entry versions differ in what a release or a refund must name. Hashes, timestamps and
texts are left out: an entry is known by its sequence, so what the hash chain
adds (that an entry read is the one written) is assumed. On replay the code
resolves a refund's spend among entries already read and when writing among
those of the store; the first accepts whatever the second does, and only that
direction matters for `WritesReplay`.

**`Opening`** extends it with a store and a governor over it: `unit` is the
unit of work being built, entry by entry, `rows` the cache tables written with
it, `making` a checkpoint between its snapshot and its entry, `legacy` the
breaker events that governors before 0.1.2 kept outside the chain. `OldWrite`
and `OldEvent` are what earlier versions write while nobody of this one is
there: a 0.1.1 governor may crash before its rows, and releases a row of the
hold's scope and amount, whichever that is. Opening reconciles or rebuilds the
rows, applies the legacy events and seals. `StandsIn` and `Under` say which row
serves which hold: its own, and where unnamed releases left that open, the one
of the same rank among the rows whose hold is gone.
`keeps` is whether the store answers for history, which decides what the state
remembers of refunds. Version 2 histories are those with no version 1 before
them. A crash is possible between any two steps. Tampered stores are not
modelled here (`Audit` has damage).

**`SharedLedger`** is what a ledger shared through PostgreSQL promises: a chain
and a set of claims, to which whole units of work are applied one at a time,
each decided on exactly the ledger it is applied to. A failover restores an
earlier ledger.

**`Fleet`** is the mechanism: governors with views, the advisory writer lock, a
session with its catch-up, its staged writes and its COMMIT, whose answer may be
lost; a server that ends an idle session and gives its lock away; a governor
that dies; a caller's own transaction joined to a governor, which takes the lock
to leave a settlement claim; claims redeemed by whoever sees them. It implements
`SharedLedger` under `ledger <- db, earlier <- replica, cuts <- failovers`, with
the pair of a governor and a failover count as writer, so that no two entries
that may differ in the code are equal in the model (run `fleet`, property
`SerialLedger`). The read before the lock is `Refresh`; a failed statement and
an abandoned session both end rolled back; `_recover` is part of the end of a
session. Budgets are one scope; a governor that stops does so without its reason
(rolled back, rewritten). `reset` and `fleet_velocity` are left out.

**`Audit`**: the chain is its length and the sequences whose entry does not
verify. `run` is an auditor's run, at the head it read, from the mark it chose,
chunk by chunk; entries may be appended, damaged and restored meanwhile, and
marks may fail to be written. `replayed` is a history variable. The governor
opens unless the newest mark is a failure, and its own auditor stops it.

**`CognitiveBreaker`**: `observe()` is one step under the mutex and one for what
it does after releasing it (hand the window to the lane, trip the financial
breaker). The ring buffers, the comparison window, the LRU of trajectories and
the queue have their bounds as constants. The semantic observer may answer
anything or raise. A comparison window of 0 is the whole history (`history[-0:]`,
`Reach`). The lane judges a window as it was when it was queued; its trajectory may
have gone on, or been reset, since. `judged` is a history variable: the
trajectories on which a verdict stands. A call is its tool and a variant: canonical arguments are
equality of both, near duplicates equality of the tool.

**`MeteredCalls`**: one hold and the call it is for, from the caller's side.
`kind` is how the call is made: a `SpendGuard` block, `invoke`, `ainvoke`, a
`MeteredStream`, an `AsyncMeteredStream`, or `AsyncBudgetManager.authorize`
without and with a key. `pc` is where its thread or task is. The governor is
reduced to what it does to this hold: it places it or refuses, settles it while
it is open, raises once it is settled, and fails with the store (`Faults`); a
sweep may take the hold from under a running call. `produced` is what the
provider has billed, `usage` what it has reported so far: an event reports some
fields, or none, of the counts so far. One token costs one unit, since costs
round up and only their order and equality matter. A cancellation may come at any
await: at a governor's call, which `_run` sees through first, or at the
provider's, where it raises. `resolve()` is three steps because nothing makes
its test and its setting of the flag one, and with `Closers` another task or
thread may be in it too. `broke` is a history variable.

**`Adapters`** adds the calls made through a framework and is the module that is
run: a callback handler whose runs end, fail, or never report their end and are
released together; the runs of one `GovernedCrew`, which are charged what its
counters gained since the last of them settled; `govern_agent`. A run may
overlap another of the same handler or crew. Costs of a crew's runs are
additive: the rounding of each delta is left out.

**`Merkle`**: the RFC 9162 tree, its proofs and their verifiers, and the frontier
of the ledger's checkpoints. A hash is the term it is the hash of.

**`ReceiptLog`**: the log and its three side files; a caller's reservation,
signature, delivery, the batch that whoever is first writes for all, the index
behind it; positions taken back after a failure; `append()` of foreign receipts;
the publisher and rotation with their steps under the publish lock; close,
crash and reopening; the witness's checks and its cosignatures; and `VerifyBundle`,
with the witness's record or without. `published` is a history variable: the
checkpoints `publish()` has returned, which are those the witness accepted. A signature is
the key it was made with; a torn last line is one never written. The tree is a
parameter (`TreeRoot`, `TreeInclusionProof` and the others): the log
relies on no more of it than `TreeProves`. `MCReceiptLog` gives it `Merkle`'s.

**`Reconciliation`**: calls are settled, journalled, saved, cut short in the saving
or lost, and billed;
the report is an operator of what there is, the greedy loop in it a recursive
function of the pairs left. Drifts are in hundredths of a percent, rounded down.

**`MCGovernor`**, **`MCFleet`**, **`MCTransactions`** and **`MCReceiptLog`** give
TLC symmetry sets, of ids the modules never order. **`MCReceiptLog`** also
assumes, and so has TLC evaluate, what the Merkle operators promise: in
trees of one to nine leaves an inclusion proof proves its own leaf at its own
index and no other, a consistency proof its own prefix and no other, and the
frontier has the root of the definition; and that the tree of `Merkle` is one
the log may be given (`TheTreeProves`). **`MCOpening`**
and **`MCAdapters`** define which workloads and which calls come together,
**`MCCognitiveBreaker`** and **`MCReconciliation`** calls, models and prices.

**`FiniteSums`** holds lemmas about `SumFunctionOnSet` of the community module
`Functions`: that it is an integer, what removing, changing and transferring
between terms does to it, and that terms of zero add nothing. The fold behind it
is recursive, so it is first shown to be the unique function that meets its
recursion on the subsets of a finite set; every induction is by a smallest
counterexample (`SmallestSubset`, `LeastOf`, `GreatestOf`).

**`GovernorProofs`**, **`GroupCommitProofs`**, **`TransactionsProofs`**,
**`OpeningProofs`** and **`FleetProofs`** hold the theorems about the module
each is named for, **`CallProofs`** those about what stands round an agent's
calls, `MeteredCalls` and `Adapters` and then `CognitiveBreaker`, and
**`EvidenceProofs`** those about what can be checked of a governor from outside:
`ReceiptLog`, `Reconciliation` and `Audit`. The last two extend modules that
therefore share no name: hence `BreakerInit`, `AuditInit`, `BooksNext` and the
like. Each begins with the parts of its inductive invariant and ends with its
theorems; what lies between is one lemma for each action, or for each way
several of them end.

Operators introduced by a comment beginning "Fault:" are plausible mistakes. No
specification uses them; substituted for the operator they follow, each makes a
property fail.

## Runs

| Run | Instance | Shows |
|---|---|---|
| `governor_money` | 3 scopes, 2 holds, asks of 0, 1 and 3 half-quanta, depth 2, 2 quanta issued | books, caches, delegation bound, refunds and breakers in every order of operations |
| `governor_velocity` | 2 scopes, 1 hold, limit 2 in a window of 1, clock to 2, advisory mode | runaway latches and resets; overdrafts latch even in advisory mode |
| `group_commit` | 3 callers, units of 2, fair | answers agree with the database; whoever holds the lock sees and commits nobody else's work; every waiter is answered |
| `transactions` | with and without a store, 2 scopes, 2 keys, 4 entries, bare calls allowed | keyed calls write once, answers stand, of a failed block only trips survive, and they do, no spend is committed by half |
| `opening` | 2 scopes, 4 workloads, histories of up to 4 entries of three versions, 2 transactions to a unit, stores that answer for history and not | every write replays, the state served is the replay's, rows and authorizations agree with the chain, snapshots are of their chain |
| `fleet` | 2 governors, 1 key, 1 claim of 0 or 1, a budget of 1, 4 entries, units of 1, 1 failover | `Fleet` implements `SharedLedger`; claims are booked once; no governor stops without cause; what is served is committed |
| `audit` | the governor's auditor and one beside it, 3 entries, 1 damage, 3 marks, fair | what is marked verified was replayed; a following auditor finds damage ahead of it |
| `cognitive` | 1 agent, 2 trajectories of which 1 is remembered, 2 near-duplicate calls, 2 results, history 4, window 3, queue of 1, fair | no loop goes unlatched, no call passes a verdict, the lane goes on |
| `metered_calls` | one call of each kind, two callback runs, two runs of a crew; 3 output tokens, failing store, a second closer, fair | no way out leaves a hold open; charges match what was seen and never exceed what was billed; a cancelled task ends |
| `receipts` | 2 threads, 2 action ids and a delivery, 2 keys, a checkpoint every 2 receipts, 3 calls, 1 rotation, 2 published, 2 faults | what was issued stays; the log reopens; bundles verify, against published checkpoints with the witness's record; nobody is stranded while the index keeps up; Merkle proofs |
| `reconciliation` | 3 models, 1 priced, 100 or 101 tokens, 4 seconds, 2 calls, 2 lines | ungoverned spend is found, honest invoices pass, the matching is stable |
| `receipts_turns` | as `receipts` | violation: after the index failed, a delivered receipt is never appended nor refused |

Bounds. Three scopes give a chain of depth 2 and two siblings; two holds give a
hold open beside the one being settled, and a settled one beside it; half-quanta
asks make rounding visible in both directions; two quanta suffice for a parent
and a child to hold one each, and an ask of three half-quanta overruns a hold of
one. Call windows are left out of the money run, where no property reads them,
and the velocity run reaches a third call in a window, its expiry and a reset.
`MaxFunded`, `MaxTime` and the set of hold ids bound the state space; nothing in
the code does. One more caller than a unit carries gives a queue that outlives
its leader's unit. Four entries are enough for a call made and answered before a
block, another retried in it, a trip, and one more write after the rollback in a
place the block had used; two keys let a block's records go while others stay.

An old history of four entries holds a funding, an open hold, a second one of
the same amount (which a version 1 release cannot tell apart) and its release.
The four workloads divide the operations so that each has room for its sequences
after it: rules couple holds with settlements, spends with refunds, allocations
with releases and trips with resets, and hardly across. Two governors and one
failover give a view that lags, one that is ahead, and a chain cut back under
either; one claim may still be redeemed twice. Three entries give a mark behind,
at and ahead of a checkpoint. Two trajectories over a memory of one make every
observation evict. Three calls and a batch of two give a receipt reserved behind
a batch being written. Two lines and two calls give every wrong assignment the
greedy order could make. Calls metered through the governor share nothing but
it, which `Governor` covers, so they are checked one at a time, except runs of
one handler and of one crew; three tokens give a report that repeats, one that
is missed and one that arrives late.

Deadlock is checked for `Governor`, `Transactions`, `Fleet`, `CognitiveBreaker`
and `Reconciliation`. In `GroupCommit`, `Adapters`, `Opening`, `Audit` and
`ReceiptLog` the system may stop: every call may have been answered, and no
further one need come.

Fairness. In `GroupCommit` the leader's next step and each thread's next step,
once enabled for good, is taken: the operating system runs runnable threads and
a database call returns. A thread waiting for the governor's lock needs weak
fairness only, since the others each release it once. No call is assumed to be
made. In `Adapters` the same is asked of worker threads and of a task whose
await is over (`Governed`); the provider, the caller's loop and whoever cancels
owe nothing. In `Audit` an auditor that follows begins its next run and ends the
one it is in, as the loop of `follow()` does; governors and operators owe
nothing. In `CognitiveBreaker` the worker thread, the thread in `close()` and an
agent inside `observe()` go on; no agent need observe again.

## Proofs

Every safety property that a passing run checks is proved for every value of
the constants, and so is that `Fleet` implements `SharedLedger`. Each proof has an inductive invariant, whose parts are operators
of the proof module, named for what they say. The only assumptions are those on
the constants (`ConstantsAssumption`, `GroupAssumption`,
`TransactionsAssumption`, `RulesAssumption`, `OpeningAssumption`,
`FleetAssumption`, `AuditAssumption`, `MeteredAssumption`, `PolicyAssumption`,
`ReceiptLogAssumption`, `ReconciliationAssumption`), which TLC evaluates in the
runs: that sets summed over are finite, that numbers are numbers, that `None` is
nobody's name, and that `Root` is a scope. The
theorems need no `MaxEntries`, `MaxFunded` or other bound to be small, nor any
fairness.

**Governor**, for every finite set of scopes and holds, every amount and policy:

- `TypeCorrect`. `TypeOK` includes `HoldsSound`: a placed hold, and no other,
  names a registered scope, and only a settled one has a cost. Without it a
  settlement could touch a scope outside the books.
- `Forest` (`TreeSound`), from `TypeOK`.
- `Conserved` (`Conservation`). The inductive invariant is `TypeOK`,
  `TreeSound` and `Conservation`: a release moves money between two different
  scopes only because a child lies deeper than its parent. `Banked` is the sum
  of the balances; each action moves one balance (`BankedMove`), transfers
  between two (`BankedTransfer`) or none.
- `CachesNeverDrift` (`CachesMatchHolds`): the counts and totals kept
  incrementally are the sums over the holds. The set summed over changes with
  each operation, so the lemmas are about adding, removing and settling one term.
- `DelegationHolds` (`DelegationBound`), with `TypeOK`, `TreeSound` and
  `Untouched` (a scope not in the tree has no money). A subtree is closed under
  descent, so a release either stays inside it or crosses its top, and a new
  child joins the subtrees of its ancestors with nothing but what it is granted.
- `RefundsWithinSpend` (`RefundsBounded`): an open hold has nothing refunded
  yet, so settling it keeps the bound.
- `OverdraftLatched`, `HoldSettledOnce`, `HaltedIsQuiet`: action properties,
  each from a lemma about one step under `TypeOK`.
- `RunawaysLatched` (`RunawayLatched`): a step records a call within the limit,
  latches, empties a window or leaves windows alone (`CallsStep`).

`StepKinds` reduces the next-state relation to the ways operations end; the
proofs that need no more go by it. `TreeSound` and `SettledOnce` are proved and
no run lists them.

**Group commit**, for any number of callers and any batch: `GroupInvariant` is
that one thread has the lock (`Exclusive`), what waits is in one place (`Queued`)
and unanswered, a request whose work has not run wrote nothing (`NothingYet`),
the database has nothing of the unit in hand (`Uncommitted`), and the view is
the database but for that unit (`ViewIsDurable`). The last two are needed
together: a unit that fails answers requests that had already returned.
`AnswersAreTrue` follows. `HolderUndisturbed` adds what a step may do while a caller
is inside its section (`SectionStep`): the only steps that write are its own,
because every other writer takes the lock, and it does not queue or lead itself,
because of `Owned`. That the lead is never held
twice is not needed for either: the governor's lock is enough.

**Transactions**, for any scopes, keys and number of entries: `UnitsKeepStep` is
`TxInv`. View and records are the store's outside units of work (`Synced`); what
a unit remembers of a key is what is recorded of it (`AsKept`), which makes the
three places `_called` looks in one; answers given or waiting are on record
(`Answered`); a block's mark is where it began (`Marked`); what a failed block
leaves is trips it latched (`Survivors`), and each trip it latched is listed for
writing, written, or lost for good (`Outlived`); a spend's hold is settled unless
its settlement is the next write of the unit (`Whole`, `Midway`). The five
invariants of the run follow: `RetriesWriteOnce`, `AnswersAreNotTakenBack`,
`BlocksLeaveOnlyTrips`, `BlocksKeepTheirTrips`, `SpendsAreWhole`.

**Chain rules and opening**, for any scopes, amounts, workloads and lengths of
chain and unit: `OpeningInvariant`. A view staged over a merged state, one over a
decoded snapshot and one that replays the chain from nothing differ in all their
parts, so the argument compares what they say. Two views are `Alike` when the
rules cannot tell them apart and merging them writes the same: each map as
looked up through both layers, the holds left open, the nodes as merged, the
trips without the resets, the census of holds without its zeros, and the refunds
of each spend, which one view remembers and another counts in the store. What
one of two alike views accepts, writing or replaying, the other accepts when
replaying (`AcceptsAlike`), and both are alike again after it (`FoldAlike`); a
well-formed view (`WF`) stays so. Staging is then compared entry by entry. So a
state merged unit by unit goes on as a single replay does (`StateReopens`), and
so does one decoded from a snapshot (`AdoptsState`). The invariant is that the
chain is numbered and replays (`Chained`, `Stored`), that what is stored is a
snapshot of a prefix that ends with a transaction (`SnapshotOf`: a prefix that
cut one would not replay), that every checkpoint names one that is stored, that
the state served is the replay's (`StateInv`), that the unit being built
continues both (`UnitInv`), and the same of a checkpoint being made
(`MakingInv`). That a chain somebody has opened since 0.1.2 holds an entry of a
later version (`Governed`) is needed too: without it a pre-0.1.2 breaker event
could still arrive behind a snapshot. `WritesAreReplayable`, `ServedIsReplayed`
and `SnapshotsAreOfTheChain` follow.

`RowsInvariant` adds the cache rows. Opening trusts a row only as far as the
chain bears it out, so the invariant says little of the rows of a closed ledger:
each names a hold the chain placed and no two name the same (`RowsRead`), one
under an open hold's own id names that hold (`Owned`), and the event rows agree
with every snapshot (`EventsAgree`), since an open from one looks only at those
after it. An open ledger's rows are the chain's: a bijection between the
authorizations served and the open holds that respects scope and amount
(`Serving`). Where an unnamed release left a key ambiguous, an open pairs the
rows whose hold is gone with the holds no row names by their ranks; where there
are equally many of both, each meets its like (`StandInsMeet`), so no hold is
served twice or missed (`NoProblems`), and rows rebuilt where they are not
equally many serve each hold once too (`RebuiltServes`). A unit under way stages the rows of exactly its own entries
(`Staging`), which its commit writes. `CachesAreOfTheChain` follows.

**Fleet**, for any governors, entries, claims and failovers: `FleetInvariant`.
The part that matters is `DecidesOnLedger`: a session that still has the writer
lock sees what its operations, one after another, make of exactly the ledger.
Of one that has lost the lock to a server that ended it, nothing is known but
where it started (`StartsCommitted`), and it cannot commit.
`Sound` is what a ledger is by itself: ids are used once, a claim still to be
booked is booked nowhere and another once. `FleetIsSerial` is the refinement:
a session's COMMIT is one of `Units`, a joined transaction leaves claims the
ledger may take, a failover cuts back, everything else stutters.
`ClaimsAreBookedOnce`, `AlarmsAreTrue` and `ServesWhatIsCommitted` follow from
the invariant.

**Audit**: `MarksAreBacked`. What a run has behind it was replayed, by itself or
by the run whose mark it started from (`BehindIsReplayed`).

**Metered calls and adapters**, for any finite set of calls and any mixes of
their kinds: `CallsKeepStep` is what a call has done by each place of its thread
or task (`Begun`), who may be resolving a stream (`Resolves`: a resolved stream
with an open hold has a resolver about to settle it, or lost it to the store),
what its reports are of what was billed (`Billed`), and what it was charged
(`Charged`). A step touches one call, so it is proved call by call (`Step`,
`Others`). Runs of a crew also share a watermark: `Counted` says any two readings
of the crew's counters compare and that the charges add up to the watermark.
`HoldsAreSettled`, `StreamsAreChargedTruly` and `ConsumptionIsCharged` follow.

**Cognitive breaker**, for every policy and any trajectories: `HistoriesStayClean`.
That no loop is unlatched is not inductive as it stands, since a result recorded
later may complete a streak; `Clean` takes the newest call's result as still open
(`OpenSoftLoop`). A repeat or a streak that the whole history holds ends at the
new call or was there before; a cycle is followed back to its first call by least
counterexample. `LoopsAreLatched` follows for each kind of loop that the policy
switches on and the comparison window can hold. `VerdictsAreEnforced` rests on `Standing`: a
trajectory on which a verdict stands is latched or has one pending, through every
observation, check, late result and judgement (`StandingStep`).

**Receipts**, for any callers, ids, keys and number of lines, rotations and
crashes. `LogInv` has three layers. `PositionsInv`: a position held is one the
index does not have yet and nobody else's (`PositionsApart`); a receipt that was
appended stands where it signs (`AppendedStands`); a log that is open and not
broken has all its lines in the index, and the ids held are new (`IndexIsWhole`);
and the positions held are all of those from the index to the last handed out,
the first of them not signed yet (`TurnsInOrder`), since whoever signs it drains
what follows. `IssuedReceiptsStay` and `NobodyIsStranded` follow. `ScheduleInv`
is about keys and roots: a rotation settles its boundary at the length of the
file when no issue is in flight (`Rotations`), so every line, and every
checkpoint, is signed by the key in force for it (`KeysInForce`), which a later
transition does not change (`PastIsKept`); what was signed and cosigned is the
root of lines the file still has (`RootsOfTheFile`). `LogReopens` follows. With `Recorded`, that a
cosignature of every published checkpoint is on record, so does
`BundlesAreProvable`, over a tree that proves its leaves and its prefixes
(`TreeIsSound`, `TreeProves` of every sequence of leaves). That the tree of
`Merkle` is one is a statement about recursive operators and stays with TLC
(`TheTreeProves`, of up to nine leaves). `KeysInForce` asks what `Ours` asks:
that nobody appended a foreign receipt to a log that changes keys, and that the
index kept up until the keys changed.

**Reconciliation**, for any models, prices, tolerances and invoice. The greedy
loop is shown to have one solution on every subset of a finite set of pairs
(`ClaimsExists`, `ClaimsUnique`), which unfolds as the loop does
(`ClaimedStep`); what it claims is stable (`ClaimedIsStable`), by a smallest
counterexample, because the pair claimed first scores no worse than any it
excludes. `MatchingIsStable` follows. `UngovernedSpendIsFound` counts: a matching
of every line would inject the lines into the settlements, and those are fewer.
`HonestInvoicesPass` needs the invariant of the books (`LinesAreOfCalls`): each
line has one candidate, its own call.

Induction over numbers is by least or greatest counterexample (`LeastOf`,
`GreatestOf`), as the library's induction theorems cannot be used.

Only model-checked:

- liveness (`EveryCallAnswered`, `CancelledCallEnds`, `DamageIsFound`,
  `LaneNeverStalls`), out of the prover's reach;
- that `Merkle` proves what `ReceiptLog` relies on: its operators are recursive.

## What the checks found

`receipts_turns` is a run. `_drain` starts each batch at the length of the index
(receipts/log.py:680). When the index fails behind a batch that is written, that
length stays behind, so a receipt delivered later is never first: it is neither
appended nor refused, its caller waits for ever, and so does a rotation.

The rest was met while modelling, by runs of instances or variants of the models
that are not kept, or by reading. The models say what the code does; where a
property excludes a case, its comment says so.

Ledger and governor:

- A call that was denied inside a unit keeps its denial when the unit fails to
  commit, although the settlement and the trip the error reports were rolled
  back (core.py:4787); `AnswersMatchLedger` is about the other answers.
- The wait at core.py:4735 is outside the `try` whose `finally` hands the lead
  on; an exception there leaves a request queued that may be handed the lead
  and never take it. `GroupCommit` has such a thread
  (`Interrupted`): answers still agree with the database, but `EveryCallAnswered`
  is about runs without one.
- A capture that overdraws inside a `transaction()` block stages its trip with
  the settlement (core.py:6213), and only trips made by `_trip` are written
  again when the block fails, so the scope is not halted; the migration guide
  says a trip recorded inside still commits.
- Under `ledger.lock` each write commits by itself, so a crash or a failed write
  between the two of a `spend` leaves its hold open. The migration guide says as
  much of `ledger.lock`; `SpendIsWhole` is about everybody else.
- `void_stale()` releases the hold of a call that is only slow (core.py:6490);
  its settlement then raises and what it consumed is not charged.
- A governor without a signing key that dies between a snapshot and its
  CHECKPOINT entry leaves an unsigned snapshot; a governor that signs and
  checkpoints the same sequence keeps it (`put_snapshot`, storage.py:1241), and
  a governor that requires signatures then refuses the checkpoint.
- With `fleet_velocity`, governors count holds in their own views (core.py:6895),
  so a fleet may exceed its limit before they catch up.
- A newer verified mark of one auditor supersedes another's failure, as the
  newest mark alone decides (storage.py:1436; audit.py:18).

Calls and agents:

- A `SpendGuard` block that calls `settle()` and then raises is voided, charged
  nothing (interceptor.py:555), which is the very use its docstring recommends
  it for.
- A provider's answer whose usage cannot be read raises inside the guarded block
  (interceptor.py:1082) and voids a call that was billed.
- `resolve()` sets its flag before it settles (streaming.py:290), so a settlement
  the store refused is never tried again, and `resolved` is true of an open
  hold. The flag is tested and set on worker threads without a lock
  (streaming.py:288): an `aclose()` beside `__aexit__` may raise
  `DoubleSpendError`. The stream is still charged once.
- `govern_agent` reads the usage after its function has returned and outside the
  `try` (adapters/crewai.py:396): a `usage_of` that raises leaves the
  hold open. `NoHoldLeftOpen` excludes it by name.
- Threads that share one `GovernedCrew` race on `_settled_usage`; tasks of one
  event loop do not.
- The sentinel `close()` puts in the cognitive breaker's queue may be dropped
  when the queue is full (cognitive.py:1350); the worker then waits on.
- A window queued before a `reset()` may be judged after it, and its verdict then
  latches the trajectory that was just re-armed (cognitive.py:1308).
- A trajectory that is evicted takes its latch with it, and a verdict that came
  while it was pending; the header says such a verdict is "latched and enforced
  on the *next* inline observation" (cognitive.py:29). A breaker of the governor
  that was tripped for it stays tripped.
- With the default `comparison_window` of 6 a cycle of period 3 or 4 repeated as
  often as the policy asks does not fit the window; `NoLoopUnlatched` is about
  loops the window can hold.

Receipts and reconciliation (the first two are excluded from `Reopens` by `Ours`):

- `append()` does not wait for a rotation: a receipt appended while one drains
  leaves a log that does not reopen.
- An index that fails while a rotation drains hands over at a lagging size, and
  the log does not reopen.
X may call an honest line a phantom when calls are closer than
  twice the tolerance; `HonestInvoicePasses` says for which invoices it does not.

## Not modelled

Cryptography and encodings (the hash chain, signatures, canonical JSON): their
strength is not a state property. The command line, metrics, exceptions and
fakes: no state of their own. The SQL of the stores and their schema upgrades:
the stores are modelled by what their methods do. The rate card and the sizing
of holds: pure functions, reduced to an upper bound on what a call may cost.
The schemas of receipts, their row disclosures and attestations, the parsers of
invoices and of action logs, and `reconcile_actions`: data without control. The
scripts that generate test vectors and run benchmarks are not part of the
system. `PROJECT.json` says for each component what is left out of it.
