---------------------------- MODULE MeteredCalls ----------------------------
(***************************************************************************)
(* The life of a hold round a provider's call: SpendGuard and              *)
(* Interceptor.invoke and ainvoke (src/agentgov/interceptor.py),           *)
(* MeteredStream and AsyncMeteredStream (src/agentgov/streaming.py) and    *)
(* the asyncio bridge that runs the governor's calls on worker threads and *)
(* sees them through when their task is cancelled (src/agentgov/_aio.py).  *)
(*                                                                         *)
(* The governor is what these callers see of it: authorize places a hold   *)
(* or raises; capture and void settle an open hold, raise DoubleSpendError *)
(* on one already settled, or fail with the store.  void_stale may release *)
(* a hold under a call that is still running.                              *)
(***************************************************************************)
EXTENDS Naturals, FiniteSets

CONSTANTS
    Calls,      \* calls made
    Mixes,      \* the kinds of call made together, by call
    MaxOut,     \* bound: output tokens a provider generates for a call
    Faults,     \* whether the store may fail
    Closers     \* whether another task may close a stream

\* The framework adapters' kinds are those of Adapters.tla.
AllKinds == {"guard", "invoke", "ainvoke", "stream", "astream", "ahold", "akeyed",
             "callback", "crew", "agent", "unused"}

ASSUME MeteredAssumption ==
    /\ IsFiniteSet(Calls)
    /\ Mixes \subseteq [Calls -> AllKinds]
    /\ MaxOut \in Nat
    /\ Faults \in BOOLEAN
    /\ Closers \in BOOLEAN

Fields    == {"in", "out"}
NoTokens  == [f \in Fields |-> 0]
Resolvers == {"owner", "closer"}

VARIABLES
    kind,       \* what kind of call each is
    pc,         \* where its thread or task is
    hold,       \* its hold, in the ledger
    charged,    \* the cost captured for it
    produced,   \* tokens the provider has billed
    usage,      \* usage reported so far
    current,    \* the last report covered everything produced
    declared,   \* SpendGuard._settled has been set, at the usage reported
    raised,     \* an exception is on its way out
    cancelled,  \* the task has been cancelled
    resolved,   \* _StreamCore._resolved
    resolver,   \* where each caller of resolve() is
    broke       \* the store failed to settle its hold: history

tokens == <<produced, usage, current>>
money  == <<hold, charged, broke>>
stream == <<resolved, resolver>>
vars   == <<kind, pc, money, tokens, declared, raised, cancelled, stream>>

Streams == {"stream", "astream"}
Holds   == {"ahold", "akeyed"}      \* AsyncBudgetManager.authorize, without and with a key
Async   == {"ainvoke", "astream"} \cup Holds

\* Rates are positive and costs round up: any usage costs something.
CostOf(u) == u["in"] + u["out"]

----------------------------------------------------------------------------
(* The governor, as a caller sees it *)

\* capture(): settles an open hold at a cost.
Capture(c, cost) ==
    \/ /\ hold[c] = "open"
       /\ hold' = [hold EXCEPT ![c] = "captured"]
       /\ charged' = [charged EXCEPT ![c] = cost]
       /\ UNCHANGED broke
    \/ /\ hold[c] # "open" \/ Faults
       /\ broke' = [broke EXCEPT ![c] = @ \/ hold[c] = "open"]
       /\ UNCHANGED <<hold, charged>>

Void(c) ==
    \/ /\ hold[c] = "open"
       /\ hold' = [hold EXCEPT ![c] = "voided"]
       /\ UNCHANGED <<charged, broke>>
    \/ /\ hold[c] # "open" \/ Faults
       /\ broke' = [broke EXCEPT ![c] = @ \/ hold[c] = "open"]
       /\ UNCHANGED <<hold, charged>>

\* void_stale(), by anyone, judges a hold by its age alone.
Reap(c) ==
    /\ hold[c] = "open"
    /\ hold' = [hold EXCEPT ![c] = "reaped"]
    /\ UNCHANGED <<kind, pc, charged, broke, tokens, declared, raised, cancelled, stream>>

----------------------------------------------------------------------------
(* Entering *)

\* The hold is asked for, on a worker thread for an async call.
Start(c) ==
    /\ pc[c] = "new"
    /\ pc' = [pc EXCEPT ![c] = "authorizing"]
    /\ UNCHANGED <<kind, money, tokens, declared, raised, cancelled, stream>>

\* The cognitive breaker finds the call thrashing, before its hold is placed.
Thrash(c) ==
    /\ pc[c] = "new"
    /\ kind[c] \notin {"guard"} \cup Holds
    /\ pc' = [pc EXCEPT ![c] = "ended"]
    /\ raised' = [raised EXCEPT ![c] = TRUE]
    /\ UNCHANGED <<kind, money, tokens, declared, cancelled, stream>>

AfterEntry(c) ==
    CASE kind[c] = "guard"     -> "body"
      [] kind[c] \in Streams   -> "opening"
      [] kind[c] \in Holds     -> "ended"
      [] OTHER                 -> "calling"

\* Fault: a cancelled task leaves at once, whatever its worker has done.
EnterUndoingNothing(c) ==
    /\ pc[c] = "authorizing"
    /\ hold' = [hold EXCEPT ![c] = "open"]
    /\ pc' = [pc EXCEPT ![c] = IF cancelled[c] THEN "ended" ELSE AfterEntry(c)]
    /\ raised' = [raised EXCEPT ![c] = cancelled[c]]
    /\ UNCHANGED <<kind, charged, broke, tokens, declared, cancelled, stream>>

\* The hold is placed.  For a task cancelled meanwhile it is undone, unless it
\* was placed under a key, where a retry will find it.
Enter(c) ==
    /\ pc[c] = "authorizing"
    /\ hold' = [hold EXCEPT ![c] = "open"]
    /\ pc' = [pc EXCEPT ![c] =
                 IF cancelled[c] /\ kind[c] # "akeyed" THEN "undoing" ELSE AfterEntry(c)]
    /\ raised' = [raised EXCEPT ![c] = cancelled[c]]
    /\ UNCHANGED <<kind, charged, broke, tokens, declared, cancelled, stream>>

\* A halted scope, no funds or a store that fails: there is nothing to undo.
Denied(c) ==
    /\ pc[c] = "authorizing"
    /\ pc' = [pc EXCEPT ![c] = "ended"]
    /\ raised' = [raised EXCEPT ![c] = TRUE]
    /\ UNCHANGED <<kind, money, tokens, declared, cancelled, stream>>

\* _run's undo, also on a worker; its failure is logged.
Undo(c) ==
    /\ pc[c] = "undoing"
    /\ kind[c] # "astream"
    /\ Void(c)
    /\ pc' = [pc EXCEPT ![c] = "ended"]
    /\ UNCHANGED <<kind, tokens, declared, raised, cancelled, stream>>

UndoStream(c) ==
    /\ pc[c] = "undoing"
    /\ kind[c] = "astream"
    /\ pc' = [pc EXCEPT ![c] = "resolving"]
    /\ UNCHANGED <<kind, money, tokens, declared, raised, cancelled, stream>>

\* Where a task awaits its worker, or the provider.
AwaitsWorker(c)   == pc[c] \in {"authorizing", "undoing", "exiting", "resolving"}
AwaitsProvider(c) == pc[c] \in {"calling", "opening", "streaming", "closing"}

\* The task is cancelled.  A governor's call runs to completion first; the
\* provider's raises there and then.
Cancel(c) ==
    /\ kind[c] \in Async /\ ~cancelled[c]
    /\ AwaitsWorker(c) \/ AwaitsProvider(c)
    /\ cancelled' = [cancelled EXCEPT ![c] = TRUE]
    /\ IF AwaitsWorker(c)
         THEN UNCHANGED <<raised, pc>>
         ELSE /\ raised' = [raised EXCEPT ![c] = TRUE]
              /\ pc' = [pc EXCEPT ![c] = CASE @ = "calling"   -> "exiting"
                                           [] @ = "streaming" -> "closing"
                                           [] OTHER           -> "resolving"]
    /\ UNCHANGED <<kind, money, tokens, declared, stream>>

----------------------------------------------------------------------------
(* A call that answers once, and a guarded block *)

\* The provider answers.  Usage that can be read is declared; usage that
\* cannot is an exception in the guarded block.
Answers(c) ==
    /\ pc[c] = "calling" /\ kind[c] \in {"invoke", "ainvoke"}
    /\ \E n \in 0..MaxOut, readable \in BOOLEAN :
         /\ produced' = [produced EXCEPT ![c] = [in |-> 1, out |-> n]]
         /\ usage' = [usage EXCEPT ![c] = IF readable THEN produced'[c] ELSE @]
         /\ current' = [current EXCEPT ![c] = readable]
         /\ declared' = [declared EXCEPT ![c] = readable]
         /\ raised' = [raised EXCEPT ![c] = ~readable]
    /\ pc' = [pc EXCEPT ![c] = "exiting"]
    /\ UNCHANGED <<kind, money, cancelled, stream>>

\* The provider's call raises.
Raises(c) ==
    /\ pc[c] \in {"calling", "body"}
    /\ raised' = [raised EXCEPT ![c] = TRUE]
    /\ pc' = [pc EXCEPT ![c] = "exiting"]
    /\ UNCHANGED <<kind, money, tokens, declared, cancelled, stream>>

\* Some of what a guarded block does costs tokens, which it declares; the
\* last declaration wins.
Consume(c) ==
    /\ pc[c] = "body"
    /\ produced[c]["out"] < MaxOut
    /\ produced' = [produced EXCEPT ![c] = [in |-> 1, out |-> @["out"] + 1]]
    /\ current' = [current EXCEPT ![c] = FALSE]
    /\ UNCHANGED <<kind, pc, money, usage, declared, raised, cancelled, stream>>

Declare(c) ==
    /\ pc[c] = "body"
    /\ usage' = [usage EXCEPT ![c] = produced[c]]
    /\ current' = [current EXCEPT ![c] = TRUE]
    /\ declared' = [declared EXCEPT ![c] = TRUE]
    /\ UNCHANGED <<kind, pc, money, produced, raised, cancelled, stream>>

LeaveBody(c) ==
    /\ pc[c] = "body"
    /\ pc' = [pc EXCEPT ![c] = "exiting"]
    /\ UNCHANGED <<kind, money, tokens, declared, raised, cancelled, stream>>

\* What a hold reserves: the most the call may cost.
HoldAmount == 1 + MaxOut

\* The declared cost, or the whole hold when none was declared.
Charge(c) == IF declared[c] THEN CostOf(usage[c]) ELSE HoldAmount

\* Fault: a call cancelled while it settles is taken for one that failed.
ExitVoidingCancelled(c) ==
    /\ pc[c] = "exiting"
    /\ IF raised[c] \/ cancelled[c] THEN Void(c) ELSE Capture(c, Charge(c))
    /\ pc' = [pc EXCEPT ![c] = "ended"]
    /\ raised' = [raised EXCEPT ![c] = @ \/ cancelled[c] \/ hold'[c] \in {"open", "reaped"}]
    /\ UNCHANGED <<kind, tokens, declared, cancelled, stream>>

\* SpendGuard.__exit__: void if the block raised, capture otherwise.
Exit(c) ==
    /\ pc[c] = "exiting"
    /\ IF raised[c] THEN Void(c) ELSE Capture(c, Charge(c))
    /\ pc' = [pc EXCEPT ![c] = "ended"]
    /\ raised' = [raised EXCEPT ![c] = @ \/ cancelled[c] \/ hold'[c] \in {"open", "reaped"}]
    /\ UNCHANGED <<kind, tokens, declared, cancelled, stream>>

----------------------------------------------------------------------------
(* A call that streams *)

\* The provider's stream is opened, or opening it raises.
Open(c) ==
    /\ pc[c] = "opening"
    /\ \/ pc' = [pc EXCEPT ![c] = "streaming"] /\ UNCHANGED raised
       \/ pc' = [pc EXCEPT ![c] = "resolving"] /\ raised' = [raised EXCEPT ![c] = TRUE]
    /\ UNCHANGED <<kind, money, tokens, declared, cancelled, stream>>

Larger(m, n) == IF m > n THEN m ELSE n

\* Fault: reports are added up.
MergedSum(u, v) == [f \in Fields |-> u[f] + v[f]]

\* TokenUsage.merged: the larger of each field.
Merged(u, v) == [f \in Fields |-> Larger(u[f], v[f])]

\* An event arrives; it reports the counts so far in some fields, or in none.
Chunk(c) ==
    /\ pc[c] = "streaming"
    /\ produced[c]["out"] < MaxOut
    /\ produced' = [produced EXCEPT ![c] = [in |-> 1, out |-> @["out"] + 1]]
    /\ \E reported \in SUBSET Fields :
         usage' = [usage EXCEPT ![c] =
                     Merged(@, [f \in Fields |-> IF f \in reported THEN produced'[c][f] ELSE 0])]
    /\ current' = [current EXCEPT ![c] = usage'[c] = produced'[c]]
    /\ UNCHANGED <<kind, pc, money, declared, raised, cancelled, stream>>

\* record_usage(), or absorb_final() once the stream is exhausted: everything.
ReportAll(c) ==
    /\ pc[c] = "streaming"
    /\ usage' = [usage EXCEPT ![c] = Merged(@, produced[c])]
    /\ current' = [current EXCEPT ![c] = TRUE]
    /\ UNCHANGED <<kind, pc, money, produced, declared, raised, cancelled, stream>>

\* The loop ends: exhausted, broken off, or by an exception.
LeaveStream(c) ==
    /\ pc[c] = "streaming"
    /\ pc' = [pc EXCEPT ![c] = "closing"]
    /\ \/ UNCHANGED raised
       \/ raised' = [raised EXCEPT ![c] = TRUE]
    /\ UNCHANGED <<kind, money, tokens, declared, cancelled, stream>>

\* __exit__ closes the provider's stream, which may raise, and then resolves.
CloseInner(c) ==
    /\ pc[c] = "closing"
    /\ pc' = [pc EXCEPT ![c] = "resolving"]
    /\ \/ UNCHANGED raised
       \/ raised' = [raised EXCEPT ![c] = TRUE]
    /\ UNCHANGED <<kind, money, tokens, declared, cancelled, stream>>

\* A stream entered and dropped: nothing settles its hold but void_stale.
Drop(c) ==
    /\ pc[c] = "streaming"
    /\ pc' = [pc EXCEPT ![c] = "dropped"]
    /\ UNCHANGED <<kind, money, tokens, declared, raised, cancelled, stream>>

\* Who may be in resolve(): the owner leaving the stream, or another task that
\* closes it meanwhile.
MayResolve(c, r) ==
    IF r = "owner" THEN pc[c] = "resolving"
    ELSE Closers /\ kind[c] \in Streams /\ pc[c] \in {"opening", "streaming", "closing", "resolving", "dropped"}

\* Fault: a caller that finds the flag set waits until the hold is settled.
ResolveWaits(c, r) ==
    /\ resolver[c][r] = "out"
    /\ MayResolve(c, r)
    /\ resolved[c] => hold[c] # "open"
    /\ resolver' = [resolver EXCEPT ![c][r] = IF resolved[c] THEN "done" ELSE "in"]
    /\ UNCHANGED <<kind, pc, money, tokens, declared, raised, cancelled, resolved>>

\* resolve() looks at the flag ...
ResolveChecks(c, r) ==
    /\ resolver[c][r] = "out"
    /\ MayResolve(c, r)
    /\ resolver' = [resolver EXCEPT ![c][r] = IF resolved[c] THEN "done" ELSE "in"]
    /\ UNCHANGED <<kind, pc, money, tokens, declared, raised, cancelled, resolved>>

\* ... sets it ...
ResolveMarks(c, r) ==
    /\ resolver[c][r] = "in"
    /\ resolved' = [resolved EXCEPT ![c] = TRUE]
    /\ resolver' = [resolver EXCEPT ![c][r] = "settling"]
    /\ UNCHANGED <<kind, pc, money, tokens, declared, raised, cancelled>>

\* At what was observed; a stream of which nothing was observed is voided.
SettleStream(c) ==
    IF CostOf(usage[c]) = 0 THEN Void(c) ELSE Capture(c, CostOf(usage[c]))

\* ... and settles the hold.
ResolveSettles(c, r) ==
    /\ resolver[c][r] = "settling"
    /\ SettleStream(c)
    /\ resolver' = [resolver EXCEPT ![c][r] = "done"]
    /\ UNCHANGED <<kind, pc, tokens, declared, raised, cancelled, resolved>>

\* The owner is through resolve(), and the block is left.
EndStream(c) ==
    /\ pc[c] = "resolving"
    /\ resolver[c]["owner"] = "done"
    /\ pc' = [pc EXCEPT ![c] = "ended"]
    /\ UNCHANGED <<kind, money, tokens, declared, raised, cancelled, stream>>

----------------------------------------------------------------------------

Init ==
    /\ kind \in Mixes
    /\ pc = [c \in Calls |-> IF kind[c] = "unused" THEN "ended" ELSE "new"]
    /\ hold = [c \in Calls |-> "none"]
    /\ charged = [c \in Calls |-> 0]
    /\ produced = [c \in Calls |-> NoTokens]
    /\ usage = [c \in Calls |-> NoTokens]
    /\ current = [c \in Calls |-> TRUE]
    /\ declared = [c \in Calls |-> FALSE]
    /\ raised = [c \in Calls |-> FALSE]
    /\ cancelled = [c \in Calls |-> FALSE]
    /\ resolved = [c \in Calls |-> FALSE]
    /\ resolver = [c \in Calls |-> [r \in Resolvers |-> "out"]]
    /\ broke = [c \in Calls |-> FALSE]

\* What the caller's code, this library and its worker threads do by themselves.
Proceed(c) ==
    \/ Start(c) \/ Enter(c) \/ Denied(c) \/ Undo(c) \/ UndoStream(c)
    \/ LeaveBody(c) \/ Exit(c)
    \/ CloseInner(c) \/ EndStream(c)
    \/ \E r \in Resolvers : ResolveChecks(c, r) \/ ResolveMarks(c, r) \/ ResolveSettles(c, r)

\* What the provider, the event loop and other tasks may or may not do.
Happen(c) ==
    \/ Thrash(c) \/ Cancel(c) \/ Reap(c)
    \/ Answers(c) \/ Raises(c) \/ Consume(c) \/ Declare(c)
    \/ Open(c) \/ Chunk(c) \/ ReportAll(c) \/ LeaveStream(c) \/ Drop(c)

----------------------------------------------------------------------------
(* Properties of these calls, which Adapters checks *)

\* AsyncBudgetManager.authorize returned its hold to a caller still there, or
\* keeps it for a retry under its key.
KeepsHold(c) == kind[c] = "akeyed" \/ (kind[c] = "ahold" /\ ~raised[c])

\* govern_agent ran its function, and usage_of raised on what it returned:
\* that happens outside the block that would have released the hold.
Unpriced(c) == kind[c] = "agent" /\ raised[c] /\ produced[c] # NoTokens

Resolving(c) == \E r \in Resolvers : resolver[c][r] \in {"in", "settling"}

\* Whatever way a call is left, an exception and a cancellation at any await
\* included, its hold is settled once it is left, unless the store failed or
\* an agent's run could not be priced (SpendGuard.__exit__,
\* _StreamCore.resolve, _run, on_llm_end, on_llm_error, GovernedCrew).
NoHoldLeftOpen ==
    \A c \in Calls :
        pc[c] = "ended" /\ hold[c] = "open" =>
            broke[c] \/ KeepsHold(c) \/ Resolving(c) \/ Unpriced(c)

\* No stream is charged more than its provider billed, however its reports
\* overlap, and one whose reports are complete is charged exactly that (merged).
StreamChargesWhatWasBilled ==
    \A c \in Calls :
        kind[c] \in Streams /\ hold[c] = "captured" =>
            /\ charged[c] <= CostOf(produced[c])
            /\ (current[c] /\ pc[c] = "ended" /\ resolver[c]["closer"] = "out") =>
                    charged[c] = CostOf(produced[c])

\* A cancelled task ends: it waits for its worker and for nothing else.
CancelledCallEnds == \A c \in Calls : cancelled[c] ~> pc[c] = "ended"

\* A stream is charged what was observed of it, and voided only if nothing
\* was; an answered call whose usage could be read is charged for, though its
\* task be cancelled while it settles; a guarded block that ends by itself is
\* charged no less than it declared last, and the whole hold if it declared
\* nothing (_StreamCore.resolve, ainvoke, off_loop, SpendGuard.settle).
AnswersCharged ==
    \A c \in Calls :
        /\ /\ kind[c] \in Streams /\ pc[c] = "ended"
           /\ hold[c] \in {"captured", "voided"}
           /\ resolver[c]["closer"] = "out"
           => charged[c] = CostOf(usage[c])
        /\ /\ kind[c] \in {"invoke", "ainvoke"} /\ declared[c] /\ pc[c] = "ended"
           /\ hold[c] \in {"captured", "voided"}
           => hold[c] = "captured" /\ charged[c] = CostOf(produced[c])
        /\ kind[c] = "guard" /\ hold[c] = "captured" /\ (current[c] \/ ~declared[c])
           => charged[c] >= CostOf(produced[c])
=============================================================================
