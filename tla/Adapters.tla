------------------------------ MODULE Adapters ------------------------------
(***************************************************************************)
(* Calls made through a framework: LangChain's callback handler            *)
(* (adapters/langchain.py), CrewAI's crews and the decorator for any other *)
(* agent (adapters/crewai.py).  GovernedChatModel hands its calls to the   *)
(* Interceptor, whose calls are those of MeteredCalls.                     *)
(*                                                                         *)
(* The crews of a run are one GovernedCrew, kicked off several times, from *)
(* tasks of one event loop: a crew counts the tokens of all its runs, and  *)
(* each run is charged what was added since the last one settled.          *)
(***************************************************************************)
EXTENDS MeteredCalls, Functions

VARIABLES
    meter,    \* the tokens the crew has counted, over all its runs
    settled   \* GovernedCrew._settled_usage

all == <<vars, meter, settled>>

\* Nobody else touches a crew's counters.
Unmetered == UNCHANGED <<meter, settled>>

----------------------------------------------------------------------------
(* GovernedCallbackHandler.  A run's hold is in _holds while its pc is       *)
(* "calling" or "dropped"; whoever takes it out settles it.                 *)

\* on_llm_end: usage that cannot be read costs the whole hold.
CallbackEnds(c) ==
    /\ pc[c] = "calling" /\ kind[c] = "callback"
    /\ \E n \in 0..MaxOut, readable \in BOOLEAN :
         /\ produced' = [produced EXCEPT ![c] = [in |-> 1, out |-> n]]
         /\ usage' = [usage EXCEPT ![c] = IF readable THEN produced'[c] ELSE @]
         /\ current' = [current EXCEPT ![c] = readable]
         /\ declared' = [declared EXCEPT ![c] = readable]
    /\ pc' = [pc EXCEPT ![c] = "exiting"]
    /\ UNCHANGED <<kind, money, raised, cancelled, stream>>

\* A run that never reports its end.
Abandon(c) ==
    /\ pc[c] = "calling" /\ kind[c] = "callback"
    /\ pc' = [pc EXCEPT ![c] = "dropped"]
    /\ UNCHANGED <<kind, money, tokens, declared, raised, cancelled, stream>>

Outstanding == {c \in Calls : kind[c] = "callback" /\ pc[c] \in {"calling", "dropped"}}

\* release_all takes every outstanding hold, to void it; a run that reports
\* its end later finds none.
ReleaseAll ==
    /\ Outstanding # {}
    /\ pc' = [c \in Calls |-> IF c \in Outstanding THEN "exiting" ELSE pc[c]]
    /\ raised' = [c \in Calls |-> raised[c] \/ c \in Outstanding]
    /\ UNCHANGED <<kind, money, tokens, declared, cancelled, stream>>

----------------------------------------------------------------------------
(* GovernedCrew and govern_agent.                                           *)

\* A crew's run spends tokens, which the crew counts.
CrewWorks(c) ==
    /\ pc[c] = "calling" /\ kind[c] = "crew"
    /\ produced[c]["out"] < MaxOut
    /\ produced' = [produced EXCEPT ![c] = [in |-> 1, out |-> @["out"] + 1]]
    /\ meter' = [f \in Fields |-> meter[f] + produced'[c][f] - produced[c][f]]
    /\ UNCHANGED <<kind, pc, money, usage, current, declared, raised, cancelled, stream, settled>>

\* It returns a result with the crew's counters, or with none.
CrewReturns(c) ==
    /\ pc[c] = "calling" /\ kind[c] = "crew"
    /\ \E seen \in {meter, NoTokens} : usage' = [usage EXCEPT ![c] = seen]
    /\ pc' = [pc EXCEPT ![c] = "settling"]
    /\ UNCHANGED <<kind, money, produced, current, declared, raised, cancelled, stream>>
    /\ Unmetered

\* extract_crew_usage of the result, and of the crew if that has none.
Cumulative(c) == IF usage[c] = NoTokens THEN {meter, NoTokens} ELSE {usage[c]}

Since(cumulative) ==
    [f \in Fields |-> IF cumulative[f] > settled[f] THEN cumulative[f] - settled[f] ELSE 0]

SettleAt(c, u) == IF CostOf(u) = 0 THEN Void(c) ELSE Capture(c, CostOf(u))

\* FAULT: the watermark is advanced whether the capture went through or not.
CrewSettlesFirst(c) ==
    /\ pc[c] = "settling" /\ kind[c] = "crew"
    /\ \E cumulative \in Cumulative(c) :
         /\ SettleAt(c, Since(cumulative))
         /\ settled' = IF CostOf(Since(cumulative)) > 0 THEN cumulative ELSE settled
    /\ pc' = [pc EXCEPT ![c] = "ended"]
    /\ raised' = [raised EXCEPT ![c] = hold'[c] \in {"open", "reaped"}]
    /\ UNCHANGED <<kind, tokens, declared, cancelled, stream, meter>>

\* _settle: no await in it.
CrewSettles(c) ==
    /\ pc[c] = "settling" /\ kind[c] = "crew"
    /\ \E cumulative \in Cumulative(c) :
         /\ SettleAt(c, Since(cumulative))
         /\ settled' = IF hold'[c] = "captured" THEN cumulative ELSE settled
    /\ pc' = [pc EXCEPT ![c] = "ended"]
    /\ raised' = [raised EXCEPT ![c] = hold'[c] \in {"open", "reaped"}]
    /\ UNCHANGED <<kind, tokens, declared, cancelled, stream, meter>>

\* The decorated function returns; usage_of reads its usage, finds none, or
\* raises, with nobody to release the hold.
AgentReturns(c) ==
    /\ pc[c] = "calling" /\ kind[c] = "agent"
    /\ \E n \in 0..MaxOut, reads \in {"all", "nothing", "raises"} :
         /\ produced' = [produced EXCEPT ![c] = [in |-> 1, out |-> n]]
         /\ usage' = [usage EXCEPT ![c] = IF reads = "all" THEN produced'[c] ELSE @]
         /\ current' = [current EXCEPT ![c] = reads = "all"]
         /\ raised' = [raised EXCEPT ![c] = reads = "raises"]
         /\ pc' = [pc EXCEPT ![c] = IF reads = "raises" THEN "ended" ELSE "settling"]
    /\ UNCHANGED <<kind, money, declared, cancelled, stream>>

AgentSettles(c) ==
    /\ pc[c] = "settling" /\ kind[c] = "agent"
    /\ SettleAt(c, usage[c])
    /\ pc' = [pc EXCEPT ![c] = "ended"]
    /\ raised' = [raised EXCEPT ![c] = hold'[c] \in {"open", "reaped"}]
    /\ UNCHANGED <<kind, tokens, declared, cancelled, stream>>

----------------------------------------------------------------------------

InitAll == Init /\ meter = NoTokens /\ settled = NoTokens

Governed(c) ==
    \/ Proceed(c) /\ Unmetered
    \/ CrewSettles(c)
    \/ AgentSettles(c) /\ Unmetered

Next ==
    \/ \E c \in Calls :
         \/ Governed(c)
         \/ Happen(c) /\ Unmetered
         \/ CallbackEnds(c) /\ Unmetered
         \/ Abandon(c) /\ Unmetered
         \/ CrewWorks(c) \/ CrewReturns(c)
         \/ AgentReturns(c) /\ Unmetered
    \/ ReleaseAll /\ Unmetered

Spec == InitAll /\ [][Next]_all

\* Worker threads finish what they were given, and a task whose await is over
\* goes on.  Nothing is asked of the provider or of the caller's loop.
FairSpec == Spec /\ \A c \in Calls : WF_all(Governed(c))

----------------------------------------------------------------------------
(* Properties *)

Crews == {c \in Calls : kind[c] = "crew"}

\* What a call was seen to consume is charged, whichever way it ends: the
\* calls of MeteredCalls as AnswersCharged says; a callback's run that ended
\* no less than it consumed; and a crew's runs together exactly what the crew
\* had counted when the last of them settled, no token twice and none left
\* out, though runs overlap, settle out of order, fail, or have their hold
\* taken away (on_llm_end, GovernedCrew._settle).
ConsumedIsCharged ==
    /\ AnswersCharged
    /\ \A c \in Calls :
         kind[c] = "callback" /\ hold[c] = "captured" => charged[c] >= CostOf(produced[c])
    /\ SumFunctionOnSet(charged, Crews) = CostOf(settled)
    /\ \A c \in Crews : hold[c] = "captured" => \A f \in Fields : settled[f] >= usage[c][f]
=============================================================================
