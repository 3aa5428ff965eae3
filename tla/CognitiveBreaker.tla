--------------------------- MODULE CognitiveBreaker ---------------------------
(***************************************************************************)
(* The cognitive circuit breaker (cognitive.py): agents' threads observe   *)
(* their calls before they make them, three inline detectors judge each    *)
(* call against the trajectory's recent ones, and a worker thread runs a   *)
(* semantic observer over windows it is handed through a bounded queue.    *)
(* A verdict latches the trajectory and trips the scope's breaker.         *)
(*                                                                         *)
(* The breaker's mutex covers each step below that changes a trajectory;   *)
(* what observe() does after releasing it (handing over the window,        *)
(* tripping the financial breaker) are steps of their own.  The observer   *)
(* is a protocol: any verdict may come of any window, or an exception.     *)
(*                                                                         *)
(* A call is known by its tool (two calls to one tool are near duplicates) *)
(* and its variant (two calls alike in both are identical).                *)
(***************************************************************************)
EXTENDS Integers, Sequences, FiniteSets, SequencesExt

CONSTANTS
    Agents,         \* threads that observe
    Trajectories,   \* each is its own budget scope
    Prints,         \* <<tool, variant>>
    Results,        \* what a call may return
    None,
    MaxRepeats, MaxStreak, MaxPeriod, MinRepeats, \* CognitivePolicy
    ComparisonWindow, HistoryLimit, MaxTrajectories, QueueSize

ASSUME PolicyAssumption ==
    /\ {MaxRepeats, MaxStreak, MaxPeriod, MinRepeats, ComparisonWindow} \subseteq Nat
    /\ {HistoryLimit, MaxTrajectories, QueueSize} \subseteq Nat \ {0}
    /\ None \notin Results \cup Trajectories

VARIABLES
    tracked,  \* _trajectories, the least recently used first
    state,    \* [calls, verdict, pending] of each trajectory tracked
    agent,    \* what each thread has left to do of its observe()
    queue,    \* windows handed to the semantic lane; None ends it
    worker,   \* "unstarted", "waiting", a trajectory being judged, "ended"
    closed,   \* _closed, and how far close() has come with the sentinel
    tripped,  \* the scopes the financial breaker was latched for
    judged    \* tracked trajectories some detector or observer has judged (history)

breakerVars == <<tracked, state, agent, queue, worker, closed, tripped, judged>>

New == [calls |-> <<>>, verdict |-> FALSE, pending |-> FALSE]
Idle == [todo |-> "nothing", on |-> None]

BreakerInit ==
    /\ tracked = <<>>
    /\ state = [t \in Trajectories |-> New]
    /\ agent = [a \in Agents |-> Idle]
    /\ queue = <<>>
    /\ worker = "unstarted"
    /\ closed = "no"
    /\ tripped = {}
    /\ judged = {}

-----------------------------------------------------------------------------
(* The inline detectors, on a sequence of calls whose last is the one to   *)
(* judge.                                                                  *)

Suffix(s, n) == SubSeq(s, Len(s) - n + 1, Len(s))

\* FAULT: one more repeat is let through than the policy says.
ExactRepeatLate(s) ==
    /\ Len(s) >= MaxRepeats + 1
    /\ \A i \in 1..(MaxRepeats + 1) : Suffix(s, MaxRepeats + 1)[i].print = Last(s).print

ExactRepeat(s) ==
    /\ MaxRepeats >= 1
    /\ Len(s) >= MaxRepeats
    /\ \A i \in 1..MaxRepeats : Suffix(s, MaxRepeats)[i].print = Last(s).print

\* Shingles of tool and arguments that overlap enough: calls of one tool.
Alike(newer, older) == newer.print[1] = older.print[1]

\* Unknown results are taken to agree.
Stagnant(newer, older) ==
    /\ Alike(newer, older)
    /\ \/ newer.result = None \/ older.result = None
       \/ newer.result = older.result

NearDuplicate(s) ==
    /\ MaxStreak >= 1
    /\ Len(s) >= MaxStreak + 1
    /\ LET tail == Suffix(s, MaxStreak + 1)
       IN  \A i \in 1..MaxStreak : Stagnant(tail[i + 1], tail[i])

CallCycle(s) ==
    /\ MaxPeriod >= 2 /\ MinRepeats >= 2
    /\ \E period \in 2..MaxPeriod :
         LET span == period * MinRepeats
             tail == Suffix(s, span)
         IN  /\ Len(s) >= span
             /\ \A i \in 1..span : tail[i].print = tail[((i - 1) % period) + 1].print
             /\ Cardinality({tail[i].print : i \in 1..span}) >= 2

\* How many calls a detector sees: the comparison window, history[-n:], which
\* for n = 0 is the whole history, and the call itself.
Reach == 1 + (IF ComparisonWindow = 0 THEN HistoryLimit ELSE ComparisonWindow)

\* _judge: each detector sees that much of the trajectory.
Judge(calls) ==
    LET s == IF Len(calls) <= Reach THEN calls ELSE Suffix(calls, Reach)
    IN  ExactRepeat(s) \/ NearDuplicate(s) \/ CallCycle(s)

-----------------------------------------------------------------------------
(* observe(), check(), record_result(), reset().                           *)

\* A call whose result is not known yet.
ToolCall(print) == [print |-> print, result |-> None]

\* The ring buffer of a trajectory.
Kept(calls) == IF Len(calls) > HistoryLimit THEN Tail(calls) ELSE calls

\* _touch: the trajectory becomes the most recent; beyond the bound the least
\* recent is forgotten, its latch with it.
Touched(t) ==
    LET order == Append(SelectSeq(tracked, LAMBDA u : u # t), t)
    IN  IF Len(order) > MaxTrajectories THEN Tail(order) ELSE order

Forgotten(t) == Range(tracked) \ Range(Touched(t))

\* A latched trajectory stays latched.  Otherwise a verdict of the semantic
\* lane is enforced here, or the call is judged; a call let through leaves
\* its window to the lane.
Observe(a, t) ==
    /\ agent[a].todo = "nothing"
    /\ tracked' = Touched(t)
    /\ \E print \in Prints :
         LET old == state[t]
             calls == Append(old.calls, ToolCall(print))
             new == IF old.verdict THEN old
                    ELSE [calls |-> Kept(calls), verdict |-> old.pending \/ Judge(calls),
                          pending |-> FALSE]
         IN  /\ state' = [u \in Trajectories |->
                            CASE u = t -> new
                              [] u \in Forgotten(t) -> New
                              [] OTHER -> state[u]]
             /\ agent' = [agent EXCEPT ![a] =
                            [todo |-> IF new.verdict THEN "halt" ELSE "hand over",
                             on |-> t]]
             /\ judged' = (IF new.verdict THEN judged \cup {t} ELSE judged) \ Forgotten(t)
    /\ UNCHANGED <<queue, worker, closed, tripped>>

\* FAULT: the lane's verdict is taken and stops this call only.
CheckOnce(a, t) ==
    /\ agent[a].todo = "nothing" /\ t \in Range(tracked)
    /\ state[t].verdict \/ state[t].pending
    /\ state' = [state EXCEPT ![t].pending = FALSE]
    /\ agent' = [agent EXCEPT ![a] = [todo |-> "halt", on |-> t]]
    /\ UNCHANGED <<tracked, queue, worker, closed, tripped, judged>>

\* check(): halt on a latched or judged trajectory, record nothing.
Check(a, t) ==
    /\ agent[a].todo = "nothing" /\ t \in Range(tracked)
    /\ state[t].verdict \/ state[t].pending
    /\ state' = [state EXCEPT ![t].verdict = TRUE, ![t].pending = FALSE]
    /\ agent' = [agent EXCEPT ![a] = [todo |-> "halt", on |-> t]]
    /\ UNCHANGED <<tracked, queue, worker, closed, tripped, judged>>

\* _enqueue: the worker starts on first use; a full queue drops the window.
HandOver(a) ==
    /\ agent[a].todo = "hand over"
    /\ worker' = IF worker = "unstarted" /\ closed = "no" THEN "waiting" ELSE worker
    /\ queue' = IF Len(queue) < QueueSize THEN Append(queue, agent[a].on) ELSE queue
    /\ agent' = [agent EXCEPT ![a] = Idle]
    /\ UNCHANGED <<tracked, state, closed, tripped, judged>>

\* _halt: the scope's financial breaker, and the exception.
Halt(a) ==
    /\ agent[a].todo = "halt"
    /\ tripped' = tripped \cup {agent[a].on}
    /\ agent' = [agent EXCEPT ![a] = Idle]
    /\ UNCHANGED <<tracked, state, queue, worker, closed, judged>>

\* The result goes to the trajectory's newest call.
RecordResult(t) ==
    /\ t \in Range(tracked) /\ state[t].calls # <<>>
    /\ \E r \in Results :
         state' = [state EXCEPT ![t].calls[Len(state[t].calls)].result = r]
    /\ UNCHANGED <<tracked, agent, queue, worker, closed, tripped, judged>>

Reset(t) ==
    /\ t \in Range(tracked)
    /\ tracked' = SelectSeq(tracked, LAMBDA u : u # t)
    /\ state' = [state EXCEPT ![t] = New]
    /\ judged' = judged \ {t}
    /\ UNCHANGED <<agent, queue, worker, closed, tripped>>

-----------------------------------------------------------------------------
(* The semantic lane.                                                      *)

\* _drain_lane: the next window, or the end.
Take ==
    /\ worker = "waiting" /\ queue # <<>>
    /\ worker' = IF Head(queue) = None THEN "ended" ELSE Head(queue)
    /\ queue' = Tail(queue)
    /\ UNCHANGED <<tracked, state, agent, closed, tripped, judged>>

\* FAULT: an observer that raises kills the lane.
EvaluateDying ==
    /\ worker \in Trajectories
    /\ worker' = "ended"
    /\ UNCHANGED <<tracked, state, agent, queue, closed, tripped, judged>>

\* _evaluate_window: the observer's verdict is left for the next observation
\* of a trajectory still tracked that has none.  The window may be older than
\* the trajectory: queued before a reset or an eviction.
Evaluate ==
    /\ worker \in Trajectories
    /\ \/ UNCHANGED <<state, judged>>
       \/ /\ worker \in Range(tracked)
          /\ judged' = judged \cup {worker}
          /\ state' = IF state[worker].verdict \/ state[worker].pending THEN state
                      ELSE [state EXCEPT ![worker].pending = TRUE]
    /\ worker' = "waiting"
    /\ UNCHANGED <<tracked, agent, queue, closed, tripped>>

\* close() and _stop_lane: the sentinel goes into the queue; from a full one
\* the oldest window is taken out first, and the sentinel tried once more.
Close ==
    /\ closed = "no"
    /\ closed' = IF Len(queue) < QueueSize THEN "yes" ELSE "making room"
    /\ queue' = IF Len(queue) < QueueSize THEN Append(queue, None) ELSE queue
    /\ UNCHANGED <<tracked, state, agent, worker, tripped, judged>>

MakeRoom ==
    /\ closed = "making room"
    /\ closed' = IF queue = <<>> THEN "yes" ELSE "room made"
    /\ queue' = IF queue = <<>> THEN queue ELSE Tail(queue)
    /\ UNCHANGED <<tracked, state, agent, worker, tripped, judged>>

PutSentinel ==
    /\ closed = "room made"
    /\ closed' = "yes"
    /\ queue' = IF Len(queue) < QueueSize THEN Append(queue, None) ELSE queue
    /\ UNCHANGED <<tracked, state, agent, worker, tripped, judged>>

BreakerNext ==
    \/ \E a \in Agents, t \in Trajectories : Observe(a, t) \/ Check(a, t)
    \/ \E a \in Agents : HandOver(a) \/ Halt(a)
    \/ \E t \in Trajectories : RecordResult(t) \/ Reset(t)
    \/ Take \/ Evaluate
    \/ Close \/ MakeRoom \/ PutSentinel

\* The worker and the threads inside a call keep running.
Fairness ==
    /\ WF_breakerVars(Take \/ Evaluate)
    /\ WF_breakerVars(MakeRoom \/ PutSentinel)
    /\ \A a \in Agents : WF_breakerVars(HandOver(a) \/ Halt(a))

BreakerSpec == BreakerInit /\ [][BreakerNext]_breakerVars /\ Fairness

-----------------------------------------------------------------------------
(* Properties.                                                             *)

\* The loop a detector is for, as a reader would define it: consecutive calls
\* i..j of a history that repeat.
Repeats(calls) ==
    \E i \in DOMAIN calls :
        /\ i + MaxRepeats - 1 <= Len(calls)
        /\ \A j \in i..(i + MaxRepeats - 1) : calls[j].print = calls[i].print

Cycles(calls) ==
    \E i \in DOMAIN calls, period \in 2..MaxPeriod :
        LET last == i + period * MinRepeats - 1
        IN  /\ period * MinRepeats <= Reach /\ last <= Len(calls)
            /\ \A j \in (i + period)..last : calls[j].print = calls[j - period].print
            /\ \E j \in (i + 1)..last : calls[j].print # calls[i].print

SoftLoop(calls) ==
    \E i \in DOMAIN calls :
        /\ i + MaxStreak <= Len(calls)
        /\ \A j \in (i + 1)..(i + MaxStreak) : Stagnant(calls[j], calls[j - 1])

\* No trajectory that is not latched has a loop in what the breaker remembers
\* of it, of the kinds its policy has switched on, that the comparison window
\* can hold: whatever other trajectories, results, evictions and resets came
\* between (_judge, record_result, _touch).
NoLoopUnlatched ==
    \A t \in Trajectories :
        ~state[t].verdict =>
            /\ MaxRepeats \in 1..Reach => ~Repeats(state[t].calls)
            /\ MaxStreak \in 1..(Reach - 1) => ~SoftLoop(state[t].calls)
            /\ MinRepeats >= 2 => ~Cycles(state[t].calls)

\* A verdict stands: once a detector or the lane has judged a trajectory, no call
\* on it is let through until it is reset or evicted, whatever was observed,
\* checked, recorded or judged on it or on others in between (observe, check,
\* _evaluate_window: "latched and enforced on the next inline observation").
VerdictsStand ==
    [][\A a \in Agents :
         (agent[a].todo = "nothing" /\ agent'[a].todo = "hand over")
           => agent'[a].on \notin judged']_breakerVars

\* The lane never stalls with work in it: whatever an observer answers or
\* raises, until close() windows that wait are judged.
LaneNeverStalls ==
    []<>(queue = <<>> \/ worker \in Trajectories \/ closed # "no")

=============================================================================
