----------------------------- MODULE CallProofs -----------------------------
(***************************************************************************)
(* Proofs about what stands round an agent's calls.                        *)
(*                                                                         *)
(* The life of a hold round a provider's call, for any finite set of calls *)
(* of any kinds made together: no way out of a call leaves its hold open,  *)
(* a stream is charged what its provider billed, and what calls and crews  *)
(* were seen to consume is charged once.                                   *)
(*                                                                         *)
(* The cognitive breaker, for any policy and any number of threads,        *)
(* trajectories and kinds of call: no loop its policy is after is left in  *)
(* what it remembers of a trajectory it has not latched, and a verdict of  *)
(* the semantic lane stops the trajectory's next call.                     *)
(***************************************************************************)
EXTENDS Adapters, CognitiveBreaker, FiniteSums, SequenceTheorems

----------------------------------------------------------------------------
(* The life of a hold *)

Pcs    == {"new", "authorizing", "body", "calling", "opening", "streaming", "closing",
           "resolving", "exiting", "settling", "undoing", "dropped", "ended"}
States == {"none", "open", "captured", "voided", "reaped"}
Turns  == {"out", "in", "settling", "done"}
Tokens == [Fields -> Nat]

CallTypes ==
    /\ kind \in [Calls -> AllKinds]
    /\ pc \in [Calls -> Pcs]
    /\ hold \in [Calls -> States]
    /\ charged \in [Calls -> Nat]
    /\ produced \in [Calls -> Tokens] /\ usage \in [Calls -> Tokens]
    /\ current \in [Calls -> BOOLEAN] /\ declared \in [Calls -> BOOLEAN]
    /\ raised \in [Calls -> BOOLEAN] /\ cancelled \in [Calls -> BOOLEAN]
    /\ resolved \in [Calls -> BOOLEAN]
    /\ resolver \in [Calls -> [Resolvers -> Turns]]
    /\ broke \in [Calls -> BOOLEAN]

Types ==
    /\ CallTypes
    /\ meter \in Tokens /\ settled \in Tokens

\* The kinds of call that get to each place.
Reached(c) ==
    /\ pc[c] = "body" => kind[c] = "guard"
    /\ pc[c] = "calling" => kind[c] \in {"invoke", "ainvoke", "callback", "crew", "agent"}
    /\ pc[c] \in {"opening", "streaming", "closing", "resolving"} => kind[c] \in Streams
    /\ pc[c] = "exiting" => kind[c] \notin Streams \cup Holds
    /\ pc[c] = "exiting" /\ kind[c] \in {"crew", "agent"} => raised[c]
    /\ pc[c] = "settling" => kind[c] \in {"crew", "agent"}
    /\ pc[c] = "undoing" => kind[c] \in Async \ {"akeyed"}
    /\ pc[c] = "dropped" => kind[c] \in Streams \cup {"callback"}
    /\ kind[c] = "unused" => pc[c] = "ended"
    /\ cancelled[c] => kind[c] \in Async

\* What a call has done by the time it is there.
Begun(c) ==
    /\ pc[c] \in {"new", "authorizing"} =>
           hold[c] = "none" /\ ~resolved[c] /\ ~declared[c]
    /\ pc[c] \in {"new", "authorizing", "undoing"} =>
           produced[c] = NoTokens /\ usage[c] = NoTokens
    /\ hold[c] = "none" => pc[c] \in {"new", "authorizing", "ended"}
    /\ hold[c] # "captured" => charged[c] = 0
    /\ hold[c] \in {"captured", "voided"} => pc[c] = "ended" \/ kind[c] \in Streams
    /\ produced[c]["in"] <= 1 /\ produced[c]["out"] <= MaxOut

\* resolve(), called by the stream's owner and by another task.
Resolves(c) ==
    /\ kind[c] \notin Streams => ~resolved[c]
    /\ resolver[c]["owner"] # "out" => pc[c] \in {"resolving", "ended"}
    /\ pc[c] \in {"new", "authorizing", "undoing"} => resolver[c]["closer"] = "out"
    /\ \A r \in Resolvers :
           /\ resolver[c][r] # "out" => kind[c] \in Streams
           /\ resolver[c][r] \in {"settling", "done"} => resolved[c]
    /\ resolved[c] /\ hold[c] = "open" =>
           broke[c] \/ \E r \in Resolvers : resolver[c][r] = "settling"
    /\ kind[c] \in Streams /\ pc[c] = "ended" /\ hold[c] # "none" => resolver[c]["owner"] = "done"

\* What a stream has reported is part of what its provider billed.
Billed(c) ==
    kind[c] \in Streams =>
        /\ \A f \in Fields : usage[c][f] <= produced[c][f]
        /\ current[c] => usage[c] = produced[c]
        /\ hold[c] = "captured" => charged[c] <= CostOf(produced[c])
        /\ hold[c] \in {"captured", "voided"} /\ resolver[c]["closer"] = "out" =>
               pc[c] \in {"resolving", "ended"} /\ charged[c] = CostOf(usage[c])

Ended(c) ==
    pc[c] = "ended" /\ hold[c] = "open" =>
        kind[c] \in Streams \/ broke[c] \/ KeepsHold(c) \/ Unpriced(c)

Charged(c) ==
    /\ kind[c] \in {"invoke", "ainvoke"} /\ declared[c] =>
           /\ usage[c] = produced[c]
           /\ pc[c] \in {"exiting", "ended"}
           /\ pc[c] = "exiting" => ~raised[c]
           /\ hold[c] \in {"captured", "voided"} =>
                  hold[c] = "captured" /\ charged[c] = CostOf(produced[c])
    /\ kind[c] = "callback" =>
           /\ declared[c] => usage[c] = produced[c]
           /\ hold[c] = "captured" => charged[c] >= CostOf(produced[c])
    /\ kind[c] = "guard" =>
           /\ current[c] => usage[c] = produced[c]
           /\ hold[c] = "captured" /\ (current[c] \/ ~declared[c]) =>
                  charged[c] >= CostOf(produced[c])

CallInv(c) == Reached(c) /\ Begun(c) /\ Resolves(c) /\ Billed(c) /\ Ended(c) /\ Charged(c)

\* A crew's counters only grow: any two readings of them compare.
Within(u, v) == \A f \in Fields : u[f] <= v[f]
Counted ==
    /\ Within(settled, meter)
    /\ \A c \in Crews :
           /\ Within(usage[c], meter)
           /\ Within(usage[c], settled) \/ Within(settled, usage[c])
           /\ \A d \in Crews : Within(usage[c], usage[d]) \/ Within(usage[d], usage[c])
           /\ hold[c] = "captured" => Within(usage[c], settled)
    /\ SumFunctionOnSet(charged, Crews) = CostOf(settled)

AdaptersInv == Types /\ (\A c \in Calls : CallInv(c)) /\ Counted

----------------------------------------------------------------------------
(* A step touches one call, and does not charge a crew *)

\* Nothing about a call changes.
Same(d) ==
    /\ kind'[d] = kind[d] /\ pc'[d] = pc[d] /\ hold'[d] = hold[d]
    /\ charged'[d] = charged[d] /\ produced'[d] = produced[d] /\ usage'[d] = usage[d]
    /\ current'[d] = current[d] /\ declared'[d] = declared[d] /\ raised'[d] = raised[d]
    /\ cancelled'[d] = cancelled[d] /\ resolved'[d] = resolved[d]
    /\ resolver'[d] = resolver[d] /\ broke'[d] = broke[d]

\* Nothing about a crew that Counted relates to its counters.
Aside(c) ==
    /\ kind'[c] = kind[c]
    /\ kind[c] = "crew" =>
         /\ charged'[c] = charged[c] /\ usage'[c] = usage[c]
         /\ hold'[c] = "captured" => hold[c] = "captured"

LEMMA SameKeeps == ASSUME NEW d, Same(d), CallInv(d) PROVE CallInv(d)'
<1>1. Reached(d)'
  BY DEF Same, CallInv, Reached
<1>2. Begun(d)'
  BY DEF Same, CallInv, Begun, NoTokens, Fields
<1>3. Resolves(d)'
  BY DEF Same, CallInv, Resolves
<1>4. Billed(d)'
  BY DEF Same, CallInv, Billed, CostOf
<1>5. Ended(d)'
  BY DEF Same, CallInv, Ended, KeepsHold, Unpriced
<1>6. Charged(d)'
  BY DEF Same, CallInv, Charged, CostOf
<1> QED
  BY <1>1, <1>2, <1>3, <1>4, <1>5, <1>6 DEF CallInv

Step(c) == CallTypes' /\ CallInv(c)' /\ \A d \in Calls \ {c} : Same(d)

\* Steps that only move the call on, with an exception or a cancellation.
Moves(c) ==
    \/ Start(c) \/ Denied(c) \/ UndoStream(c) \/ LeaveBody(c) \/ CloseInner(c) \/ EndStream(c)
    \/ Thrash(c) \/ Cancel(c) \/ Raises(c) \/ Open(c) \/ LeaveStream(c) \/ Drop(c) \/ Abandon(c)

LEMMA MovesStep ==
    ASSUME CallTypes, NEW c \in Calls, CallInv(c),
           Moves(c)
    PROVE  Step(c)
<1> USE DEF CallTypes, Moves, Start, Denied, UndoStream, LeaveBody, CloseInner, EndStream, Thrash,
        Cancel, Raises, Open, LeaveStream, Drop, Abandon,
        AwaitsWorker, AwaitsProvider, money, tokens, stream
<1>1. CallTypes'
  BY DEF Pcs, States, Turns, Tokens, Fields, NoTokens
<1>2. Reached(c)'
  BY DEF CallInv, Reached, Streams, Holds, Async
<1>3. Begun(c)'
  BY DEF CallInv, Reached, Begun, Streams, Holds, Async
<1>4. Resolves(c)'
  BY DEF CallInv, Reached, Begun, Resolves, Streams, Holds, Async, Resolvers
<1>5. Billed(c)'
  BY DEF CallInv, Reached, Begun, Billed, Streams, Holds, Async, CostOf
<1>6. Ended(c)'
  BY DEF CallInv, Begun, Reached, Ended, Streams, Holds, Async, KeepsHold, Unpriced
<1>7. Charged(c)'
  BY DEF CallInv, Reached, Begun, Charged, Streams, Holds, Async, CostOf
<1>8. \A d \in Calls \ {c} : Same(d)
  BY DEF Same
<1> QED
  BY <1>1, <1>2, <1>3, <1>4, <1>5, <1>6, <1>7, <1>8 DEF CallInv, Step

LEMMA EnterStep ==
    ASSUME CallTypes, NEW c \in Calls, CallInv(c),
           Enter(c) \/ Reap(c)
    PROVE  Step(c)
<1> USE DEF CallTypes, Enter, Reap, money, tokens, stream
<1>1. CallTypes'
  BY DEF Pcs, States, Turns, Tokens, Fields, NoTokens, AfterEntry
<1>2. Reached(c)'
  BY DEF CallInv, Reached, Streams, Holds, Async, AfterEntry, AllKinds
<1>3. Begun(c)'
  BY DEF CallInv, Reached, Begun, Streams, Holds, Async, AfterEntry
<1>4. Resolves(c)'
  BY DEF CallInv, Reached, Begun, Resolves, Streams, Holds, Async, Resolvers, AfterEntry
<1>5. Billed(c)'
  BY DEF CallInv, Reached, Begun, Billed, Streams, Holds, Async, CostOf
<1>6. Ended(c)'
  BY DEF CallInv, Begun, Reached, Ended, Streams, Holds, Async, KeepsHold, Unpriced, AfterEntry
<1>7. Charged(c)'
  BY DEF CallInv, Reached, Begun, Charged, Streams, Holds, Async, CostOf, AfterEntry
<1>8. \A d \in Calls \ {c} : Same(d)
  BY DEF Same
<1> QED
  BY <1>1, <1>2, <1>3, <1>4, <1>5, <1>6, <1>7, <1>8 DEF CallInv, Step

LEMMA ChecksStep ==
    ASSUME CallTypes, NEW c \in Calls, CallInv(c),
           NEW r \in Resolvers, ResolveChecks(c, r)
    PROVE  Step(c)
<1> USE DEF CallTypes, ResolveChecks, money, tokens, stream
<1>1. resolver' \in [Calls -> [Resolvers -> Turns]]
  <2>1. resolver[c] \in [Resolvers -> Turns] /\ (IF resolved[c] THEN "done" ELSE "in") \in Turns
    BY DEF Turns
  <2>2. [resolver[c] EXCEPT ![r] = (IF resolved[c] THEN "done" ELSE "in")] \in [Resolvers -> Turns]
    BY <2>1
  <2> QED
    BY <2>2
<1>2. kind[c] \in Streams
  BY DEF CallInv, Reached, Resolves, MayResolve, Streams, Resolvers
<1>3. /\ (resolver'[c][r] = "done" /\ resolved[c]) \/ (resolver'[c][r] = "in" /\ ~resolved[c])
      /\ \A o \in Resolvers \ {r} : resolver'[c][o] = resolver[c][o]
  <2>1. resolver'[c] = [resolver[c] EXCEPT ![r] = (IF resolved[c] THEN "done" ELSE "in")]
    OBVIOUS
  <2>2. resolver'[c][r] = (IF resolved[c] THEN "done" ELSE "in")
    BY <2>1
  <2>3. \A o \in Resolvers \ {r} : resolver'[c][o] = resolver[c][o]
    BY <2>1
  <2> QED
    <3>1. CASE resolved[c] = TRUE
      BY <2>2, <2>3, <3>1
    <3>2. CASE resolved[c] = FALSE
      BY <2>2, <2>3, <3>2
    <3> QED
      BY <3>1, <3>2
<1>4. CallTypes'
  BY <1>1 DEF Pcs, States, Turns, Tokens, Fields, NoTokens
<1>5. Reached(c)'
  BY DEF CallInv, Reached, Streams, Holds, Async, AllKinds
<1>6. Begun(c)'
  BY DEF CallInv, Reached, Begun, Streams, Holds, Async
<1>7. Resolves(c)'
  BY <1>2, <1>3 DEF CallInv, Reached, Begun, Resolves, Streams, Holds, Async, Resolvers, MayResolve
<1>8. Billed(c)'
  BY <1>2, <1>3 DEF CallInv, Billed, Resolvers, MayResolve
<1>9. Ended(c)'
  BY DEF CallInv, Begun, Reached, Ended, Streams, Holds, Async, KeepsHold, Unpriced
<1>10. Charged(c)'
  BY DEF CallInv, Reached, Begun, Charged, Streams, Holds, Async, CostOf
<1>11. \A d \in Calls \ {c} : Same(d)
  BY DEF Same
<1> QED
  BY <1>4, <1>5, <1>6, <1>7, <1>8, <1>9, <1>10, <1>11 DEF CallInv, Step

LEMMA MarksStep ==
    ASSUME CallTypes, NEW c \in Calls, CallInv(c),
           NEW r \in Resolvers, ResolveMarks(c, r)
    PROVE  Step(c)
<1> USE DEF CallTypes, ResolveMarks, money, tokens, stream
<1>1. resolver' \in [Calls -> [Resolvers -> Turns]]
  <2>1. resolver[c] \in [Resolvers -> Turns] /\ "settling" \in Turns
    BY DEF Turns
  <2>2. [resolver[c] EXCEPT ![r] = "settling"] \in [Resolvers -> Turns]
    BY <2>1
  <2> QED
    BY <2>2
<1>2. kind[c] \in Streams
  BY DEF CallInv, Reached, Resolves, Streams, Resolvers
<1>3. /\ resolver'[c][r] = "settling"
      /\ \A o \in Resolvers \ {r} : resolver'[c][o] = resolver[c][o]
  <2>1. resolver'[c] = [resolver[c] EXCEPT ![r] = "settling"]
    OBVIOUS
  <2>2. resolver'[c][r] = "settling"
    BY <2>1
  <2>3. \A o \in Resolvers \ {r} : resolver'[c][o] = resolver[c][o]
    BY <2>1
  <2> QED
    <3>1. CASE resolved[c] = TRUE
      BY <2>2, <2>3, <3>1
    <3>2. CASE resolved[c] = FALSE
      BY <2>2, <2>3, <3>2
    <3> QED
      BY <3>1, <3>2
<1>4. CallTypes'
  BY <1>1 DEF Pcs, States, Turns, Tokens, Fields, NoTokens
<1>5. Reached(c)'
  BY DEF CallInv, Reached, Streams, Holds, Async, AllKinds
<1>6. Begun(c)'
  BY <1>2 DEF CallInv, Begun, Resolves, Reached, Resolvers, Streams
<1>7. Resolves(c)'
  BY <1>2, <1>3 DEF CallInv, Reached, Begun, Resolves, Streams, Holds, Async, Resolvers
<1>8. Billed(c)'
  BY <1>2, <1>3 DEF CallInv, Reached, Begun, Billed, Streams, Holds, Async, CostOf
<1>9. Ended(c)'
  BY DEF CallInv, Begun, Reached, Ended, Streams, Holds, Async, KeepsHold, Unpriced
<1>10. Charged(c)'
  BY DEF CallInv, Reached, Begun, Charged, Streams, Holds, Async, CostOf
<1>11. \A d \in Calls \ {c} : Same(d)
  BY DEF Same
<1> QED
  BY <1>4, <1>5, <1>6, <1>7, <1>8, <1>9, <1>10, <1>11 DEF CallInv, Step

LEMMA AnswersStep ==
    ASSUME CallTypes, NEW c \in Calls, CallInv(c),
           Answers(c), meter \in Tokens
    PROVE  Step(c)
<1> USE DEF CallTypes, Answers, money, tokens, stream
<1>1. CallTypes'
  BY DEF Pcs, States, Turns, Tokens, Fields, NoTokens
<1>2. Reached(c)'
  BY DEF CallInv, Reached, Streams, Holds, Async, AllKinds
<1>3. Begun(c)'
  BY DEF CallInv, Reached, Begun, Streams, Holds, Async
<1>4. Resolves(c)'
  BY DEF CallInv, Reached, Begun, Resolves, Streams, Holds, Async, Resolvers
<1>5. Billed(c)'
  BY DEF CallInv, Reached, Begun, Billed, Streams, Holds, Async, CostOf
<1>6. Ended(c)'
  BY DEF CallInv, Begun, Reached, Ended, Streams, Holds, Async, KeepsHold, Unpriced
<1>7. Charged(c)'
  BY DEF CallInv, Reached, Begun, Charged, Streams, Holds, Async, CostOf
<1>8. \A d \in Calls \ {c} : Same(d)
  BY DEF Same
<1> QED
  BY <1>1, <1>2, <1>3, <1>4, <1>5, <1>6, <1>7, <1>8 DEF CallInv, Step

LEMMA CallbackEndsStep ==
    ASSUME CallTypes, NEW c \in Calls, CallInv(c),
           CallbackEnds(c), meter \in Tokens
    PROVE  Step(c)
<1> USE DEF CallTypes, CallbackEnds, money, tokens, stream
<1>1. CallTypes'
  BY DEF Pcs, States, Turns, Tokens, Fields, NoTokens
<1>2. Reached(c)'
  BY DEF CallInv, Reached, Streams, Holds, Async, AllKinds
<1>3. Begun(c)'
  BY DEF CallInv, Reached, Begun, Streams, Holds, Async
<1>4. Resolves(c)'
  BY DEF CallInv, Reached, Begun, Resolves, Streams, Holds, Async, Resolvers
<1>5. Billed(c)'
  BY DEF CallInv, Reached, Begun, Billed, Streams, Holds, Async, CostOf
<1>6. Ended(c)'
  BY DEF CallInv, Begun, Reached, Ended, Streams, Holds, Async, KeepsHold, Unpriced
<1>7. Charged(c)'
  BY DEF CallInv, Reached, Begun, Charged, Streams, Holds, Async, CostOf
<1>8. \A d \in Calls \ {c} : Same(d)
  BY DEF Same
<1> QED
  BY <1>1, <1>2, <1>3, <1>4, <1>5, <1>6, <1>7, <1>8 DEF CallInv, Step

LEMMA AgentReturnsStep ==
    ASSUME CallTypes, NEW c \in Calls, CallInv(c),
           AgentReturns(c), meter \in Tokens
    PROVE  Step(c)
<1> USE DEF CallTypes, AgentReturns, money, tokens, stream
<1>1. produced'[c] # NoTokens
  <2>1. produced'[c]["in"] = 1 /\ NoTokens["in"] = 0
    BY DEF NoTokens, Fields
  <2> QED
    BY <2>1
<1>2. CallTypes'
  BY DEF Pcs, States, Turns, Tokens, Fields, NoTokens
<1>3. Reached(c)'
  BY DEF CallInv, Reached, Streams, Holds, Async, AllKinds
<1>4. Begun(c)'
  BY DEF CallInv, Reached, Begun, Streams, Holds, Async
<1>5. Resolves(c)'
  BY DEF CallInv, Reached, Begun, Resolves, Streams, Holds, Async, Resolvers
<1>6. Billed(c)'
  BY DEF CallInv, Reached, Begun, Billed, Streams, Holds, Async, CostOf
<1>7. Ended(c)'
  BY <1>1, ZenonT(40) DEF CallInv, Begun, Reached, Ended, Streams, Holds, Async, KeepsHold, Unpriced
<1>8. Charged(c)'
  BY DEF CallInv, Reached, Begun, Charged, Streams, Holds, Async, CostOf
<1>9. \A d \in Calls \ {c} : Same(d)
  BY DEF Same
<1> QED
  BY <1>2, <1>3, <1>4, <1>5, <1>6, <1>7, <1>8, <1>9 DEF CallInv, Step

LEMMA ConsumeStep ==
    ASSUME CallTypes, NEW c \in Calls, CallInv(c),
           Consume(c), meter \in Tokens
    PROVE  Step(c)
<1> USE DEF CallTypes, Consume, money, tokens, stream
<1>1. /\ produced'[c]["in"] = 1 /\ produced'[c]["out"] = produced[c]["out"] + 1
      /\ produced[c]["in"] \in Nat /\ produced[c]["out"] \in Nat
  BY DEF Tokens, Fields
<1>2. CallTypes'
  BY DEF Pcs, States, Turns, Tokens, Fields, NoTokens
<1>3. Reached(c)'
  BY DEF CallInv, Reached, Streams, Holds, Async, AllKinds
<1>4. Begun(c)'
  BY <1>1, MeteredAssumption DEF CallInv, Reached, Begun, Streams, Holds, Async
<1>5. Resolves(c)'
  BY DEF CallInv, Reached, Begun, Resolves, Streams, Holds, Async, Resolvers
<1>6. Billed(c)'
  BY <1>1 DEF CallInv, Reached, Begun, Billed, Streams, Holds, Async, CostOf
<1>7. Ended(c)'
  BY DEF CallInv, Begun, Reached, Ended, Streams, Holds, Async, KeepsHold, Unpriced
<1>8. Charged(c)'
  BY DEF CallInv, Reached, Begun, Charged, Streams, Holds, Async, CostOf
<1>9. \A d \in Calls \ {c} : Same(d)
  BY DEF Same
<1> QED
  BY <1>2, <1>3, <1>4, <1>5, <1>6, <1>7, <1>8, <1>9 DEF CallInv, Step

LEMMA DeclareStep ==
    ASSUME CallTypes, NEW c \in Calls, CallInv(c),
           Declare(c), meter \in Tokens
    PROVE  Step(c)
<1> USE DEF CallTypes, Declare, money, tokens, stream
<1>1. CallTypes'
  BY DEF Pcs, States, Turns, Tokens, Fields, NoTokens
<1>2. Reached(c)'
  BY DEF CallInv, Reached, Streams, Holds, Async, AllKinds
<1>3. Begun(c)'
  BY DEF CallInv, Reached, Begun, Streams, Holds, Async
<1>4. Resolves(c)'
  BY DEF CallInv, Reached, Begun, Resolves, Streams, Holds, Async, Resolvers
<1>5. Billed(c)'
  BY DEF CallInv, Reached, Begun, Billed, Streams, Holds, Async, CostOf
<1>6. Ended(c)'
  BY DEF CallInv, Begun, Reached, Ended, Streams, Holds, Async, KeepsHold, Unpriced
<1>7. Charged(c)'
  BY DEF CallInv, Reached, Begun, Charged, Streams, Holds, Async, CostOf
<1>8. \A d \in Calls \ {c} : Same(d)
  BY DEF Same
<1> QED
  BY <1>1, <1>2, <1>3, <1>4, <1>5, <1>6, <1>7, <1>8 DEF CallInv, Step

LEMMA ChunkStep ==
    ASSUME CallTypes, NEW c \in Calls, CallInv(c),
           Chunk(c), meter \in Tokens
    PROVE  Step(c)
<1> USE DEF CallTypes, Chunk, money, tokens, stream
<1>1. /\ produced'[c]["in"] = 1 /\ produced'[c]["out"] = produced[c]["out"] + 1
      /\ produced[c]["in"] \in Nat /\ produced[c]["out"] \in Nat
  BY DEF Tokens, Fields
<1>2. /\ \A f \in Fields : usage'[c][f] <= produced'[c][f]
      /\ current'[c] => usage'[c] = produced'[c]
  <2>1. PICK reported \in SUBSET Fields :
            usage'[c] = Merged(usage[c],
                          [f \in Fields |-> IF f \in reported THEN produced'[c][f] ELSE 0])
    OBVIOUS
  <2>2. \A f \in Fields :
          usage'[c][f] = Larger(usage[c][f], IF f \in reported THEN produced'[c][f] ELSE 0)
    BY <2>1 DEF Merged
  <2>3. kind[c] \in Streams /\ \A f \in Fields : usage[c][f] <= produced[c][f]
    BY DEF CallInv, Reached, Billed
  <2>4. \A f \in Fields :
          produced[c][f] <= produced'[c][f] /\ produced'[c][f] \in Nat /\ usage[c][f] \in Nat
    BY <1>1 DEF CallInv, Begun, Tokens, Fields
  <2>5. \A f \in Fields : usage'[c][f] <= produced'[c][f]
    <3> TAKE f \in Fields
    <3>1. usage'[c][f] = Larger(usage[c][f], produced'[c][f]) \/ usage'[c][f] = Larger(usage[c][f], 0)
      BY <2>2
    <3>2. usage[c][f] <= produced[c][f] /\ produced[c][f] <= produced'[c][f]
          /\ usage[c][f] \in Nat /\ produced[c][f] \in Nat /\ produced'[c][f] \in Nat
      BY <2>3, <2>4 DEF Tokens
    <3>3. Larger(usage[c][f], produced'[c][f]) = produced'[c][f] /\ Larger(usage[c][f], 0) = usage[c][f]
      BY <3>2 DEF Larger
    <3> QED
      BY <3>1, <3>2, <3>3
  <2> QED
    BY <2>5
<1>3. produced[c]["in"] <= 1 /\ kind[c] \in Streams /\ Billed(c)
      /\ charged[c] \in Nat
  BY DEF CallInv, Reached, Begun
<1>4. hold[c] = "captured" => charged'[c] <= CostOf(produced'[c])
  BY <1>1, <1>3 DEF Billed, CostOf
<1>5. CallTypes'
  BY DEF Pcs, States, Turns, Tokens, Fields, NoTokens, Merged, Larger
<1>6. Reached(c)'
  BY DEF CallInv, Reached, Streams, Holds, Async, AllKinds
<1>7. Begun(c)'
  BY <1>1, MeteredAssumption DEF CallInv, Reached, Begun, Streams, Holds, Async
<1>8. Resolves(c)'
  BY DEF CallInv, Reached, Begun, Resolves, Streams, Holds, Async, Resolvers
<1>9. Billed(c)'
  BY <1>2, <1>3, <1>4 DEF Billed
<1>10. Ended(c)'
  BY DEF CallInv, Begun, Reached, Ended, Streams, Holds, Async, KeepsHold, Unpriced
<1>11. Charged(c)'
  BY DEF CallInv, Reached, Begun, Charged, Streams, Holds, Async, CostOf
<1>12. \A d \in Calls \ {c} : Same(d)
  BY DEF Same
<1> QED
  BY <1>5, <1>6, <1>7, <1>8, <1>9, <1>10, <1>11, <1>12 DEF CallInv, Step

LEMMA ReportAllStep ==
    ASSUME CallTypes, NEW c \in Calls, CallInv(c),
           ReportAll(c), meter \in Tokens
    PROVE  Step(c)
<1> USE DEF CallTypes, ReportAll, money, tokens, stream
<1>1. usage'[c] = produced[c]
  <2>1. kind[c] \in Streams /\ \A f \in Fields : usage[c][f] <= produced[c][f]
    BY DEF CallInv, Reached, Billed
  <2>2. usage[c] \in [Fields -> Nat] /\ produced[c] \in [Fields -> Nat]
    BY DEF Tokens
  <2>3. \A f \in Fields : Larger(usage[c][f], produced[c][f]) = produced[c][f]
    BY <2>1, <2>2 DEF Larger
  <2>4. Merged(usage[c], produced[c]) = produced[c]
    BY <2>2, <2>3 DEF Merged
  <2> QED
    BY <2>4
<1>2. \A f \in Fields : produced[c][f] <= produced[c][f]
  BY DEF Tokens
<1>3. CallTypes'
  BY DEF Pcs, States, Turns, Tokens, Fields, NoTokens, Merged, Larger
<1>4. Reached(c)'
  BY DEF CallInv, Reached, Streams, Holds, Async, AllKinds
<1>5. Begun(c)'
  BY DEF CallInv, Reached, Begun, Streams, Holds, Async
<1>6. Resolves(c)'
  BY DEF CallInv, Reached, Begun, Resolves, Streams, Holds, Async, Resolvers
<1>7. Billed(c)'
  BY <1>1, <1>2 DEF CallInv, Reached, Begun, Billed, Streams, Holds, Async, CostOf
<1>8. Ended(c)'
  BY DEF CallInv, Begun, Reached, Ended, Streams, Holds, Async, KeepsHold, Unpriced
<1>9. Charged(c)'
  BY DEF CallInv, Reached, Begun, Charged, Streams, Holds, Async, CostOf
<1>10. \A d \in Calls \ {c} : Same(d)
  BY DEF Same
<1> QED
  BY <1>3, <1>4, <1>5, <1>6, <1>7, <1>8, <1>9, <1>10 DEF CallInv, Step

LEMMA CrewWorksStep ==
    ASSUME CallTypes, NEW c \in Calls, CallInv(c),
           CrewWorks(c), meter \in Tokens
    PROVE  Step(c)
<1> USE DEF CallTypes, CrewWorks, money, tokens, stream
<1>1. /\ produced'[c]["in"] = 1 /\ produced'[c]["out"] = produced[c]["out"] + 1
      /\ produced[c]["in"] \in Nat /\ produced[c]["out"] \in Nat
  BY DEF Tokens, Fields
<1>2. CallTypes'
  BY DEF Pcs, States, Turns, Tokens, Fields, NoTokens
<1>3. Reached(c)'
  BY DEF CallInv, Reached, Streams, Holds, Async, AllKinds
<1>4. Begun(c)'
  BY <1>1, MeteredAssumption DEF CallInv, Reached, Begun, Streams, Holds, Async
<1>5. Resolves(c)'
  BY DEF CallInv, Reached, Begun, Resolves, Streams, Holds, Async, Resolvers
<1>6. Billed(c)'
  BY <1>1 DEF CallInv, Reached, Begun, Billed, Streams, Holds, Async, CostOf
<1>7. Ended(c)'
  BY DEF CallInv, Begun, Reached, Ended, Streams, Holds, Async, KeepsHold, Unpriced
<1>8. Charged(c)'
  BY DEF CallInv, Reached, Begun, Charged, Streams, Holds, Async, CostOf
<1>9. \A d \in Calls \ {c} : Same(d)
  BY DEF Same
<1> QED
  BY <1>2, <1>3, <1>4, <1>5, <1>6, <1>7, <1>8, <1>9 DEF CallInv, Step

LEMMA CrewReturnsStep ==
    ASSUME CallTypes, NEW c \in Calls, CallInv(c),
           CrewReturns(c), meter \in Tokens
    PROVE  Step(c)
<1> USE DEF CallTypes, CrewReturns, money, tokens, stream
<1>1. CallTypes'
  BY DEF Pcs, States, Turns, Tokens, Fields, NoTokens
<1>2. Reached(c)'
  BY DEF CallInv, Reached, Streams, Holds, Async, AllKinds
<1>3. Begun(c)'
  BY DEF CallInv, Reached, Begun, Streams, Holds, Async
<1>4. Resolves(c)'
  BY DEF CallInv, Reached, Begun, Resolves, Streams, Holds, Async, Resolvers
<1>5. Billed(c)'
  BY DEF CallInv, Reached, Begun, Billed, Streams, Holds, Async, CostOf
<1>6. Ended(c)'
  BY DEF CallInv, Begun, Reached, Ended, Streams, Holds, Async, KeepsHold, Unpriced
<1>7. Charged(c)'
  BY DEF CallInv, Reached, Begun, Charged, Streams, Holds, Async, CostOf
<1>8. \A d \in Calls \ {c} : Same(d)
  BY DEF Same
<1> QED
  BY <1>1, <1>2, <1>3, <1>4, <1>5, <1>6, <1>7, <1>8 DEF CallInv, Step

\* What settling a hold does to it: it is settled, or the store failed, or
\* somebody had settled it before.
Settled(c, to, cost) ==
    /\ hold' \in [Calls -> States] /\ charged' \in [Calls -> Nat] /\ broke' \in [Calls -> BOOLEAN]
    /\ \A d \in Calls \ {c} :
         hold'[d] = hold[d] /\ charged'[d] = charged[d] /\ broke'[d] = broke[d]
    /\ \/ /\ hold[c] = "open" /\ hold'[c] = to
          /\ charged'[c] = cost /\ broke'[c] = broke[c]
       \/ /\ hold'[c] = hold[c] /\ charged'[c] = charged[c]
          /\ hold[c] = "open" => broke'[c]
          /\ hold[c] # "open" => broke'[c] = broke[c]

LEMMA VoidSettles ==
    ASSUME CallTypes, NEW c \in Calls, Void(c) PROVE Settled(c, "voided", charged[c])
  BY DEF CallTypes, Void, Settled, States

LEMMA CaptureSettles ==
    ASSUME CallTypes, NEW c \in Calls, NEW cost \in Nat, Capture(c, cost)
    PROVE  Settled(c, "captured", cost)
<1>1. CASE /\ hold[c] = "open" /\ hold' = [hold EXCEPT ![c] = "captured"]
           /\ charged' = [charged EXCEPT ![c] = cost] /\ UNCHANGED broke
  BY <1>1 DEF CallTypes, Settled, States
<1>2. CASE /\ broke' = [broke EXCEPT ![c] = @ \/ hold[c] = "open"]
           /\ UNCHANGED <<hold, charged>>
  BY <1>2 DEF CallTypes, Settled, States
<1> QED
  BY <1>1, <1>2 DEF Capture

LEMMA UndoStep ==
    ASSUME CallTypes, NEW c \in Calls, CallInv(c),
           Undo(c)
    PROVE  Step(c)
<1> USE DEF CallTypes, Undo, money, tokens, stream
<1>1. Settled(c, "voided", charged[c])
  BY VoidSettles DEF CallTypes
<1>2. CallTypes'
  BY <1>1 DEF Settled, Pcs, Turns
<1>3. Reached(c)'
  BY <1>1 DEF CallInv, Reached, Streams, Holds, Async, AllKinds
<1>4. Begun(c)'
  BY <1>1 DEF Settled, CallInv, Reached, Begun, Streams, Holds, Async
<1>5. Resolves(c)'
  BY <1>1 DEF Settled, CallInv, Reached, Begun, Streams, Holds, Async, Resolves, Resolvers
<1>6. Billed(c)'
  BY <1>1 DEF Settled, CallInv, Reached, Begun, Streams, Holds, Async, Billed, CostOf
<1>7. Ended(c)'
  BY <1>1 DEF Settled, CallInv, Reached, Begun, Streams, Holds, Async, Ended, KeepsHold, Unpriced
<1>8. Charged(c)'
  BY <1>1 DEF Settled, CallInv, Reached, Begun, Streams, Holds, Async, Charged, CostOf
<1>9. \A d \in Calls \ {c} : Same(d)
  BY <1>1 DEF Same, Settled
<1> QED
  BY <1>2, <1>3, <1>4, <1>5, <1>6, <1>7, <1>8, <1>9 DEF CallInv, Step

LEMMA ExitStep ==
    ASSUME CallTypes, NEW c \in Calls, CallInv(c),
           Exit(c)
    PROVE  Step(c)
<1> USE DEF CallTypes, Exit, money, tokens, stream
<1>1. Charge(c) \in Nat
  BY MeteredAssumption DEF Charge, CostOf, HoldAmount, Tokens, Fields
<1>2. PICK x \in Nat : x = Charge(c)
  BY <1>1
<1>3. \/ raised[c] /\ Settled(c, "voided", charged[c])
      \/ ~raised[c] /\ Settled(c, "captured", x)
  BY <1>2, VoidSettles, CaptureSettles DEF CallTypes
<1>4. /\ produced[c]["in"] \in Nat /\ produced[c]["out"] \in Nat
      /\ produced[c]["in"] <= 1 /\ produced[c]["out"] <= MaxOut
  BY DEF CallInv, Begun, Tokens, Fields
<1>5. CostOf(produced[c]) \in Nat /\ CostOf(produced[c]) <= HoldAmount
  BY <1>4, MeteredAssumption DEF CostOf, HoldAmount
<1>6. /\ kind[c] \in {"invoke", "ainvoke"} /\ declared[c] => x = CostOf(produced[c])
      /\ kind[c] = "callback" => x >= CostOf(produced[c])
      /\ kind[c] = "guard" /\ (current[c] \/ ~declared[c]) => x >= CostOf(produced[c])
  BY <1>2, <1>5 DEF Charge, CallInv, Charged
<1>7. CallTypes'
  BY <1>3, <1>2 DEF Settled, Pcs, Turns
<1>8. Reached(c)'
  BY <1>3, <1>2 DEF CallInv, Reached, Streams, Holds, Async, AllKinds
<1>9. Begun(c)'
  BY <1>3, <1>2 DEF Settled, CallInv, Reached, Begun, Streams, Holds, Async
<1>10. Resolves(c)'
  BY <1>3, <1>2 DEF Settled, CallInv, Reached, Begun, Streams, Holds, Async, Resolves, Resolvers
<1>11. Billed(c)'
  BY <1>3, <1>2 DEF Settled, CallInv, Reached, Begun, Streams, Holds, Async, Billed, CostOf
<1>12. Ended(c)'
  BY <1>3, <1>2 DEF Settled, CallInv, Reached, Begun, Streams, Holds, Async, Ended, KeepsHold,
     Unpriced
<1>13. Charged(c)'
  BY <1>3, <1>6 DEF Settled, CallInv, Reached, Begun, Streams, Holds, Async, Charged
<1>14. \A d \in Calls \ {c} : Same(d)
  BY <1>3, <1>2 DEF Same, Settled
<1> QED
  BY <1>7, <1>8, <1>9, <1>10, <1>11, <1>12, <1>13, <1>14 DEF CallInv, Step

LEMMA SettlesStep ==
    ASSUME CallTypes, NEW c \in Calls, CallInv(c),
           NEW r \in Resolvers, ResolveSettles(c, r)
    PROVE  Step(c)
<1> USE DEF CallTypes, ResolveSettles, money, tokens, stream
<1>1. CostOf(usage[c]) \in Nat
  BY MeteredAssumption DEF CostOf, Tokens, Fields
<1>2. PICK x \in Nat : x = CostOf(usage[c])
  BY <1>1
<1>3. \/ CostOf(usage[c]) = 0 /\ Settled(c, "voided", charged[c])
      \/ TRUE /\ Settled(c, "captured", x)
  BY <1>2, VoidSettles, CaptureSettles DEF CallTypes, SettleStream
<1>4. resolver' \in [Calls -> [Resolvers -> Turns]]
  <2>1. resolver[c] \in [Resolvers -> Turns] /\ "done" \in Turns
    BY DEF Turns
  <2>2. [resolver[c] EXCEPT ![r] = "done"] \in [Resolvers -> Turns]
    BY <2>1
  <2> QED
    BY <2>2
<1>5. kind[c] \in Streams
  BY DEF CallInv, Reached, Resolves, Streams, Resolvers
<1>6. /\ resolver'[c][r] = "done"
      /\ \A o \in Resolvers \ {r} : resolver'[c][o] = resolver[c][o]
  <2>1. resolver'[c] = [resolver[c] EXCEPT ![r] = "done"]
    OBVIOUS
  <2>2. resolver'[c][r] = "done"
    BY <2>1
  <2>3. \A o \in Resolvers \ {r} : resolver'[c][o] = resolver[c][o]
    BY <2>1
  <2> QED
    <3>1. CASE resolved[c] = TRUE
      BY <2>2, <2>3, <3>1
    <3>2. CASE resolved[c] = FALSE
      BY <2>2, <2>3, <3>2
    <3> QED
      BY <3>1, <3>2
<1>7. CostOf(usage[c]) <= CostOf(produced[c])
  <2>1. /\ usage[c]["in"] <= produced[c]["in"] /\ usage[c]["out"] <= produced[c]["out"]
        /\ usage[c]["in"] \in Nat /\ usage[c]["out"] \in Nat
        /\ produced[c]["in"] \in Nat /\ produced[c]["out"] \in Nat
    BY <1>5 DEF CallInv, Billed, Fields, Tokens
  <2> QED
    BY <2>1 DEF CostOf
<1>8. CostOf(produced'[c]) = CostOf(produced[c]) /\ CostOf(usage'[c]) = CostOf(usage[c])
  OBVIOUS
<1>9. CallTypes'
  BY <1>3, <1>2, <1>4, <1>5, <1>6 DEF Settled, Pcs, Turns
<1>10. Reached(c)'
  BY <1>3, <1>2, <1>4, <1>5, <1>6 DEF CallInv, Reached, Streams, Holds, Async, AllKinds
<1>11. Begun(c)'
  BY <1>3, <1>2, <1>4, <1>5, <1>6 DEF Settled, CallInv, Reached, Begun, Streams, Holds, Async
<1>12. Resolves(c)'
  BY <1>3, <1>2, <1>4, <1>5, <1>6 DEF Settled, CallInv, Reached, Begun, Streams, Holds, Async,
     Resolves, Resolvers
<1>13. Billed(c)'
  BY <1>3, <1>2, <1>5, <1>6, <1>7, <1>8 DEF Settled, CallInv, Reached, Begun, Streams, Holds,
     Async, Billed, Resolves, Resolvers
<1>14. Ended(c)'
  BY <1>3, <1>2, <1>4, <1>5, <1>6 DEF Settled, CallInv, Reached, Begun, Streams, Holds, Async,
     Ended, KeepsHold, Unpriced
<1>15. Charged(c)'
  BY <1>3, <1>2, <1>4, <1>5, <1>6 DEF Settled, CallInv, Reached, Begun, Streams, Holds, Async,
     Charged, CostOf
<1>16. \A d \in Calls \ {c} : Same(d)
  BY <1>3, <1>2, <1>4, <1>5, <1>6 DEF Same, Settled
<1> QED
  BY <1>9, <1>10, <1>11, <1>12, <1>13, <1>14, <1>15, <1>16 DEF CallInv, Step

LEMMA AgentSettlesStep ==
    ASSUME CallTypes, NEW c \in Calls, CallInv(c),
           AgentSettles(c)
    PROVE  Step(c)
<1> USE DEF CallTypes, AgentSettles, money, tokens, stream
<1>1. CostOf(usage[c]) \in Nat
  BY MeteredAssumption DEF CostOf, Tokens, Fields
<1>2. PICK x \in Nat : x = CostOf(usage[c])
  BY <1>1
<1>3. \/ TRUE /\ Settled(c, "voided", charged[c])
      \/ TRUE /\ Settled(c, "captured", x)
  BY <1>2, VoidSettles, CaptureSettles DEF CallTypes, SettleAt
<1>4. CallTypes'
  BY <1>3, <1>2 DEF Settled, Pcs, Turns
<1>5. Reached(c)'
  BY <1>3, <1>2 DEF CallInv, Reached, Streams, Holds, Async, AllKinds
<1>6. Begun(c)'
  BY <1>3, <1>2 DEF Settled, CallInv, Reached, Begun, Streams, Holds, Async
<1>7. Resolves(c)'
  BY <1>3, <1>2 DEF Settled, CallInv, Reached, Begun, Streams, Holds, Async, Resolves, Resolvers
<1>8. Billed(c)'
  BY <1>3, <1>2 DEF Settled, CallInv, Reached, Begun, Streams, Holds, Async, Billed, CostOf
<1>9. Ended(c)'
  BY <1>3, <1>2 DEF Settled, CallInv, Reached, Begun, Streams, Holds, Async, Ended, KeepsHold,
     Unpriced
<1>10. Charged(c)'
  BY <1>3, <1>2 DEF Settled, CallInv, Reached, Begun, Streams, Holds, Async, Charged, CostOf
<1>11. \A d \in Calls \ {c} : Same(d)
  BY <1>3, <1>2 DEF Same, Settled
<1> QED
  BY <1>4, <1>5, <1>6, <1>7, <1>8, <1>9, <1>10, <1>11 DEF CallInv, Step


LEMMA CrewSettlesStep ==
    ASSUME CallTypes, NEW c \in Calls, CallInv(c), CrewSettles(c),
           meter \in Tokens, settled \in Tokens
    PROVE  Step(c)
<1> USE DEF CallTypes, CrewSettles, money, tokens, stream
<1>1. PICK cumulative \in Cumulative(c) : SettleAt(c, Since(cumulative))
  OBVIOUS
<1>2. CostOf(Since(cumulative)) \in Nat
  <2>1. cumulative \in [Fields -> Nat] /\ settled \in [Fields -> Nat]
    BY DEF Cumulative, Tokens, NoTokens
  <2>2. \A f \in Fields : Since(cumulative)[f] \in Nat
    BY <2>1 DEF Since
  <2> QED
    BY <2>2 DEF CostOf, Fields
<1>3. PICK x \in Nat : x = CostOf(Since(cumulative))
  BY <1>2
<1>4. Settled(c, "voided", charged[c]) \/ Settled(c, "captured", x)
  BY <1>1, <1>3, VoidSettles, CaptureSettles DEF SettleAt
<1>5. CallTypes'
  BY <1>4 DEF Settled, Pcs, Turns
<1>6. Reached(c)'
  BY DEF CallInv, Reached, Streams, Holds, Async
<1>7. Begun(c)'
  BY <1>4 DEF Settled, CallInv, Reached, Begun, Streams
<1>8. Resolves(c)'
  BY <1>4 DEF Settled, CallInv, Reached, Begun, Streams, Resolves, Resolvers
<1>9. Billed(c)'
  BY DEF Billed, Streams
<1>10. Ended(c)'
  BY <1>4 DEF Settled, CallInv, Reached, Begun, Ended, KeepsHold, Unpriced
<1>11. Charged(c)'
  BY DEF Charged
<1>12. \A d \in Calls \ {c} : Same(d)
  BY <1>4 DEF Same, Settled
<1> QED
  BY <1>5, <1>6, <1>7, <1>8, <1>9, <1>10, <1>11, <1>12 DEF CallInv, Step

LEMMA ReleaseStep ==
    ASSUME CallTypes, \A c \in Calls : CallInv(c), ReleaseAll
    PROVE  CallTypes' /\ \A c \in Calls : CallInv(c)' /\ Aside(c)
<1> USE DEF CallTypes, ReleaseAll, Outstanding, money, tokens, stream
<1>1. CallTypes'
  BY DEF Pcs
<1>2. ASSUME NEW c \in Calls PROVE CallInv(c)' /\ Aside(c)
  <2>0. CallInv(c)
    OBVIOUS
  <2>1. Reached(c)'
    BY <2>0 DEF CallInv, Reached, Streams, Holds, Async
  <2>2. Begun(c)'
    BY <2>0 DEF CallInv, Begun, Streams
  <2>3. Resolves(c)'
    BY <2>0 DEF CallInv, Reached, Resolves, Streams
  <2>4. Billed(c)'
    BY <2>0 DEF CallInv, Reached, Billed, Streams
  <2>5. Ended(c)'
    BY <2>0 DEF CallInv, Ended, KeepsHold, Unpriced
  <2>6. Charged(c)'
    BY <2>0 DEF CallInv, Charged
  <2>7. Aside(c)
    BY DEF Aside
  <2> QED
    BY <2>1, <2>2, <2>3, <2>4, <2>5, <2>6, <2>7 DEF CallInv
<1> QED
  BY <1>1, <1>2

----------------------------------------------------------------------------
(* The crew's counters *)

\* What any step but a crew's own does not disturb.
LEMMA CountedKept ==
    ASSUME Types, CallTypes', Counted, Unmetered, \A c \in Calls : Aside(c)
    PROVE  Counted'
<1>1. Crews' = Crews
  BY DEF Crews, Aside
<1>2. \A c \in Crews : /\ c \in Calls /\ usage'[c] = usage[c] /\ charged'[c] = charged[c]
                       /\ hold'[c] = "captured" => hold[c] = "captured"
  BY DEF Crews, Aside
<1>3. SumFunctionOnSet(charged, Crews)' = SumFunctionOnSet(charged, Crews)
  <2>1. PICK f, g, T : f = charged /\ g = charged' /\ T = Crews
    OBVIOUS
  <2>2. f \in [Calls -> Int] /\ g \in [Calls -> Int] /\ T \in SUBSET Calls
    BY <2>1 DEF Types, CallTypes, Crews
  <2>3. \A x \in T : f[x] = g[x]
    BY <1>2, <2>1
  <2>4. IsFiniteSet(Calls)
    BY MeteredAssumption
  <2>5. SumFunctionOnSet(f, T) = SumFunctionOnSet(g, T)
    BY <2>2, <2>3, <2>4, SumOutside
  <2> QED
    BY <1>1, <2>1, <2>5
<1>4. meter' = meter /\ settled' = settled
  BY DEF Unmetered
<1> HIDE DEF Unmetered
<1>5. SumFunctionOnSet(charged, Crews)' = CostOf(settled)'
  BY <1>3, <1>4 DEF Counted, CostOf
<1>6. Within(settled, meter)'
  BY <1>4 DEF Counted, Within
<1>7. ASSUME NEW c \in Crews
      PROVE  /\ Within(usage[c], meter)'
             /\ Within(usage[c], settled)' \/ Within(settled, usage[c])'
             /\ \A d \in Crews : Within(usage[c], usage[d])' \/ Within(usage[d], usage[c])'
             /\ (hold[c] = "captured")' => Within(usage[c], settled)'
  BY <1>2, <1>4, <1>7 DEF Counted, Within
<1> QED
  BY <1>1, <1>5, <1>6, <1>7 DEF Counted

\* The work of a crew's run only adds to what the crew has counted.
LEMMA WorksCounted ==
    ASSUME Types, NEW c \in Calls, CallInv(c), Counted, CrewWorks(c)
    PROVE  Counted' /\ meter' \in Tokens /\ settled' \in Tokens
<1>1. /\ produced'[c]["in"] = 1 /\ produced'[c]["out"] = produced[c]["out"] + 1
      /\ produced[c]["in"] \in Nat /\ produced[c]["out"] \in Nat /\ produced[c]["in"] <= 1
  BY DEF Types, CallTypes, CallInv, Begun, CrewWorks, Tokens, Fields
<1>2. ASSUME NEW f \in Fields
      PROVE  meter'[f] \in Nat /\ meter[f] \in Nat /\ meter[f] <= meter'[f]
  <2>1. /\ meter[f] \in Nat /\ produced[c][f] \in Nat /\ produced'[c][f] \in Nat
        /\ produced[c][f] <= produced'[c][f]
    BY <1>1 DEF Types, Tokens, Fields
  <2>2. meter'[f] = meter[f] + produced'[c][f] - produced[c][f]
    BY DEF CrewWorks
  <2> QED
    BY <2>1, <2>2
<1>3. meter' \in Tokens
  <2>1. meter' = [f \in Fields |-> meter'[f]]
    BY DEF CrewWorks
  <2> QED
    BY <1>2, <2>1 DEF Tokens
<1>4. UNCHANGED <<kind, hold, charged, usage, settled>>
  BY DEF CrewWorks, money
<1>5. Crews' = Crews
  BY <1>4 DEF Crews
<1>6. ASSUME NEW u \in Tokens, Within(u, meter) PROVE \A f \in Fields : u[f] <= meter'[f]
  BY <1>2, <1>6 DEF Within, Tokens
<1>7. Within(settled, meter)' /\ \A d \in Crews : Within(usage[d], meter)'
  BY <1>4, <1>6 DEF Counted, Types, CallTypes, Crews, Within
<1>8. SumFunctionOnSet(charged, Crews)' = CostOf(settled)'
  BY <1>4, <1>5 DEF Counted
<1>9. \A d \in Crews :
        /\ Within(usage[d], settled)' \/ Within(settled, usage[d])'
        /\ \A e \in Crews : Within(usage[d], usage[e])' \/ Within(usage[e], usage[d])'
        /\ (hold[d] = "captured")' => Within(usage[d], settled)'
  BY <1>4 DEF Counted, Within
<1> QED
  BY <1>3, <1>4, <1>5, <1>7, <1>8, <1>9 DEF Counted, Types

\* A run returns with the crew's counters as they are, the greatest reading so
\* far, or with none, the least.
LEMMA ReturnsCounted ==
    ASSUME Types, NEW c \in Calls, CallInv(c), Counted, CrewReturns(c)
    PROVE  Counted' /\ meter' \in Tokens /\ settled' \in Tokens
<1>1. UNCHANGED <<kind, hold, charged, meter, settled>> /\ kind[c] = "crew" /\ pc[c] = "calling"
  BY DEF CrewReturns, money, Unmetered
<1>2. Crews' = Crews /\ Crews \subseteq Calls
  BY <1>1 DEF Crews
<1>3. PICK seen \in {meter, NoTokens} : usage' = [usage EXCEPT ![c] = seen]
  BY DEF CrewReturns
<1>4. usage'[c] = seen /\ \A d \in Crews \ {c} : usage'[d] = usage[d]
  BY <1>2, <1>3 DEF Types, CallTypes
<1>5. hold[c] # "captured"
  BY <1>1 DEF CallInv, Begun, Streams
<1>6. seen \in Tokens /\ meter \in Tokens /\ settled \in Tokens /\ \A d \in Crews : usage[d] \in Tokens
  BY <1>2 DEF Types, CallTypes, Tokens, NoTokens
<1>7. Within(seen, meter)
  BY <1>6 DEF Within, Tokens, NoTokens
<1>8. ASSUME NEW u \in Tokens, Within(u, meter) PROVE Within(u, seen) \/ Within(seen, u)
  <2>1. CASE seen = meter
    BY <1>8, <2>1
  <2>2. CASE seen = NoTokens
    BY <2>2 DEF Within, NoTokens, Tokens
  <2> QED
    BY <2>1, <2>2
<1>9. Within(seen, seen)
  BY <1>6 DEF Within, Tokens
<1>10. ASSUME NEW d \in Crews
       PROVE  /\ Within(usage'[d], meter)
              /\ Within(usage'[d], settled) \/ Within(settled, usage'[d])
              /\ \A e \in Crews : Within(usage'[d], usage'[e]) \/ Within(usage'[e], usage'[d])
              /\ hold[d] = "captured" => Within(usage'[d], settled)
  BY <1>4, <1>5, <1>6, <1>7, <1>8, <1>9 DEF Counted
<1>11. SumFunctionOnSet(charged, Crews)' = CostOf(settled)'
  BY <1>1, <1>2 DEF Counted
<1> QED
  BY <1>1, <1>2, <1>6, <1>10, <1>11 DEF Counted, Within

\* A run settles: what it is charged is what the watermark moves by.
LEMMA SettlesCounted ==
    ASSUME Types, NEW c \in Calls, CallInv(c), Counted, CrewSettles(c), CallTypes'
    PROVE  Counted' /\ meter' \in Tokens /\ settled' \in Tokens
<1>1. PICK cumulative \in Cumulative(c) :
         /\ SettleAt(c, Since(cumulative))
         /\ settled' = IF hold'[c] = "captured" THEN cumulative ELSE settled
  BY DEF CrewSettles
<1>2. UNCHANGED <<kind, usage, meter>> /\ kind[c] = "crew" /\ pc[c] = "settling"
  BY DEF CrewSettles, tokens
<1>3. Crews' = Crews /\ Crews \subseteq Calls /\ c \in Crews
  BY <1>2 DEF Crews
<1>4. /\ cumulative \in Tokens /\ meter \in Tokens /\ settled \in Tokens
      /\ \A d \in Crews : usage[d] \in Tokens
  BY <1>3 DEF Types, CallTypes, Tokens, NoTokens, Cumulative
<1>5. hold[c] # "captured" /\ charged[c] = 0
  BY <1>2 DEF CallInv, Begun, Streams
<1>6. /\ Within(cumulative, meter)
      /\ Within(usage[c], cumulative)
      /\ Within(cumulative, settled) \/ Within(settled, cumulative)
      /\ \A d \in Crews : Within(usage[d], cumulative) \/ Within(cumulative, usage[d])
  <2>1. \A d \in Crews : Within(NoTokens, usage[d])
    BY <1>4 DEF Within, NoTokens, Tokens
  <2>2. \A u \in Tokens : Within(NoTokens, u) /\ Within(u, u)
    BY DEF Within, NoTokens, Tokens
  <2>3. CASE cumulative = usage[c]
    BY <1>3, <1>4, <2>2, <2>3 DEF Counted
  <2>4. CASE usage[c] = NoTokens /\ cumulative = meter
    BY <1>3, <1>4, <2>2, <2>4 DEF Counted
  <2>5. CASE usage[c] = NoTokens /\ cumulative = NoTokens
    BY <1>3, <1>4, <2>2, <2>5 DEF Counted
  <2> QED
    BY <1>1, <2>3, <2>4, <2>5 DEF Cumulative
<1>7. /\ settled["in"] \in Nat /\ settled["out"] \in Nat
      /\ cumulative["in"] \in Nat /\ cumulative["out"] \in Nat
      /\ CostOf(settled) \in Nat /\ CostOf(cumulative) \in Nat /\ CostOf(Since(cumulative)) \in Nat
  <2>1. \A f \in Fields : settled[f] \in Nat /\ cumulative[f] \in Nat
    BY <1>4 DEF Tokens
  <2>2. \A f \in Fields : Since(cumulative)[f] \in Nat
    BY <2>1 DEF Since
  <2> QED
    BY <2>1, <2>2 DEF Fields, CostOf
<1>8. CASE hold'[c] # "captured"
  <2>1. \A d \in Calls : Aside(d)
    <3>1. Settled(c, "voided", charged[c]) \/ UNCHANGED <<hold, charged>>
      BY <1>1, <1>8, VoidSettles DEF SettleAt, Capture, Types, CallTypes
    <3> QED
      BY <1>2, <1>8, <3>1 DEF Aside, Settled
  <2>2. Unmetered
    BY <1>1, <1>2, <1>8 DEF Unmetered
  <2> QED
    BY <1>4, <2>1, <2>2, CountedKept DEF Unmetered
<1>9. CASE hold'[c] = "captured"
  <2>1. CostOf(Since(cumulative)) # 0 /\ settled' = cumulative
        /\ hold' = [hold EXCEPT ![c] = "captured"]
        /\ charged' = [charged EXCEPT ![c] = CostOf(Since(cumulative))]
    BY <1>1, <1>5, <1>9 DEF SettleAt, Capture, Void, Types, CallTypes
  <2>2. Within(settled, cumulative)
    <3>1. ASSUME Within(cumulative, settled) PROVE FALSE
      <4>1. \A f \in Fields : ~(cumulative[f] > settled[f])
        BY <1>4, <3>1 DEF Within, Tokens
      <4>2. \A f \in Fields : Since(cumulative)[f] = 0
        BY <4>1 DEF Since
      <4> QED
        BY <2>1, <4>2 DEF CostOf, Fields
    <3> QED
      BY <1>6, <3>1
  <2>3. CostOf(Since(cumulative)) = CostOf(cumulative) - CostOf(settled)
    <3>1. ASSUME NEW f \in Fields PROVE Since(cumulative)[f] = cumulative[f] - settled[f]
      <4>1. cumulative[f] \in Nat /\ settled[f] \in Nat /\ settled[f] <= cumulative[f]
        BY <1>4, <2>2 DEF Within, Tokens
      <4>2. Since(cumulative)[f] = IF cumulative[f] > settled[f] THEN cumulative[f] - settled[f] ELSE 0
        BY DEF Since
      <4> QED
        BY <4>1, <4>2
    <3> QED
      BY <1>7, <3>1 DEF CostOf, Fields
  <2>4. SumFunctionOnSet(charged, Crews)' = CostOf(settled)'
    <3>1. PICK f, g, T : f = charged /\ g = charged' /\ T = Crews
      OBVIOUS
    <3>2. f \in [Calls -> Int] /\ g \in [Calls -> Int] /\ T \in SUBSET Calls /\ c \in T
      BY <1>3, <3>1 DEF Types, CallTypes
    <3>3. \A y \in Calls \ {c} : (y \in T <=> y \in T) /\ (y \in T => f[y] = g[y])
      BY <2>1, <3>1 DEF Types, CallTypes
    <3>4. IsFiniteSet(Calls)
      BY MeteredAssumption
    <3>5. SumFunctionOnSet(g, T) = SumFunctionOnSet(f, T) + (IF c \in T THEN g[c] ELSE 0)
                                                          - (IF c \in T THEN f[c] ELSE 0)
      BY <3>2, <3>3, <3>4, SumChange
    <3>6. g[c] = CostOf(cumulative) - CostOf(settled) /\ f[c] = 0
      BY <1>5, <2>1, <2>3, <3>1 DEF Types, CallTypes
    <3>7. SumFunctionOnSet(f, T) = CostOf(settled)
      BY <3>1 DEF Counted
    <3>8. SumFunctionOnSet(g, T) = CostOf(cumulative)
      BY <1>7, <3>2, <3>5, <3>6, <3>7
    <3> QED
      BY <1>3, <2>1, <3>1, <3>8 DEF CostOf
  <2>5. \A d \in Crews : hold'[d] = "captured" => Within(usage[d], cumulative)
    <3> SUFFICES ASSUME NEW d \in Crews, hold'[d] = "captured" PROVE Within(usage[d], cumulative)
      OBVIOUS
    <3>1. CASE d = c
      BY <1>6, <3>1
    <3>2. CASE d # c
      <4>1. Within(usage[d], settled)
        BY <1>3, <2>1, <3>2 DEF Counted, Types, CallTypes
      <4> QED
        BY <1>4, <2>2, <4>1 DEF Within, Tokens
    <3> QED
      BY <3>1, <3>2
  <2>6. \A d, e \in Crews :
          Within(usage[d], meter) /\ (Within(usage[d], usage[e]) \/ Within(usage[e], usage[d]))
    BY DEF Counted
  <2> QED
    BY <1>2, <1>3, <1>4, <1>6, <2>1, <2>4, <2>5, <2>6 DEF Counted, Within
<1> QED
  BY <1>8, <1>9

----------------------------------------------------------------------------
(* The invariant *)

\* The steps that leave every crew's counters alone.
Others(c) ==
    \/ Proceed(c) \/ Happen(c) \/ AgentSettles(c)
    \/ CallbackEnds(c) \/ Abandon(c) \/ AgentReturns(c)

LEMMA OthersStep ==
    ASSUME Types, NEW c \in Calls, CallInv(c), Others(c)
    PROVE  Step(c) /\ Aside(c)
<1>0. CallTypes /\ meter \in Tokens
  BY DEF Types
<1>1. CASE Moves(c)
  <2>1. Step(c)
    BY <1>0, <1>1, MovesStep
  <2>2. UNCHANGED <<kind, hold, charged, usage>>
    BY <1>1 DEF Moves, Start, Denied, UndoStream, LeaveBody, CloseInner, EndStream, Thrash,
                Cancel, Raises, Open, LeaveStream, Drop, Abandon, money, tokens
  <2> QED
    BY <2>1, <2>2 DEF Aside
<1>2. CASE Enter(c) \/ Reap(c)
  <2>1. Step(c)
    BY <1>0, <1>2, EnterStep
  <2>2. UNCHANGED <<kind, charged, usage>> /\ hold'[c] \in {"open", "reaped"}
    BY <1>0, <1>2 DEF CallTypes, Enter, Reap, tokens
  <2> QED
    BY <2>1, <2>2 DEF Aside
<1>3. CASE Consume(c) \/ Declare(c) \/ Chunk(c) \/ ReportAll(c)
           \/ Answers(c) \/ CallbackEnds(c) \/ AgentReturns(c)
  <2>1. Step(c)
    BY <1>0, <1>3, ConsumeStep, DeclareStep, ChunkStep, ReportAllStep, AnswersStep,
       CallbackEndsStep, AgentReturnsStep
  <2>2. UNCHANGED <<kind, hold, charged>> /\ kind[c] # "crew"
    BY <1>3 DEF Consume, Declare, Chunk, ReportAll, Answers, CallbackEnds, AgentReturns, money,
                CallInv, Reached, Streams
  <2> QED
    BY <2>1, <2>2 DEF Aside
<1>4. ASSUME NEW r \in Resolvers, ResolveChecks(c, r) \/ ResolveMarks(c, r) \/ ResolveSettles(c, r)
      PROVE  Step(c) /\ Aside(c)
  <2>1. Step(c)
    BY <1>0, <1>4, ChecksStep, MarksStep, SettlesStep
  <2>2. UNCHANGED kind /\ kind[c] # "crew"
    BY <1>4 DEF ResolveChecks, ResolveMarks, ResolveSettles, MayResolve, Resolvers,
                CallInv, Reached, Resolves, Streams
  <2> QED
    BY <2>1, <2>2 DEF Aside
<1>5. CASE Undo(c) \/ AgentSettles(c)
  <2>1. Step(c)
    BY <1>0, <1>5, UndoStep, AgentSettlesStep
  <2>2. UNCHANGED kind /\ kind[c] # "crew"
    BY <1>5 DEF Undo, AgentSettles, CallInv, Reached, Async, Holds
  <2> QED
    BY <2>1, <2>2 DEF Aside
<1>6. CASE Exit(c)
  <2>1. Step(c)
    BY <1>0, <1>6, ExitStep
  <2>2. UNCHANGED <<kind, usage>> /\ (kind[c] = "crew" => Void(c))
    BY <1>6 DEF Exit, tokens, CallInv, Reached
  <2>3. kind[c] = "crew" => Settled(c, "voided", charged[c])
    BY <1>0, <2>2, VoidSettles
  <2> QED
    BY <2>1, <2>2, <2>3 DEF Aside, Settled
<1> QED
  BY <1>1, <1>2, <1>3, <1>4, <1>5, <1>6 DEF Others, Proceed, Happen, Moves

LEMMA InvInit == InitAll => AdaptersInv
<1> SUFFICES ASSUME InitAll PROVE AdaptersInv
  OBVIOUS
<1> USE DEF InitAll, Init
<1>1. Types
  BY MeteredAssumption DEF Types, CallTypes, Pcs, States, Tokens, NoTokens, Turns
<1>2. ASSUME NEW c \in Calls PROVE CallInv(c)
  <2>1. Reached(c)
    BY DEF Reached
  <2>2. Begun(c)
    BY MeteredAssumption DEF Begun, NoTokens, Fields
  <2>3. Resolves(c)
    BY DEF Resolves, Resolvers
  <2>4. Billed(c)
    BY DEF Billed, NoTokens
  <2>5. Ended(c)
    BY DEF Ended
  <2>6. Charged(c)
    BY DEF Charged
  <2> QED
    BY <2>1, <2>2, <2>3, <2>4, <2>5, <2>6 DEF CallInv
<1>3. Counted
  <2>1. SumFunctionOnSet(charged, Crews) = 0
    <3>1. PICK f, T : f = charged /\ T = Crews
      OBVIOUS
    <3>2. f \in [Calls -> Int] /\ T \in SUBSET Calls /\ IsFiniteSet(Calls) /\ \A x \in Calls : f[x] = 0
      BY <3>1, MeteredAssumption DEF Crews
    <3> QED
      BY <3>1, <3>2, SumZero
  <2>2. CostOf(settled) = 0
    BY DEF CostOf, NoTokens, Fields
  <2>3. Within(NoTokens, NoTokens)
    BY DEF Within, NoTokens
  <2>4. \A c \in Crews : usage[c] = NoTokens /\ hold[c] = "none"
    BY DEF Crews
  <2> QED
    BY <2>1, <2>2, <2>3, <2>4 DEF Counted
<1> QED
  BY <1>1, <1>2, <1>3 DEF AdaptersInv

LEMMA InvNext == AdaptersInv /\ [Next]_all => AdaptersInv'
<1> SUFFICES ASSUME AdaptersInv, [Next]_all PROVE AdaptersInv'
  OBVIOUS
<1>0. Types /\ Counted /\ (\A c \in Calls : CallInv(c)) /\ CallTypes
  BY DEF AdaptersInv, Types
\* A step of one call: the others keep what they have.
<1>1. ASSUME NEW c \in Calls, Step(c)
      PROVE  CallTypes' /\ \A d \in Calls : CallInv(d)' /\ (d # c => Aside(d))
  BY <1>0, <1>1, SameKeeps DEF Step, Same, Aside
<1>2. ASSUME NEW c \in Calls, Others(c), Unmetered PROVE AdaptersInv'
  <2>1. Step(c) /\ Aside(c)
    BY <1>0, <1>2, OthersStep
  <2>2. CallTypes' /\ \A d \in Calls : CallInv(d)' /\ Aside(d)
    BY <1>1, <2>1
  <2>3. Counted'
    BY <1>0, <1>2, <2>2, CountedKept
  <2> QED
    BY <1>0, <1>2, <2>2, <2>3 DEF AdaptersInv, Types, Unmetered
<1>3. ASSUME NEW c \in Calls, CrewWorks(c) \/ CrewReturns(c) \/ CrewSettles(c) PROVE AdaptersInv'
  <2>1. Step(c)
    BY <1>0, <1>3, CrewWorksStep, CrewReturnsStep, CrewSettlesStep DEF Types
  <2>2. CallTypes' /\ \A d \in Calls : CallInv(d)'
    BY <1>1, <2>1
  <2>3. Counted' /\ meter' \in Tokens /\ settled' \in Tokens
    BY <1>0, <1>3, <2>2, WorksCounted, ReturnsCounted, SettlesCounted
  <2> QED
    BY <2>2, <2>3 DEF AdaptersInv, Types
<1>4. CASE ReleaseAll /\ Unmetered
  <2>1. CallTypes' /\ \A d \in Calls : CallInv(d)' /\ Aside(d)
    BY <1>0, <1>4, ReleaseStep
  <2>2. Counted'
    BY <1>0, <1>4, <2>1, CountedKept
  <2> QED
    BY <1>0, <1>4, <2>1, <2>2 DEF AdaptersInv, Types, Unmetered
<1>5. CASE UNCHANGED all
  <2>1. UNCHANGED <<kind, pc, hold, charged, broke, produced, usage, current, declared, raised,
                    cancelled, resolved, resolver, meter, settled>>
    BY <1>5 DEF all, vars, money, tokens, stream
  <2>2. \A d \in Calls : CallInv(d)' /\ Aside(d)
    BY <1>0, <2>1, SameKeeps DEF Same, Aside
  <2>3. CallTypes' /\ Unmetered
    BY <1>0, <2>1 DEF CallTypes, Unmetered
  <2>4. Counted'
    BY <1>0, <2>2, <2>3, CountedKept
  <2> QED
    BY <1>0, <2>1, <2>2, <2>3, <2>4 DEF AdaptersInv, Types
<1> QED
  BY <1>2, <1>3, <1>4, <1>5 DEF Next, Governed, Others

----------------------------------------------------------------------------

\* Every call is where its kind can be, with a hold, reports and a charge that
\* fit where it is, and the crews' charges add up to the watermark
\* (SpendGuard, _StreamCore, GovernedCrew).
THEOREM CallsKeepStep == Spec => []AdaptersInv
<1>1. InitAll => AdaptersInv
  BY InvInit
<1>2. AdaptersInv /\ [Next]_all => AdaptersInv'
  BY InvNext
<1> QED
  BY <1>1, <1>2, PTL DEF Spec

\* Whatever calls of whatever kinds run together, and wherever they are
\* interrupted, a call that is left has settled its hold, unless the store
\* failed to, somebody is about to, or its caller keeps it
\* (SpendGuard.__exit__, _StreamCore.resolve, _run, on_llm_end, GovernedCrew).
THEOREM HoldsAreSettled == Spec => []NoHoldLeftOpen
<1>1. AdaptersInv => NoHoldLeftOpen
  <2> SUFFICES ASSUME AdaptersInv, NEW c \in Calls, pc[c] = "ended", hold[c] = "open"
               PROVE  broke[c] \/ KeepsHold(c) \/ Resolving(c) \/ Unpriced(c)
    BY DEF NoHoldLeftOpen
  <2>1. Resolves(c) /\ Ended(c)
    BY DEF AdaptersInv, CallInv
  <2>2. ASSUME kind[c] \in Streams PROVE broke[c] \/ Resolving(c)
    BY <2>1, <2>2 DEF Resolves, Resolvers, Resolving
  <2> QED
    BY <2>1, <2>2 DEF Ended
<1> QED
  BY <1>1, CallsKeepStep, PTL

\* However its reports overlap and whoever closes it, a stream is charged no
\* more than its provider billed, and exactly that when the reports are
\* complete (TokenUsage.merged, _StreamCore.resolve).
THEOREM StreamsAreChargedTruly == Spec => []StreamChargesWhatWasBilled
<1>1. AdaptersInv => StreamChargesWhatWasBilled
  <2> SUFFICES ASSUME AdaptersInv, NEW c \in Calls, kind[c] \in Streams, hold[c] = "captured"
               PROVE  /\ charged[c] <= CostOf(produced[c])
                      /\ (current[c] /\ pc[c] = "ended" /\ resolver[c]["closer"] = "out") =>
                              charged[c] = CostOf(produced[c])
    BY DEF StreamChargesWhatWasBilled
  <2>1. Billed(c)
    BY DEF AdaptersInv, CallInv
  <2> QED
    BY <2>1 DEF Billed
<1> QED
  BY <1>1, CallsKeepStep, PTL

\* What a call was seen to consume is charged, and a crew's overlapping runs
\* together exactly what the crew had counted, for any number of runs that
\* settle in any order, fail, or lose their hold (SpendGuard.__exit__,
\* _StreamCore.resolve, on_llm_end, GovernedCrew._settle).
THEOREM ConsumptionIsCharged == Spec => []ConsumedIsCharged
<1>1. AdaptersInv => ConsumedIsCharged
  <2> SUFFICES ASSUME AdaptersInv PROVE ConsumedIsCharged
    OBVIOUS
  <2>0. Types /\ Counted /\ \A c \in Calls : CallInv(c)
    BY DEF AdaptersInv
  <2>1. AnswersCharged
    <3> SUFFICES ASSUME NEW c \in Calls
                 PROVE
        /\ /\ kind[c] \in Streams /\ pc[c] = "ended"
           /\ hold[c] \in {"captured", "voided"}
           /\ resolver[c]["closer"] = "out"
           => charged[c] = CostOf(usage[c])
        /\ /\ kind[c] \in {"invoke", "ainvoke"} /\ declared[c] /\ pc[c] = "ended"
           /\ hold[c] \in {"captured", "voided"}
           => hold[c] = "captured" /\ charged[c] = CostOf(produced[c])
        /\ kind[c] = "guard" /\ hold[c] = "captured" /\ (current[c] \/ ~declared[c])
           => charged[c] >= CostOf(produced[c])
      BY DEF AnswersCharged
    <3>1. Billed(c) /\ Charged(c)
      BY <2>0 DEF CallInv
    <3> QED
      BY <3>1 DEF Billed, Charged
  <2>2. \A c \in Calls :
          kind[c] = "callback" /\ hold[c] = "captured" => charged[c] >= CostOf(produced[c])
    BY <2>0 DEF CallInv, Charged
  <2>3. \A c \in Crews : hold[c] = "captured" => \A f \in Fields : settled[f] >= usage[c][f]
    BY <2>0 DEF Counted, Within, Crews, Types, CallTypes, Tokens
  <2>4. SumFunctionOnSet(charged, Crews) = CostOf(settled)
    BY <2>0 DEF Counted
  <2> QED
    BY <2>1, <2>2, <2>3, <2>4 DEF ConsumedIsCharged
<1> QED
  BY <1>1, CallsKeepStep, PTL

----------------------------------------------------------------------------
(* The cognitive breaker *)

Entry == [print : Prints, result : Results \cup {None}]
BreakerTypes ==
    /\ state \in [Trajectories -> [calls : Seq(Entry), verdict : BOOLEAN, pending : BOOLEAN]]
    /\ agent \in [Agents -> [todo : {"nothing", "hand over", "halt"},
                             on : Trajectories \cup {None}]]

\* A soft loop whatever the newest call returns: its result is not in yet, or
\* may be recorded again.
OpenSoftLoop(calls) ==
    \E i \in DOMAIN calls :
        /\ i + MaxStreak <= Len(calls)
        /\ \A j \in (i + 1)..(i + MaxStreak) :
             /\ Alike(calls[j], calls[j - 1])
             /\ j = Len(calls) \/ Stagnant(calls[j], calls[j - 1])

Clean(calls) ==
    /\ MaxRepeats \in 1..Reach => ~Repeats(calls)
    /\ MaxStreak \in 1..(Reach - 1) => ~OpenSoftLoop(calls)
    /\ MinRepeats >= 2 => ~Cycles(calls)

CognitiveInv ==
    /\ BreakerTypes
    /\ \A t \in Trajectories : ~state[t].verdict => Clean(state[t].calls)

----------------------------------------------------------------------------
(* Remainders *)

LEMMA Remainder ==
    ASSUME NEW k \in Int, NEW p \in Nat, p > 0
    PROVE  \E q \in Int, r \in 0..(p - 1) : k = (p * q) + r /\ r = k % p
<1>1. (k \div p) \in Int /\ (k % p) \in 0..(p - 1)
  OBVIOUS
<1>2. k = (p * (k \div p)) + (k % p)
  OBVIOUS
<1> QED
  BY <1>1, <1>2

LEMMA RemainderSmall == ASSUME NEW k \in Nat, NEW p \in Nat, k < p PROVE k % p = k
  OBVIOUS

LEMMA RemainderBack ==
    ASSUME NEW k \in Int, NEW p \in Nat, p > 0
    PROVE  (k - p) % p = k % p
<1>1. PICK q \in Int, r \in 0..(p - 1) : k = (p * q) + r /\ r = k % p
  BY Remainder
<1>2. PICK o \in Int, s \in 0..(p - 1) : k - p = (p * o) + s /\ s = (k - p) % p
  BY Remainder
<1>3. p * (q - o - 1) = s - r
  <2>1. p * (q - o - 1) = p * q - p * o - p
    OBVIOUS
  <2>2. p * q \in Int /\ p * o \in Int
    OBVIOUS
  <2> QED
    BY <1>1, <1>2, <2>1, <2>2
<1>4. q - o - 1 = 0
  <2>1. \A m \in Int : m >= 1 => p * m >= p
    OBVIOUS
  <2>2. \A m \in Int : m <= -1 => p * m <= 0 - p
    OBVIOUS
  <2> QED
    BY <1>3, <2>1, <2>2
<1> QED
  BY <1>1, <1>2, <1>3, <1>4

----------------------------------------------------------------------------
(* What a detector sees *)

LEMMA ReachType == Reach \in Nat /\ Reach >= 1
  BY PolicyAssumption DEF Reach

LEMMA SuffixAt ==
    ASSUME NEW S, NEW s \in Seq(S), NEW n \in 1..Len(s)
    PROVE  /\ Suffix(s, n) \in Seq(S) /\ Len(Suffix(s, n)) = n
           /\ \A i \in 1..n : Suffix(s, n)[i] = s[Len(s) - n + i]
  BY DEF Suffix

Seen(s) == IF Len(s) <= Reach THEN s ELSE Suffix(s, Reach)

\* The last n calls, as long as the window can hold them.
LEMMA SeenAt ==
    ASSUME NEW S, NEW s \in Seq(S), NEW n \in 1..Len(s), n <= Reach
    PROVE  /\ Seen(s) \in Seq(S) /\ Len(Seen(s)) >= n
           /\ Seen(s)[Len(Seen(s))] = s[Len(s)]
           /\ Len(Suffix(Seen(s), n)) = n
           /\ \A i \in 1..n : Suffix(Seen(s), n)[i] = s[Len(s) - n + i]
<1>1. CASE Len(s) <= Reach
  <2>1. Seen(s) = s
    BY <1>1 DEF Seen
  <2> QED
    BY <2>1, SuffixAt
<1>2. CASE ~(Len(s) <= Reach)
  <2>1. Reach \in 1..Len(s)
    BY <1>2, ReachType
  <2>2. Seen(s) = Suffix(s, Reach)
    BY <1>2 DEF Seen
  <2>3. /\ Seen(s) \in Seq(S) /\ Len(Seen(s)) = Reach
        /\ \A i \in 1..Reach : Seen(s)[i] = s[Len(s) - Reach + i]
    BY <2>1, <2>2, SuffixAt
  <2>4. n \in 1..Len(Seen(s))
    BY <2>3
  <2>5. /\ Len(Suffix(Seen(s), n)) = n
        /\ \A i \in 1..n : Suffix(Seen(s), n)[i] = Seen(s)[Reach - n + i]
    BY <2>3, <2>4, SuffixAt, ZenonT(40)
  <2>6. ASSUME NEW i \in 1..n PROVE Suffix(Seen(s), n)[i] = s[Len(s) - n + i]
    <3>1. Reach - n + i \in 1..Reach /\ Len(s) - Reach + (Reach - n + i) = Len(s) - n + i
      BY ReachType
    <3>2. Seen(s)[Reach - n + i] = s[Len(s) - Reach + (Reach - n + i)]
      BY <2>3, <3>1
    <3> QED
      BY <2>5, <3>1, <3>2
  <2>7. Seen(s)[Len(Seen(s))] = s[Len(s)]
    BY <2>1, <2>3
  <2> QED
    BY <2>3, <2>5, <2>6, <2>7
<1> QED
  BY <1>1, <1>2

LEMMA JudgeIs ==
    ASSUME NEW s
    PROVE  Judge(s) <=> ExactRepeat(Seen(s)) \/ NearDuplicate(Seen(s)) \/ CallCycle(Seen(s))
  BY DEF Judge, Seen

\* A run of identical calls that ends with the newest is found ...
LEMMA RepeatSeen ==
    ASSUME NEW S, NEW s \in Seq(S), MaxRepeats \in 1..Reach, MaxRepeats <= Len(s),
           \A j \in (Len(s) - MaxRepeats + 1)..Len(s) :
               s[j].print = s[Len(s) - MaxRepeats + 1].print
    PROVE  Judge(s)
<1> DEFINE n == MaxRepeats
<1>1. n \in 1..Len(s) /\ n <= Reach
  BY ReachType
<1>2. /\ Len(Seen(s)) >= n /\ Seen(s)[Len(Seen(s))] = s[Len(s)]
      /\ \A i \in 1..n : Suffix(Seen(s), n)[i] = s[Len(s) - n + i]
  BY <1>1, SeenAt
<1>3. \A i \in 1..n : Suffix(Seen(s), n)[i].print = s[Len(s)].print
  BY <1>1, <1>2
<1>4. ExactRepeat(Seen(s))
  BY <1>1, <1>2, <1>3 DEF ExactRepeat, Last
<1> QED
  BY <1>4, JudgeIs

\* ... a soft loop ...
LEMMA SoftLoopSeen ==
    ASSUME NEW S, NEW s \in Seq(S), MaxStreak \in 1..(Reach - 1), MaxStreak + 1 <= Len(s),
           \A j \in (Len(s) - MaxStreak + 1)..Len(s) : Stagnant(s[j], s[j - 1])
    PROVE  Judge(s)
<1> DEFINE n == MaxStreak + 1
<1>1. n \in 1..Len(s) /\ n <= Reach /\ MaxStreak \in Nat /\ MaxStreak >= 1
  BY ReachType
<1>2. /\ Len(Seen(s)) >= n
      /\ \A i \in 1..n : Suffix(Seen(s), n)[i] = s[Len(s) - n + i]
  BY <1>1, SeenAt
<1>3. ASSUME NEW i \in 1..MaxStreak
      PROVE  Stagnant(Suffix(Seen(s), n)[i + 1], Suffix(Seen(s), n)[i])
  <2>1. i \in 1..n /\ i + 1 \in 1..n
    BY <1>1
  <2>2. /\ Suffix(Seen(s), n)[i] = s[Len(s) - n + i]
        /\ Suffix(Seen(s), n)[i + 1] = s[Len(s) - n + (i + 1)]
    BY <1>2, <2>1
  <2>3. /\ Len(s) - n + (i + 1) \in (Len(s) - MaxStreak + 1)..Len(s)
        /\ (Len(s) - n + (i + 1)) - 1 = Len(s) - n + i
    BY <1>1
  <2> HIDE DEF n
  <2> QED
    BY <2>2, <2>3
<1>4. NearDuplicate(Seen(s))
  BY <1>1, <1>2, <1>3 DEF NearDuplicate
<1> QED
  BY <1>4, JudgeIs

LEMMA TwoOf == ASSUME NEW a, NEW b, a # b PROVE Cardinality({a, b}) = 2
<1>1. IsFiniteSet({a}) /\ Cardinality({a}) = 1
  BY FS_Singleton
<1>2. b \notin {a} /\ {a, b} = {a} \cup {b}
  OBVIOUS
<1>3. Cardinality({a} \cup {b}) = Cardinality({a}) + 1
  BY <1>1, <1>2, FS_AddElement
<1>4. Cardinality({a, b}) = 1 + 1
  BY <1>1, <1>2, <1>3
<1> QED
  BY <1>4

LEMMA PlaceIn ==
    ASSUME NEW l \in Nat, NEW n \in 1..l
    PROVE  \A j \in (l - n + 2)..l : \E m \in 1..n : l - n + m = j
<1> TAKE j \in (l - n + 2)..l
<1>1. j - (l - n) \in 1..n /\ l - n + (j - (l - n)) = j
  OBVIOUS
<1> QED
  BY <1>1

\* ... and a cycle of two calls or more.
LEMMA CycleSeen ==
    ASSUME NEW S, NEW s \in Seq(S), MinRepeats >= 2, NEW period \in 2..MaxPeriod,
           NEW span, span = period * MinRepeats, span <= Reach, span <= Len(s),
           \A j \in (Len(s) - span + 1 + period)..Len(s) : s[j].print = s[j - period].print,
           \E j \in (Len(s) - span + 2)..Len(s) : s[j].print # s[Len(s) - span + 1].print
    PROVE  Judge(s)
<1>0. MaxPeriod \in Nat /\ MinRepeats \in Nat /\ period \in Nat /\ period > 0
  BY PolicyAssumption
<1>1. span \in Nat /\ span >= period /\ span \in 1..Len(s) /\ Len(s) \in Nat
  <2>1. period * MinRepeats >= period * 2
    BY <1>0
  <2> QED
    BY <1>0, <2>1
<1> DEFINE tail == Suffix(Seen(s), span)
<1>2. /\ Len(Seen(s)) >= span
      /\ \A i \in 1..span : tail[i] = s[Len(s) - span + i]
  BY <1>1, SeenAt, SMTT(20)
<1> HIDE DEF tail
<1>3. ASSUME NEW k \in 1..span, k > period PROVE tail[k].print = tail[k - period].print
  <2>1. k - period \in 1..span /\ Len(s) - span + k \in (Len(s) - span + 1 + period)..Len(s)
        /\ (Len(s) - span + k) - period = Len(s) - span + (k - period)
    BY <1>0, <1>1, <1>3
  <2> QED
    BY <1>2, <2>1, ZenonT(40)
\* The least call out of step would have one before it.
<1>4. \A k \in 1..span : tail[k].print = tail[((k - 1) % period) + 1].print
  <2> DEFINE Bad == {k \in 1..span : tail[k].print # tail[((k - 1) % period) + 1].print}
  <2> SUFFICES ASSUME Bad # {} PROVE FALSE
    OBVIOUS
  <2>1. Bad \in SUBSET Nat
    BY <1>1
  <2>2. PICK k \in Bad : \A n \in Bad : k <= n
    <3> HIDE DEF Bad
    <3> QED
      BY <2>1, LeastOf
  <2>3. k \in 1..span /\ tail[k].print # tail[((k - 1) % period) + 1].print
    OBVIOUS
  <2>4. CASE k <= period
    <3>1. (k - 1) % period = k - 1
      <4>1. k - 1 \in Nat /\ k - 1 < period
        BY <1>0, <2>3, <2>4
      <4> QED
        BY <1>0, <4>1, RemainderSmall
    <3>2. ((k - 1) % period) + 1 = k
      BY <2>3, <3>1
    <3> QED
      BY <2>3, <3>2
  <2>5. CASE k > period
    <3>1. k - period \in 1..span /\ k - period < k
      BY <1>0, <1>1, <2>3, <2>5
    <3>2. k - period \notin Bad
      <4> HIDE DEF Bad
      <4> QED
        BY <1>0, <2>2, <2>3, <3>1
    <3>3. tail[k - period].print = tail[((k - period - 1) % period) + 1].print
      BY <3>1, <3>2
    <3>4. (k - period - 1) % period = (k - 1) % period
      <4>1. k - 1 \in Int /\ k - period - 1 = (k - 1) - period
        BY <1>0, <2>3
      <4> QED
        BY <1>0, <4>1, RemainderBack
    <3> QED
      BY <1>3, <2>3, <2>5, <3>3, <3>4
  <2> QED
    BY <1>0, <1>1, <2>3, <2>4, <2>5
<1>5. Cardinality({tail[i].print : i \in 1..span}) >= 2
  <2> DEFINE P == {tail[i].print : i \in 1..span}
  <2>1. PICK j \in (Len(s) - span + 2)..Len(s) : s[j].print # s[Len(s) - span + 1].print
    OBVIOUS
  <2>2. 1 \in 1..span
    BY <1>1
  <2>3. PICK m \in 1..span : Len(s) - span + m = j
    <3>1. \A i \in (Len(s) - span + 2)..Len(s) : \E m \in 1..span : Len(s) - span + m = i
      BY <1>1, PlaceIn
    <3> QED
      BY <3>1
  <2>4. tail[m] = s[j] /\ tail[1] = s[Len(s) - span + 1]
    BY <1>2, <2>2, <2>3
  <2>5. tail[1].print \in P /\ tail[m].print \in P /\ tail[1].print # tail[m].print
    BY <2>1, <2>2, <2>4
  <2>6. IsFiniteSet(P)
    <3>1. IsFiniteSet(1..span)
      BY <1>1, FS_Interval
    <3>2. [i \in 1..span |-> tail[i].print] \in Surjection(1..span, P)
      BY DEF Surjection
    <3> HIDE DEF P
    <3> QED
      BY <3>1, <3>2, FS_Surjection
  <2>7. Cardinality({tail[1].print, tail[m].print}) = 2
    BY <2>5, TwoOf, ZenonT(40)
  <2> HIDE DEF P
  <2>8. Cardinality({tail[1].print, tail[m].print}) <= Cardinality(P)
    BY <2>5, <2>6, FS_Subset
  <2>9. Cardinality(P) \in Nat
    BY <2>6, FS_CardinalityType
  <2> QED
    BY <2>7, <2>8, <2>9 DEF P
<1>6. CallCycle(Seen(s))
  <2>1. MaxPeriod >= 2 /\ MinRepeats >= 2
    BY <1>0
  <2>2. /\ Len(Seen(s)) >= period * MinRepeats
        /\ \A i \in 1..(period * MinRepeats) :
             Suffix(Seen(s), period * MinRepeats)[i].print
               = Suffix(Seen(s), period * MinRepeats)[((i - 1) % period) + 1].print
        /\ Cardinality({Suffix(Seen(s), period * MinRepeats)[i].print :
                          i \in 1..(period * MinRepeats)}) >= 2
    BY <1>2, <1>4, <1>5, Zenon DEF tail
  <2> QED
    BY <2>1, <2>2, Zenon DEF CallCycle
<1> QED
  BY <1>6, JudgeIs

----------------------------------------------------------------------------
(* What is remembered stays clean *)

\* A call that no detector objects to completes no loop.
LEMMA AppendClean ==
    ASSUME NEW calls \in Seq(Entry), NEW call \in Entry, Clean(calls), ~Judge(Append(calls, call)),
           call.result = None
    PROVE  Clean(Append(calls, call))
<1> DEFINE s == Append(calls, call)
<1>1. /\ s \in Seq(Entry) /\ Len(calls) \in Nat /\ Len(s) = Len(calls) + 1
      /\ DOMAIN s = 1..Len(s) /\ DOMAIN calls = 1..Len(calls)
      /\ \A j \in 1..Len(calls) : s[j] = calls[j]
  OBVIOUS
<1>2. ~Judge(s) /\ s[Len(s)].result = None
  OBVIOUS
<1> HIDE DEF s
<1>3. ASSUME MaxRepeats \in 1..Reach, Repeats(s) PROVE FALSE
  <2>1. PICK i \in DOMAIN s : /\ i + MaxRepeats - 1 <= Len(s)
                              /\ \A j \in i..(i + MaxRepeats - 1) : s[j].print = s[i].print
    BY <1>3 DEF Repeats
  <2>2. i \in 1..Len(s) /\ MaxRepeats \in Nat /\ MaxRepeats >= 1
    BY <1>1, <1>3, <2>1, ReachType
  <2>3. CASE i + MaxRepeats - 1 = Len(s)
    <3>1. i = Len(s) - MaxRepeats + 1 /\ MaxRepeats <= Len(s)
      BY <1>1, <2>2, <2>3
    <3> QED
      BY <1>1, <1>2, <1>3, <2>1, <2>3, <3>1, RepeatSeen
  <2>4. CASE i + MaxRepeats - 1 <= Len(calls)
    <3>1. i \in DOMAIN calls /\ \A j \in i..(i + MaxRepeats - 1) : j \in 1..Len(calls)
      BY <1>1, <2>2, <2>4
    <3>2. \A j \in i..(i + MaxRepeats - 1) : calls[j].print = calls[i].print
      BY <1>1, <2>1, <3>1
    <3> QED
      BY <1>3, <2>4, <3>1, <3>2 DEF Clean, Repeats
  <2> QED
    BY <1>1, <2>1, <2>2, <2>3, <2>4
<1>4. ASSUME MaxStreak \in 1..(Reach - 1), OpenSoftLoop(s) PROVE FALSE
  <2>1. PICK i \in DOMAIN s : /\ i + MaxStreak <= Len(s)
                              /\ \A j \in (i + 1)..(i + MaxStreak) :
                                   /\ Alike(s[j], s[j - 1])
                                   /\ j = Len(s) \/ Stagnant(s[j], s[j - 1])
    BY <1>4 DEF OpenSoftLoop
  <2>2. i \in 1..Len(s) /\ MaxStreak \in Nat /\ MaxStreak >= 1
    BY <1>1, <1>4, <2>1, ReachType
  <2>3. \A j \in (i + 1)..(i + MaxStreak) : Stagnant(s[j], s[j - 1])
    BY <1>2, <2>1 DEF Stagnant
  <2>4. CASE i + MaxStreak = Len(s)
    <3>1. i + 1 = Len(s) - MaxStreak + 1 /\ MaxStreak + 1 <= Len(s)
      BY <1>1, <2>2, <2>4
    <3>2. \A j \in (Len(s) - MaxStreak + 1)..Len(s) : Stagnant(s[j], s[j - 1])
      BY <2>3, <2>4, <3>1
    <3> QED
      BY <1>1, <1>2, <1>4, <3>1, <3>2, SoftLoopSeen
  <2>5. CASE i + MaxStreak <= Len(calls)
    <3>1. /\ i \in DOMAIN calls
          /\ \A j \in (i + 1)..(i + MaxStreak) : j \in 1..Len(calls) /\ j - 1 \in 1..Len(calls)
      BY <1>1, <2>2, <2>5
    <3>2. \A j \in (i + 1)..(i + MaxStreak) : Stagnant(calls[j], calls[j - 1])
      BY <1>1, <2>3, <3>1
    <3> QED
      BY <1>4, <2>5, <3>1, <3>2 DEF Clean, OpenSoftLoop, Stagnant
  <2>6. i + MaxStreak = Len(s) \/ i + MaxStreak <= Len(calls)
    <3>1. i + MaxStreak <= Len(calls) + 1
      BY <1>1, <2>1
    <3> QED
      BY <1>1, <2>2, <3>1
  <2> QED
    BY <2>4, <2>5, <2>6
<1>5. ASSUME MinRepeats >= 2, Cycles(s) PROVE FALSE
  <2>1. PICK i \in DOMAIN s, period \in 2..MaxPeriod :
          /\ period * MinRepeats <= Reach
          /\ i + period * MinRepeats - 1 <= Len(s)
          /\ \A j \in (i + period)..(i + period * MinRepeats - 1) :
               s[j].print = s[j - period].print
          /\ \E j \in (i + 1)..(i + period * MinRepeats - 1) : s[j].print # s[i].print
    BY <1>5 DEF Cycles
  <2>2. PICK span : span = period * MinRepeats
    OBVIOUS
  <2>3. i \in 1..Len(s) /\ span \in Nat /\ period \in Nat /\ span >= 1
    <3>1. period \in Nat /\ MinRepeats \in Nat /\ period >= 2
      BY PolicyAssumption
    <3>2. period * MinRepeats \in Nat /\ period * MinRepeats >= period * 2
      BY <1>5, <3>1
    <3> QED
      BY <1>1, <2>2, <3>1, <3>2
  <2>4. /\ span <= Reach /\ i + span - 1 <= Len(s)
        /\ \A j \in (i + period)..(i + span - 1) : s[j].print = s[j - period].print
        /\ \E j \in (i + 1)..(i + span - 1) : s[j].print # s[i].print
    BY <2>1, <2>2
  <2>5. CASE i + span - 1 = Len(s)
    <3>1. /\ i = Len(s) - span + 1 /\ span <= Len(s)
          /\ i + 1 = Len(s) - span + 2 /\ i + period = Len(s) - span + 1 + period
      BY <1>1, <2>3, <2>5, SMTT(20)
    <3>2. /\ \A j \in (Len(s) - span + 1 + period)..Len(s) : s[j].print = s[j - period].print
          /\ \E j \in (Len(s) - span + 2)..Len(s) : s[j].print # s[Len(s) - span + 1].print
      BY <2>4, <2>5, <3>1
    <3> QED
      BY <1>1, <1>2, <1>5, <2>2, <2>4, <3>1, <3>2, CycleSeen
  <2>6. CASE i + span - 1 <= Len(calls)
    <3>1. /\ i \in DOMAIN calls
          /\ \A j \in (i + 1)..(i + span - 1) : j \in 1..Len(calls)
          /\ \A j \in (i + period)..(i + span - 1) : j \in 1..Len(calls) /\ j - period \in 1..Len(calls)
      BY <1>1, <2>3, <2>6, SMTT(20)
    <3>2. /\ \A j \in (i + period)..(i + span - 1) : calls[j].print = calls[j - period].print
          /\ \E j \in (i + 1)..(i + span - 1) : calls[j].print # calls[i].print
      BY <1>1, <2>4, <3>1
    <3>3. Cycles(calls)
      BY <2>2, <2>4, <2>6, <3>1, <3>2 DEF Cycles
    <3> QED
      BY <1>5, <3>3 DEF Clean
  <2>7. i + span - 1 = Len(s) \/ i + span - 1 <= Len(calls)
    <3>1. i + span - 1 <= Len(calls) + 1
      BY <1>1, <2>4
    <3> QED
      BY <1>1, <2>3, <3>1
  <2> QED
    BY <2>5, <2>6, <2>7
<1> QED
  BY <1>3, <1>4, <1>5 DEF Clean, s

\* Forgetting the oldest call makes no loop ...
LEMMA TailClean ==
    ASSUME NEW s \in Seq(Entry), s # <<>>, Clean(s)
    PROVE  Clean(Tail(s))
<1> DEFINE u == Tail(s)
<1>1. /\ u \in Seq(Entry) /\ Len(u) \in Nat /\ Len(s) = Len(u) + 1
      /\ DOMAIN s = 1..Len(s) /\ DOMAIN u = 1..Len(u)
      /\ \A j \in 1..Len(u) : u[j] = s[j + 1]
  OBVIOUS
<1> HIDE DEF u
<1>2. ASSUME MaxRepeats \in 1..Reach, Repeats(u) PROVE FALSE
  <2>1. PICK i \in DOMAIN u : /\ i + MaxRepeats - 1 <= Len(u)
                              /\ \A j \in i..(i + MaxRepeats - 1) : u[j].print = u[i].print
    BY <1>2 DEF Repeats
  <2>2. i \in 1..Len(u) /\ MaxRepeats \in Nat /\ MaxRepeats >= 1
    BY <1>1, <1>2, <2>1, ReachType
  <2>3. i + 1 \in DOMAIN s /\ (i + 1) + MaxRepeats - 1 <= Len(s)
    <3>1. i + MaxRepeats - 1 <= Len(u)
      BY <2>1
    <3> QED
      BY <1>1, <2>2, <3>1
  <2>4. ASSUME NEW j \in (i + 1)..((i + 1) + MaxRepeats - 1) PROVE s[j].print = s[i + 1].print
    <3>1. /\ j - 1 \in i..(i + MaxRepeats - 1) /\ j - 1 \in 1..Len(u) /\ (j - 1) + 1 = j
      BY <1>1, <2>2, <2>3
    <3> QED
      BY <1>1, <2>1, <2>2, <3>1
  <2> QED
    BY <1>2, <2>3, <2>4 DEF Clean, Repeats
<1>3. ASSUME MaxStreak \in 1..(Reach - 1), OpenSoftLoop(u) PROVE FALSE
  <2>1. PICK i \in DOMAIN u : /\ i + MaxStreak <= Len(u)
                              /\ \A j \in (i + 1)..(i + MaxStreak) :
                                   /\ Alike(u[j], u[j - 1])
                                   /\ j = Len(u) \/ Stagnant(u[j], u[j - 1])
    BY <1>3 DEF OpenSoftLoop
  <2>2. i \in 1..Len(u) /\ MaxStreak \in Nat /\ MaxStreak >= 1 /\ i + MaxStreak <= Len(u)
    <3>1. MaxStreak \in Nat /\ MaxStreak >= 1
      BY <1>3, ReachType
    <3>2. i \in 1..Len(u)
      BY <1>1
    <3> QED
      BY <2>1, <3>1, <3>2
  <2>3. i + 1 \in DOMAIN s /\ (i + 1) + MaxStreak <= Len(s)
    BY <1>1, <2>2
  <2>4. ASSUME NEW j \in ((i + 1) + 1)..((i + 1) + MaxStreak)
        PROVE  /\ Alike(s[j], s[j - 1])
               /\ j = Len(s) \/ Stagnant(s[j], s[j - 1])
    <3>1. /\ j - 1 \in (i + 1)..(i + MaxStreak) /\ j - 1 \in 1..Len(u) /\ (j - 1) + 1 = j
          /\ (j - 1) - 1 \in 1..Len(u) /\ ((j - 1) - 1) + 1 = j - 1
      BY <1>1, <2>2, <2>3
    <3>2. u[j - 1] = s[j] /\ u[(j - 1) - 1] = s[j - 1] /\ (j - 1 = Len(u) => j = Len(s))
      BY <1>1, <3>1
    <3> QED
      BY <2>1, <3>1, <3>2
  <2> QED
    BY <1>3, <2>3, <2>4 DEF Clean, OpenSoftLoop
<1>4. ASSUME MinRepeats >= 2, Cycles(u) PROVE FALSE
  <2>1. PICK i \in DOMAIN u, period \in 2..MaxPeriod :
          /\ period * MinRepeats <= Reach
          /\ i + period * MinRepeats - 1 <= Len(u)
          /\ \A j \in (i + period)..(i + period * MinRepeats - 1) :
               u[j].print = u[j - period].print
          /\ \E j \in (i + 1)..(i + period * MinRepeats - 1) : u[j].print # u[i].print
    BY <1>4 DEF Cycles
  <2>2. PICK span : span = period * MinRepeats
    OBVIOUS
  <2>3. i \in 1..Len(u) /\ span \in Nat /\ period \in Nat
    BY <1>1, <2>2, PolicyAssumption, SMTT(20)
  <2>4. /\ span <= Reach /\ i + span - 1 <= Len(u)
        /\ \A j \in (i + period)..(i + span - 1) : u[j].print = u[j - period].print
        /\ \E j \in (i + 1)..(i + span - 1) : u[j].print # u[i].print
    BY <2>1, <2>2
  <2>5. i + 1 \in DOMAIN s /\ (i + 1) + span - 1 <= Len(s) /\ s[i + 1] = u[i]
    BY <1>1, <2>3, <2>4
  <2>6. ASSUME NEW j \in ((i + 1) + period)..((i + 1) + span - 1)
        PROVE  s[j].print = s[j - period].print
    <3>1. /\ j - 1 \in (i + period)..(i + span - 1) /\ j - 1 \in 1..Len(u)
          /\ (j - 1) - period \in 1..Len(u) /\ (j - 1) + 1 = j
          /\ ((j - 1) - period) + 1 = j - period
      BY <1>1, <2>3, <2>4
    <3>2. u[j - 1] = s[j] /\ u[(j - 1) - period] = s[j - period]
      BY <1>1, <3>1
    <3> QED
      BY <2>4, <3>1, <3>2
  <2>7. \E j \in ((i + 1) + 1)..((i + 1) + span - 1) : s[j].print # s[i + 1].print
    <3>1. PICK j \in (i + 1)..(i + span - 1) : u[j].print # u[i].print
      BY <2>4
    <3>2. j + 1 \in ((i + 1) + 1)..((i + 1) + span - 1) /\ j \in 1..Len(u)
      BY <1>1, <2>3, <2>4
    <3> QED
      BY <1>1, <2>5, <3>1, <3>2
  <2>8. Cycles(s)
    BY <2>2, <2>4, <2>5, <2>6, <2>7 DEF Cycles
  <2> QED
    BY <1>4, <2>8 DEF Clean
<1> QED
  BY <1>2, <1>3, <1>4 DEF Clean, u

\* ... and neither does any result of the newest.
LEMMA ResultClean ==
    ASSUME NEW s \in Seq(Entry), s # <<>>, NEW r \in Results
    PROVE  /\ [s EXCEPT ![Len(s)].result = r] \in Seq(Entry)
           /\ Clean(s) => Clean([s EXCEPT ![Len(s)].result = r])
<1> DEFINE u == [s EXCEPT ![Len(s)].result = r]
<1>1. /\ Len(s) \in Nat /\ Len(s) \in 1..Len(s) /\ DOMAIN s = 1..Len(s)
      /\ s[Len(s)] \in Entry
  OBVIOUS
<1>2. [s[Len(s)] EXCEPT !.result = r] \in Entry
  BY <1>1 DEF Entry
<1>3. u \in Seq(Entry) /\ Len(u) = Len(s) /\ DOMAIN u = DOMAIN s
  BY <1>1, <1>2
<1>4. \A j \in 1..Len(s) : u[j].print = s[j].print /\ (j # Len(s) => u[j] = s[j])
  BY <1>1 DEF Entry
<1> HIDE DEF u
<1>5. ASSUME Clean(s), MaxRepeats \in 1..Reach, Repeats(u) PROVE FALSE
  <2>1. PICK i \in DOMAIN u : /\ i + MaxRepeats - 1 <= Len(u)
                              /\ \A j \in i..(i + MaxRepeats - 1) : u[j].print = u[i].print
    BY <1>5 DEF Repeats
  <2>2. \A j \in i..(i + MaxRepeats - 1) : j \in 1..Len(s)
    BY <1>1, <1>3, <1>5, <2>1, ReachType
  <2>3. \A j \in i..(i + MaxRepeats - 1) : s[j].print = s[i].print
    BY <1>1, <1>3, <1>4, <2>1, <2>2
  <2> QED
    BY <1>3, <1>5, <2>1, <2>3 DEF Clean, Repeats
<1>6. ASSUME Clean(s), MaxStreak \in 1..(Reach - 1), OpenSoftLoop(u) PROVE FALSE
  <2>1. PICK i \in DOMAIN u : /\ i + MaxStreak <= Len(u)
                              /\ \A j \in (i + 1)..(i + MaxStreak) :
                                   /\ Alike(u[j], u[j - 1])
                                   /\ j = Len(u) \/ Stagnant(u[j], u[j - 1])
    BY <1>6 DEF OpenSoftLoop
  <2>2. i \in 1..Len(s) /\ MaxStreak \in Nat /\ i + MaxStreak <= Len(s)
    <3>1. MaxStreak \in Nat
      BY <1>6, ReachType
    <3>2. i \in 1..Len(s)
      BY <1>1, <1>3
    <3> QED
      BY <1>3, <2>1, <3>1, <3>2
  <2>3. ASSUME NEW j \in (i + 1)..(i + MaxStreak)
        PROVE  /\ Alike(s[j], s[j - 1])
               /\ j = Len(s) \/ Stagnant(s[j], s[j - 1])
    <3>1. j \in 1..Len(s) /\ j - 1 \in 1..Len(s) /\ j - 1 # Len(s)
      BY <1>1, <2>2
    <3>2. Alike(u[j], u[j - 1]) /\ (j = Len(u) \/ Stagnant(u[j], u[j - 1]))
      BY <2>1
    <3> QED
      BY <1>3, <1>4, <3>1, <3>2 DEF Alike
  <2> QED
    BY <1>3, <1>6, <2>1, <2>3 DEF Clean, OpenSoftLoop
<1>7. ASSUME Clean(s), MinRepeats >= 2, Cycles(u) PROVE FALSE
  <2>1. PICK i \in DOMAIN u, period \in 2..MaxPeriod :
          /\ period * MinRepeats <= Reach
          /\ i + period * MinRepeats - 1 <= Len(u)
          /\ \A j \in (i + period)..(i + period * MinRepeats - 1) :
               u[j].print = u[j - period].print
          /\ \E j \in (i + 1)..(i + period * MinRepeats - 1) : u[j].print # u[i].print
    BY <1>7 DEF Cycles
  <2>2. PICK span : span = period * MinRepeats
    OBVIOUS
  <2>3. i \in 1..Len(s) /\ span \in Nat /\ period \in Nat
    BY <1>1, <1>3, <2>2, PolicyAssumption
  <2>4. /\ span <= Reach /\ i + span - 1 <= Len(s)
        /\ \A j \in (i + period)..(i + span - 1) : u[j].print = u[j - period].print
        /\ \E j \in (i + 1)..(i + span - 1) : u[j].print # u[i].print
    BY <1>3, <2>1, <2>2
  <2>5. /\ \A j \in (i + period)..(i + span - 1) : j \in 1..Len(s) /\ j - period \in 1..Len(s)
        /\ \A j \in (i + 1)..(i + span - 1) : j \in 1..Len(s)
    BY <1>1, <2>3, <2>4
  <2>6. /\ \A j \in (i + period)..(i + span - 1) : s[j].print = s[j - period].print
        /\ \E j \in (i + 1)..(i + span - 1) : s[j].print # s[i].print
    BY <1>4, <2>3, <2>4, <2>5
  <2>7. Cycles(s)
    BY <1>1, <2>2, <2>3, <2>4, <2>6 DEF Cycles
  <2> QED
    BY <1>7, <2>7 DEF Clean
<1> QED
  BY <1>3, <1>5, <1>6, <1>7 DEF Clean, u

LEMMA EmptyClean == Clean(<<>>)
  BY DEF Clean, Repeats, OpenSoftLoop, Cycles

----------------------------------------------------------------------------
(* The invariant *)

LEMMA BreakerInvInit == BreakerInit => CognitiveInv
<1> SUFFICES ASSUME BreakerInit PROVE CognitiveInv
  OBVIOUS
<1>1. BreakerTypes
  BY DEF BreakerInit, BreakerTypes, New, Idle
<1>2. \A t \in Trajectories : state[t].calls = <<>>
  BY DEF BreakerInit, New
<1> QED
  BY <1>1, <1>2, EmptyClean DEF CognitiveInv

LEMMA ObserveKeeps ==
    ASSUME CognitiveInv, NEW a \in Agents, NEW t \in Trajectories, Observe(a, t)
    PROVE  CognitiveInv'
<1> DEFINE Judged(print) ==
      [calls |-> Kept(Append(state[t].calls, ToolCall(print))),
       verdict |-> state[t].pending \/ Judge(Append(state[t].calls, ToolCall(print))),
       pending |-> FALSE]
           After(print) == IF state[t].verdict THEN state[t] ELSE Judged(print)
<1>1. PICK print \in Prints :
        /\ state' = [u \in Trajectories |->
                       CASE u = t -> After(print)
                         [] u \in Forgotten(t) -> New
                         [] OTHER -> state[u]]
        /\ agent' = [agent EXCEPT ![a] =
                       [todo |-> IF After(print).verdict THEN "halt" ELSE "hand over", on |-> t]]
  BY DEF Observe
<1>2. /\ state[t] \in [calls : Seq(Entry), verdict : BOOLEAN, pending : BOOLEAN]
      /\ state[t].calls \in Seq(Entry)
      /\ ~state[t].verdict => Clean(state[t].calls)
  BY DEF CognitiveInv, BreakerTypes
<1>3. PICK next : next = Append(state[t].calls, ToolCall(print))
  OBVIOUS
<1>4. ToolCall(print) \in Entry /\ ToolCall(print).result = None
  BY DEF ToolCall, Entry
<1>5. next \in Seq(Entry) /\ next # <<>>
  BY <1>2, <1>3, <1>4
<1>6. Kept(next) \in Seq(Entry)
  BY <1>5 DEF Kept
<1>7. ASSUME ~state[t].verdict, ~Judge(next) PROVE Clean(Kept(next))
  <2>1. PICK calls \in Seq(Entry), call \in Entry :
            calls = state[t].calls /\ call = ToolCall(print) /\ call.result = None
    BY <1>2, <1>4
  <2>2. Clean(calls) /\ next = Append(calls, call)
    BY <1>2, <1>3, <1>7, <2>1
  <2>3. Clean(next)
    BY <1>7, <2>1, <2>2, AppendClean
  <2> QED
    BY <1>5, <2>3, TailClean DEF Kept
<1>8. /\ After(print) \in [calls : Seq(Entry), verdict : BOOLEAN, pending : BOOLEAN]
      /\ ~After(print).verdict => Clean(After(print).calls)
  <2>1. CASE state[t].verdict
    BY <1>2, <2>1
  <2>2. CASE ~state[t].verdict
    <3>1. After(print) = [calls |-> Kept(next), verdict |-> state[t].pending \/ Judge(next),
                         pending |-> FALSE]
      BY <1>3, <2>2
    <3>2. PICK v \in BOOLEAN : v = (state[t].pending \/ Judge(next))
      BY <1>2
    <3> HIDE DEF After
    <3>3. After(print) = [calls |-> Kept(next), verdict |-> v, pending |-> FALSE]
      BY <3>1, <3>2, Zenon
    <3>4. ~v => Clean(Kept(next))
      BY <1>7, <2>2, <3>2
    <3> QED
      BY <1>6, <3>3, <3>4
  <2> QED
    BY <2>1, <2>2
<1> HIDE DEF After
<1>9. \A u \in Trajectories :
        /\ state'[u] \in [calls : Seq(Entry), verdict : BOOLEAN, pending : BOOLEAN]
        /\ ~state'[u].verdict => Clean(state'[u].calls)
  <2> TAKE u \in Trajectories
  <2>1. state'[u] = After(print) \/ state'[u] = New \/ state'[u] = state[u]
    <3>1. state'[u] = CASE u = t -> After(print)
                        [] u \in Forgotten(t) -> New
                        [] OTHER -> state[u]
      BY <1>1, Zenon
    <3> QED
      BY <3>1, Zenon
  <2>2. New \in [calls : Seq(Entry), verdict : BOOLEAN, pending : BOOLEAN] /\ Clean(New.calls)
    BY EmptyClean DEF New
  <2>3. /\ state[u] \in [calls : Seq(Entry), verdict : BOOLEAN, pending : BOOLEAN]
        /\ ~state[u].verdict => Clean(state[u].calls)
    BY DEF CognitiveInv, BreakerTypes
  <2> QED
    BY <1>8, <2>1, <2>2, <2>3
<1>10. agent' \in [Agents -> [todo : {"nothing", "hand over", "halt"},
                              on : Trajectories \cup {None}]]
  BY <1>1 DEF CognitiveInv, BreakerTypes
<1>11. state' \in [Trajectories -> [calls : Seq(Entry), verdict : BOOLEAN, pending : BOOLEAN]]
  BY <1>1, <1>9
<1>12. BreakerTypes'
  BY <1>10, <1>11 DEF BreakerTypes
<1> QED
  BY <1>9, <1>12 DEF CognitiveInv

LEMMA BreakerInvNext == CognitiveInv /\ [BreakerNext]_breakerVars => CognitiveInv'
<1> SUFFICES ASSUME CognitiveInv, [BreakerNext]_breakerVars PROVE CognitiveInv'
  OBVIOUS
<1>0. /\ BreakerTypes
      /\ \A t \in Trajectories :
           /\ state[t] \in [calls : Seq(Entry), verdict : BOOLEAN, pending : BOOLEAN]
           /\ ~state[t].verdict => Clean(state[t].calls)
  BY DEF CognitiveInv, BreakerTypes
\* A step that leaves what is remembered, or latches.
<1>1. ASSUME BreakerTypes',
             \A t \in Trajectories :
                 state'[t].calls = state[t].calls /\ (state[t].verdict => state'[t].verdict)
      PROVE  CognitiveInv'
  BY <1>0, <1>1 DEF CognitiveInv
<1>2. ASSUME NEW a \in Agents, NEW t \in Trajectories, Observe(a, t) PROVE CognitiveInv'
  BY <1>2, ObserveKeeps
<1>3. ASSUME NEW a \in Agents, NEW t \in Trajectories, Check(a, t) PROVE CognitiveInv'
  <2>1. /\ state' \in [Trajectories -> [calls : Seq(Entry), verdict : BOOLEAN, pending : BOOLEAN]]
        /\ \A u \in Trajectories :
             state'[u].calls = state[u].calls /\ (state[u].verdict => state'[u].verdict)
    BY <1>0, <1>3 DEF Check, BreakerTypes
  <2>2. agent' \in [Agents -> [todo : {"nothing", "hand over", "halt"},
                               on : Trajectories \cup {None}]]
    BY <1>0, <1>3 DEF Check, BreakerTypes
  <2> QED
    BY <1>1, <2>1, <2>2 DEF BreakerTypes
<1>4. ASSUME NEW a \in Agents, HandOver(a) \/ Halt(a) PROVE CognitiveInv'
  <2>1. UNCHANGED state /\ agent' = [agent EXCEPT ![a] = Idle]
    BY <1>4 DEF HandOver, Halt
  <2>2. BreakerTypes'
    BY <1>0, <2>1 DEF BreakerTypes, Idle
  <2> QED
    BY <1>1, <2>1, <2>2
<1>5. ASSUME NEW t \in Trajectories, RecordResult(t) PROVE CognitiveInv'
  <2>1. PICK r \in Results : state' = [state EXCEPT ![t].calls[Len(state[t].calls)].result = r]
    BY <1>5 DEF RecordResult
  <2>2. PICK s \in Seq(Entry) : s = state[t].calls /\ s # <<>>
    BY <1>0, <1>5 DEF RecordResult
  <2>3. PICK u : u = [s EXCEPT ![Len(s)].result = r]
    OBVIOUS
  <2>4. u \in Seq(Entry) /\ (Clean(s) => Clean(u))
    BY <2>2, <2>3, ResultClean
  <2>5. state' = [state EXCEPT ![t] = [state[t] EXCEPT !.calls = u]]
    BY <2>1, <2>2, <2>3
  <2>6. state' \in [Trajectories -> [calls : Seq(Entry), verdict : BOOLEAN, pending : BOOLEAN]]
    BY <1>0, <2>4, <2>5 DEF BreakerTypes
  <2>7. /\ state'[t].calls = u /\ state'[t].verdict = state[t].verdict
        /\ \A v \in Trajectories \ {t} : state'[v] = state[v]
    BY <1>0, <2>5 DEF BreakerTypes
  <2>8. \A v \in Trajectories : ~state'[v].verdict => Clean(state'[v].calls)
    BY <1>0, <2>2, <2>4, <2>7
  <2>9. BreakerTypes'
    BY <1>0, <1>5, <2>6 DEF RecordResult, BreakerTypes
  <2> QED
    BY <2>8, <2>9 DEF CognitiveInv
<1>6. ASSUME NEW t \in Trajectories, Reset(t) PROVE CognitiveInv'
  <2>1. New \in [calls : Seq(Entry), verdict : BOOLEAN, pending : BOOLEAN] /\ Clean(New.calls)
    BY EmptyClean DEF New
  <2>2. BreakerTypes'
    BY <1>0, <1>6, <2>1 DEF Reset, BreakerTypes
  <2>3. \A v \in Trajectories : ~state'[v].verdict => Clean(state'[v].calls)
    BY <1>0, <1>6, <2>1 DEF Reset, BreakerTypes
  <2> QED
    BY <2>2, <2>3 DEF CognitiveInv
<1>7. CASE Evaluate
  <2>1. /\ state' \in [Trajectories -> [calls : Seq(Entry), verdict : BOOLEAN, pending : BOOLEAN]]
        /\ \A u \in Trajectories :
             state'[u].calls = state[u].calls /\ state'[u].verdict = state[u].verdict
    <3>1. CASE UNCHANGED state
      BY <1>0, <3>1 DEF BreakerTypes
    <3>2. CASE state' = [state EXCEPT ![worker].pending = TRUE]
      BY <1>0, <1>7, <3>2 DEF Evaluate, BreakerTypes
    <3> QED
      BY <1>7, <3>1, <3>2 DEF Evaluate
  <2>2. BreakerTypes'
    BY <1>0, <1>7, <2>1 DEF Evaluate, BreakerTypes
  <2> QED
    BY <1>1, <2>1, <2>2
<1>8. CASE Take \/ Close \/ MakeRoom \/ PutSentinel \/ UNCHANGED breakerVars
  <2>1. UNCHANGED <<state, agent>>
    BY <1>8 DEF Take, Close, MakeRoom, PutSentinel, breakerVars
  <2>2. BreakerTypes'
    BY <1>0, <2>1 DEF BreakerTypes
  <2> QED
    BY <1>1, <2>1, <2>2
<1> QED
  BY <1>2, <1>3, <1>4, <1>5, <1>6, <1>7, <1>8 DEF BreakerNext

----------------------------------------------------------------------------

\* What the breaker remembers of a trajectory it has not latched holds no loop
\* that its policy is after, even if the newest call's result should agree with
\* the one before (observe, record_result).
THEOREM HistoriesStayClean == BreakerSpec => []CognitiveInv
<1>1. BreakerInit => CognitiveInv
  BY BreakerInvInit
<1>2. CognitiveInv /\ [BreakerNext]_breakerVars => CognitiveInv'
  BY BreakerInvNext
<1> QED
  BY <1>1, <1>2, PTL DEF BreakerSpec

\* Whatever the policy, and whatever evictions, resets and late results come
\* between, no trajectory that is not latched has a loop of a kind switched on
\* in what is remembered of it, that the detectors' window can hold (_judge).
THEOREM LoopsAreLatched == BreakerSpec => []NoLoopUnlatched
<1>1. CognitiveInv => NoLoopUnlatched
  <2> SUFFICES ASSUME CognitiveInv, NEW t \in Trajectories, ~state[t].verdict
               PROVE  /\ MaxRepeats \in 1..Reach => ~Repeats(state[t].calls)
                      /\ MaxStreak \in 1..(Reach - 1) => ~SoftLoop(state[t].calls)
                      /\ MinRepeats >= 2 => ~Cycles(state[t].calls)
    BY DEF NoLoopUnlatched
  <2>1. Clean(state[t].calls)
    BY DEF CognitiveInv
  <2>2. SoftLoop(state[t].calls) => OpenSoftLoop(state[t].calls)
    BY DEF SoftLoop, OpenSoftLoop, Stagnant
  <2> QED
    BY <2>1, <2>2 DEF Clean
<1> QED
  BY <1>1, HistoriesStayClean, PTL

----------------------------------------------------------------------------
(* Verdicts *)

\* What was judged is latched, or has its verdict waiting.
Standing == \A t \in judged : t \in Trajectories /\ (state[t].verdict \/ state[t].pending)

LetThrough(a) ==
    (agent[a].todo = "nothing" /\ agent'[a].todo = "hand over") => agent'[a].on \notin judged'

\* An observation enforces the verdict that waits, and latches its own.
LEMMA ObserveStands ==
    ASSUME CognitiveInv, Standing, NEW a \in Agents, NEW t \in Trajectories, Observe(a, t)
    PROVE  Standing' /\ \A b \in Agents : LetThrough(b)
<1> DEFINE After(print) ==
             IF state[t].verdict THEN state[t]
             ELSE [calls |-> Kept(Append(state[t].calls, ToolCall(print))),
                   verdict |-> state[t].pending
                                 \/ Judge(Append(state[t].calls, ToolCall(print))),
                   pending |-> FALSE]
<1>1. PICK print \in Prints :
        /\ state' = [u \in Trajectories |->
                       CASE u = t -> After(print)
                         [] u \in Forgotten(t) -> New
                         [] OTHER -> state[u]]
        /\ agent' = [agent EXCEPT ![a] =
                       [todo |-> IF After(print).verdict THEN "halt" ELSE "hand over", on |-> t]]
        /\ judged' = (IF After(print).verdict THEN judged \cup {t} ELSE judged) \ Forgotten(t)
  BY DEF Observe
<1>2. t \in judged => After(print).verdict
  BY DEF Standing
<1> HIDE DEF After
<1>3. Standing'
  <2> SUFFICES ASSUME NEW u \in judged'
               PROVE  u \in Trajectories /\ (state'[u].verdict \/ state'[u].pending)
    BY DEF Standing
  <2>1. u \notin Forgotten(t) /\ (u \in judged \/ (u = t /\ After(print).verdict))
    BY <1>1
  <2>2. CASE u = t
    <3>1. After(print).verdict
      BY <1>2, <2>1, <2>2
    <3>2. state'[t] = CASE t = t -> After(print)
                        [] t \in Forgotten(t) -> New
                        [] OTHER -> state[t]
      BY <1>1, Zenon
    <3>3. state'[t] = After(print)
      BY <2>1, <2>2, <3>2
    <3> QED
      BY <2>2, <3>1, <3>3
  <2>3. CASE u # t
    <3>1. u \in judged /\ u \in Trajectories /\ (state[u].verdict \/ state[u].pending)
      BY <2>1, <2>3 DEF Standing
    <3>2. state'[u] = state[u]
      BY <1>1, <2>1, <2>3, <3>1, Zenon
    <3> QED
      BY <3>1, <3>2
  <2> QED
    BY <2>2, <2>3
<1>4. ASSUME NEW b \in Agents, agent[b].todo = "nothing", agent'[b].todo = "hand over"
      PROVE  agent'[b].on \notin judged'
  <2>1. b = a /\ agent'[b].on = t /\ ~After(print).verdict
    BY <1>1, <1>4 DEF CognitiveInv, BreakerTypes
  <2>2. judged' \subseteq judged /\ t \notin judged
    BY <1>1, <1>2, <2>1, Zenon
  <2> QED
    BY <2>1, <2>2
<1> QED
  BY <1>3, <1>4 DEF LetThrough

LEMMA StandingStep ==
    ASSUME CognitiveInv, Standing, [BreakerNext]_breakerVars
    PROVE  Standing' /\ [\A a \in Agents : LetThrough(a)]_breakerVars
<1>0. BreakerTypes
  BY DEF CognitiveInv
<1>1. ASSUME NEW a \in Agents, NEW t \in Trajectories, Observe(a, t)
      PROVE  Standing' /\ \A b \in Agents : LetThrough(b)
  BY <1>1, ObserveStands
<1>2. ASSUME NEW a \in Agents, NEW t \in Trajectories, Check(a, t)
      PROVE  Standing' /\ \A b \in Agents : LetThrough(b)
  <2>1. Standing'
    BY <1>0, <1>2 DEF Check, BreakerTypes, Standing
  <2>2. \A b \in Agents : LetThrough(b)
    BY <1>0, <1>2 DEF Check, BreakerTypes, LetThrough
  <2> QED
    BY <2>1, <2>2
<1>3. ASSUME NEW a \in Agents, HandOver(a) \/ Halt(a)
      PROVE  Standing' /\ \A b \in Agents : LetThrough(b)
  <2>1. Standing'
    BY <1>3 DEF HandOver, Halt, Standing
  <2>2. \A b \in Agents : LetThrough(b)
    BY <1>0, <1>3 DEF HandOver, Halt, BreakerTypes, Idle, LetThrough
  <2> QED
    BY <2>1, <2>2
<1>4. ASSUME UNCHANGED agent PROVE \A b \in Agents : LetThrough(b)
  BY <1>4 DEF LetThrough
<1>5. ASSUME NEW t \in Trajectories, RecordResult(t) PROVE Standing' /\ UNCHANGED agent
  <2>1. /\ UNCHANGED <<agent, judged>>
        /\ \A u \in Trajectories :
             state'[u].verdict = state[u].verdict /\ state'[u].pending = state[u].pending
    <3>1. PICK r \in Results :
            state' = [state EXCEPT ![t].calls[Len(state[t].calls)].result = r]
      BY <1>5 DEF RecordResult
    <3>2. PICK u : u = [state[t].calls EXCEPT ![Len(state[t].calls)].result = r]
      OBVIOUS
    <3>3. state' = [state EXCEPT ![t] = [state[t] EXCEPT !.calls = u]]
      BY <3>1, <3>2
    <3>4. UNCHANGED <<agent, judged>>
      BY <1>5 DEF RecordResult
    <3>5. /\ state'[t].verdict = state[t].verdict /\ state'[t].pending = state[t].pending
          /\ \A v \in Trajectories \ {t} : state'[v] = state[v]
      BY <1>0, <3>3 DEF BreakerTypes
    <3> QED
      BY <3>4, <3>5
  <2> QED
    BY <2>1 DEF Standing
<1>6. ASSUME NEW t \in Trajectories, Reset(t) PROVE Standing' /\ UNCHANGED agent
  BY <1>0, <1>6 DEF Reset, BreakerTypes, Standing
<1>7. CASE Evaluate
  <2>1. UNCHANGED agent
    BY <1>7 DEF Evaluate
  <2>2. Standing'
    <3>1. CASE UNCHANGED <<state, judged>>
      BY <3>1 DEF Standing
    <3>2. CASE /\ judged' = judged \cup {worker}
               /\ state' = IF state[worker].verdict \/ state[worker].pending THEN state
                           ELSE [state EXCEPT ![worker].pending = TRUE]
      <4>1. worker \in Trajectories
        BY <1>7 DEF Evaluate
      <4>2. CASE state[worker].verdict \/ state[worker].pending
        BY <3>2, <4>1, <4>2 DEF Standing
      <4>3. CASE ~(state[worker].verdict \/ state[worker].pending)
        BY <1>0, <3>2, <4>1, <4>3 DEF BreakerTypes, Standing
      <4> QED
        BY <4>2, <4>3
    <3> QED
      BY <1>7, <3>1, <3>2 DEF Evaluate
  <2> QED
    BY <1>4, <2>1, <2>2
<1>8. CASE Take \/ Close \/ MakeRoom \/ PutSentinel
  BY <1>4, <1>8 DEF Take, Close, MakeRoom, PutSentinel, Standing
<1>9. CASE UNCHANGED breakerVars
  BY <1>9 DEF breakerVars, Standing
<1> QED
  BY <1>1, <1>2, <1>3, <1>4, <1>5, <1>6, <1>7, <1>8, <1>9 DEF BreakerNext

\* A verdict of a detector or of the semantic lane stops every call on its
\* trajectory until it is reset or evicted, for any number of agents and whatever
\* they observe, check and record meanwhile (observe, check, _evaluate_window).
THEOREM VerdictsAreEnforced == BreakerSpec => VerdictsStand
<1>1. BreakerInit => Standing
  BY DEF BreakerInit, Standing
<1>2. CognitiveInv /\ Standing /\ [BreakerNext]_breakerVars => Standing'
  BY StandingStep
<1>3. CognitiveInv /\ Standing /\ [BreakerNext]_breakerVars
        => [\A a \in Agents : LetThrough(a)]_breakerVars
  BY StandingStep
<1> QED
  BY <1>1, <1>2, <1>3, HistoriesStayClean, PTL DEF BreakerSpec, VerdictsStand, LetThrough
=============================================================================
