--------------------------- MODULE AgentReasoning ---------------------------
(***************************************************************************)
(* What chatvcode-agent has of an agent besides its tools: the state       *)
(* machine, the detector of loops and the token budget.  The loop that     *)
(* would drive them is not written yet (agent_loop.rs is empty), so they   *)
(* are functions of any history of events, steps or messages.              *)
(***************************************************************************)
EXTENDS Integers, Sequences, FiniteSetsExt, SequencesExt

None == <<>>
Some(v) == <<v>>

----------------------------------------------------------------------------
(* AgentStateMachine *)

New ==
  [state |-> "Thinking", phase |-> "Planning", pending |-> <<>>, results |-> <<>>,
   answer |-> None, error |-> None, parse_errors |-> 0, reason |-> None, transitions |-> 0]

Terminal(machine) == machine.state \in {"Done", "Failed"}

\* An end that any state but a terminal one reaches.
Fails(machine, reason) == [machine EXCEPT !.state = "Failed", !.reason = Some(reason)]

\* The match on state and event; a pair that is not listed changes nothing.
Handled(machine, event) ==
  CASE event.type = "MaxStepsReached" -> Fails(machine, "max_steps")
    [] event.type = "Timeout" -> Fails(machine, "timeout")
    [] event.type = "UnrecoverableError" -> [Fails(machine, event.error) EXCEPT !.error = Some(event.error)]
    [] machine.state = "Thinking" /\ event.type = "ToolCallsDetected" ->
         IF event.calls = <<>> THEN [machine EXCEPT !.pending = <<>>, !.error = Some("no calls")]
         ELSE [machine EXCEPT !.pending = event.calls, !.state = "Acting"]
    [] machine.state = "Thinking" /\ event.type = "FinalAnswer" ->
         [machine EXCEPT !.answer = Some(event.answer), !.state = "Done", !.reason = Some("completed")]
    [] machine.state = "Thinking" /\ event.type = "ParseError" ->
         [machine EXCEPT !.parse_errors = @ + 1, !.error = Some(event.error)]
    [] machine.state = "Thinking" /\ event.type = "ForceConclusion" ->
         [machine EXCEPT !.phase = "Concluding"]
    [] machine.state = "Acting" /\ event.type = "ToolsExecuted" ->
         [machine EXCEPT !.results = event.results, !.phase = "Observing", !.state = "Thinking"]
    [] OTHER -> machine

\* Mutant of Transition: an event after the end is handled.
TransitionAfterEnd(machine, event) ==
  LET next == Handled(machine, event)
  IN IF next.state # machine.state THEN [next EXCEPT !.transitions = @ + 1] ELSE next

\* transition
Transition(machine, event) ==
  LET next == Handled(machine, event)
  IN IF Terminal(machine) THEN machine
     ELSE IF next.state # machine.state THEN [next EXCEPT !.transitions = @ + 1] ELSE next

\* One call of the machine: an event, or what its owner takes, sets or starts anew.
Step(machine, call) ==
  CASE call.type = "take_pending_tool_calls" -> [machine EXCEPT !.pending = <<>>]
    [] call.type = "take_final_answer" -> [machine EXCEPT !.answer = None]
    [] call.type = "set_thinking_phase" ->
         IF machine.state = "Thinking" THEN [machine EXCEPT !.phase = call.phase] ELSE machine
    [] call.type = "reset" -> New
    [] OTHER -> Transition(machine, call)

\* The machine after each call of a history, itself first.
Runs(calls) == FoldLeft(LAMBDA run, call : Append(run, Step(Last(run), call)), <<New>>, calls)

----------------------------------------------------------------------------
(* LoopDetector: a step is a sequence of calls [name, args] *)

MinOf(a, b) == IF a < b THEN a ELSE b

\* Mutant of Levenshtein: a replaced symbol counts as removed and inserted.
LevenshteinWithoutReplacing(a, b) ==
  LET row[i \in 0..Len(a)] ==
        IF i = 0 THEN [j \in 0..Len(b) |-> j]
        ELSE LET cell[j \in 0..Len(b)] ==
                   IF j = 0 THEN i
                   ELSE MinOf(MinOf(row[i - 1][j] + 1, cell[j - 1] + 1),
                              row[i - 1][j - 1] + (IF a[i] = b[j] THEN 0 ELSE 2))
             IN cell
  IN row[Len(a)][Len(b)]

\* levenshtein: one row after the other, each from the one before.
Levenshtein(a, b) ==
  LET row[i \in 0..Len(a)] ==
        IF i = 0 THEN [j \in 0..Len(b) |-> j]
        ELSE LET cell[j \in 0..Len(b)] ==
                   IF j = 0 THEN i
                   ELSE MinOf(MinOf(row[i - 1][j] + 1, cell[j - 1] + 1),
                              row[i - 1][j - 1] + (IF a[i] = b[j] THEN 0 ELSE 1))
             IN cell
  IN row[Len(a)][Len(b)]

\* Similarities are fractions of One, which the lengths of arguments divide.
One == 12

\* json_similarity
Similarity(a, b) ==
  LET longer == IF Len(a) < Len(b) THEN Len(b) ELSE Len(a)
  IN IF longer = 0 THEN One ELSE One - (One * Levenshtein(a, b)) \div longer

\* Mutant of RecentCalls: the oldest steps are looked at.
OldestCalls(window, steps) == FlattenSeq(SubSeq(steps, 1, window))

\* The calls of the last steps, the latest step first.
RecentCalls(window, steps) == FlattenSeq(Reverse(SubSeq(steps, Len(steps) - window + 1, Len(steps))))

Occurrences(calls, call) == Cardinality({i \in DOMAIN calls : calls[i] = call})
ArgsOf(calls, name) ==
  LET of == SelectSeq(calls, LAMBDA call : call.name = name) IN [i \in DOMAIN of |-> of[i].args]

NoLoop == [kind |-> "NoLoop", tool |-> "", occurrences |-> 0]

\* detect_exact_loop: of the calls made most often any one is reported, as they
\* come out of a hash map.
ExactLoops(calls) ==
  LET repeated == {call \in ToSet(calls) : Occurrences(calls, call) >= 2}
  IN {[kind |-> "ExactLoop", tool |-> call.name, occurrences |-> Occurrences(calls, call)] :
        call \in {c \in repeated : \A d \in repeated : Occurrences(calls, d) <= Occurrences(calls, c)}}

\* The average over all pairs is at least the threshold.
AreSimilar(args, threshold) ==
  LET pairs == {p \in (DOMAIN args) \X (DOMAIN args) : p[1] < p[2]}
  IN MapThenSumSet(LAMBDA p : Similarity(args[p[1]], args[p[2]]), pairs) >= threshold * Cardinality(pairs)

\* detect_similar_loop
SimilarLoops(calls, threshold, least) ==
  LET looping == {name \in {call.name : call \in ToSet(calls)} :
                    Len(ArgsOf(calls, name)) >= least /\ AreSimilar(ArgsOf(calls, name), threshold)}
  IN {[kind |-> "SimilarLoop", tool |-> name, occurrences |-> Len(ArgsOf(calls, name))] :
        name \in {n \in looping : \A m \in looping : Len(ArgsOf(calls, m)) <= Len(ArgsOf(calls, n))}}

\* detect: what it may return.
Detected(window, threshold, least, steps) ==
  LET calls == RecentCalls(window, steps)
  IN IF Len(steps) < window \/ calls = <<>> THEN {NoLoop}
     ELSE IF ExactLoops(calls) # {} THEN ExactLoops(calls)
     ELSE IF SimilarLoops(calls, threshold, least) # {} THEN SimilarLoops(calls, threshold, least)
     ELSE {NoLoop}

----------------------------------------------------------------------------
(* TokenBudgetManager: a message is its length in bytes *)

OVERHEAD_PER_MSG == 4
EstimateText(length) == (length + 3) \div 4

UsedTokens(session) ==
  EstimateText(session.system)
    + FoldLeft(LAMBDA sum, m : sum + EstimateText(m) + OVERHEAD_PER_MSG, 0, session.messages)

SaturatingSub(a, b) == IF a > b THEN a - b ELSE 0

\* Mutant of RemainingTokens: the response has no share.
RemainingTokensUnreserved(config, session) == SaturatingSub(config.total, UsedTokens(session))

RemainingTokens(config, session) ==
  SaturatingSub(SaturatingSub(config.total, UsedTokens(session)), config.reserve)

\* can_add_message, which leaves out the overhead of the message.
CanAddMessage(config, session, message) == RemainingTokens(config, session) >= EstimateText(message)

\* is_budget_low
IsBudgetLow(config, session) == RemainingTokens(config, session) < config.reserve
=============================================================================
