---------------------------- MODULE AgentChecks -----------------------------
(***************************************************************************)
(* Inputs and properties of the functions of chatvcode-agent, and of the   *)
(* parser of tool calls it uses.                                           *)
(***************************************************************************)
EXTENDS AlgorithmCall, Integers, Sequences, FiniteSetsExt, SequencesExt

Reasoning == INSTANCE AgentReasoning
Tools == INSTANCE AgentTools
Results == INSTANCE ToolResults

----------------------------------------------------------------------------
(* Histories of events, steps and messages *)

Event ==
  {[type |-> "ToolCallsDetected", calls |-> <<>>], [type |-> "ToolCallsDetected", calls |-> <<"c">>],
   [type |-> "ToolsExecuted", results |-> <<"r">>], [type |-> "FinalAnswer", answer |-> "a"],
   [type |-> "ParseError", error |-> "e"], [type |-> "UnrecoverableError", error |-> "u"]}
  \cup [type : {"ForceConclusion", "MaxStepsReached", "Timeout", "take_pending_tool_calls",
                "take_final_answer", "reset"}]
  \cup [type : {"set_thinking_phase"}, phase : {"Concluding"}]
RunInputs == [function : {"agent_run"}, events : UpTo(4, Event)]

\* Four calls, of which two are alike and a third is not, in windows of two steps.
LoopCall ==
  {[name |-> "grep", args |-> <<"x", "x", "x", "x">>], [name |-> "grep", args |-> <<"x", "x", "x", "y">>],
   [name |-> "grep", args |-> <<"y", "y", "y", "y">>], [name |-> "list", args |-> <<>>]}
LoopInputs == [function : {"loop"}, steps : UpTo(3, UpTo(2, LoopCall))]
TextInputs == [function : {"levenshtein"}, a : UpTo(3, {"x", "y"}), b : UpTo(3, {"x", "y"})]

BudgetInputs ==
  [function : {"budget"}, config : [total : {20, 40}, reserve : {0, 8, 20}],
   session : [system : {0, 5, 16}, messages : UpTo(2, {0, 1, 20, 41})],
   message : {0, 1, 4, 13, 40}]

----------------------------------------------------------------------------
(* Files and patterns, and what a model answers *)

Paths == {<<"a", ".rs">>, <<"src", "/", "a", ".rs">>, <<"src", "/", "a", "b", ".ts">>,
          <<"src", "/", "lib", "/", "a", ".rs">>, <<"src", "/", "lib", "/", "b", ".ts">>,
          <<"src", "2", "/", "b", ".ts">>, <<"lib", "/", "src", "/", "b", ".ts">>}
Patterns == {<<"*", ".rs">>, <<"src", "/", "**", "/", "*", ".ts">>, <<"src", "/", "**">>, <<"**">>,
             <<"**", "/", "a", ".rs">>, <<"src", "/", "a", ".rs">>, <<"a", "*">>, <<"src", "/", "lib", "/", "*">>,
             <<"**", "/", "*", "/", "a", ".rs">>, <<"*", "b", "*">>, <<"a", "*", ".ts">>, <<"src", "/", "*", ".rs">>,
             <<"**", "/", "a", "*">>, <<"**", "b", ".ts">>, <<"**", "/", "lib", "/", "a", ".rs">>}
ListInputs == [function : {"list_files"}, path : Paths, pattern : Patterns]

SearchedFile == [path : {<<"a", ".rs">>, <<"b", ".ts">>},
                 lines : UpTo(3, {"match", "other", "unreadable"})]
GrepInputs ==
  [function : {"grep_code"}, files : UNION {[1..n -> SearchedFile] : n \in 1..2},
   pattern : {Tools!None, <<"*", ".rs">>}, max_results : {0, 2, 3}]

ResponseToken ==
  {Results!Text, Results!Newline, Results!Brace(1), Results!Brace(-1), Results!Fence,
   Results!Object("grep", <<>>), Results!Object("", <<>>),
   Results!Object("list", <<Results!Object("inner", <<>>)>>),
   Results!Array(<<Results!Object("grep", <<>>), Results!Object("", <<>>), Results!Object("list", <<>>)>>)}
ResponseInputs == [function : {"parse_tool_calls"}, response : UpTo(4, ResponseToken)]

\* Two calls, their arguments in any order, with text that looks like a key.
ArgumentText == {<<"x">>, <<"x", ",", "path", "=", "x">>, <<"\"">>, <<"1">>, <<"x", "\"", ",", "path", "=", "\"", "x">>}
Argument == [key : {"offset", "path", "symbol"}, value : {Results!String(text) : text \in ArgumentText} \cup {Results!Number(1)}]
KeyedCall ==
  [name : {"read_file"}, id : {Results!None},
   arguments : {arguments \in UpTo(2, Argument) : \A i, j \in DOMAIN arguments : i # j => arguments[i].key # arguments[j].key}]
KeyInputs == [function : {"cache_key"}, a : KeyedCall, b : KeyedCall]

\* A file, and what it is when its lines are counted; its parser may fail.
ReadVersion == [type : {"file", "directory", "outside"}, readable : BOOLEAN, lines : UpTo(3, {"l", "m", "binary"})]
ReadInputs ==
  [function : {"read_file"}, file : ReadVersion, later : {version \in ReadVersion : version.type = "file"}, limit : {0, 2},
   parsed : {Results!Ok(<<"chunk">>), Results!Err("parse")}]
PageCall(offset, limit) ==
  [name |-> "read_file", id |-> Results!None,
   arguments |-> <<[key |-> "path", value |-> Results!String(<<"p">>)],
                   [key |-> "offset", value |-> Results!Number(offset)], [key |-> "limit", value |-> Results!Number(limit)]>>]

Symbol == {<<"a">>, <<"A">>, <<"a", "B">>, <<"b", "A", "b">>}
SymbolCall(symbol, kind) ==
  [name |-> "search_symbol", id |-> Results!None,
   arguments |-> <<[key |-> "symbol", value |-> Results!String(symbol)], [key |-> "kind", value |-> Results!String(kind)]>>]
SymbolInputs ==
  [function : {"search_symbol"}, symbol : Symbol \cup {<<>>}, kind : {<<"function">>, <<"type_alias">>, <<"typealias">>},
   store : SUBSET [symbol : {Results!None} \cup {Results!Some(s) : s \in Symbol \ {<<"a">>}}, kind : {"function", "TypeAlias"}]]

\* A batch of calls of tools that answer, report a failure or fail.
BatchResult == {Results!Ok(Results!Success("r")), Results!Ok(Results!Error("e")), Results!Err("timeout")}
ToolBatchInputs ==
  {[function |-> "execute_batch", calls |-> [i \in DOMAIN r |-> [name |-> i, arguments |-> <<>>, id |-> Results!Some(i)]], results |-> r] :
     r \in UpTo(3, BatchResult)}

AgentCall ==
  input \in KeyInputs \cup ReadInputs \cup SymbolInputs \cup ToolBatchInputs \cup RunInputs \cup LoopInputs \cup TextInputs \cup BudgetInputs
            \cup ListInputs \cup GrepInputs \cup ResponseInputs

\* A response within a fence, with the language behind the fence.
Fenced(response) ==
  <<Results!Fence, Results!Text, Results!Newline>> \o response \o <<Results!Newline, Results!Fence>>

AgentFunctions ==
  {"agent_run", "loop", "levenshtein", "budget", "list_files", "grep_code", "parse_tool_calls",
   "cache_key", "read_file", "search_symbol", "execute_batch"}
AgentResult(call) ==
  CASE call.function = "agent_run" -> Reasoning!Runs(call.events)
    [] call.function = "loop" -> Reasoning!Detected(2, 9, 2, call.steps)
    [] call.function = "levenshtein" -> Reasoning!Levenshtein(call.a, call.b)
    [] call.function = "budget" -> Reasoning!CanAddMessage(call.config, call.session, call.message)
    [] call.function = "list_files" ->
         Tools!ListFiles(<<[path |-> call.path]>>, call.pattern) # {}
    [] call.function = "grep_code" -> Tools!GrepCode(call.files, call.pattern, call.max_results)
    [] call.function = "cache_key" ->
         [key |-> [a |-> Results!CacheKey(call.a), b |-> Results!CacheKey(call.b)],
          summary |-> [a |-> Results!SummarizeArgs(call.a), b |-> Results!SummarizeArgs(call.b)]]
    [] call.function = "read_file" ->
         [pages |-> [p \in 1..4 |->
            Results!ReadFile(PageCall(1 + (p - 1) * Results!AtLeastOne(call.limit), call.limit), call.file, call.later)],
          structure |-> Results!GetFileStructure(PageCall(1, 1), call.file, call.parsed)]
    [] call.function = "search_symbol" ->
         Results!SearchSymbol(SymbolCall(call.symbol, call.kind), call.store)
    [] call.function = "execute_batch" ->
         LET results == Results!ExecuteBatch(call.calls, call.results)
         IN [results |-> results, observed |-> Results!FormatToolResultsWithCalls(call.calls, results)]
    [] call.function = "parse_tool_calls" ->
         [plain |-> Results!ParseToolCalls(call.response),
          fenced |-> Results!ParseToolCalls(Fenced(call.response))]

----------------------------------------------------------------------------
(* Properties *)

\* Once the agent has ended, nothing that still arrives (a result, an answer, a
\* timeout) changes how it ended, what it answered or its counts, until it is
\* reset; but its answer and its calls may be taken.
AgentEndIsFinal ==
  Is("agent_run") =>
    \A i, j \in DOMAIN output.value :
      (/\ i < j /\ Reasoning!Terminal(output.value[i])
       /\ \A k \in i..j - 1 : input.events[k].type # "reset") =>
        /\ \E answer \in {output.value[i].answer, Reasoning!None}, pending \in {output.value[i].pending, <<>>} :
             output.value[j] = [output.value[i] EXCEPT !.answer = answer, !.pending = pending]
        /\ output.value[j].answer # Reasoning!None => output.value[j].reason = Reasoning!Some("completed")

\* Where a call stands in the history: its step and its place in the step.
Positions(steps) == {p \in (1..Len(steps)) \X (1..2) : p[2] <= Len(steps[p[1]])}
CallAt(steps, p) == steps[p[1]][p[2]]
InWindow(steps) == {p \in Positions(steps) : p[1] > Len(steps) - 2}

\* A repetition within the last steps is reported, with the tool that was called
\* most often and how often; calls before the window do not count.
RepetitionIsReported ==
  Is("loop") /\ Len(input.steps) >= 2 =>
    LET times(call) == Cardinality({p \in InWindow(input.steps) : CallAt(input.steps, p) = call})
        most == Max({0} \cup {times(CallAt(input.steps, p)) : p \in InWindow(input.steps)})
    IN IF most >= 2
       THEN \A loop \in output.value :
              /\ loop.kind = "ExactLoop" /\ loop.occurrences = most
              /\ \E p \in InWindow(input.steps) :
                   CallAt(input.steps, p).name = loop.tool /\ times(CallAt(input.steps, p)) = most
       ELSE \A loop \in output.value : loop.kind # "ExactLoop"

\* An alignment keeps the order: its cost is what it replaces, removes and inserts.
Alignments(a, b) ==
  {m \in SUBSET ((DOMAIN a) \X (DOMAIN b)) : \A p, q \in m : p # q => (p[1] < q[1]) = (p[2] < q[2]) /\ p[1] # q[1] /\ p[2] # q[2]}
Cost(a, b, m) == Len(a) + Len(b) - 2 * Cardinality(m) + Cardinality({p \in m : a[p[1]] # b[p[2]]})

\* The edit distance by which the detector compares arguments is the cheapest
\* alignment of the two.
DistanceIsCheapest ==
  Is("levenshtein") => output.value = Min({Cost(input.a, input.b, m) : m \in Alignments(input.a, input.b)})

\* A message that may be added leaves the response its reserve, but for the
\* overhead of that one message.
ReserveIsKept ==
  Is("budget") /\ output.value /\ input.message > 0 =>
    Reasoning!UsedTokens([input.session EXCEPT !.messages = Append(@, input.message)]) + input.config.reserve
      <= input.config.total + Reasoning!OVERHEAD_PER_MSG

\* What a pattern means: "**" stands for any pieces and "**/" for none as well,
\* "*" for any pieces within one name.
Means(pattern, path) ==
  LET meets[i \in 1..Len(pattern) + 2, j \in 1..Len(path) + 1] ==
        IF i > Len(pattern) THEN i = Len(pattern) + 1 /\ j = Len(path) + 1
        ELSE CASE pattern[i] = "**" ->
                    \/ \E k \in j..Len(path) + 1 : meets[i + 1, k]
                    \/ i < Len(pattern) /\ meets[i + 2, j]
               [] pattern[i] = "*" ->
                    \E k \in j..Len(path) + 1 : (\A l \in j..k - 1 : path[l] # "/") /\ meets[i + 1, k]
               [] OTHER -> j <= Len(path) /\ path[j] = pattern[i] /\ meets[i + 1, j + 1]
  IN meets[1, 1]

StarsOf(pattern, star) == {i \in DOMAIN pattern : pattern[i] = star}

\* The patterns that list_files can tell: one star at either end, or one "**" with no
\* star before it and nothing, a name without a star, or a star first behind it.
Served(pattern) ==
  LET doubles == StarsOf(pattern, "**")
      behind(i) == SubSeq(pattern, i + 2, Len(pattern))
  IN \/ doubles = {} /\ StarsOf(pattern, "*") \in {{}, {1}, {Len(pattern)}}
     \/ \E i \in doubles :
          /\ doubles = {i}
          /\ \A j \in StarsOf(pattern, "*") : j = i + 2
          /\ \/ i = Len(pattern)
             \/ pattern[i + 1] = "/" /\ (pattern[i + 2] = "*" \/ ~Contains(behind(i), "/"))

\* list_files lists every file that a pattern of these kinds means (both its description
\* names, "*.rs" and "src/**/*.ts", are).
MeantFilesAreListed ==
  Is("list_files") /\ Served(input.pattern) => (Means(input.pattern, input.path) => output.value)

\* "Glob pattern to filter files" (the description of list_files): of any pattern.
PatternsAreGlobs == Is("list_files") => (Means(input.pattern, input.path) => output.value)

\* All matches of the files that are searched, in order.
AllMatches ==
  FlattenSeq([i \in DOMAIN input.files |->
    IF Tools!Wanted(input.files[i], input.pattern)
    THEN Tools!SearchFile(<<>>, input.files[i], Len(input.files[i].lines)) ELSE <<>>])

\* What grep_code returns is the beginning of all matches, and all of them unless
\* it says that it is truncated.
UntruncatedIsComplete ==
  Is("grep_code") =>
    /\ IsPrefix(output.value.matches, AllMatches)
    /\ ~output.value.truncated => output.value.matches = AllMatches

\* The calls of a response in which braces and fences are balanced are those
\* written in it, in order, and a fence around the response changes nothing.
WrittenCallsAreParsed ==
  Is("parse_tool_calls")
    /\ (\A i \in DOMAIN input.response : input.response[i].type \notin {"brace", "fence"}) =>
    LET written == FlattenSeq([i \in DOMAIN input.response |->
                     CASE input.response[i].type = "object" -> Results!SingleCall(input.response[i])
                       [] input.response[i].type = "array" -> Results!CallsOf(input.response[i].items)
                       [] OTHER -> <<>>])
    IN output.value = [plain |-> Results!Calls(written), fenced |-> Results!Calls(written)]

\* Calls share an entry of the cache just when they have the same arguments, in
\* whatever order the map yields them, and then the model reads the same of them.
SameKeySameCall ==
  Is("cache_key") =>
    /\ output.value.key.a = output.value.key.b <=> ToSet(input.a.arguments) = ToSet(input.b.arguments)
    /\ output.value.key.a = output.value.key.b => output.value.summary.a = output.value.summary.b

\* Page by page the model reads each line once under its number, as many as it is
\* told there are; where the two disagree, the file changed or is no text.
PagesAreTheFile ==
  Is("read_file") /\ input.file.type = "file" /\ input.file.readable =>
    LET page(p) == output.value.pages[p].value.value
        good == {p \in 1..4 : output.value.pages[p].ok}
        read == FlattenSeq([p \in 1..4 |-> IF p \in good THEN page(p).content ELSE <<>>])
    IN /\ \A i \in DOMAIN read : read[i][2] = input.file.lines[read[i][1]]
       /\ good = 1..4 => [i \in DOMAIN read |-> read[i][1]] = [i \in DOMAIN input.file.lines |-> i]
       /\ \A p \in good : page(p).total_lines # Len(input.file.lines) =>
            input.later # input.file \/ "binary" \in ToSet(input.file.lines)

\* Where the structure of a file is told, its lines can be read.
StructureIsOfReadableFile ==
  Is("read_file") /\ output.value.structure.ok =>
    \A p \in 1..4 : output.value.pages[p].ok /\ output.value.pages[p].value.success = output.value.structure.value.success

\* What search_symbol finds is found again by the name it shows, whatever the case,
\* and (but for type aliases) by the kind it shows.
SymbolsAreFoundAgain ==
  Is("search_symbol") =>
    \A found \in output.value.value.value :
      found.kind # <<"type_alias">> =>
        found \in Results!SearchSymbol(SymbolCall(found.symbol, found.kind), input.store).value.value

\* The model reads each result of a batch under the name of its call, also after
\* calls that failed.
ResultsNameTheirCall ==
  Is("execute_batch") =>
    /\ DOMAIN output.value.observed = DOMAIN input.calls
    /\ \A i \in DOMAIN input.calls :
         /\ output.value.observed[i].name = Results!Some(input.calls[i].name)
         /\ output.value.observed[i].failed <=> ~input.results[i].ok \/ ~input.results[i].value.success
         /\ output.value.results[i].call_id \in {Results!None, input.calls[i].id}

----------------------------------------------------------------------------
(* What the repository says and these functions do not do *)

\* "The call ID this result corresponds to."
ResultsCarryTheirId ==
  Is("execute_batch") => \A i \in DOMAIN input.calls : output.value.results[i].call_id = input.calls[i].id

\* "Filter by symbol kind: function, struct, enum, ...", the kinds of the results.
ShownKindsFilter ==
  Is("search_symbol") /\ input.kind = <<"type_alias">> =>
    \A meta \in input.store :
      (meta.symbol # Results!None /\ Results!HasPart(Results!ToLower(meta.symbol[1]), Results!ToLower(input.symbol))
         /\ meta.kind = "TypeAlias") =>
        [symbol |-> meta.symbol[1], kind |-> <<"type_alias">>] \in output.value.value.value

\* "Markdown code block with JSON" is supported: a block that is not closed, as
\* that of an answer cut at its limit, has calls or none.
FenceMayBeOpen == Is("parse_tool_calls") => output.value.plain # Results!Panic
=============================================================================
