---------------------------- MODULE ToolResults -----------------------------
(***************************************************************************)
(* A call of a tool and what the model reads of it: the parsing of calls   *)
(* (parse_tool_calls of chatvcode-llm), the key under which a result is    *)
(* cached, the tools that look up one thing (read_file,                    *)
(* get_file_structure, search_symbol), a batch of calls, and the prompts   *)
(* made of calls and results.                                              *)
(*                                                                         *)
(* A call is [name, arguments, id]; its arguments are a sequence of [key,  *)
(* value] in the order in which the hash map yields them. Text is a        *)
(* sequence of pieces, as in AgentTools.                                   *)
(***************************************************************************)
EXTENDS Integers, Sequences, FiniteSetsExt, SequencesExt

None == <<>>
Some(x) == <<x>>
Ok(value) == [ok |-> TRUE, value |-> value]
Err(error) == [ok |-> FALSE, error |-> error]
Success(value) == [call_id |-> None, success |-> TRUE, value |-> value]
Error(message) == [call_id |-> None, success |-> FALSE, value |-> message]

\* The values a JSON argument may have.
String(text) == [type |-> "string", text |-> text]
Number(n) == [type |-> "number", number |-> n]

Arguments(call, key) == {call.arguments[i].value : i \in {j \in DOMAIN call.arguments : call.arguments[j].key = key}}
GetString(call, key) ==
  LET strings == {value \in Arguments(call, key) : value.type = "string"}
  IN IF strings = {} THEN None ELSE Some((CHOOSE value \in strings : TRUE).text)
GetI64(call, key) ==
  LET numbers == {value \in Arguments(call, key) : value.type = "number"}
  IN IF numbers = {} THEN None ELSE Some((CHOOSE value \in numbers : TRUE).number)

AtLeastOne(n) == IF n < 1 THEN 1 ELSE n

----------------------------------------------------------------------------
(* The key of a call in the cache *)

\* The parameters of all tools, in alphabetical order.
Keys == <<"kind", "limit", "offset", "path", "query", "symbol", "top_k">>
Before(a, b) == SelectInSeq(Keys, LAMBDA x : x = a.key) < SelectInSeq(Keys, LAMBDA x : x = b.key)

Escaped(text) ==
  FlattenSeq([i \in DOMAIN text |-> IF text[i] \in {"\"", "\\"} THEN <<"\\", text[i]>> ELSE <<text[i]>>])
Json(value) == IF value.type = "string" THEN <<"\"">> \o Escaped(value.text) \o <<"\"">> ELSE <<ToString(value.number)>>

Written(i, argument, value) == (IF i = 1 THEN <<>> ELSE <<",">>) \o <<argument.key, "=">> \o value

\* Mutant of CacheKey: strings are put in bare, as get_string returns them.
CacheKeyBare(call) ==
  LET sorted == SortSeq(call.arguments, Before)
      bare(value) == IF value.type = "string" THEN value.text ELSE <<ToString(value.number)>>
  IN <<call.name, ":">> \o FlattenSeq([i \in DOMAIN sorted |-> Written(i, sorted[i], bare(sorted[i].value))])

\* cache_key
CacheKey(call) ==
  LET sorted == SortSeq(call.arguments, Before)
  IN <<call.name, ":">> \o FlattenSeq([i \in DOMAIN sorted |-> Written(i, sorted[i], Json(sorted[i].value))])

----------------------------------------------------------------------------
(* The tools *)

\* validate_arguments asks only whether the required ones are there; a required
\* string of another type panics in the tool, which unwraps it.
Checked(call, required) ==
  IF Arguments(call, required) = {} THEN Err("missing")
  ELSE IF GetString(call, required) = None THEN Err("panic") ELSE Ok(GetString(call, required)[1])

CountedLines(file) ==
  IF file.readable /\ "binary" \notin ToSet(file.lines) THEN Len(file.lines) ELSE 0

\* Mutant of Page: the line asked for is skipped with those before it.
PageBehind(lines, offset, limit) ==
  LET rest == SubSeq(lines, offset + 1, Len(lines))
  IN IF limit = None THEN rest ELSE SubSeq(rest, 1, Min({AtLeastOne(limit[1]), Len(rest)}))

\* The lines from offset on, as many as the limit.
Page(lines, offset, limit) ==
  LET rest == SubSeq(lines, offset, Len(lines))
  IN IF limit = None THEN rest ELSE SubSeq(rest, 1, Min({AtLeastOne(limit[1]), Len(rest)}))

\* read_file: a file is [type, readable, lines], a line is a name or "binary".
\* The lines come from one reading of the file and their number from another,
\* later one, which counts none when it fails or meets a binary line.
ReadFile(call, file, later) ==
  LET offset == AtLeastOne(IF GetI64(call, "offset") = None THEN 1 ELSE GetI64(call, "offset")[1])
      lines == Page(file.lines, offset, GetI64(call, "limit"))
  IN IF ~Checked(call, "path").ok THEN Checked(call, "path")
     ELSE IF file.type = "outside" THEN Err("outside the project")
     ELSE IF file.type # "file" THEN Ok(Error("not a file"))
     ELSE IF ~file.readable \/ "binary" \in ToSet(lines) THEN Err("failed to read")
     ELSE Ok(Success([offset |-> offset, lines_returned |-> Len(lines), total_lines |-> CountedLines(later),
                      content |-> [i \in DOMAIN lines |-> <<offset + i - 1, lines[i]>>]]))

\* Mutant of GetFileStructure: bytes that are no text are replaced.
GetFileStructureLossy(call, file, parsed) ==
  IF ~Checked(call, "path").ok THEN Checked(call, "path")
  ELSE IF file.type = "outside" THEN Err("outside the project")
  ELSE IF file.type # "file" THEN Ok(Error("not a file"))
  ELSE IF ~file.readable THEN Err("failed to read")
  ELSE IF ~parsed.ok THEN Err("failed to parse")
  ELSE Ok(Success([chunks |-> parsed.value, chunk_count |-> Len(parsed.value)]))

\* get_file_structure: what the parser makes of the file.
GetFileStructure(call, file, parsed) ==
  IF ~Checked(call, "path").ok THEN Checked(call, "path")
  ELSE IF file.type = "outside" THEN Err("outside the project")
  ELSE IF file.type # "file" THEN Ok(Error("not a file"))
  ELSE IF ~file.readable \/ "binary" \in ToSet(file.lines) THEN Err("failed to read")
  ELSE IF ~parsed.ok THEN Err("failed to parse")
  ELSE Ok(Success([chunks |-> parsed.value, chunk_count |-> Len(parsed.value)]))

----------------------------------------------------------------------------
(* search_symbol.  The stored chunks are a set of [symbol, kind]. *)

ToLower(text) == [i \in DOMAIN text |-> IF text[i] = "A" THEN "a" ELSE IF text[i] = "B" THEN "b" ELSE text[i]]
HasPart(text, part) == \E i \in 1..Len(text) + 1 : IsPrefix(part, SubSeq(text, i, Len(text)))

\* A kind as it is shown, and in the lower-case form of its Rust name.
Shown(kind) == IF kind = "TypeAlias" THEN <<"type_alias">> ELSE <<kind>>
DebugLower(kind) == IF kind = "TypeAlias" THEN <<"typealias">> ELSE <<kind>>

\* Mutant of GetChunksBySymbol: only the stored name is put in lower case.
GetChunksBySymbolAsTyped(store, symbol, kind) ==
  {meta \in store : /\ meta.symbol # None /\ HasPart(ToLower(meta.symbol[1]), symbol)
                    /\ kind = None \/ DebugLower(meta.kind) = ToLower(kind[1])}

\* get_chunks_by_symbol
GetChunksBySymbol(store, symbol, kind) ==
  {meta \in store : /\ meta.symbol # None /\ HasPart(ToLower(meta.symbol[1]), ToLower(symbol))
                    /\ kind = None \/ DebugLower(meta.kind) = ToLower(kind[1])}

SearchSymbol(call, store) ==
  IF ~Checked(call, "symbol").ok THEN Checked(call, "symbol")
  ELSE Ok(Success({[symbol |-> meta.symbol[1], kind |-> Shown(meta.kind)] :
                     meta \in GetChunksBySymbol(store, Checked(call, "symbol").value, GetString(call, "kind"))}))

----------------------------------------------------------------------------
(* A batch, and the prompts *)

\* format_result: only what failed is given the id of its call.
FormatResult(call, result) ==
  IF result.ok THEN result.value ELSE [Error(result.error) EXCEPT !.call_id = call.id]

\* Mutant of ExecuteBatch: what failed is left out.
ExecuteBatchOfGood(calls, results) ==
  LET good == SelectSeq([i \in DOMAIN calls |-> <<calls[i], results[i]>>], LAMBDA each : each[2].ok)
  IN [i \in DOMAIN good |-> FormatResult(good[i][1], good[i][2])]

\* execute_batch, results being what execute returns for each call
ExecuteBatch(calls, results) == [i \in DOMAIN calls |-> FormatResult(calls[i], results[i])]

\* format_tool_results_with_calls: the i-th result under the name of the i-th call.
FormatToolResultsWithCalls(calls, results) ==
  [i \in DOMAIN results |->
     [index |-> i, name |-> IF i \in DOMAIN calls THEN Some(calls[i].name) ELSE None,
      failed |-> ~results[i].success, body |-> results[i].value]]

\* The first max characters, and that there were more.
Preview(text, max) ==
  IF Len(text) <= max THEN text ELSE SubSeq(text, 1, max) \o <<"...">>

\* summarize_args; compact_value shortens strings and leaves the rest as it is.
SummarizeArgs(call) ==
  LET sorted == SortSeq(call.arguments, Before)
      compact(value) ==
        IF value.type # "string" THEN <<ToString(value.number)>>
        ELSE <<"\"">> \o (IF Len(value.text) > 30 THEN Preview(value.text, 27) ELSE value.text) \o <<"\"">>
  IN [i \in DOMAIN sorted |-> <<sorted[i].key, compact(sorted[i].value)>>]

\* build_exploration_summary: a line for the calls of a step, one for its thought.
ExplorationSummary(steps) ==
  FlattenSeq([i \in DOMAIN steps |->
    (IF steps[i].tool_calls = <<>> THEN <<>>
     ELSE <<[step |-> steps[i].step_number,
             tools |-> [j \in DOMAIN steps[i].tool_calls |->
                          <<steps[i].tool_calls[j].name, SummarizeArgs(steps[i].tool_calls[j])>>]]>>)
    \o (IF steps[i].thought \in {None, Some(<<>>)} THEN <<>>
        ELSE <<[observation |-> Preview(steps[i].thought[1], 100)]>>)])

----------------------------------------------------------------------------
(* parse_tool_calls: the calls in a response of a model.  A response is a  *)
(* sequence of tokens: prose, line ends, fences, braces that belong to no  *)
(* object, objects and arrays of objects.  An object has a name or none,   *)
(* and arguments, which may be an object with a name of its own but have   *)
(* no object inside.                                                       *)

Text == [type |-> "text"]
Newline == [type |-> "newline"]
Fence == [type |-> "fence"]
Brace(step) == [type |-> "brace", step |-> step]
Object(name, args) == [type |-> "object", name |-> name, args |-> args]
Array(items) == [type |-> "array", items |-> items]

Panic == <<"panic">>
Calls(calls) == <<"calls", calls>>

IsBlank(token) == token.type = "newline"
Trimmed(tokens) ==
  LET solid == {i \in DOMAIN tokens : ~IsBlank(tokens[i])}
  IN IF solid = {} THEN <<>>
     ELSE SubSeq(tokens, Min(solid), Max(solid))

LastFence(tokens) == Max({i \in DOMAIN tokens : tokens[i].type = "fence"})

\* Where the line of the first fence ends: without a line end, inside the fence.
FirstLineEnd(tokens) ==
  LET ends == {i \in DOMAIN tokens : IsBlank(tokens[i])} IN IF ends = {} THEN 1 ELSE Min(ends)

\* The range of the slice is reversed when the last fence is on the first line.
FenceIsOpen(tokens) == LastFence(tokens) <= FirstLineEnd(tokens)

\* What is looked at: the response, or the lines between its fences.
Content(tokens) ==
  IF tokens = <<>> \/ tokens[1].type # "fence" THEN tokens
  ELSE IF FirstLineEnd(tokens) = 1 THEN <<Text>> \o SubSeq(tokens, 2, LastFence(tokens) - 1)
  ELSE Trimmed(SubSeq(tokens, FirstLineEnd(tokens) + 1, LastFence(tokens) - 1))

----------------------------------------------------------------------------

\* parse_single_call, as a sequence of at most one call.
SingleCall(object) == IF object.name = "" THEN <<>> ELSE <<[name |-> object.name, args |-> object.args]>>
CallsOf(objects) == FlattenSeq([i \in DOMAIN objects |-> SingleCall(objects[i])])

\* What the scanner takes for an outermost object when the braces before are
\* out of balance by depth.
OutermostAt(object, depth) ==
  IF depth = 0 THEN <<object>> ELSE IF depth = -1 THEN object.args ELSE <<>>

\* Mutant of Scanned: an object replaces the one found before.
ScannedLast(tokens) ==
  FoldLeft(LAMBDA scan, token :
             CASE token.type = "brace" -> [scan EXCEPT !.depth = @ + token.step]
               [] token.type = "object" -> [scan EXCEPT !.found = OutermostAt(token, scan.depth)]
               [] OTHER -> scan,
           [depth |-> 0, found |-> <<>>], tokens).found

\* The objects a scan of the braces finds.
Scanned(tokens) ==
  FoldLeft(LAMBDA scan, token :
             CASE token.type = "brace" -> [scan EXCEPT !.depth = @ + token.step]
               [] token.type = "object" -> [scan EXCEPT !.found = @ \o OutermostAt(token, scan.depth)]
               [] token.type = "array" ->
                    [scan EXCEPT !.found =
                       @ \o FlattenSeq([i \in DOMAIN token.items |-> OutermostAt(token.items[i], scan.depth)])]
               [] OTHER -> scan,
           [depth |-> 0, found |-> <<>>], tokens).found

\* A content that is one JSON value.
Value(tokens) ==
  IF Len(tokens) # 1 THEN <<>>
  ELSE CASE tokens[1].type = "object" -> <<tokens[1]>>
         [] tokens[1].type = "array" -> tokens[1].items
         [] OTHER -> <<>>

\* parse_tool_calls; no call is its error.
ParseToolCalls(response) ==
  LET tokens == Trimmed(response)
      content == Content(tokens)
  IN IF tokens # <<>> /\ tokens[1].type = "fence" /\ FenceIsOpen(tokens) THEN Panic
     ELSE IF CallsOf(Value(content)) # <<>> THEN Calls(CallsOf(Value(content)))
     ELSE Calls(CallsOf(Scanned(content)))
=============================================================================
