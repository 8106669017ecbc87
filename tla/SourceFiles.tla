---------------------------- MODULE SourceFiles -----------------------------
(***************************************************************************)
(* From the files of a project to the chunks that are indexed, as          *)
(* functions: the scanner of chatvcode-core, chatvcode-parser, and the     *)
(* splitting of large chunks.                                              *)
(***************************************************************************)
EXTENDS Integers, Sequences, FiniteSetsExt, SequencesExt

(* The scanner: which files of a project are read.  A file is [dirs, name]: *)
(* the directories below the root on the way to it, and [hidden, language]. *)
(* Of the extensions and names that are ignored only the dot of a hidden    *)
(* file matters: the others have no supported language, and are skipped     *)
(* either way.                                                              *)

Unlimited == 1000

\* Two of the twelve names in IGNORED_DIRS stand for all.
IGNORED_DIRS == {"target", ".git"}
ShouldIgnoreDir(dir) == dir \in IGNORED_DIRS
ShouldIgnoreFile(name) == name.hidden
IsSourceFile(name) == name.language # "Unknown"

Ignored(dirs) == \E i \in DOMAIN dirs : ShouldIgnoreDir(dirs[i])

\* The directories of a project, and those above one of them.
Directories(project) == UNION {{SubSeq(f.dirs, 1, n) : n \in 0..Len(f.dirs)} : f \in project.files}
Above(dirs) == {SubSeq(dirs, 1, n) : n \in 0..Len(dirs) - 1}

\* A directory that is read: reached through readable ones, and not too deep.
Reads(project, dirs, deepest) ==
  /\ ~Ignored(dirs) /\ Len(dirs) <= deepest
  /\ Above(dirs) \cap project.unreadable = {}

\* Mutant of Sorted: a directory that cannot be read has no files.
SortedQuietly(project, files, read) ==
  LET kept(f) == IsSourceFile(f.name) /\ ~ShouldIgnoreFile(f.name)
  IN [source |-> {f \in files : kept(f)}, skipped |-> {f \in files : ~kept(f)}, errors |-> {}]

\* The files that are found, by what becomes of them, and the directories that
\* could not be read.
Sorted(project, files, read) ==
  LET kept(f) == IsSourceFile(f.name) /\ ~ShouldIgnoreFile(f.name)
  IN [source |-> {f \in files : kept(f)}, skipped |-> {f \in files : ~kept(f)},
      errors |-> {d \in read : d \in project.unreadable}]

\* walk_directory: the root is at depth 0 and its files are found.
WalkDirectory(project, max_depth) ==
  LET read == {d \in Directories(project) : Reads(project, d, max_depth)}
  IN Sorted(project, {f \in project.files : f.dirs \in read \ project.unreadable}, read)

\* walk_with_gitignore: the root is at depth 0 and its files are at depth 1; what
\* .gitignore names is not found.
WalkWithGitignore(project, max_depth) ==
  LET read == {d \in Directories(project) : Reads(project, d, max_depth - 1)}
  IN Sorted(project, {f \in project.files \ project.gitignored : f.dirs \in read \ project.unreadable}, read)

\* scan, of a root that exists and is a directory
Scan(project, max_depth, respect_gitignore) ==
  IF respect_gitignore THEN WalkWithGitignore(project, max_depth) ELSE WalkDirectory(project, max_depth)

----------------------------------------------------------------------------
(* clean_path: a path is a sequence of components, "/" the root directory   *)

\* Mutant of CleanPath: the root directory is popped as any component.
CleanPathPoppingRoot(path) ==
  FoldLeft(LAMBDA clean, component :
             CASE component = "." -> clean
               [] component = ".." /\ clean # <<>> -> Front(clean)
               [] OTHER -> Append(clean, component),
           <<>>, path)

CleanPath(path) ==
  FoldLeft(LAMBDA clean, component :
             CASE component = "." -> clean
               [] component = ".." /\ clean # <<>> /\ Last(clean) # "/" -> Front(clean)
               [] OTHER -> Append(clean, component),
           <<>>, path)

----------------------------------------------------------------------------
(* The parser.  A tree, which tree-sitter builds, is a function from nodes  *)
(* to their kinds: a node is the sequence of child numbers that leads to    *)
(* it, and a kind is "def" (one the language has a definition for), "empty" *)
(* (the same without a text), "error", "missing" or "other".                *)

None == <<>>
Some(v) == <<v>>

Ancestors(node) == {SubSeq(node, 1, n) : n \in 0..Len(node) - 1}
Below(tree, node) == {n \in DOMAIN tree : node \in Ancestors(n)}

----------------------------------------------------------------------------
(* parse_source *)

\* Mutant of Stops: a node is left out when there is an error inside it, too.
StopsAtHasError(tree, node) ==
  \E n \in {node} \cup Below(tree, node) : tree[n] \in {"error", "missing"}

\* Neither a node that is an error nor what is below it becomes a chunk.
Stops(tree, node) == tree[node] \in {"error", "missing"}

\* build_chunk_from_node: an empty text is no chunk.
Builds(tree, node) == tree[node] = "def"

\* extract_chunks: there are no chunks inside a chunk.
ExtractChunks(tree) ==
  {n \in DOMAIN tree :
     /\ Builds(tree, n) /\ ~Stops(tree, n)
     /\ \A a \in Ancestors(n) : ~Stops(tree, a) /\ ~Builds(tree, a)}

\* collect_parse_errors: of the whole tree.
CollectParseErrors(tree) == {n \in DOMAIN tree : tree[n] \in {"error", "missing"}}

\* parse_source of a file in a supported language
ParseSource(tree) == [chunks |-> ExtractChunks(tree), errors |-> CollectParseErrors(tree)]

----------------------------------------------------------------------------
(* Symbols.  A node is [kind, name, children]: name is the text of its name *)
(* field ("trait" for an impl), children are nodes.                         *)

Node(kind, name, children) == [kind |-> kind, name |-> name, children |-> children]

\* js_ts_chunk_defs: what becomes a chunk, and whether its name field is its symbol.
ChunkDef(kind, node_kind, named) == [kind |-> kind, node_kind |-> node_kind, named |-> named]
JsTsChunkDefs ==
  {ChunkDef("Function", "function_declaration", TRUE), ChunkDef("Function", "generator_function_declaration", TRUE),
   ChunkDef("Class", "class_declaration", TRUE), ChunkDef("Interface", "interface_declaration", TRUE),
   ChunkDef("TypeAlias", "type_alias_declaration", TRUE), ChunkDef("Constant", "lexical_declaration", FALSE),
   ChunkDef("Module", "export_statement", FALSE)}

FirstSome(options) ==
  LET some == SelectSeq(options, LAMBDA o : o # None) IN IF some = <<>> THEN None ELSE some[1]

\* extract_name_from_lexical_decl: that of the first declarator with a name.
NameFromLexicalDecl(node) ==
  FirstSome([i \in DOMAIN node.children |->
    IF node.children[i].kind = "variable_declarator" THEN node.children[i].name ELSE None])

\* Mutant of NameFromDeclaration: constants are left out.
NameFromDeclarationNotLexical(node) ==
  IF node.kind \in {"lexical_declaration", "export_statement"} THEN None ELSE node.name

\* extract_name_from_declaration, for a child that is no export itself.
NameFromDeclaration(node) ==
  CASE node.kind \in {"function_declaration", "generator_function_declaration", "class_declaration",
                     "interface_declaration", "type_alias_declaration"} -> node.name
    [] node.kind = "lexical_declaration" -> NameFromLexicalDecl(node)
    [] OTHER -> None

\* extract_name_from_export
NameFromExport(node) == FirstSome([i \in DOMAIN node.children |-> NameFromDeclaration(node.children[i])])

\* extract_name_from_namespace, of PHP
NameFromNamespace(node) ==
  FirstSome([i \in DOMAIN node.children |->
    IF node.children[i].kind \in {"namespace_name", "identifier"} THEN node.children[i].name ELSE None])

\* extract_symbol_name: a node kind with no name field takes its symbol from a
\* child; but a decorated definition of Python has none.
SymbolName(node) ==
  CASE node.kind = "lexical_declaration" -> NameFromLexicalDecl(node)
    [] node.kind = "export_statement" -> NameFromExport(node)
    [] node.kind = "namespace_definition" -> NameFromNamespace(node)
    [] node.kind = "decorated_definition" -> None
    [] OTHER -> node.name

----------------------------------------------------------------------------
(* split_large_chunk.  A line is its length and whether it is blank (a line *)
(* of spaces is blank and not empty); a chunk is [start_line, start_byte,   *)
(* lines].                                                                  *)

Line(length, blank) == [length |-> length, blank |-> blank]

\* The text of lines joined by line ends.
TextLength(lines) == FoldLeft(LAMBDA sum, l : sum + l.length + 1, 0, lines) - 1

\* line_byte_offsets, of a line in the chunk.
LineOffset(chunk, i) == FoldLeft(LAMBDA sum, l : sum + l.length + 1, 0, SubSeq(chunk.lines, 1, i - 1))

\* make_sub_chunk
SubChunk(start_line, start_byte, lines) ==
  [start_line |-> start_line, end_line |-> start_line + Len(lines) - 1,
   start_byte |-> start_byte, end_byte |-> start_byte + TextLength(lines), lines |-> lines]

\* A group that is only one empty line has no text.
Closed(split) ==
  IF split.current = <<>> \/ TextLength(split.current) = 0 THEN split.done
  ELSE Append(split.done, SubChunk(split.start_line, split.start_byte, split.current))

\* Mutant of NextGroup: the next group begins with the blank line.
NextGroupAtBlank(chunk, split, i) ==
  [done |-> Closed(split), current |-> <<>>, start_line |-> chunk.start_line + i - 1,
   start_byte |-> LineOffset(chunk, i + 1)]

\* A blank line, the i-th, closes the group: the next one begins behind it.
NextGroup(chunk, split, i) ==
  [done |-> Closed(split), current |-> <<>>, start_line |-> chunk.start_line + i,
   start_byte |-> LineOffset(chunk, i + 1)]

SplitLargeChunk(chunk) ==
  LET all == FoldLeft(LAMBDA split, i :
                        IF chunk.lines[i].blank /\ split.current # <<>> THEN NextGroup(chunk, split, i)
                        ELSE [split EXCEPT !.current = Append(@, chunk.lines[i])],
                      [done |-> <<>>, current |-> <<>>, start_line |-> chunk.start_line,
                       start_byte |-> chunk.start_byte],
                      [i \in DOMAIN chunk.lines |-> i])
      whole == SubChunk(chunk.start_line, chunk.start_byte, chunk.lines)
  IN IF Len(chunk.lines) <= 1 \/ Closed(all) = <<>> THEN <<whole>> ELSE Closed(all)
=============================================================================
