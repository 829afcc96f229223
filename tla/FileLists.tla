----------------------------- MODULE FileLists ------------------------------
(***************************************************************************)
(* Two readers of the same filelists, as operators: check_filelists.py     *)
(* (expand) decides whether a list is in order, run_verilator.py           *)
(* (filelist_inputs) collects the files whose contents make the            *)
(* fingerprint of a model.                                                 *)
(*                                                                         *)
(* tree maps every list to its lines.  A line is [kind, name, comment]:    *)
(* "-f" and a list, a source, an include directory, another option, or     *)
(* another + option; comment says that a remark follows on the line.  disk *)
(* maps a name to "file", "directory" or "missing".                        *)
(***************************************************************************)
EXTENDS Naturals, Sequences, FiniteSets

Failed == [ok |-> FALSE, sources |-> <<>>]

RECURSIVE Expand(_, _, _, _)
RECURSIVE ExpandLines(_, _, _, _, _)

\* What a line adds, or that it is in error.  A remark after a name is taken for a part of
\* it, and a + option other than +incdir+ for a source, which then does not exist.  A list
\* that is a directory cannot be read; a source only has to exist.
ExpandLine(tree, disk, line, open) ==
    CASE line.kind = "-f" ->
            IF line.comment \/ disk[line.name] # "file" THEN Failed
            ELSE Expand(tree, disk, line.name, open)
      [] line.kind = "source" ->
            IF line.comment \/ disk[line.name] = "missing" THEN Failed
            ELSE [ok |-> TRUE, sources |-> <<line.name>>]
      [] line.kind = "+incdir" ->
            IF line.comment \/ disk[line.name] # "directory" THEN Failed
            ELSE [ok |-> TRUE, sources |-> <<>>]
      [] line.kind = "-option" -> [ok |-> TRUE, sources |-> <<>>]
      [] line.kind = "+option" -> Failed

ExpandLines(tree, disk, lines, i, open) ==
    IF i > Len(lines) THEN [ok |-> TRUE, sources |-> <<>>]
    ELSE LET first == ExpandLine(tree, disk, lines[i], open)
             rest  == ExpandLines(tree, disk, lines, i + 1, open)
         IN  IF first.ok /\ rest.ok
             THEN [ok |-> TRUE, sources |-> first.sources \o rest.sources] ELSE Failed

\* expand: a list that is being read must not be met again.
Expand(tree, disk, list, open) ==
    IF list \in open THEN Failed
    ELSE ExpandLines(tree, disk, tree[list], 1, open \cup {list})

\* main: in order, and no source twice.
ListIsOk(tree, disk, list) ==
    LET e == Expand(tree, disk, list, {})
    IN  e.ok /\ \A i, j \in DOMAIN e.sources : e.sources[i] = e.sources[j] => i = j

RECURSIVE Inputs(_, _, _, _)
RECURSIVE InputsOfLines(_, _, _, _, _)

\* Mutant: only lines that begin with a source name are looked at.
InputsOfLine_noNesting(tree, disk, line, seen) ==
    CASE line.kind = "source" ->
            IF disk[line.name] = "file" THEN [ok |-> TRUE, seen |-> seen \cup {line.name}]
            ELSE [ok |-> FALSE, seen |-> seen]
      [] OTHER -> [ok |-> TRUE, seen |-> seen]

InputsOfLine(tree, disk, line, seen) ==
    CASE line.kind = "-f" -> Inputs(tree, disk, line.name, seen)
      [] line.kind = "source" ->
            IF disk[line.name] = "file" THEN [ok |-> TRUE, seen |-> seen \cup {line.name}]
            ELSE [ok |-> FALSE, seen |-> seen]
      [] OTHER -> [ok |-> TRUE, seen |-> seen]

InputsOfLines(tree, disk, lines, i, seen) ==
    IF i > Len(lines) THEN [ok |-> TRUE, seen |-> seen]
    ELSE LET first == InputsOfLine(tree, disk, lines[i], seen)
         IN  IF first.ok THEN InputsOfLines(tree, disk, lines, i + 1, first.seen) ELSE first

\* filelist_inputs: the lists themselves are inputs too, each is read once.
Inputs(tree, disk, list, seen) ==
    IF list \in seen THEN [ok |-> TRUE, seen |-> seen]
    ELSE IF disk[list] # "file" THEN [ok |-> FALSE, seen |-> seen]
    ELSE InputsOfLines(tree, disk, tree[list], 1, seen \cup {list})

\* Reference: the names of the source lines of a list, and the lists that can be reached by
\* -f lines, the smallest closed set.
SourcesOf(tree, list) == {tree[list][i].name : i \in {k \in DOMAIN tree[list] : tree[list][k].kind = "source"}}
Closed(tree, S) ==
    \A l \in S : \A i \in DOMAIN tree[l] : tree[l][i].kind = "-f" => tree[l][i].name \in S
Reached(tree, list) ==
    {l \in DOMAIN tree : \A S \in SUBSET DOMAIN tree : list \in S /\ Closed(tree, S) => l \in S}
=============================================================================
