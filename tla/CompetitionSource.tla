------------------------- MODULE CompetitionSource --------------------------
(***************************************************************************)
(* The source of a competition run as operators: what                      *)
(* scripts/prepare_competition_run.py accepts, which file it takes for the *)
(* entry and what it records, and what build_software.py checks of it      *)
(* before every build.                                                     *)
(*                                                                         *)
(* A tree is a function from the paths of its files to their contents; the *)
(* content Link is a symbolic link.                                        *)
(***************************************************************************)
EXTENDS Naturals, FiniteSets

Link    == 0
Refused == <<>>

\* The paths a tree may have, those with the suffix .c in either case, and those whose name
\* is core_main.c in either case.
Paths      == {"core_main.c", "sub/Core_Main.C", "a.c", "b.C", "notes"}
CFiles     == Paths \ {"notes"}
LowerCase  == {"core_main.c", "a.c"}
CoreMains  == {"core_main.c", "sub/Core_Main.C"}

\* validate_input_source: a link at the top has been resolved, one inside is refused.
ValidInput(tree) == \A path \in DOMAIN tree : tree[path] # Link

\* The files rglob("*.c") finds: whether b.C is one of them depends on the host.
FoundSources(tree, host) ==
    DOMAIN tree \cap (IF host = "windows" THEN CFiles ELSE LowerCase)

\* select_entry_source: the one --entry names, inside the source; else the only core_main.c;
\* else the only C file.
SelectEntry(tree, requested, host) ==
    LET candidates == FoundSources(tree, host)
        preferred  == candidates \cap CoreMains
        only(S)    == <<CHOOSE path \in S : TRUE>>
    IN  IF requested # <<>>
        THEN IF requested[1] \in DOMAIN tree \cap CFiles THEN requested ELSE Refused
        ELSE IF Cardinality(preferred) = 1 THEN only(preferred)
        ELSE IF Cardinality(candidates) = 1 THEN only(candidates) ELSE Refused

\* source_manifest: the digest of every file of the copy.
SourceManifest(tree) == tree

\* prepare_run: the copy, its manifest and competition.json.
PrepareRun(tree, requested, host) ==
    LET entry == SelectEntry(tree, requested, host)
    IN  IF ~ValidInput(tree) \/ entry = Refused THEN Refused
        ELSE <<[original |-> tree, manifest |-> SourceManifest(tree),
                config |-> [mode |-> "core_main_replacement", entry_source |-> entry[1],
                            extra_sources |-> {}, entry_symbol |-> "main"]]>>

\* Mutant: only the files the manifest lists are looked at.
VerifySources_listedOnly(run) ==
    \A path \in DOMAIN run.manifest :
       path \in DOMAIN run.original /\ run.original[path] = run.manifest[path]

\* verify_competition_sources: the same set of files, each with the digest recorded.
VerifySources(run) ==
    /\ DOMAIN run.original = DOMAIN run.manifest
    /\ \A path \in DOMAIN run.original : run.original[path] = run.manifest[path]

\* load_competition_config, on the sources just verified: the entry to compile.
LoadConfig(run) ==
    IF /\ VerifySources(run)
       /\ run.config.mode = "core_main_replacement"
       /\ run.config.entry_symbol = "main"
       /\ run.config.extra_sources = {}
       /\ run.config.entry_source \in DOMAIN run.original \cap CFiles
    THEN <<run.config.entry_source>> ELSE Refused
=============================================================================
