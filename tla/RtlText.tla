------------------------------ MODULE RtlText -------------------------------
(***************************************************************************)
(* scripts/clean_rtl_sources.py as operators on a text: the renaming of    *)
(* identifiers, the removal of comments and the tidying of lines; and a    *)
(* lexical reference that says what must survive.                          *)
(*                                                                         *)
(* A text is a sequence of characters, of which only those are told apart  *)
(* that the script looks at: "quote", "escape" (a backslash), "slash",     *)
(* "star", "nl", "sp", "keep" (a word of KEEP_COMMENT_MARKERS), "old" and  *)
(* "new" (an identifier and what IDENTIFIER_RENAMES makes of it) and "x".  *)
(***************************************************************************)
EXTENDS Naturals, Sequences, FiniteSets

SeqX == INSTANCE SequencesExt

Unterminated == <<"unterminated">>

Rename(text) == [i \in DOMAIN text |-> IF text[i] = "old" THEN "new" ELSE text[i]]

KeepComment(comment) == \E i \in DOMAIN comment : comment[i] = "keep"

StartsWith(text, index, word) ==
    /\ index + Len(word) <= Len(text) + 1
    /\ \A k \in DOMAIN word : text[index + k - 1] = word[k]

\* The first place at or after index where word starts, Len(text) + 1 when there is none.
Find(text, index, word) ==
    LET places == {i \in index..Len(text) : StartsWith(text, i, word)}
    IN  IF places = {} THEN Len(text) + 1 ELSE CHOOSE i \in places : \A j \in places : i <= j

\* Mutant: a removed block comment leaves nothing behind.
BlockRemains_nothing(comment) == IF KeepComment(comment) THEN comment ELSE <<>>

\* A removed block comment leaves a blank and its line ends.
BlockRemains(comment) ==
    IF KeepComment(comment) THEN comment
    ELSE <<"sp">> \o SelectSeq(comment, LAMBDA c : c = "nl")

RECURSIVE StripFrom(_, _, _, _)

\* The loop of strip_comments from index on; an unterminated block comment ends the output.
StripFrom(text, index, inString, escaped) ==
    LET c       == text[index]
        lineEnd == Find(text, index, <<"nl">>)
        star    == Find(text, index + 2, <<"star", "slash">>)
    IN  CASE index > Len(text) -> <<>>
          [] index <= Len(text) /\ inString ->
                <<c>> \o StripFrom(text, index + 1, escaped \/ c # "quote", ~escaped /\ c = "escape")
          [] index <= Len(text) /\ ~inString /\ c = "quote" ->
                <<c>> \o StripFrom(text, index + 1, TRUE, FALSE)
          [] index <= Len(text) /\ ~inString /\ StartsWith(text, index, <<"slash", "slash">>) ->
                LET comment == SubSeq(text, index, lineEnd - 1)
                IN  (IF KeepComment(comment) THEN comment ELSE <<>>) \o StripFrom(text, lineEnd, FALSE, FALSE)
          [] index <= Len(text) /\ ~inString /\ StartsWith(text, index, <<"slash", "star">>) ->
                IF star > Len(text) THEN Unterminated
                ELSE BlockRemains(SubSeq(text, index, star + 1)) \o StripFrom(text, star + 2, FALSE, FALSE)
          [] OTHER -> <<c>> \o StripFrom(text, index + 1, FALSE, FALSE)

RECURSIVE SplitLines(_)

\* splitlines(keepends=True), each line as [body, ending], the body without blanks at its end.
SplitLines(text) ==
    LET nl   == Find(text, 1, <<"nl">>)
        last == LET solid == {i \in 1..nl - 1 : text[i] # "sp"}
                IN  IF solid = {} THEN 0 ELSE CHOOSE i \in solid : \A j \in solid : j <= i
    IN  IF text = <<>> THEN <<>>
        ELSE <<[body |-> SubSeq(text, 1, last), ending |-> SubSeq(text, nl, IF nl > Len(text) THEN 0 ELSE nl)]>>
             \o SplitLines(SubSeq(text, nl + 1, Len(text)))

\* Of a run of blank lines two stay.
TidyLines(text) ==
    LET tidy(acc, line) ==
            IF line.body # <<>> THEN [out |-> acc.out \o line.body \o line.ending, run |-> 0]
            ELSE [out |-> IF acc.run < 2 THEN acc.out \o line.ending ELSE acc.out, run |-> acc.run + 1]
    IN  SeqX!FoldLeft(tidy, [out |-> <<>>, run |-> 0], SplitLines(text)).out

\* strip_comments, or Unterminated when it raises.
StripComments(text) ==
    LET output == StripFrom(text, 1, FALSE, FALSE)
    IN  IF SeqX!Contains(output, "unterminated") THEN Unterminated ELSE TidyLines(output)

\* What main writes over the file.
Clean(text) == StripComments(Rename(text))

-----------------------------------------------------------------------------
(***************************************************************************)
(* Reference: what a reader of SystemVerilog sees of a text, character by  *)
(* character: code, strings, and one separator for any run of blanks, line *)
(* ends and comments, which is a line end when the run contains one.       *)
(***************************************************************************)
Separate(out, sep) ==
    CASE out = <<>> -> out
      [] out # <<>> /\ out[Len(out)] \in {<<"sp">>, <<"nl">>} ->
            IF sep = "nl" THEN [out EXCEPT ![Len(out)] = <<"nl">>] ELSE out
      [] OTHER -> Append(out, <<sep>>)

Lex(acc, c) ==
    LET blank  == IF c = "nl" THEN "nl" ELSE "sp"
        code   == IF c \in {"sp", "nl"} THEN [mode |-> "code", out |-> Separate(acc.out, c)]
                  ELSE IF c = "quote" THEN [mode |-> "string", out |-> Append(acc.out, <<c>>)]
                  ELSE IF c = "slash" THEN [mode |-> "slash", out |-> acc.out]
                  ELSE [mode |-> "code", out |-> Append(acc.out, <<c>>)]
        flushed == Append(acc.out, <<"slash">>)
    IN  CASE acc.mode = "code" -> code
          [] acc.mode = "slash" ->
                CASE c = "slash" -> [mode |-> "line", out |-> Separate(acc.out, "sp")]
                  [] c = "star" -> [mode |-> "block", out |-> Separate(acc.out, "sp")]
                  [] c = "quote" -> [mode |-> "string", out |-> Append(flushed, <<c>>)]
                  [] c \in {"sp", "nl"} -> [mode |-> "code", out |-> Separate(flushed, c)]
                  [] OTHER -> [mode |-> "code", out |-> Append(flushed, <<c>>)]
          [] acc.mode = "line" ->
                [mode |-> IF c = "nl" THEN "code" ELSE "line", out |-> Separate(acc.out, blank)]
          [] acc.mode \in {"block", "star"} ->
                [mode |-> CASE c = "star" -> "star"
                            [] c = "slash" /\ acc.mode = "star" -> "code"
                            [] OTHER -> "block",
                 out |-> Separate(acc.out, blank)]
          [] acc.mode = "escaped" -> [mode |-> "string", out |-> Append(acc.out, <<"in", c>>)]
          [] acc.mode = "string" ->
                [mode |-> CASE c = "quote" -> "code" [] c = "escape" -> "escaped" [] OTHER -> "string",
                 out |-> Append(acc.out, <<"in", c>>)]

Lexed(text) == SeqX!FoldLeft(Lex, [mode |-> "code", out |-> <<>>], text)

Lexemes(text) ==
    LET end == Lexed(text)
        out == IF end.mode = "slash" THEN Append(end.out, <<"slash">>) ELSE end.out
    IN  IF out # <<>> /\ out[Len(out)] \in {<<"sp">>, <<"nl">>} THEN SubSeq(out, 1, Len(out) - 1) ELSE out

\* A string ends on the line it begins on, as the language wants it.
StringsEndOnTheirLine(text) ==
    /\ Lexed(text).mode \notin {"string", "escaped"}
    /\ ~\E i \in DOMAIN Lexemes(text) : Lexemes(text)[i] = <<"in", "nl">>
=============================================================================
