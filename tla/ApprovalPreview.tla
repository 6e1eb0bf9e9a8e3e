--------------------------- MODULE ApprovalPreview ---------------------------
(***************************************************************************)
(* The text of an approval preview: ApprovalPreview::text, literal, range  *)
(* and append_lines of native/tuig/src/coding_approval.rs.  A text is a    *)
(* sequence of characters; the words of the layout, and a number, are one  *)
(* character each.                                                         *)
(***************************************************************************)
EXTENDS Naturals, Sequences, FiniteSets

Seqs == INSTANCE SequencesExt

CONSTANTS Characters,   \* what texts consist of
          Controls,     \* control characters other than tabs and line ends
          Hex,          \* how each of them is written after \u
          MaxText,      \* the longest file text
          Texts,        \* file texts
          Decimal,      \* how the numbers 1..MaxText are written
          Paths,        \* paths, commands, directories and danger levels
          Digests,      \* digests of commands
          Headers       \* sessions, request identifiers and workspaces

Escaped == {"TAB", "CR", "LF", "\\"}   \* characters with an escape of their own

ASSUME PreviewAssumption ==
  /\ MaxText \in Nat
  /\ \A text \in Texts : text \in Seq(Characters) /\ Len(text) <= MaxText
  /\ Paths \subseteq Seq(Characters)
  /\ Headers \subseteq [session : Seq(Characters), id : Seq(Characters), root : Seq(Characters)]
  /\ Controls \cap Escaped = {}
  /\ \A c, d \in Controls : Hex[c] = Hex[d] => c = d
  /\ \A n \in 1 .. MaxText : Decimal[n] # "LF"

\* Mutant: a backslash is left as it is.
LiteralOfControl(c) ==
  CASE c = "TAB"       -> <<"\\", "t">>
    [] c = "CR"        -> <<"\\", "r">>
    [] c = "LF"        -> <<"\\", "n">>
    [] c \in Controls  -> <<"\\", "u", Hex[c]>>
    [] OTHER           -> <<c>>

\* literal, for one character: what escape_default makes of it.
LiteralOf(c) ==
  CASE c = "TAB"       -> <<"\\", "t">>
    [] c = "CR"        -> <<"\\", "r">>
    [] c = "LF"        -> <<"\\", "n">>
    [] c = "\\"        -> <<"\\", "\\">>
    [] c \in Controls  -> <<"\\", "u", Hex[c]>>
    [] OTHER           -> <<c>>

Literal(text) == Seqs!FlattenSeq([i \in DOMAIN text |-> LiteralOf(text[i])])

\* split_terminator: a line begins with the text and after every line feed,
\* and ends at a line feed or with the text.
Begins(text, i) == i = 1 \/ text[i - 1] = "LF"
LineEnds(text) == {i \in DOMAIN text : text[i] = "LF" \/ i = Len(text)}
Ended(text) == text = <<>> \/ text[Len(text)] = "LF"

LineRange(text) ==
  IF LineEnds(text) = {} THEN <<"0,0">> ELSE <<"1,", Decimal[Cardinality(LineEnds(text))]>>

\* append_lines, character by character.
Prefixed(prefix, text) ==
  Seqs!FlattenSeq([i \in DOMAIN text |->
                (IF Begins(text, i) THEN <<prefix>> ELSE <<>>)
                \o (IF text[i] = "LF" THEN <<"LF">> ELSE LiteralOf(text[i]))])
  \o IF Ended(text) THEN <<>> ELSE <<"LF", "\\", "No newline", "LF">>

\* A line of the layout: a label and a literal.
Labelled(label, value) == <<label>> \o Literal(value) \o <<"LF">>

WriteTexts == [kind : {"write"}, path : Paths, old : Texts, new : Texts]
CommandTexts ==
  [kind : {"command"}, command : Paths, directory : Paths, danger : Paths, digest : Digests]

Asked == [header : Headers, content : WriteTexts \cup CommandTexts]

HeaderText(header) ==
  Labelled("Session: ", header.session) \o Labelled("Request: ", header.id)
    \o Labelled("Workspace: ", header.root)

Hunk(content) == <<"@@ -">> \o LineRange(content.old) \o <<" +">> \o LineRange(content.new)

\* The digest of a command is in no preview.
ContentText(content) ==
  IF content.kind = "write"
  THEN Labelled("Write: ", content.path) \o Hunk(content) \o <<"LF">>
       \o Prefixed("-", content.old) \o Prefixed("+", content.new)
  ELSE Labelled("Command: ", content.command) \o Labelled("Working directory: ", content.directory)
       \o Labelled("Danger: ", content.danger)

PreviewText(request) ==
  HeaderText(request.header) \o ContentText(request.content) \o <<"Explicit approve or deny">>

VARIABLE shown   \* the pending request

PreviewInit ==
  shown \in {request \in Asked :
               request.content.kind = "write" => request.content.old = request.content.new}

\* The next request: another new text, or another command with the same text.
PreviewNext ==
  \/ shown.content.kind = "write"
       /\ \E text \in Texts : shown' = [shown EXCEPT !.content.new = text]
  \/ shown.content.kind = "command"
       /\ \E digest \in Digests : shown' = [shown EXCEPT !.content.digest = digest]

PreviewSpec == PreviewInit /\ [][PreviewNext]_shown

Drawn == {<<request, PreviewText(request)>> : request \in Asked}

\* Two requests are the same, or the same but for the digest of their command.
Alike(request, other) ==
  \/ other = request
  \/ /\ request.content.kind = "command"
     /\ \E digest \in Digests : other = [request EXCEPT !.content.digest = digest]

\* What the person reads is one request and no other, up to the digest of a
\* command, which text leaves out: two requests that differ in their session,
\* a file text, a final line feed, a control character or a backslash have
\* different previews, and two commands with different digests have the same
\* (ApprovalPreview::text, literal, append_lines).
SeenIsMeant ==
  LET text == PreviewText(shown) IN
  \A other \in Drawn : other[2] = text <=> Alike(shown, other[1])
=============================================================================
