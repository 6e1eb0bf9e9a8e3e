----------------------------- MODULE TaskScreen -----------------------------
(***************************************************************************)
(* The task view of the main loop as the user sees and points at it:       *)
(* draw_task_viewport, route_mouse and the key filter of                   *)
(* native/tuig/src/main.rs and presentation.rs, with the two folds of      *)
(* PublicDetailsView, whose headers can be selected and clicked.           *)
(*                                                                         *)
(* The text is a status, fold 0 and fold 1, each a header and, if it is    *)
(* expanded, a body, and a help; each part is the number of wrapped rows   *)
(* it takes at a width.  Every turn of the loop draws and handles one      *)
(* event, so a click is about the frame that was drawn last.  What the     *)
(* folds show is module PublicDetails, when the dialog opens is TaskLoop.  *)
(***************************************************************************)
EXTENDS Integers, Viewport

CONSTANTS
  Windows,     \* sizes of the terminal inside the border, [width, height]
  Statuses,    \* rows of the status, by width
  Bodies,      \* Bodies[fold]: rows of an expanded fold, by width
  HeaderRows,  \* rows of a header, by width
  HelpRows,    \* rows of the help, by width
  NoFold,      \* no header is selected
  Inputs       \* bound: keys, clicks and turns of the wheel

Folds  == {0, 1}
Widths == {size.width : size \in Windows}

ASSUME PartsAssumption ==
  /\ Windows \subseteq [width : 0..MaxRow, height : 0..MaxRow]
  /\ Statuses \subseteq [Widths -> Nat]
  /\ \A fold \in Folds : Bodies[fold] \subseteq [Widths -> Nat]
  /\ HeaderRows \in [Widths -> Nat] /\ HelpRows \in [Widths -> Nat]
  /\ NoFold \notin Folds /\ Inputs \in Nat

\* What the folds may hold.
Held == {held \in [Folds -> Bodies[0] \cup Bodies[1]] : \A fold \in Folds : held[fold] \in Bodies[fold]}

VARIABLES
  stage,       \* the main loop is about to "draw" or to "select" an event
  over,        \* the task view, or the logs or the inspector in its place
  composing,   \* composer.open
  confirming,  \* the cancellation dialog is open
  status,      \* rows of the status
  bound,       \* details.binding is there
  bodies,      \* rows of the folds
  expanded,    \* expanded
  header,      \* selected
  reveal,      \* reveal_selected
  regions,     \* header_regions: rows of the screen
  window,      \* viewport
  picture,     \* the last frame: the view, its size, the rows of each header
  inputs,      \* keys, clicks and turns of the wheel that are left
  chosen       \* history: the last event was a key that chose a header

screens == <<over, composing, confirming>>
details == <<bound, bodies, expanded, header, reveal, regions>>
taskVars == <<stage, screens, status, details, window, picture, inputs, chosen>>

NoRows == [fold \in Folds |-> {}]

TaskInit ==
  /\ stage = "draw" /\ over = "task" /\ composing \in BOOLEAN /\ confirming = FALSE
  /\ status \in Statuses /\ bound = FALSE /\ bodies \in Held
  /\ expanded = [fold \in Folds |-> FALSE] /\ header = NoFold /\ reveal = FALSE
  /\ regions = NoRows /\ window = AtTop
  /\ picture = [what |-> "nothing", width |-> 0, height |-> 0, headers |-> NoRows]
  /\ inputs = Inputs /\ chosen = FALSE
-----------------------------------------------------------------------------
(***************************************************************************)
(* Drawing.                                                                *)
(***************************************************************************)
\* append_lines: a task without a binding has two lines and no header.
BodyRows(fold, width) == IF expanded[fold] THEN bodies[fold][width] ELSE 0

Start(fold, width) ==
  status[width] + 1
  + (IF fold = 0 THEN 0 ELSE HeaderRows[width] + BodyRows(0, width))

TextRows(width) ==
  IF bound THEN Start(1, width) + HeaderRows[width] + BodyRows(1, width) + HelpRows[width]
  ELSE status[width] + 3 + HelpRows[width]

\* take_focus_request
FocusRequest == IF reveal THEN header ELSE NoFold

\* Mutant: the text is not moved to the header.
ScrolledInPlace(width, height) == Measured(window, TextRows(width), height)

Scrolled(width, height) ==
  LET measured == Measured(window, TextRows(width), height)
  IN  IF bound /\ FocusRequest # NoFold
      THEN Revealed(measured, Start(FocusRequest, width), HeaderRows[width])
      ELSE measured

Larger(a, b) == IF a >= b THEN a ELSE b

\* Mutant: the regions are those of the text before it moves.
RegionBeforeReveal(fold, width, height) ==
  LET offset == Measured(window, TextRows(width), height).visible
      first  == Larger(Start(fold, width), offset)
      end    == Lesser(Start(fold, width) + HeaderRows[width], offset + height)
  IN  IF bound /\ first < end /\ width > 0 THEN (1 + first - offset) .. (end - offset) ELSE {}

\* The rows of the screen, below its border, where a header can be clicked.
Region(fold, width, height) ==
  LET offset == Scrolled(width, height).visible
      first  == Larger(Start(fold, width), offset)
      end    == Lesser(Start(fold, width) + HeaderRows[width], offset + height)
  IN  IF bound /\ first < end /\ width > 0 THEN (1 + first - offset) .. (end - offset) ELSE {}

\* Paragraph::scroll: row `offset' of the text is the first row inside the border.
Rendered(fold, width, height, offset) ==
  {screen \in 1..height :
     /\ bound /\ width > 0
     /\ screen - 1 + offset >= Start(fold, width)
     /\ screen - 1 + offset < Start(fold, width) + HeaderRows[width]}

\* draw_task_viewport
DrawTask(width, height) ==
  /\ window' = Scrolled(width, height)
  /\ regions' = [fold \in Folds |-> Region(fold, width, height)]
  /\ reveal' = FALSE
  /\ picture' = [what |-> "task", width |-> width, height |-> height,
               headers |-> [fold \in Folds |->
                              Rendered(fold, width, height, window'.visible)]]

\* Another view: the regions of the task view stay behind.
DrawView(what, width, height) ==
  /\ picture' = [what |-> what, width |-> width, height |-> height, headers |-> NoRows]
  /\ UNCHANGED <<window, regions, reveal>>

Shown ==
  CASE composing                  -> "composer"
    [] ~composing /\ confirming   -> "confirmation"
    [] ~composing /\ ~confirming  -> over

DrawScreen ==
  /\ stage = "draw" /\ stage' = "select"
  /\ \E size \in Windows :
       IF Shown = "task" THEN DrawTask(size.width, size.height)
       ELSE DrawView(Shown, size.width, size.height)
  /\ UNCHANGED <<screens, status, bound, bodies, expanded, header, inputs, chosen>>
-----------------------------------------------------------------------------
(***************************************************************************)
(* The loop's other events: answers, ticks, a resize.                      *)
(***************************************************************************)
Stage  == stage = "select" /\ stage' = "draw" /\ UNCHANGED picture
Other == Stage /\ UNCHANGED inputs /\ chosen' = FALSE
Input   == Stage /\ inputs > 0 /\ inputs' = inputs - 1

\* A task read starts or ends: another status, and task_updated.  The folds of
\* a binding outlive a read that is refused; another binding closes them.
TaskRead ==
  /\ Other
  /\ status' \in Statuses
  /\ \/ UNCHANGED details
     \/ /\ bound /\ bound' = FALSE /\ regions' = NoRows
        /\ UNCHANGED <<bodies, expanded, header, reveal>>
     \/ /\ bound' = TRUE /\ regions' = NoRows
        /\ \/ ~bound /\ UNCHANGED <<expanded, header>>
           \/ expanded' = [fold \in Folds |-> FALSE] /\ header' = NoFold
        /\ UNCHANGED <<bodies, reveal>>
  /\ UNCHANGED <<screens, window>>

\* A page of public events, or a refusal: other bodies.
PageRead ==
  /\ Other
  /\ bodies' \in Held
  /\ UNCHANGED <<screens, status, bound, expanded, header, reveal, regions, window>>
-----------------------------------------------------------------------------
(***************************************************************************)
(* The mouse.                                                              *)
(***************************************************************************)
\* toggle
Toggle(fold) ==
  /\ expanded' = [expanded EXCEPT ![fold] = ~@]
  /\ header' = fold

\* route_mouse, with the loop's own test of the composer.
ReachesTask == ~composing /\ ~confirming /\ over = "task"

\* The left button on a row of the screen, inside the border or on it.
MouseDown(row, inside) ==
  /\ Input /\ chosen' = FALSE
  /\ \/ /\ ReachesTask /\ inside
        /\ \E fold \in Folds :
             /\ bound /\ row \in regions[fold]
             /\ \A lower \in 0..(fold - 1) : row \notin regions[lower]
             /\ Toggle(fold)
     \/ /\ ~ReachesTask \/ ~inside \/ ~bound \/ \A fold \in Folds : row \notin regions[fold]
        /\ UNCHANGED <<expanded, header>>
  /\ UNCHANGED <<screens, status, bound, bodies, reveal, regions, window>>

TurnWheel(move) ==
  /\ Input /\ chosen' = FALSE
  /\ window' = IF ReachesTask THEN Handled(window, move) ELSE window
  /\ UNCHANGED <<screens, status, details>>

Mouse ==
  \/ \E row \in 0..(picture.height + 1), inside \in BOOLEAN : MouseDown(row, inside)
  \/ \E move \in Wheel : TurnWheel(move)
-----------------------------------------------------------------------------
(***************************************************************************)
(* Keys: pressed, held or released.                                        *)
(***************************************************************************)
Kinds == {"Press", "Repeat", "Release"}

Views == {"l", "i", "p", "x"}
FoldKeys == {"Tab", "BackTab", "Enter", "Esc"}
KeyCodes == Moves \cup FoldKeys \cup Views

\* accepts_key_event
Accepts(kind, code) == kind = "Press" \/ (kind = "Repeat" /\ code \in Moves)

NextFold(first) == IF header = NoFold THEN first ELSE (header + 1) % 2

\* PublicDetailsView::key
FoldKey(code) ==
  \/ code = "Tab" /\ header' = NextFold(0) /\ reveal' = TRUE /\ UNCHANGED expanded
  \/ code = "BackTab" /\ header' = NextFold(1) /\ reveal' = TRUE /\ UNCHANGED expanded
  \/ code = "Enter" /\ header # NoFold /\ Toggle(header) /\ reveal' = TRUE
  \/ code = "Esc" /\ header # NoFold /\ header' = NoFold /\ reveal' = FALSE
     /\ UNCHANGED expanded

FoldKeyTaken(kind, code) ==
  /\ bound /\ kind = "Press"
  /\ code \in {"Tab", "BackTab"} \/ (code \in {"Enter", "Esc"} /\ header # NoFold)

\* A key in the task view.
TaskKey(kind, code) ==
  \/ /\ FoldKeyTaken(kind, code) /\ FoldKey(code)
     /\ chosen' = reveal'
     /\ UNCHANGED <<screens, bound, bodies, regions, window>>
  \/ /\ ~FoldKeyTaken(kind, code) /\ code \in Moves
     /\ window' = Handled(window, code)
     /\ chosen' = FALSE /\ UNCHANGED <<screens, details>>
  \/ /\ code \in Views
     /\ over' = IF code = "l" THEN "logs" ELSE IF code = "i" THEN "inspector" ELSE over
     /\ composing' = (code = "p")
     /\ confirming' = (code = "x")
     /\ chosen' = FALSE /\ UNCHANGED <<details, window>>

\* A key in another view: Escape leaves it, the composer opens over the dialog
\* too, and the other keys are the view's own.
OtherKey(code) ==
  /\ \/ code = "Esc" /\ composing /\ composing' = FALSE /\ UNCHANGED <<over, confirming>>
     \/ code = "Esc" /\ ~composing /\ confirming /\ confirming' = FALSE
        /\ UNCHANGED <<over, composing>>
     \/ code = "Esc" /\ ~composing /\ ~confirming /\ over' = "task"
        /\ UNCHANGED <<composing, confirming>>
     \/ code = "p" /\ ~composing /\ confirming /\ composing' = TRUE
        /\ UNCHANGED <<over, confirming>>
  /\ chosen' = FALSE /\ UNCHANGED <<details, window>>

PressKey(kind, code) ==
  /\ Input /\ Accepts(kind, code)
  /\ IF Shown = "task" THEN TaskKey(kind, code) ELSE OtherKey(code)
  /\ UNCHANGED status

\* An event that changes nothing here; the frame is drawn again.
Repaint == Other /\ UNCHANGED <<screens, status, details, window>>

TaskNext ==
  \/ DrawScreen \/ TaskRead \/ PageRead \/ Mouse \/ Repaint
  \/ \E kind \in Kinds, code \in KeyCodes : PressKey(kind, code)

TaskSpec == TaskInit /\ [][TaskNext]_taskVars
-----------------------------------------------------------------------------
(***************************************************************************)
(* Properties.                                                             *)
(***************************************************************************)
\* The type of the state.
TaskScreenTypeOK ==
  /\ stage \in {"draw", "select"}
  /\ over \in {"task", "logs", "inspector"}
  /\ composing \in BOOLEAN /\ confirming \in BOOLEAN
  /\ status \in Statuses /\ bound \in BOOLEAN /\ bodies \in Held
  /\ expanded \in [Folds -> BOOLEAN] /\ header \in Folds \cup {NoFold}
  /\ reveal \in BOOLEAN /\ chosen \in BOOLEAN
  /\ regions \in [Folds -> SUBSET (1..MaxRow)]
  /\ window \in Viewports /\ inputs \in 0..Inputs
  /\ picture \in [what : {"nothing", "task", "composer", "confirmation", "logs", "inspector"},
                width : 0..MaxRow, height : 0..MaxRow, headers : [Folds -> SUBSET (1..MaxRow)]]

\* A click acts on what the user saw there: it opens or closes the fold whose
\* header the last frame shows in that row, and does nothing anywhere else,
\* also after the header was moved into sight, cut by the border or covered by
\* another view, and after a read moved it.
ClickMeansWhatIsShown ==
  [][\A row \in 0..(picture.height + 1), inside \in BOOLEAN : MouseDown(row, inside) =>
       \A fold \in Folds :
         (expanded'[fold] # expanded[fold]) <=> (inside /\ row \in picture.headers[fold])]_taskVars

\* The header a key chose is in the window of the next frame, as much of it as
\* the window can hold, wherever the text was scrolled.  A text may have more
\* rows than a viewport can count; the claim is about a header it can reach.
ChosenIsInSight ==
  stage = "select" /\ picture.what = "task" /\ chosen /\ picture.height > 0 =>
    LET first == Start(header, picture.width) IN
      first + HeaderRows[picture.width] <= MaxRow =>
        /\ window.visible <= first
        /\ first + Lesser(HeaderRows[picture.width], picture.height)
             <= window.visible + picture.height

\* The wheel scrolls the task view only when the last frame shows it, and never
\* opens, closes or selects a fold.
WheelScrollsWhatIsShown ==
  [][\A move \in Wheel : TurnWheel(move) /\ window' # window => picture.what = "task"]_taskVars

\* A key that is held scrolls; it never selects, opens, closes or leaves.
HeldKeysOnlyScroll ==
  [][\A kind \in {"Repeat", "Release"}, code \in KeyCodes :
       PressKey(kind, code) => UNCHANGED <<screens, expanded, header>>]_taskVars
=============================================================================
