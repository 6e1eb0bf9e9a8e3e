--------------------------- MODULE InspectorScreen ---------------------------
(***************************************************************************)
(* What the run inspector puts on the screen: key, search_key, mouse and   *)
(* draw of InspectorView (native/tuig/src/inspector_view.rs), its text     *)
(* search, and the panning of SpatialGraph (spatial_graph.rs).             *)
(*                                                                         *)
(* One text, a summary or the list of a graph's steps, scrolls in a        *)
(* viewport; a graph can also be drawn as a map, which pans with two       *)
(* viewports of its own.  Keys and the wheel belong to the one that was    *)
(* drawn last.  Which content may be shown at all is module Inspector;     *)
(* here reads end with any content.                                        *)
(*                                                                         *)
(* A line is its letters, in lower case, and the cells it takes; how it is *)
(* wrapped is ratatui's.  Steps are numbered from 0.                       *)
(***************************************************************************)
EXTENDS FiniteSets, Sequences, Viewport

CONSTANTS
  Sizes,        \* sizes of the terminal, [width, height]
  MinWidth, MinHeight,      \* the map needs 72x20
  CardWidth, CardHeight,    \* NODE_WIDTH, NODE_HEIGHT
  Summaries,    \* texts of the summary
  Unavailable,  \* the text of a view without content
  ReadingNote, MapNote,     \* "Reading...", "Map needs 72x20..."
  Help,         \* Help[graphMode]: the lines below the content
  Graphs,       \* graphs: above, names, details of a step, layout
  Letters,      \* letters of the texts, in lower case, and of a query
  MaxQuery,     \* bound: letters of a query, 128 in the code
  Acts          \* bound: keys and turns of the wheel

\* The widget takes five rows below the map and four above it, in u16, and
\* leaves the map a row.
ASSUME SizeAssumption ==
  /\ \A s \in Sizes : s.width \in 3..MaxRow /\ s.height \in 3..MaxRow
  /\ MinWidth \in Nat /\ MinHeight \in Nat /\ MinHeight >= 12
  /\ CardWidth \in Nat \ {0} /\ CardHeight \in Nat \ {0} /\ MaxQuery \in Nat /\ Acts \in Nat

\* What LayeredLayout::new guarantees: the map has room for every card.
ASSUME GraphAssumption ==
  \A g \in Graphs :
    /\ Len(g.names) \in Nat \ {0}
    /\ g.width \in 0..MaxRow /\ g.height \in 0..MaxRow
    /\ \A i \in 0..(Len(g.names) - 1) :
         /\ g.x[i] \in Nat /\ g.x[i] + CardWidth <= g.width
         /\ g.y[i] \in Nat /\ g.y[i] + CardHeight <= g.height

\* A text is a sequence of lines; the list of steps marks its lines.
Symbols  == Letters \cup {">", " "}
TextLine == [letters : Seq(Symbols), cells : Nat]

ASSUME TextAssumption ==
  /\ Summaries \subseteq Seq(TextLine) /\ Unavailable \in Seq(TextLine)
  /\ ReadingNote \in TextLine /\ MapNote \in TextLine
  /\ \A mode \in BOOLEAN : Help[mode] \in Seq(TextLine)
  /\ \A g \in Graphs :
       /\ g.above \in Seq(TextLine) /\ g.names \in Seq(TextLine)
       /\ \A i \in 0..(Len(g.names) - 1) : g.details[i] \in Seq(TextLine)

NoGraph  == [names |-> <<>>]
NoSearch == [open |-> FALSE, query |-> <<>>, selected |-> 0, matches |-> 0, reveal |-> FALSE]

VARIABLES
  turn,           \* the main loop is about to "draw" or to "select" an event
  open,           \* open
  readable,       \* the binding has a run
  reading,        \* pending()
  graphMode,      \* graph_mode
  spatialMode,    \* spatial_mode
  spatialVisible, \* spatial_visible
  summary,        \* text of the inspector
  graph,          \* graph
  selected,       \* selected_step, 0 for none
  revealStep,     \* reveal_step
  viewport,       \* viewport
  spatial,        \* spatial: horizontal, vertical, focus, size
  search,         \* search
  frame,          \* the last frame: what it shows and its size
  acts,           \* keys and turns of the wheel that are left
  fresh,          \* history: no list was drawn since the step was selected
  panned,         \* history: the user moved the map since it was focused
  edited,         \* history: the last event chose another match
  followed,       \* history: nothing was scrolled since a match was chosen
  touched,        \* history: the user moved the text since the last frame
  place           \* history: the text and its window after the last movement

content  == <<readable, reading, summary, graph, selected, revealStep>>
modes    == <<open, graphMode, spatialMode, search>>
views    == <<spatialVisible, viewport, spatial>>
history  == <<fresh, panned, edited, followed, touched, place>>
vars == <<turn, frame, acts, content, modes, views, history>>

Count(g) == Len(g.names)

\* SpatialGraph::new
NewMap == [horizontal |-> AtTop, vertical |-> AtTop, focus |-> TRUE, width |-> 0, height |-> 0]

Nowhere == [rows |-> 0, height |-> 0, offset |-> 0]

Init ==
  /\ turn = "draw" /\ open = FALSE /\ readable = TRUE /\ reading = FALSE
  /\ graphMode = FALSE /\ spatialMode = FALSE /\ spatialVisible = FALSE
  /\ summary = Unavailable /\ graph = NoGraph /\ selected = 0 /\ revealStep = FALSE
  /\ viewport = AtTop /\ spatial = NewMap /\ search = NoSearch
  /\ frame = [what |-> "nothing", width |-> 0, height |-> 0] /\ acts = Acts
  /\ fresh = FALSE /\ panned = FALSE /\ edited = FALSE /\ followed = FALSE
  /\ touched = FALSE /\ place = Nowhere
-----------------------------------------------------------------------------
(***************************************************************************)
(* The text of a frame.                                                    *)
(***************************************************************************)
Marked(line, mark) == [line EXCEPT !.letters = <<mark>> \o @]

\* The list of ExecutionGraph::text, the selected step marked with ">".
StepLines(g, at) ==
  [i \in 1..Count(g) |-> Marked(g.names[i], IF i = at + 1 THEN ">" ELSE " ")]

\* text()
Body ==
  IF graphMode
  THEN IF graph = NoGraph THEN Unavailable
       ELSE graph.above \o StepLines(graph, selected) \o graph.details[selected]
  ELSE summary

Text ==
  (IF spatialMode /\ graph # NoGraph /\ ~search.open THEN <<MapNote>> ELSE <<>>)
  \o (IF reading THEN <<ReadingNote>> ELSE <<>>) \o Body \o Help[graphMode]

\* Wrapped rows, at least one for every line.
Rows(line, width) == IF line.cells = 0 THEN 1 ELSE (line.cells + width - 1) \div width

\* The rows of the first lines of a text.
RowsUpTo(lines, width) ==
  LET rows[i \in 0..Len(lines)] == IF i = 0 THEN 0 ELSE rows[i - 1] + Rows(lines[i], width)
  IN  rows

RowsOf(lines, width) == RowsUpTo(lines, width)[Len(lines)]

\* Mutant: the row of a line is its number.
RowByNumber(lines, i, width) == i - 1

\* The first wrapped row of line i.
RowOfLine(lines, i, width) == RowsUpTo(lines, width)[i - 1]

\* The first line that starts with the mark; 0 if there is none.
GraphRow(lines) ==
  LET marked == {i \in DOMAIN lines : lines[i].letters # <<>> /\ Head(lines[i].letters) = ">"}
  IN  IF ~graphMode \/ marked = {} THEN 0 ELSE CHOOSE i \in marked : \A j \in marked : i <= j

Includes(letters, query) ==
  /\ query # <<>>
  /\ \E i \in 0..(Len(letters) - Len(query)) : SubSeq(letters, i + 1, i + Len(query)) = query

\* The lines a query matches, and the line of its k-th match, from 0.
Matching(lines, query) == {i \in DOMAIN lines : Includes(lines[i].letters, query)}

MatchLine(lines, query, k) ==
  CHOOSE i \in Matching(lines, query) :
    Cardinality({j \in Matching(lines, query) : j < i}) = k

\* Mutant: the number of the selected match outlives the matches.
SearchedUnclamped(lines) ==
  [search EXCEPT !.matches = Cardinality(Matching(lines, search.query)), !.reveal = FALSE]

\* InspectorSearch::lines: the matches of the text as it is now.
Searched(lines) ==
  LET matches == Cardinality(Matching(lines, search.query))
  IN  [search EXCEPT !.matches = matches, !.selected = Lesser(@, Minus(matches, 1)),
                     !.reveal = FALSE]

\* The selected match, 0 if there is none.
SelectedLine(lines, s) ==
  IF s.open /\ s.matches > 0 THEN MatchLine(lines, s.query, s.selected) ELSE 0
-----------------------------------------------------------------------------
(***************************************************************************)
(* Drawing.                                                                *)
(***************************************************************************)
MapVisible(size) ==
  /\ spatialMode /\ graphMode /\ graph # NoGraph /\ ~search.open
  /\ size.width >= MinWidth /\ size.height >= MinHeight

MapWidth(size)  == size.width - 2
MapHeight(size) == size.height - 2 - 9

\* Mutant: the map is focused when it is asked for, not when it is resized.
FocusedIfAsked(size) == spatial.focus

Focused(size) ==
  spatial.focus \/ spatial.width # MapWidth(size) \/ spatial.height # MapHeight(size)

\* SpatialGraph::draw: the selected card is revealed after a focus request and
\* whenever the window has another size.
MapDrawn(size) ==
  LET across == Measured(spatial.horizontal, graph.width, MapWidth(size))
      down   == Measured(spatial.vertical, graph.height, MapHeight(size))
  IN  [horizontal |-> IF Focused(size) THEN Revealed(across, graph.x[selected], CardWidth)
                      ELSE across,
       vertical   |-> IF Focused(size) THEN Revealed(down, graph.y[selected], CardHeight)
                      ELSE down,
       focus |-> FALSE, width |-> MapWidth(size), height |-> MapHeight(size)]

\* Mutant: the map takes the request that was meant for the list.
DrawMapTakesReveal(size) ==
  /\ spatial' = MapDrawn(size) /\ revealStep' = FALSE
  /\ frame' = [what |-> "map", width |-> size.width, height |-> size.height]
  /\ panned' = (panned /\ ~Focused(size))
  /\ UNCHANGED <<viewport, search, touched, place>>

DrawMap(size) ==
  /\ spatial' = MapDrawn(size)
  /\ frame' = [what |-> "map", width |-> size.width, height |-> size.height]
  /\ panned' = (panned /\ ~Focused(size))
  /\ UNCHANGED <<viewport, search, revealStep, touched, place>>

\* A row that a list frame has to bring into sight: the match that was chosen,
\* or the step that was selected; 0 for neither.
Wanted ==
  IF search.open
  THEN IF search.reveal THEN SelectedLine(Text, Searched(Text)) ELSE 0
  ELSE IF revealStep THEN GraphRow(Text) ELSE 0

\* The text in its window: measured first, then moved if a row is wanted.
ListDrawn(size) ==
  LET width == size.width - 2
      text  == Measured(viewport, RowsOf(Text, width), size.height - 2)
  IN  IF Wanted = 0 THEN text ELSE Revealed(text, RowOfLine(Text, Wanted, width), 1)

DrawList(size) ==
  /\ viewport' = ListDrawn(size)
  /\ search' = IF search.open THEN Searched(Text) ELSE search
  /\ revealStep' = FALSE
  /\ frame' = [what |-> "list", width |-> size.width, height |-> size.height]
  /\ place' = IF touched \/ Wanted # 0
              THEN [rows |-> RowsOf(Text, size.width - 2), height |-> size.height,
                    offset |-> viewport'.visible]
              ELSE place
  /\ touched' = FALSE
  /\ UNCHANGED <<spatial, panned>>

\* While the inspector is closed another view is drawn.
DrawOther ==
  /\ frame' = [what |-> "nothing", width |-> 0, height |-> 0]
  /\ UNCHANGED <<viewport, search, revealStep, spatial, panned, touched, place>>

Draw ==
  /\ turn = "draw" /\ turn' = "select"
  /\ \E size \in Sizes :
       /\ spatialVisible' = IF open THEN MapVisible(size) ELSE spatialVisible
       /\ CASE ~open                       -> DrawOther
            [] open /\ MapVisible(size)    -> DrawMap(size)
            [] open /\ ~MapVisible(size)   -> DrawList(size)
  /\ UNCHANGED <<acts, open, readable, reading, graphMode, spatialMode, summary, graph,
                 selected, fresh, edited, followed>>
-----------------------------------------------------------------------------
(***************************************************************************)
(* Reads end and are started.                                              *)
(***************************************************************************)
Turn  == turn = "select" /\ turn' = "draw" /\ UNCHANGED frame
Event == Turn /\ UNCHANGED acts
Act   == Turn /\ acts > 0 /\ acts' = acts - 1

\* The history of an event that selects nothing and searches for nothing.
Passing == fresh' = (fresh /\ frame.what # "list") /\ edited' = FALSE

\* clear_read
ClearRead ==
  /\ graph' = NoGraph /\ summary' = Unavailable /\ selected' = 0 /\ revealStep' = FALSE
  /\ spatialVisible' = FALSE /\ spatial' = NewMap
  /\ fresh' = FALSE /\ panned' = FALSE /\ edited' = FALSE

\* complete of a graph read: the map is laid out anew, the first step is
\* selected and is to be revealed.
GraphArrives ==
  /\ Event /\ reading /\ graphMode /\ reading' = FALSE
  /\ \/ /\ graph' \in Graphs /\ spatial' = NewMap /\ selected' = 0 /\ revealStep' = TRUE
        /\ summary' = Unavailable /\ spatialVisible' = FALSE
        /\ fresh' = ~search.open /\ panned' = FALSE /\ edited' = FALSE
     \/ ClearRead
  /\ UNCHANGED <<readable, modes, viewport, followed, touched, place>>

\* complete of a summary read.
SummaryArrives ==
  /\ Event /\ reading /\ ~graphMode /\ reading' = FALSE
  /\ summary' \in Summaries \cup {Unavailable}
  /\ Passing
  /\ UNCHANGED <<readable, graph, selected, revealStep, modes, views, panned, followed,
                 touched, place>>

\* The redraw tick, when the plan in the summary has expired.
Expires ==
  /\ Event /\ ~reading /\ summary' \in Summaries \ {summary} /\ Len(summary') < Len(summary)
  /\ Passing
  /\ UNCHANGED <<readable, reading, graph, selected, revealStep, modes, views, panned,
                 followed, touched, place>>

\* task_updated with another binding or none.
TaskUpdated ==
  /\ Event
  /\ readable' \in BOOLEAN /\ reading' = FALSE /\ ClearRead
  /\ viewport' = AtTop /\ search' = NoSearch /\ followed' = FALSE
  /\ touched' = TRUE
  /\ UNCHANGED <<open, graphMode, spatialMode, place>>

\* refresh: the content goes, unless a summary is being read already or there
\* is nothing to read.
Refresh(mode) ==
  IF mode \/ (~reading /\ readable)
  THEN ClearRead /\ reading' = readable
  ELSE Passing /\ UNCHANGED <<reading, graph, summary, selected, revealStep, spatialVisible,
                              spatial, panned>>
-----------------------------------------------------------------------------
(***************************************************************************)
(* Keys.  A search takes all that are pressed.                             *)
(***************************************************************************)
Key == Act /\ open /\ ~search.open

\* i in the task view, r and i in the inspector.
KeyRead ==
  /\ Act /\ ~search.open
  /\ open' = TRUE /\ Refresh(graphMode)
  /\ UNCHANGED <<readable, graphMode, spatialMode, search, viewport, followed, touched, place>>

\* g: the other view, from its top.
KeyGraph ==
  /\ Key
  /\ graphMode' = ~graphMode
  /\ ClearRead /\ reading' = readable
  /\ viewport' = AtTop /\ touched' = TRUE
  /\ UNCHANGED <<readable, open, spatialMode, search, followed, place>>

\* c
KeyCancel ==
  /\ Key
  /\ ClearRead /\ reading' = FALSE
  /\ UNCHANGED <<readable, modes, viewport, followed, touched, place>>

\* Escape: the place in the text survives, the modes do not.
KeyClose ==
  /\ Key
  /\ ClearRead /\ reading' = FALSE
  /\ open' = FALSE /\ graphMode' = FALSE /\ spatialMode' = FALSE
  /\ UNCHANGED <<readable, search, viewport, followed, touched, place>>

\* v
KeyMap ==
  /\ Key /\ graphMode
  /\ spatialMode' = ~spatialMode
  /\ Passing
  /\ UNCHANGED <<open, graphMode, search, content, views, panned, followed, touched, place>>

\* focus_selected
FocusSelected == [spatial EXCEPT !.focus = TRUE]

\* Tab and Shift+Tab
KeySelect ==
  /\ Key /\ graphMode /\ graph # NoGraph
  /\ \E step \in {1, Count(graph) - 1} : selected' = (selected + step) % Count(graph)
  /\ revealStep' = TRUE /\ spatial' = FocusSelected
  /\ fresh' = TRUE /\ panned' = FALSE /\ edited' = FALSE
  /\ UNCHANGED <<readable, reading, summary, graph, modes, spatialVisible, viewport, followed,
                 touched, place>>

\* Where arrow keys and the wheel go.
ToMap == spatialMode /\ spatialVisible /\ ~search.open

\* SpatialGraph::key
Panned(key) ==
  CASE key = "Left"  -> [spatial EXCEPT !.horizontal = Handled(@, "Up")]
    [] key = "Right" -> [spatial EXCEPT !.horizontal = Handled(@, "Down")]
    [] key = "Home"  -> [spatial EXCEPT !.focus = TRUE]
    [] OTHER         -> [spatial EXCEPT !.vertical = Handled(@, key)]

MoveMap(key) ==
  /\ spatial' = Panned(key) /\ panned' = (key # "Home")
  /\ UNCHANGED <<viewport, touched>>

MoveText(key) ==
  /\ viewport' = Handled(viewport, key) /\ touched' = TRUE
  /\ UNCHANGED <<spatial, panned>>

\* Arrows, pages, Home and End.  An open search takes the key when it is
\* pressed; while it is held, its repetitions scroll the list.
KeyMove ==
  /\ Act /\ open
  /\ \/ ToMap /\ \E key \in Moves \cup {"Left", "Right"} : MoveMap(key)
     \/ ~ToMap /\ \E key \in Moves : MoveText(key)
  /\ Passing /\ followed' = FALSE
  /\ UNCHANGED <<content, modes, spatialVisible, place>>

\* The wheel; over a list it, too, scrolls during a search.
MouseWheel ==
  /\ Act /\ open
  /\ \E key \in Wheel : IF ToMap THEN MoveMap(key) ELSE MoveText(key)
  /\ Passing /\ followed' = FALSE
  /\ UNCHANGED <<content, modes, spatialVisible, place>>

\* Ctrl+F and, in the search, Escape.
KeySearch ==
  /\ Act /\ open
  /\ search' = IF search.open THEN NoSearch ELSE [NoSearch EXCEPT !.open = TRUE]
  /\ fresh' = FALSE /\ edited' = FALSE /\ followed' = ~search.open
  /\ UNCHANGED <<open, graphMode, spatialMode, content, views, panned, touched, place>>

\* Enter and Shift+Enter go around, by the matches of the last frame.
Cycled == {(search.selected + step) % search.matches : step \in {1, search.matches - 1}}

\* InspectorSearch::edit
Edited ==
  \/ /\ search.matches > 0
     /\ \E k \in Cycled : search' = [search EXCEPT !.selected = k, !.reveal = TRUE]
  \/ search' = [search EXCEPT !.query = SubSeq(@, 1, Len(@) - 1), !.selected = 0,
                              !.reveal = TRUE]
  \/ /\ Len(search.query) < MaxQuery
     /\ \E letter \in Letters :
          search' = [search EXCEPT !.query = Append(@, letter), !.selected = 0, !.reveal = TRUE]

KeyEdit ==
  /\ Act /\ open /\ search.open
  /\ Edited
  /\ fresh' = (fresh /\ frame.what # "list") /\ edited' = TRUE /\ followed' = TRUE
  /\ UNCHANGED <<open, graphMode, spatialMode, content, views, panned, touched, place>>

\* A tick, a resize or any other event: the frame is drawn again.
Redraw ==
  /\ Event /\ Passing
  /\ UNCHANGED <<content, modes, views, panned, followed, touched, place>>

Keys == KeyRead \/ KeyGraph \/ KeyCancel \/ KeyClose \/ KeyMap \/ KeySelect \/ KeyMove
        \/ KeySearch \/ KeyEdit

Next == Draw \/ GraphArrives \/ SummaryArrives \/ Expires \/ TaskUpdated \/ Keys
        \/ MouseWheel \/ Redraw

Spec == Init /\ [][Next]_vars
-----------------------------------------------------------------------------
(***************************************************************************)
(* Properties.                                                             *)
(***************************************************************************)
Drawn == turn = "select"

\* Whether the first wrapped row of a line is in the window of the frame.  A text
\* may have more rows than a viewport can count; the claim is about a row it can
\* reach.
LineInSight(line) ==
  LET row == RowsUpTo(Text, frame.width - 2)[line - 1]
  IN  row < MaxRow => InWindow(viewport, row)

\* The type of the state; a match that is selected is one of the matches the
\* last frame counted, or the first.
ScreenTypeOK ==
  /\ turn \in {"draw", "select"}
  /\ open \in BOOLEAN /\ readable \in BOOLEAN /\ reading \in BOOLEAN
  /\ graphMode \in BOOLEAN /\ spatialMode \in BOOLEAN /\ spatialVisible \in BOOLEAN
  /\ summary \in Summaries \cup {Unavailable}
  /\ graph \in Graphs \cup {NoGraph} /\ revealStep \in BOOLEAN
  /\ selected = 0 \/ selected \in 0..(Count(graph) - 1)
  /\ viewport \in Viewports
  /\ spatial \in [horizontal : Viewports, vertical : Viewports, focus : BOOLEAN,
                  width : 0..MaxRow, height : 0..MaxRow]
  /\ search.selected = 0 \/ search.selected < search.matches
  /\ Len(search.query) <= MaxQuery /\ acts \in 0..Acts

Fits(v, first, size) ==
  /\ v.visible <= first
  /\ first + Lesser(size, v.height) <= v.visible + v.height

\* The selected card is on the map, as far as the window can hold it, until the
\* user pans: through selections, searches, lists, resizing and switching.
MapShowsSelection ==
  Drawn /\ frame.what = "map" /\ ~panned =>
    /\ Fits(spatial.horizontal, graph.x[selected], CardWidth)
    /\ Fits(spatial.vertical, graph.y[selected], CardHeight)

\* The first list that is drawn after a step was selected, if no search came in
\* between, marks the step and has it in its window, wherever it was selected: also on the
\* map, in a frame of another size.
ListShowsSelection ==
  Drawn /\ frame.what = "list" /\ fresh => GraphRow(Text) # 0 /\ LineInSight(GraphRow(Text))

MatchShown ==
  LET line == SelectedLine(Text, search)
  IN  line # 0 => LineInSight(line)

\* A frame after an edit or Enter shows the first wrapped row of the match it
\* counts as the selected one, whatever arrived or expired since the last frame.
MatchIsRevealed == Drawn /\ frame.what = "list" /\ edited => MatchShown

\* What requirement R010.10 asks for: the selected match is revealed, and
\* matches are recomputed after a resize, an expiry or an answer.
MatchStaysInSight == Drawn /\ frame.what = "list" /\ search.open /\ followed => MatchShown

\* A short text, or a small window, in between does not lose the user's place:
\* when the text and the window are again what they were, so is the offset.
PlaceIsKept ==
  Drawn /\ frame.what = "list" /\ place # Nowhere
    /\ place.rows = RowsOf(Text, frame.width - 2) /\ place.height = frame.height
    => viewport.visible = place.offset

\* The three above, and the types, which say that a selected match exists.
ScreenIsKept == ScreenTypeOK /\ ListShowsSelection /\ MatchIsRevealed /\ PlaceIsKept

\* The wheel and the arrow keys move what the last frame shows, never what is
\* hidden behind it.
MovesWhatIsShown ==
  [][KeyMove \/ MouseWheel =>
       /\ viewport' # viewport => frame.what = "list"
       /\ spatial' # spatial => frame.what = "map"]_vars
=============================================================================
