--------------------------- MODULE ScreenProofs ----------------------------
(***************************************************************************)
(* Proofs about the two views with a place of their own, the task view and *)
(* the inspector with its map and its lists, for every size of the         *)
(* terminal, every text and every graph.  Both scroll with a Viewport, so  *)
(* its facts come first.                                                   *)
(***************************************************************************)
EXTENDS TaskScreen, InspectorScreen, FiniteSetTheorems, WellFoundedInduction, TLAPS

-----------------------------------------------------------------------------
(***************************************************************************)
(* Facts about viewports, for every u16: the operations keep them          *)
(* viewports, and `reveal' shows as much as the window can hold.           *)
(***************************************************************************)
LEMMA MaxRowIsPositive == MaxRow \in Nat /\ MaxRow > 0
  BY MaxRowAssumption

LEMMA AskedType ==
  ASSUME NEW v \in Viewports, NEW row \in 0..MaxRow
  PROVE  /\ Asked(v, row) \in Viewports
         /\ Asked(v, row).visible = Lesser(row, v.maximum)
         /\ Asked(v, row).maximum = v.maximum /\ Asked(v, row).height = v.height
  BY MaxRowIsPositive DEF Asked, Viewports, Lesser

LEMMA MeasuredType ==
  ASSUME NEW v \in Viewports, NEW rows \in Nat, NEW height \in 0..MaxRow
  PROVE  /\ Measured(v, rows, height) \in Viewports
         /\ Measured(v, rows, height).height = height
         /\ Measured(v, rows, height).maximum = Lesser(Minus(rows, height), MaxRow)
         /\ Measured(v, rows, height).visible <= Measured(v, rows, height).maximum
         /\ Measured(v, rows, height).visible
              = Lesser(Measured(v, rows, height).requested, Measured(v, rows, height).maximum)
<1> DEFINE maximum == Lesser(Minus(rows, height), MaxRow)
<1>1. maximum \in 0..MaxRow
  BY MaxRowIsPositive DEF Lesser, Minus
<1>2. Lesser(v.requested, maximum) \in 0..MaxRow /\ Lesser(v.requested, maximum) <= maximum
  BY <1>1, MaxRowIsPositive DEF Lesser, Viewports
<1>3. QED
  BY <1>1, <1>2 DEF Measured, Viewports

LEMMA RevealedType ==
  ASSUME NEW v \in Viewports, NEW row \in Nat, NEW rows \in Nat
  PROVE  LET r == Revealed(v, row, rows)
         IN  /\ r \in Viewports
             /\ r.maximum = v.maximum /\ r.height = v.height
             /\ v.visible = Lesser(v.requested, v.maximum) =>
                  r.visible = Lesser(r.requested, r.maximum)
<1> DEFINE first == Lesser(row, MaxRow)
           last  == Plus(first, Lesser(rows, v.height))
<1>1. first \in 0..MaxRow
  BY MaxRowIsPositive DEF Lesser
<1>2. v.height \in 0..MaxRow /\ v.requested \in 0..MaxRow
  BY DEF Viewports
<1>3. last \in 0..MaxRow
  BY <1>1, <1>2, MaxRowIsPositive DEF Plus, Lesser
<1>4. Minus(last, v.height) \in 0..MaxRow
  BY <1>2, <1>3, MaxRowIsPositive DEF Minus
<1> HIDE DEF first, last
<1> DEFINE Answer(a) == /\ Asked(v, a) \in Viewports
                       /\ Asked(v, a).maximum = v.maximum /\ Asked(v, a).height = v.height
                       /\ Asked(v, a).visible = Lesser(Asked(v, a).requested, v.maximum)
<1>5. ASSUME NEW a \in 0..MaxRow PROVE Answer(a)
  <2>1. Asked(v, a).requested = a
    BY DEF Asked, Viewports
  <2>2. QED
    BY <2>1, AskedType
<1>6. Answer(first) /\ Answer(Minus(last, v.height)) /\ Answer(v.requested)
  BY <1>1, <1>2, <1>4, <1>5
<1>7. Revealed(v, row, rows)
        \in {v, Asked(v, first), Asked(v, Minus(last, v.height)), Asked(v, v.requested)}
  BY DEF Revealed, first, last
<1>8. QED
  BY <1>6, <1>7

LEMMA HandledType ==
  ASSUME NEW v \in Viewports, NEW key \in Moves
  PROVE  Handled(v, key) \in Viewports
<1>1. /\ v.visible \in 0..MaxRow /\ v.maximum \in 0..MaxRow /\ v.height \in 0..MaxRow
  BY DEF Viewports
<1>2. /\ Minus(v.visible, 1) \in 0..MaxRow /\ Minus(v.visible, Page(v)) \in 0..MaxRow
  BY <1>1, MaxRowIsPositive DEF Minus, Page
<1>3. /\ Lesser(Plus(v.visible, 1), v.maximum) \in 0..MaxRow
      /\ Lesser(Plus(v.visible, Page(v)), v.maximum) \in 0..MaxRow
  BY <1>1, MaxRowIsPositive DEF Lesser, Plus, Page
<1>4. 0 \in 0..MaxRow /\ MaxRow \in 0..MaxRow
  BY MaxRowIsPositive
<1>5. QED
  BY <1>2, <1>3, <1>4, AskedType DEF Handled, Moves

\* reveal shows as many of the rows as the window can hold, if the text has them.
LEMMA RevealShows ==
  ASSUME NEW v \in Viewports, NEW row \in Nat, NEW rows \in Nat,
         v.visible = Lesser(v.requested, v.maximum),
         row + rows <= MaxRow, row + rows <= v.maximum + v.height,
         v.height > 0
  PROVE  LET r == Revealed(v, row, rows)
         IN  r.visible <= row /\ row + Lesser(rows, v.height) <= r.visible + v.height
<1> DEFINE part == Lesser(rows, v.height)
<1>1. /\ v.visible \in 0..MaxRow /\ v.maximum \in 0..MaxRow /\ v.height \in 1..MaxRow
      /\ v.requested \in 0..MaxRow
  BY MaxRowIsPositive DEF Viewports
<1>2. part \in Nat /\ part <= rows /\ part <= v.height
  BY <1>1 DEF Lesser
<1>3. Lesser(row, MaxRow) = row /\ Plus(row, part) = row + part
  BY <1>2, MaxRowIsPositive DEF Lesser, Plus
<1> HIDE DEF part
<1>4. Revealed(v, row, rows) =
        CASE v.height = 0 -> v
          [] v.height # 0 /\ row < v.visible -> Asked(v, row)
          [] v.height # 0 /\ row >= v.visible /\ row + part > Plus(v.visible, v.height) ->
               Asked(v, Minus(row + part, v.height))
          [] OTHER -> Asked(v, v.requested)
  BY <1>3 DEF Revealed, part
<1>5. CASE row < v.visible
  <2>1. Revealed(v, row, rows) = Asked(v, row)
    BY <1>1, <1>4, <1>5
  <2> row \in 0..MaxRow
    BY MaxRowIsPositive
  <2>2. Asked(v, row).visible = Lesser(row, v.maximum)
    BY AskedType
  <2>3. Lesser(row, v.maximum) = row
    BY <1>1, <1>5 DEF Lesser
  <2>4. QED
    BY <1>1, <1>2, <2>1, <2>2, <2>3 DEF part
<1>6. CASE row >= v.visible /\ row + part > Plus(v.visible, v.height)
  <2>1. row + part > v.visible + v.height
    BY <1>1, <1>2, <1>6, MaxRowIsPositive DEF Plus, Lesser
  <2>2. Minus(row + part, v.height) = row + part - v.height /\ row + part - v.height \in 0..MaxRow
    BY <1>1, <1>2, <2>1, MaxRowIsPositive DEF Minus
  <2>3. Revealed(v, row, rows) = Asked(v, row + part - v.height)
    BY <1>1, <1>4, <1>6, <2>2
  <2>4. Asked(v, row + part - v.height).visible = Lesser(row + part - v.height, v.maximum)
    BY <2>2, AskedType
  <2>5. Lesser(row + part - v.height, v.maximum) = row + part - v.height
    BY <1>1, <1>2, <2>2 DEF Lesser
  <2>6. QED
    BY <1>1, <1>2, <2>3, <2>4, <2>5 DEF part
<1>7. CASE row >= v.visible /\ ~(row + part > Plus(v.visible, v.height))
  <2>1. Revealed(v, row, rows) = Asked(v, v.requested)
    BY <1>1, <1>4, <1>7
  <2>2. Asked(v, v.requested).visible = v.visible
    BY <1>1, AskedType
  <2>3. row + part <= v.visible + v.height
    BY <1>1, <1>2, <1>7, MaxRowIsPositive DEF Plus, Lesser
  <2>4. QED
    BY <1>1, <1>2, <1>7, <2>1, <2>2, <2>3 DEF part
<1>8. QED
  BY <1>1, <1>5, <1>6, <1>7

-----------------------------------------------------------------------------
(***************************************************************************)
(* The task view.  What a frame shows is tied to the state only between    *)
(* its drawing and the next event, so the invariant is about those states  *)
(* (Faithful), and about the key that waits for its frame (Waiting).       *)
(***************************************************************************)
\* A frame that was just drawn shows the headers where they can be clicked, in
\* different rows, and none in another view or without a binding.
Faithful ==
  stage = "select" =>
    /\ picture.what = Shown
    /\ Shown = "task" => regions = picture.headers
    /\ Shown # "task" \/ ~bound => picture.headers = NoRows
    /\ \A fold, other \in Folds :
         fold # other => picture.headers[fold] \cap picture.headers[other] = {}

\* A key that chose a header is followed by a frame of the task view.
Waiting == stage = "draw" /\ chosen => reveal /\ header \in Folds /\ bound /\ Shown = "task"

TaskScreenInv == TaskScreenTypeOK /\ Faithful /\ Waiting /\ ChosenIsInSight
-----------------------------------------------------------------------------
(***************************************************************************)
(* Drawing.                                                                *)
(***************************************************************************)
\* The rows that draw_task_viewport makes clickable are those the text's rows
\* first to first + rows - 1 are rendered in.
LEMMA RowsOfRegion ==
  ASSUME NEW first \in Nat, NEW rows \in Nat, NEW offset \in Nat, NEW height \in Nat
  PROVE  LET top == Larger(first, offset)
             end == Lesser(first + rows, offset + height)
         IN  (IF top < end THEN (1 + top - offset) .. (end - offset) ELSE {})
               = {screen \in 1..height :
                    screen - 1 + offset >= first /\ screen - 1 + offset < first + rows}
<1> DEFINE top == Larger(first, offset)
           end == Lesser(first + rows, offset + height)
           Left == IF top < end THEN (1 + top - offset) .. (end - offset) ELSE {}
           Right == {screen \in 1..height :
                       screen - 1 + offset >= first /\ screen - 1 + offset < first + rows}
<1>1. top \in Nat /\ end \in Nat
  BY DEF Larger, Lesser
<1>2. ASSUME NEW screen \in Left PROVE screen \in Right
  BY <1>1, <1>2 DEF Larger, Lesser
<1>3. ASSUME NEW screen \in Right PROVE screen \in Left
  BY <1>1, <1>3 DEF Larger, Lesser
<1>4. QED
  BY <1>2, <1>3

\* The sizes of a text's parts.
LEMMA PartsType ==
  ASSUME TaskScreenTypeOK, NEW size \in Windows
  PROVE  /\ size.width \in 0..MaxRow /\ size.height \in 0..MaxRow
         /\ status[size.width] \in Nat /\ HeaderRows[size.width] \in Nat
         /\ BodyRows(0, size.width) \in Nat /\ BodyRows(1, size.width) \in Nat
         /\ Start(0, size.width) \in Nat /\ Start(1, size.width) \in Nat
         /\ Start(1, size.width) >= Start(0, size.width) + HeaderRows[size.width]
         /\ TextRows(size.width) \in Nat
         /\ bound => TextRows(size.width) >= Start(1, size.width) + HeaderRows[size.width]
<1>1. size.width \in Widths
  BY DEF Widths
<1>2. size.width \in 0..MaxRow /\ size.height \in 0..MaxRow
  BY PartsAssumption
<1>3. /\ status[size.width] \in Nat /\ HeaderRows[size.width] \in Nat
      /\ HelpRows[size.width] \in Nat
  BY <1>1, PartsAssumption DEF TaskScreenTypeOK
<1>4. ASSUME NEW fold \in Folds PROVE bodies[fold][size.width] \in Nat
  BY <1>1, PartsAssumption DEF TaskScreenTypeOK, Held
<1>5. bodies[0][size.width] \in Nat /\ bodies[1][size.width] \in Nat
  BY <1>4 DEF Folds
<1>6. BodyRows(0, size.width) \in Nat /\ BodyRows(1, size.width) \in Nat
  BY <1>5 DEF BodyRows
<1>7. QED
  BY <1>2, <1>3, <1>6 DEF Start, TextRows

\* The viewport of a frame: its text is measured, and a chosen header revealed.
LEMMA ScrolledType ==
  ASSUME TaskScreenTypeOK, NEW size \in Windows
  PROVE  Scrolled(size.width, size.height) \in Viewports
<1> DEFINE measured == Measured(window, TextRows(size.width), size.height)
<1>1. measured \in Viewports
  BY PartsType, MeasuredType DEF TaskScreenTypeOK
<1>2. CASE bound /\ FocusRequest # NoFold
  <2>1. FocusRequest \in Folds
    BY <1>2 DEF FocusRequest, TaskScreenTypeOK
  <2> Start(FocusRequest, size.width) \in Nat /\ HeaderRows[size.width] \in Nat
    BY <2>1, PartsType DEF Folds
  <2> HIDE DEF measured
  <2>2. Revealed(measured, Start(FocusRequest, size.width), HeaderRows[size.width]) \in Viewports
    BY <1>1, RevealedType
  <2>3. QED
    BY <1>2, <2>2 DEF Scrolled, measured
<1>3. CASE ~(bound /\ FocusRequest # NoFold)
  BY <1>1, <1>3 DEF Scrolled
<1>4. QED
  BY <1>2, <1>3

\* A click reaches a header exactly in the rows that show it.
LEMMA RegionIsRendered ==
  ASSUME TaskScreenTypeOK, NEW size \in Windows, NEW fold \in Folds
  PROVE  /\ Region(fold, size.width, size.height)
              = Rendered(fold, size.width, size.height, Scrolled(size.width, size.height).visible)
         /\ Region(fold, size.width, size.height) \subseteq 1..size.height
<1> DEFINE offset == Scrolled(size.width, size.height).visible
           first  == Start(fold, size.width)
           rows   == HeaderRows[size.width]
           height == size.height
           top    == Larger(first, offset)
           end    == Lesser(first + rows, offset + height)
           Lines  == {screen \in 1..height :
                        screen - 1 + offset >= first /\ screen - 1 + offset < first + rows}
<1>1. first \in Nat /\ rows \in Nat /\ height \in Nat
  BY PartsType, MaxRowIsPositive DEF Folds
<1>2. offset \in Nat
  BY ScrolledType, MaxRowIsPositive DEF Viewports
<1>3. Region(fold, size.width, size.height)
        = IF bound /\ top < end /\ size.width > 0 THEN (1 + top - offset) .. (end - offset) ELSE {}
  BY DEF Region
<1>4. Rendered(fold, size.width, size.height, offset)
        = IF bound /\ size.width > 0 THEN Lines ELSE {}
  BY DEF Rendered
<1> HIDE DEF first, rows, height, offset
<1>5. (IF top < end THEN (1 + top - offset) .. (end - offset) ELSE {}) = Lines
  BY <1>1, <1>2, RowsOfRegion
<1> Lines \subseteq 1..height
  OBVIOUS
<1> HIDE DEF top, end, Lines
<1>6. Region(fold, size.width, size.height) = IF bound /\ size.width > 0 THEN Lines ELSE {}
  BY <1>3, <1>5
<1>7. QED
  BY <1>4, <1>6 DEF offset, height

\* The two headers take different rows.
LEMMA HeadersApart ==
  ASSUME TaskScreenTypeOK, NEW size \in Windows, NEW offset \in Nat
  PROVE  Rendered(0, size.width, size.height, offset)
           \cap Rendered(1, size.width, size.height, offset) = {}
<1> size.height \in Nat
  BY PartsType, MaxRowIsPositive
<1> QED
  BY PartsType DEF Rendered

\* The window of a frame shows a header that is asked for.
LEMMA FocusIsShown ==
  ASSUME TaskScreenTypeOK, NEW size \in Windows, bound, reveal, header \in Folds,
         size.height > 0,
         Start(header, size.width) + HeaderRows[size.width] <= MaxRow
  PROVE  LET v == Scrolled(size.width, size.height)
             first == Start(header, size.width)
         IN  /\ v.visible <= first
             /\ first + Lesser(HeaderRows[size.width], size.height) <= v.visible + size.height
<1> DEFINE first == Start(header, size.width)
           rows  == HeaderRows[size.width]
           height == size.height
           text  == TextRows(size.width)
           m     == Measured(window, text, height)
<1>1. first \in Nat /\ rows \in Nat /\ text \in Nat /\ height \in 0..MaxRow /\ height > 0
  BY PartsType DEF Folds
<1>2. text >= first + rows /\ first + rows <= MaxRow
  <2>1. CASE header = 0
    BY <2>1, PartsType
  <2>2. CASE header = 1
    BY <2>2, PartsType
  <2>3. QED
    BY <2>1, <2>2 DEF Folds
<1>3. /\ m \in Viewports /\ m.height = height
      /\ m.maximum = Lesser(Minus(text, height), MaxRow)
      /\ m.visible = Lesser(m.requested, m.maximum)
  <2>1. window \in Viewports
    BY DEF TaskScreenTypeOK
  <2> HIDE DEF text, height
  <2>2. QED
    BY <1>1, <2>1, MeasuredType
<1>4. Scrolled(size.width, size.height) = Revealed(m, first, rows)
  BY PartsAssumption DEF Scrolled, FocusRequest
<1> HIDE DEF first, rows, height, text, m
<1>5. first + rows <= m.maximum + m.height
  BY <1>1, <1>2, <1>3, MaxRowIsPositive DEF Lesser, Minus
<1>6. LET r == Revealed(m, first, rows)
      IN  r.visible <= first /\ first + Lesser(rows, m.height) <= r.visible + m.height
  BY <1>1, <1>2, <1>3, <1>5, RevealShows
<1>7. QED
  BY <1>3, <1>4, <1>6 DEF first, rows, height
-----------------------------------------------------------------------------
(***************************************************************************)
(* The steps.                                                              *)
(***************************************************************************)
LEMMA TaskInitHolds == TaskInit => TaskScreenInv
<1> SUFFICES ASSUME TaskInit PROVE TaskScreenInv
  OBVIOUS
<1>1. AtTop \in Viewports
  BY MaxRowIsPositive DEF AtTop, Viewports
<1>2. NoRows \in [Folds -> SUBSET (1..MaxRow)]
  BY DEF NoRows
<1>3. 0 \in 0..MaxRow /\ Inputs \in 0..Inputs
  BY MaxRowIsPositive, PartsAssumption
<1>4. TaskScreenTypeOK
  BY <1>1, <1>2, <1>3 DEF TaskInit, TaskScreenTypeOK
<1>5. QED
  BY <1>4 DEF TaskInit, TaskScreenInv, Faithful, Waiting, ChosenIsInSight

\* Drawing establishes what a frame promises.
LEMMA TaskDrawKeeps == TaskScreenInv /\ DrawScreen => TaskScreenInv'
<1> SUFFICES ASSUME TaskScreenInv, DrawScreen PROVE TaskScreenInv'
  OBVIOUS
<1> USE DEF TaskScreenInv
<1>0. TaskScreenTypeOK
  OBVIOUS
<1>1. PICK size \in Windows :
        IF Shown = "task" THEN DrawTask(size.width, size.height)
        ELSE DrawView(Shown, size.width, size.height)
  BY DEF DrawScreen
<1>2. /\ stage = "draw" /\ stage' = "select"
      /\ UNCHANGED <<screens, status, bound, bodies, expanded, header, inputs, chosen>>
  BY DEF DrawScreen
<1>3. Shown' = Shown
  BY <1>2 DEF Shown, screens
<1>4. Shown \in {"task", "composer", "confirmation", "logs", "inspector"}
  BY <1>0 DEF Shown, TaskScreenTypeOK
<1>5. size.width \in 0..MaxRow /\ size.height \in 0..MaxRow
  BY <1>0, PartsType
<1>6. CASE Shown = "task"
  <2> DEFINE offset == Scrolled(size.width, size.height).visible
             HeaderAt(fold) == Rendered(fold, size.width, size.height, offset)
  <2>1. DrawTask(size.width, size.height)
    BY <1>1, <1>6
  <2>2. /\ window' = Scrolled(size.width, size.height) /\ reveal' = FALSE
        /\ regions' = [fold \in Folds |-> Region(fold, size.width, size.height)]
        /\ picture' = [what |-> "task", width |-> size.width, height |-> size.height,
                     headers |-> [fold \in Folds |-> HeaderAt(fold)]]
    BY <2>1 DEF DrawTask
  <2>3. window' \in Viewports /\ offset \in Nat
    BY <1>0, <2>2, ScrolledType, MaxRowIsPositive DEF Viewports
  <2>4. ASSUME NEW fold \in Folds
        PROVE  /\ Region(fold, size.width, size.height) = HeaderAt(fold)
               /\ HeaderAt(fold) \subseteq 1..MaxRow
    <3>1. /\ Region(fold, size.width, size.height) = HeaderAt(fold)
          /\ Region(fold, size.width, size.height) \subseteq 1..size.height
      BY <1>0, RegionIsRendered
    <3>2. 1..size.height \subseteq 1..MaxRow
      BY <1>5, MaxRowIsPositive
    <3>3. QED
      BY <3>1, <3>2
  <2>5. HeaderAt(0) \cap HeaderAt(1) = {}
    BY <1>0, <2>3, HeadersApart
  <2> HIDE DEF HeaderAt
  <2>6. regions' = [fold \in Folds |-> HeaderAt(fold)]
    BY <2>2, <2>4
  <2>7. [fold \in Folds |-> HeaderAt(fold)] \in [Folds -> SUBSET (1..MaxRow)]
    BY <2>4
  <2>8. TaskScreenTypeOK'
    BY <1>0, <1>2, <1>5, <2>2, <2>3, <2>6, <2>7 DEF TaskScreenTypeOK, screens, Held
  <2>9. Faithful'
    <3>1. ASSUME NEW fold \in Folds, ~bound PROVE HeaderAt(fold) = {}
      BY <3>1 DEF HeaderAt, Rendered
    <3>2. ~bound' => picture'.headers = NoRows
      BY <1>2, <2>2, <3>1 DEF NoRows
    <3>3. ASSUME NEW fold \in Folds, NEW other \in Folds, fold # other
          PROVE  HeaderAt(fold) \cap HeaderAt(other) = {}
      BY <2>5, <3>3 DEF Folds
    <3>4. QED
      BY <1>3, <1>6, <2>2, <2>6, <3>2, <3>3 DEF Faithful
  <2>10. ChosenIsInSight'
    <3>1. SUFFICES ASSUME chosen', picture'.height > 0,
                          Start(header, size.width)' + HeaderRows[size.width] <= MaxRow
                   PROVE  /\ window'.visible <= Start(header, size.width)'
                          /\ Start(header, size.width)' + Lesser(HeaderRows[size.width], size.height)
                               <= window'.visible + size.height
      BY <2>2 DEF ChosenIsInSight
    <3>2. Start(header, size.width)' = Start(header, size.width)
      BY <1>2 DEF Start, BodyRows
    <3>3. reveal /\ header \in Folds /\ bound
      BY <1>2, <3>1 DEF Waiting
    <3>4. size.height > 0
      BY <2>2, <3>1
    <3>5. QED
      BY <1>0, <2>2, <3>1, <3>2, <3>3, <3>4, FocusIsShown
  <2>11. QED
    BY <1>2, <2>8, <2>9, <2>10 DEF Waiting
<1>7. CASE Shown # "task"
  <2>1. /\ picture' = [what |-> Shown, width |-> size.width, height |-> size.height,
                     headers |-> NoRows]
        /\ UNCHANGED <<window, regions, reveal>>
    BY <1>1, <1>7 DEF DrawView
  <2>2. NoRows \in [Folds -> SUBSET (1..MaxRow)]
    BY DEF NoRows
  <2>3. TaskScreenTypeOK'
    BY <1>0, <1>2, <1>4, <1>5, <2>1, <2>2 DEF TaskScreenTypeOK, screens, Held
  <2>4. Faithful'
    BY <1>3, <1>7, <2>1 DEF Faithful, NoRows
  <2>5. QED
    BY <1>2, <1>7, <2>1, <2>3, <2>4 DEF Waiting, ChosenIsInSight
<1>8. QED
  BY <1>6, <1>7

\* What an event other than a drawing must show: its types, and that a header
\* it chose waits for the frame.
LEMMA TaskTurnKeeps ==
  ASSUME TaskScreenTypeOK', Stage, Waiting'
  PROVE  TaskScreenInv'
BY DEF TaskScreenInv, Stage, Faithful, ChosenIsInSight

LEMMA TaskReadKeeps == TaskScreenInv /\ TaskRead => TaskScreenInv'
<1> SUFFICES ASSUME TaskScreenInv, TaskRead PROVE TaskScreenInv'
  OBVIOUS
<1>1. TaskScreenTypeOK
  BY DEF TaskScreenInv
<1>2. NoRows \in [Folds -> SUBSET (1..MaxRow)]
  BY DEF NoRows
<1>3. [fold \in Folds |-> FALSE] \in [Folds -> BOOLEAN]
  OBVIOUS
<1>4. bound' \in BOOLEAN /\ regions' \in [Folds -> SUBSET (1..MaxRow)]
  BY <1>1, <1>2 DEF TaskRead, details, TaskScreenTypeOK
<1>5. expanded' \in [Folds -> BOOLEAN] /\ header' \in Folds \cup {NoFold}
  BY <1>1, <1>3 DEF TaskRead, details, TaskScreenTypeOK
<1>6. UNCHANGED <<bodies, reveal, screens, window, picture, inputs>> /\ chosen' = FALSE
  BY DEF TaskRead, details, Other, Stage
<1>7. TaskScreenTypeOK'
  BY <1>1, <1>4, <1>5, <1>6 DEF TaskScreenTypeOK, TaskRead, Other, Stage, screens, Held
<1>8. QED
  BY <1>6, <1>7, TaskTurnKeeps DEF TaskRead, Other, Waiting

LEMMA PageReadKeeps == TaskScreenInv /\ PageRead => TaskScreenInv'
<1> SUFFICES ASSUME TaskScreenInv, PageRead PROVE TaskScreenInv'
  OBVIOUS
<1>1. TaskScreenTypeOK'
  BY DEF TaskScreenInv, TaskScreenTypeOK, PageRead, Other, Stage, screens, Held
<1>2. QED
  BY <1>1, TaskTurnKeeps DEF PageRead, Other, Waiting

LEMMA RedrawKeeps == TaskScreenInv /\ Repaint => TaskScreenInv'
<1> SUFFICES ASSUME TaskScreenInv, Repaint PROVE TaskScreenInv'
  OBVIOUS
<1>1. TaskScreenTypeOK'
  BY DEF TaskScreenInv, TaskScreenTypeOK, Repaint, Other, Stage, screens, details, Held
<1>2. QED
  BY <1>1, TaskTurnKeeps DEF Repaint, Other, Waiting

LEMMA ActsType ==
  ASSUME TaskScreenTypeOK, Input PROVE inputs' \in 0..Inputs
BY PartsAssumption DEF TaskScreenTypeOK, Input

\* toggle keeps the folds open or closed.
LEMMA ToggleType ==
  ASSUME TaskScreenTypeOK, NEW fold \in Folds, Toggle(fold)
  PROVE  /\ expanded' \in [Folds -> BOOLEAN] /\ header' = fold
         /\ expanded'[fold] # expanded[fold]
         /\ \A other \in Folds : other # fold => expanded'[other] = expanded[other]
<1>1. expanded \in [Folds -> BOOLEAN]
  BY DEF TaskScreenTypeOK
<1>2. expanded' = [expanded EXCEPT ![fold] = ~@] /\ header' = fold
  BY DEF Toggle
<1>3. expanded'[fold] = ~expanded[fold]
  BY <1>1, <1>2
<1>4. (~expanded[fold]) \in BOOLEAN /\ (~expanded[fold]) # expanded[fold]
  BY <1>1
<1>5. QED
  BY <1>1, <1>2, <1>3, <1>4

LEMMA MouseDownKeeps ==
  ASSUME TaskScreenInv, NEW row, NEW inside \in BOOLEAN, MouseDown(row, inside) PROVE TaskScreenInv'
<1>1. TaskScreenTypeOK
  BY DEF TaskScreenInv
<1>2. /\ Input /\ chosen' = FALSE
      /\ UNCHANGED <<screens, status, bound, bodies, reveal, regions, window>>
  BY DEF MouseDown
<1>3. expanded' \in [Folds -> BOOLEAN] /\ header' \in Folds \cup {NoFold}
  <2>1. CASE \E fold \in Folds : Toggle(fold)
    BY <1>1, <2>1, ToggleType
  <2>2. CASE UNCHANGED <<expanded, header>>
    BY <1>1, <2>2 DEF TaskScreenTypeOK
  <2>3. QED
    BY <2>1, <2>2 DEF MouseDown
<1>4. inputs' \in 0..Inputs
  BY <1>1, <1>2, ActsType
<1>5. TaskScreenTypeOK'
  BY <1>1, <1>2, <1>3, <1>4 DEF TaskScreenTypeOK, Input, Stage, screens, Held
<1>6. QED
  BY <1>2, <1>5, TaskTurnKeeps DEF Input, Waiting

LEMMA MouseWheelKeeps ==
  ASSUME TaskScreenInv, NEW move \in Wheel, TurnWheel(move) PROVE TaskScreenInv'
<1>1. TaskScreenTypeOK
  BY DEF TaskScreenInv
<1>2. Handled(window, move) \in Viewports
  BY <1>1, HandledType DEF TaskScreenTypeOK, Wheel, Moves
<1>3. inputs' \in 0..Inputs
  BY <1>1, ActsType DEF TurnWheel
<1>4. TaskScreenTypeOK'
  BY <1>1, <1>2, <1>3 DEF TaskScreenTypeOK, TurnWheel, Input, Stage, screens, details, Held
<1>5. QED
  BY <1>4, TaskTurnKeeps DEF TurnWheel, Input, Waiting

\* A key that chooses a header waits for its frame; every other key forgets it.
LEMMA KeyKeeps ==
  ASSUME TaskScreenInv, NEW kind \in Kinds, NEW code \in KeyCodes, PressKey(kind, code) PROVE TaskScreenInv'
<1>1. TaskScreenTypeOK
  BY DEF TaskScreenInv
<1>2. inputs' \in 0..Inputs /\ Stage
  BY <1>1, ActsType DEF PressKey, Input
<1>3. CASE Shown = "task" /\ FoldKeyTaken(kind, code) /\ FoldKey(code) /\ chosen' = reveal'
           /\ UNCHANGED <<screens, bound, bodies, regions, window>>
  <2>1. header \in Folds \cup {NoFold} /\ reveal' \in BOOLEAN
    BY <1>1, <1>3 DEF TaskScreenTypeOK, FoldKey
  <2>2. NextFold(0) \in Folds /\ NextFold(1) \in Folds
    BY <2>1 DEF NextFold, Folds
  <2>3. /\ expanded' \in [Folds -> BOOLEAN] /\ header' \in Folds \cup {NoFold}
        /\ reveal' => header' \in Folds
    <3>1. CASE code = "Tab" /\ header' = NextFold(0) /\ UNCHANGED expanded
      BY <1>1, <2>2, <3>1 DEF TaskScreenTypeOK
    <3>2. CASE code = "BackTab" /\ header' = NextFold(1) /\ UNCHANGED expanded
      BY <1>1, <2>2, <3>2 DEF TaskScreenTypeOK
    <3>3. CASE header # NoFold /\ Toggle(header)
      BY <1>1, <2>1, <3>3, ToggleType
    <3>4. CASE header' = NoFold /\ reveal' = FALSE /\ UNCHANGED expanded
      BY <1>1, <3>4 DEF TaskScreenTypeOK
    <3>5. QED
      BY <1>3, <3>1, <3>2, <3>3, <3>4 DEF FoldKey
  <2>4. TaskScreenTypeOK'
    BY <1>1, <1>2, <1>3, <2>1, <2>3 DEF TaskScreenTypeOK, PressKey, Stage, screens, Held
  <2>5. Shown' = "task" /\ bound'
    BY <1>3 DEF Shown, screens, FoldKeyTaken
  <2>6. QED
    BY <1>2, <1>3, <2>3, <2>4, <2>5, TaskTurnKeeps DEF Waiting
<1>4. CASE Shown = "task" /\ code \in Moves /\ window' = Handled(window, code)
           /\ chosen' = FALSE /\ UNCHANGED <<screens, details>>
  <2>1. window' \in Viewports
    BY <1>1, <1>4, HandledType DEF TaskScreenTypeOK
  <2>2. TaskScreenTypeOK'
    BY <1>1, <1>2, <1>4, <2>1 DEF TaskScreenTypeOK, PressKey, Stage, screens, details, Held
  <2>3. QED
    BY <1>2, <1>4, <2>2, TaskTurnKeeps DEF Waiting
<1>5. CASE /\ over' \in {"task", "logs", "inspector"}
           /\ composing' \in BOOLEAN /\ confirming' \in BOOLEAN
           /\ chosen' = FALSE /\ UNCHANGED <<details, window>>
  <2>1. TaskScreenTypeOK'
    BY <1>1, <1>2, <1>5 DEF TaskScreenTypeOK, PressKey, Stage, details, Held
  <2>2. QED
    BY <1>2, <1>5, <2>1, TaskTurnKeeps DEF Waiting
<1>6. CASE Shown # "task"
  <2>1. OtherKey(code)
    BY <1>6 DEF PressKey
  <2>2. QED
    BY <1>1, <1>5, <2>1 DEF OtherKey, TaskScreenTypeOK
<1>7. CASE Shown = "task"
  <2>1. TaskKey(kind, code)
    BY <1>7 DEF PressKey
  <2>2. QED
    BY <1>1, <1>3, <1>4, <1>5, <1>7, <2>1 DEF TaskKey, TaskScreenTypeOK
<1>8. QED
  BY <1>6, <1>7

LEMMA TaskStepKeeps == TaskScreenInv /\ [TaskNext]_taskVars => TaskScreenInv'
<1> SUFFICES ASSUME TaskScreenInv, [TaskNext]_taskVars PROVE TaskScreenInv'
  OBVIOUS
<1>1. CASE DrawScreen
  BY <1>1, TaskDrawKeeps
<1>2. CASE TaskRead
  BY <1>2, TaskReadKeeps
<1>3. CASE PageRead
  BY <1>3, PageReadKeeps
<1>4. CASE Mouse
  BY <1>4, MouseDownKeeps, MouseWheelKeeps DEF Mouse
<1>5. CASE Repaint
  BY <1>5, RedrawKeeps
<1>6. CASE \E kind \in Kinds, code \in KeyCodes : PressKey(kind, code)
  BY <1>6, KeyKeeps
<1>7. CASE UNCHANGED taskVars
  BY <1>7 DEF taskVars, screens, details, TaskScreenInv, TaskScreenTypeOK, Held, Faithful, Waiting,
              ChosenIsInSight, Shown, Start, BodyRows
<1>8. QED
  BY <1>1, <1>2, <1>3, <1>4, <1>5, <1>6, <1>7 DEF TaskNext

LEMMA TaskInvariance == TaskSpec => []TaskScreenInv
BY TaskInitHolds, TaskStepKeeps, PTL DEF TaskSpec
-----------------------------------------------------------------------------
(***************************************************************************)
(* The theorems.                                                           *)
(***************************************************************************)
\* The state has its type at every size of the terminal and with every text.
THEOREM TaskScreenTypes == TaskSpec => []TaskScreenTypeOK
<1>1. TaskScreenInv => TaskScreenTypeOK
  BY DEF TaskScreenInv
<1>2. QED
  BY <1>1, TaskInvariance, PTL

\* A header that a key chose is in the window of the frame that follows.
THEOREM ChosenHeaderIsInSight == TaskSpec => []ChosenIsInSight
<1>1. TaskScreenInv => ChosenIsInSight
  BY DEF TaskScreenInv
<1>2. QED
  BY <1>1, TaskInvariance, PTL

\* A click opens or closes the fold whose header the user saw in that row.
LEMMA ClickMeans ==
  ASSUME TaskScreenInv, NEW row, NEW inside \in BOOLEAN, MouseDown(row, inside), NEW fold \in Folds
  PROVE  (expanded'[fold] # expanded[fold]) <=> (inside /\ row \in picture.headers[fold])
<1>1. TaskScreenTypeOK /\ Faithful /\ stage = "select"
  BY DEF TaskScreenInv, MouseDown, Input, Stage
<1>2. ReachesTask <=> Shown = "task"
  BY <1>1 DEF ReachesTask, Shown, TaskScreenTypeOK
<1>3. CASE ReachesTask /\ inside /\ \E hit \in Folds : row \in regions[hit] /\ Toggle(hit)
  <2>1. PICK hit \in Folds : row \in regions[hit] /\ Toggle(hit)
    BY <1>3
  <2>2. row \in picture.headers[hit]
    BY <1>1, <1>2, <1>3, <2>1 DEF Faithful
  <2>3. \A other \in Folds : other # hit => row \notin picture.headers[other]
    BY <1>1, <2>2 DEF Faithful
  <2>4. /\ expanded'[hit] # expanded[hit]
        /\ \A other \in Folds : other # hit => expanded'[other] = expanded[other]
    BY <1>1, <2>1, ToggleType
  <2>5. QED
    BY <1>3, <2>2, <2>3, <2>4
<1>4. CASE /\ ~ReachesTask \/ ~inside \/ ~bound \/ \A hit \in Folds : row \notin regions[hit]
           /\ UNCHANGED <<expanded, header>>
  <2>1. expanded'[fold] = expanded[fold]
    BY <1>4
  <2>2. ~ReachesTask \/ ~bound => row \notin picture.headers[fold]
    BY <1>1, <1>2 DEF Faithful, NoRows
  <2>3. ReachesTask /\ row \notin regions[fold] => row \notin picture.headers[fold]
    BY <1>1, <1>2 DEF Faithful
  <2>4. QED
    BY <1>4, <2>1, <2>2, <2>3
<1>5. QED
  BY <1>3, <1>4 DEF MouseDown

THEOREM ClicksMeanWhatIsShown == TaskSpec => ClickMeansWhatIsShown
<1>1. TaskScreenInv /\ [TaskNext]_taskVars =>
        [\A row \in 0..(picture.height + 1), inside \in BOOLEAN : MouseDown(row, inside) =>
           \A fold \in Folds :
             (expanded'[fold] # expanded[fold]) <=> (inside /\ row \in picture.headers[fold])]_taskVars
  BY ClickMeans
<1>2. QED
  BY <1>1, TaskInvariance, PTL DEF TaskSpec, ClickMeansWhatIsShown

\* The wheel scrolls the task view only under the user's eyes.
THEOREM WheelIsForTheTask == TaskSpec => WheelScrollsWhatIsShown
<1>1. ASSUME TaskScreenInv, NEW move \in Wheel, TurnWheel(move), window' # window
      PROVE  picture.what = "task"
  <2>1. ReachesTask /\ stage = "select" /\ Faithful
    BY <1>1 DEF TurnWheel, Input, Stage, TaskScreenInv
  <2>2. Shown = "task"
    BY <2>1 DEF Shown, ReachesTask
  <2>3. QED
    BY <2>1, <2>2 DEF Faithful
<1>2. TaskScreenInv /\ [TaskNext]_taskVars =>
        [\A move \in Wheel :
           TurnWheel(move) /\ window' # window => picture.what = "task"]_taskVars
  BY <1>1
<1>3. QED
  BY <1>2, TaskInvariance, PTL DEF TaskSpec, WheelScrollsWhatIsShown

\* A key that is held scrolls and does nothing else.
THEOREM HeldKeysScroll == TaskSpec => HeldKeysOnlyScroll
<1>1. ASSUME NEW kind \in {"Repeat", "Release"}, NEW code \in KeyCodes, PressKey(kind, code)
      PROVE  UNCHANGED <<screens, expanded, header>>
  <2>1. kind # "Press" /\ code \in Moves
    BY <1>1 DEF PressKey, Accepts
  <2>2. code \notin Views /\ code \notin {"Esc", "p"}
    BY <2>1 DEF Moves, Views
  <2>3. ~FoldKeyTaken(kind, code) /\ ~OtherKey(code)
    BY <2>1, <2>2 DEF FoldKeyTaken, OtherKey
  <2>4. TaskKey(kind, code)
    BY <1>1, <2>3 DEF PressKey
  <2>5. QED
    BY <2>2, <2>3, <2>4 DEF TaskKey, details
<1>2. TaskScreenInv /\ [TaskNext]_taskVars =>
        [\A kind \in {"Repeat", "Release"}, code \in KeyCodes :
           PressKey(kind, code) => UNCHANGED <<screens, expanded, header>>]_taskVars
  BY <1>1
<1>3. QED
  BY <1>2, TaskInvariance, PTL DEF TaskSpec, HeldKeysOnlyScroll

-----------------------------------------------------------------------------
(***************************************************************************)
(* The inspector's map: until the user pans, the selected card is on the   *)
(* map, and keys and the wheel move what the last frame shows.             *)
(***************************************************************************)
Maps == [horizontal : Viewports, vertical : Viewports, focus : BOOLEAN,
         width : 0..MaxRow, height : 0..MaxRow]

Typed ==
  /\ turn \in {"draw", "select"} /\ open \in BOOLEAN /\ panned \in BOOLEAN
  /\ graph \in Graphs \cup {NoGraph}
  /\ selected = 0 \/ selected \in 0..(Count(graph) - 1)
  /\ spatial \in Maps

\* A viewport over `rows' rows with an extent of `extent' that shows `size' rows
\* from `first' on: it stays like this if nothing of it changes.
Shows(v, rows, extent, first, size) ==
  /\ v.height = extent /\ v.maximum = Lesser(Minus(rows, extent), MaxRow)
  /\ v.visible = Lesser(v.requested, v.maximum)
  /\ Fits(v, first, size)

\* Unless the user panned, the map is about to be focused or shows the card.
Placed ==
  ~panned /\ ~spatial.focus =>
    /\ graph \in Graphs
    /\ Shows(spatial.horizontal, graph.width, spatial.width, graph.x[selected], CardWidth)
    /\ Shows(spatial.vertical, graph.height, spatial.height, graph.y[selected], CardHeight)

\* What a frame shows, and where the keys go.
Routed ==
  Drawn =>
    /\ frame.what = IF open THEN IF spatialVisible THEN "map" ELSE "list" ELSE "nothing"
    /\ open /\ spatialVisible => spatialMode /\ ~search.open

MapInv == Typed /\ Placed /\ Routed /\ MapShowsSelection
-----------------------------------------------------------------------------
(***************************************************************************)
(* Viewports.                                                              *)
(***************************************************************************)
\* A focused axis shows the card.
LEMMA FocusShows ==
  ASSUME NEW v \in Viewports, NEW rows \in 0..MaxRow, NEW extent \in 0..MaxRow, extent > 0,
         NEW first \in Nat, NEW size \in Nat, first + size <= rows
  PROVE  Shows(Revealed(Measured(v, rows, extent), first, size), rows, extent, first, size)
<1> DEFINE m == Measured(v, rows, extent)
           r == Revealed(m, first, size)
<1>1. /\ rows \in Nat /\ rows <= MaxRow /\ MaxRow \in Nat
  BY MaxRowIsPositive
<1>2. /\ m \in Viewports /\ m.height = extent
      /\ m.maximum = Lesser(Minus(rows, extent), MaxRow)
      /\ m.visible = Lesser(m.requested, m.maximum)
  BY <1>1, MeasuredType
<1> HIDE DEF m
<1>3. first + size <= m.maximum + m.height
  BY <1>1, <1>2 DEF Lesser, Minus
<1>4. r.visible <= first /\ first + Lesser(size, m.height) <= r.visible + m.height
  BY <1>1, <1>2, <1>3, RevealShows
<1>5. r.maximum = m.maximum /\ r.height = m.height /\ r.visible = Lesser(r.requested, r.maximum)
  BY <1>2, RevealedType
<1> HIDE DEF r
<1>6. Shows(r, rows, extent, first, size)
  BY <1>2, <1>4, <1>5 DEF Shows, Fits
<1>7. QED
  BY <1>6 DEF r, m

\* Measuring the same text in the same window moves nothing.
LEMMA MeasureShows ==
  ASSUME NEW v \in Viewports, NEW rows \in Nat, NEW extent \in 0..MaxRow,
         NEW first, NEW size, Shows(v, rows, extent, first, size)
  PROVE  Shows(Measured(v, rows, extent), rows, extent, first, size)
BY DEF Shows, Fits, Measured

\* The index that Tab computes is one of the graph's.
LEMMA Around ==
  ASSUME NEW n \in Nat \ {0}, NEW a \in Nat PROVE a % n \in 0..(n - 1)
OBVIOUS

\* Where a card is.
LEMMA CardOnGraph ==
  ASSUME Typed, graph \in Graphs
  PROVE  /\ Count(graph) \in Nat \ {0} /\ selected \in 0..(Count(graph) - 1)
         /\ graph.width \in 0..MaxRow /\ graph.height \in 0..MaxRow
         /\ graph.x[selected] \in Nat /\ graph.x[selected] + CardWidth <= graph.width
         /\ graph.y[selected] \in Nat /\ graph.y[selected] + CardHeight <= graph.height
<1>1. Count(graph) \in Nat \ {0}
  BY GraphAssumption DEF Count
<1>2. selected \in 0..(Count(graph) - 1)
  BY <1>1 DEF Typed
<1>3. QED
  BY <1>1, <1>2, GraphAssumption DEF Count
-----------------------------------------------------------------------------
(***************************************************************************)
(* Drawing.                                                                *)
(***************************************************************************)
\* The map that is drawn has its type, and shows the selected card if it was
\* placed before or is focused now.
LEMMA MapDrawnShows ==
  ASSUME Typed, Placed, NEW size \in Sizes, MapVisible(size)
  PROVE  LET map == MapDrawn(size)
         IN  /\ map \in Maps /\ map.focus = FALSE /\ graph \in Graphs
             /\ map.width = MapWidth(size) /\ map.height = MapHeight(size)
             /\ ~(panned /\ ~Focused(size)) =>
                  /\ Shows(map.horizontal, graph.width, map.width, graph.x[selected], CardWidth)
                  /\ Shows(map.vertical, graph.height, map.height, graph.y[selected], CardHeight)
<1> DEFINE across == Measured(spatial.horizontal, graph.width, MapWidth(size))
           down   == Measured(spatial.vertical, graph.height, MapHeight(size))
           map    == MapDrawn(size)
<1>1. graph \in Graphs
  BY DEF Typed, MapVisible
<1>2. /\ MapWidth(size) \in 0..MaxRow /\ MapWidth(size) > 0
      /\ MapHeight(size) \in 0..MaxRow /\ MapHeight(size) > 0
  BY SizeAssumption, MaxRowIsPositive DEF MapVisible, MapWidth, MapHeight
<1>3. spatial.horizontal \in Viewports /\ spatial.vertical \in Viewports
  BY DEF Typed, Maps
<1>4. /\ graph.width \in 0..MaxRow /\ graph.height \in 0..MaxRow
      /\ graph.x[selected] \in Nat /\ graph.x[selected] + CardWidth <= graph.width
      /\ graph.y[selected] \in Nat /\ graph.y[selected] + CardHeight <= graph.height
  BY <1>1, CardOnGraph
<1>5. graph.width \in Nat /\ graph.height \in Nat
  BY <1>4, MaxRowIsPositive
<1>6. CardWidth \in Nat /\ CardHeight \in Nat
  BY SizeAssumption
<1>7. across \in Viewports /\ down \in Viewports
  BY <1>2, <1>3, <1>5, MeasuredType
<1>8. map = [horizontal |-> IF Focused(size) THEN Revealed(across, graph.x[selected], CardWidth)
                            ELSE across,
             vertical   |-> IF Focused(size) THEN Revealed(down, graph.y[selected], CardHeight)
                            ELSE down,
             focus |-> FALSE, width |-> MapWidth(size), height |-> MapHeight(size)]
  BY DEF MapDrawn
<1>9. CASE Focused(size)
  <2>1. /\ Shows(Revealed(across, graph.x[selected], CardWidth),
                 graph.width, MapWidth(size), graph.x[selected], CardWidth)
        /\ Shows(Revealed(down, graph.y[selected], CardHeight),
                 graph.height, MapHeight(size), graph.y[selected], CardHeight)
    BY <1>2, <1>3, <1>4, <1>6, FocusShows
  <2> HIDE DEF across, down
  <2>2. /\ Revealed(across, graph.x[selected], CardWidth) \in Viewports
        /\ Revealed(down, graph.y[selected], CardHeight) \in Viewports
    BY <1>4, <1>6, <1>7, RevealedType
  <2>3. QED
    BY <1>1, <1>2, <1>8, <1>9, <2>1, <2>2 DEF Maps
<1>10. CASE ~Focused(size)
  <2>1. /\ ~spatial.focus /\ spatial.width = MapWidth(size) /\ spatial.height = MapHeight(size)
    BY <1>10 DEF Focused
  <2>2. ~panned => /\ Shows(across, graph.width, MapWidth(size), graph.x[selected], CardWidth)
                   /\ Shows(down, graph.height, MapHeight(size), graph.y[selected], CardHeight)
    BY <1>2, <1>3, <1>5, <2>1, MeasureShows DEF Placed
  <2> HIDE DEF across, down
  <2>3. QED
    BY <1>1, <1>2, <1>7, <1>8, <1>10, <2>2 DEF Maps
<1>11. QED
  BY <1>9, <1>10

LEMMA MapDrawKeeps == MapInv /\ Draw => MapInv'
<1> SUFFICES ASSUME MapInv, Draw PROVE MapInv'
  OBVIOUS
<1>1. Typed /\ Placed
  BY DEF MapInv
<1>2. PICK size \in Sizes :
        /\ spatialVisible' = IF open THEN MapVisible(size) ELSE spatialVisible
        /\ CASE ~open                       -> DrawOther
             [] open /\ MapVisible(size)    -> DrawMap(size)
             [] open /\ ~MapVisible(size)   -> DrawList(size)
  BY DEF Draw
<1>3. /\ turn' = "select"
      /\ UNCHANGED <<open, readable, reading, graphMode, spatialMode, graph, selected>>
  BY DEF Draw
<1>4. open \in BOOLEAN
  BY <1>1 DEF Typed
<1>5. CASE open /\ MapVisible(size)
  <2>1. DrawMap(size)
    BY <1>2, <1>5
  <2> DEFINE map == MapDrawn(size)
  <2>2. /\ spatial' = map /\ panned' = (panned /\ ~Focused(size)) /\ UNCHANGED search
        /\ frame'.what = "map"
    BY <2>1 DEF DrawMap
  <2>3. /\ map \in Maps /\ map.focus = FALSE /\ graph \in Graphs
        /\ ~panned' =>
             /\ Shows(map.horizontal, graph.width, map.width, graph.x[selected], CardWidth)
             /\ Shows(map.vertical, graph.height, map.height, graph.y[selected], CardHeight)
    BY <1>1, <1>5, <2>2, MapDrawnShows
  <2> HIDE DEF map
  <2>4. Typed'
    BY <1>1, <1>3, <2>2, <2>3 DEF Typed, Count
  <2>5. Placed'
    BY <1>3, <2>2, <2>3 DEF Placed
  <2>6. Routed'
    BY <1>2, <1>3, <1>5, <2>2 DEF Routed, MapVisible
  <2>7. MapShowsSelection'
    BY <1>3, <2>2, <2>3 DEF MapShowsSelection, Shows
  <2>8. QED
    BY <2>4, <2>5, <2>6, <2>7 DEF MapInv
<1>6. CASE open /\ ~MapVisible(size)
  <2>1. DrawList(size)
    BY <1>2, <1>6
  <2>2. frame'.what = "list" /\ UNCHANGED <<spatial, panned>>
    BY <2>1 DEF DrawList
  <2>3. Typed' /\ Placed'
    BY <1>1, <1>3, <2>2 DEF Typed, Placed, Count
  <2>4. Routed' /\ MapShowsSelection'
    BY <1>2, <1>3, <1>6, <2>2 DEF Routed, MapShowsSelection
  <2>5. QED
    BY <2>3, <2>4 DEF MapInv
<1>7. CASE ~open
  <2>1. DrawOther
    BY <1>2, <1>7
  <2>2. frame'.what = "nothing" /\ UNCHANGED <<spatial, panned>>
    BY <2>1 DEF DrawOther
  <2>3. Typed' /\ Placed'
    BY <1>1, <1>3, <2>2 DEF Typed, Placed, Count
  <2>4. Routed' /\ MapShowsSelection'
    BY <1>3, <1>7, <2>2 DEF Routed, MapShowsSelection
  <2>5. QED
    BY <2>3, <2>4 DEF MapInv
<1>8. QED
  BY <1>4, <1>5, <1>6, <1>7
-----------------------------------------------------------------------------
(***************************************************************************)
(* The other events, which all lead to a drawing.                          *)
(***************************************************************************)
LEMMA NewMapType == NewMap \in Maps /\ NewMap.focus
BY MaxRowIsPositive DEF NewMap, Maps, AtTop, Viewports

\* What an event must show.
LEMMA MapTurnKeeps ==
  ASSUME Typed', Turn, Placed' PROVE MapInv'
BY DEF MapInv, Turn, Routed, MapShowsSelection, Drawn

\* An event that leaves the map, the graph and the selection alone.
Untouched == UNCHANGED <<graph, selected, spatial, panned>>

LEMMA UntouchedKeeps ==
  ASSUME MapInv, Turn, Untouched, open' \in BOOLEAN PROVE MapInv'
<1>1. Typed' /\ Placed'
  BY DEF MapInv, Typed, Placed, Count, Untouched, Turn
<1>2. QED
  BY <1>1, MapTurnKeeps

\* An event that clears the content.
LEMMA ClearKeeps ==
  ASSUME Turn, ClearRead, open' \in BOOLEAN PROVE MapInv'
<1>1. spatial' \in Maps /\ spatial'.focus
  BY NewMapType DEF ClearRead
<1>2. Typed' /\ Placed'
  BY <1>1 DEF ClearRead, Typed, Placed, Turn
<1>3. QED
  BY <1>2, MapTurnKeeps

LEMMA GraphArrivesKeeps == MapInv /\ GraphArrives => MapInv'
<1> SUFFICES ASSUME MapInv, GraphArrives PROVE MapInv'
  OBVIOUS
<1>1. Turn /\ UNCHANGED open /\ open \in BOOLEAN
  BY DEF GraphArrives, Event, modes, MapInv, Typed
<1>2. CASE ClearRead
  BY <1>1, <1>2, ClearKeeps
<1>3. CASE graph' \in Graphs /\ spatial' = NewMap /\ selected' = 0 /\ panned' = FALSE
  <2>1. Typed' /\ Placed'
    BY <1>1, <1>3, NewMapType DEF Typed, Placed, Turn
  <2>2. QED
    BY <1>1, <2>1, MapTurnKeeps
<1>4. QED
  BY <1>2, <1>3 DEF GraphArrives

LEMMA KeySelectKeeps == MapInv /\ KeySelect => MapInv'
<1> SUFFICES ASSUME MapInv, KeySelect PROVE MapInv'
  OBVIOUS
<1>1. Typed /\ graph \in Graphs
  BY DEF MapInv, Typed, KeySelect
<1>2. Count(graph) \in Nat \ {0} /\ selected \in 0..(Count(graph) - 1)
  BY <1>1, CardOnGraph
<1>3. PICK step \in {1, Count(graph) - 1} : selected' = (selected + step) % Count(graph)
  BY DEF KeySelect
<1>4. selected + step \in Nat
  BY <1>2, <1>3
<1>5. selected' \in 0..(Count(graph) - 1)
  BY <1>2, <1>3, <1>4, Around
<1>6. /\ UNCHANGED <<graph, open>> /\ Turn /\ panned' = FALSE
      /\ spatial' = FocusSelected
  BY DEF KeySelect, modes, Key, Act
<1>7. spatial' \in Maps /\ spatial'.focus
  BY <1>1, <1>6 DEF Typed, Maps, FocusSelected
<1>8. Typed' /\ Placed'
  BY <1>1, <1>5, <1>6, <1>7 DEF Typed, Placed, Turn, Count
<1>9. QED
  BY <1>6, <1>8, MapTurnKeeps

\* Panning: Home asks for the card again, other keys are the user's.
LEMMA MoveMapKeeps ==
  ASSUME MapInv, Turn, NEW key \in Moves \cup {"Left", "Right"}, MoveMap(key),
         UNCHANGED <<graph, selected, open>>
  PROVE  MapInv'
<1>1. Typed
  BY DEF MapInv
<1>2. spatial.horizontal \in Viewports /\ spatial.vertical \in Viewports
  BY <1>1 DEF Typed, Maps
<1>3. ASSUME NEW move \in Moves
      PROVE  Handled(spatial.horizontal, move) \in Viewports
             /\ Handled(spatial.vertical, move) \in Viewports
  BY <1>2, HandledType
<1>4. Panned(key) \in Maps
  <2>1. "Up" \in Moves /\ "Down" \in Moves
    BY DEF Moves
  <2>2. CASE key = "Left"
    BY <1>1, <1>3, <2>1, <2>2 DEF Panned, Typed, Maps
  <2>3. CASE key = "Right"
    BY <1>1, <1>3, <2>1, <2>3 DEF Panned, Typed, Maps
  <2>4. CASE key = "Home"
    BY <1>1, <2>4 DEF Panned, Typed, Maps
  <2>5. CASE key \notin {"Left", "Right", "Home"}
    <3>1. key \in Moves
      BY <2>5
    <3>2. Panned(key) = [spatial EXCEPT !.vertical = Handled(@, key)]
      BY <2>5 DEF Panned
    <3>3. QED
      BY <1>1, <1>3, <3>1, <3>2 DEF Typed, Maps
  <2>6. QED
    BY <2>2, <2>3, <2>4, <2>5
<1>5. ~panned' => spatial'.focus
  BY <1>1 DEF MoveMap, Panned, Typed, Maps
<1>6. spatial' \in Maps /\ panned' \in BOOLEAN
  BY <1>4 DEF MoveMap
<1>7. Typed' /\ Placed'
  BY <1>1, <1>5, <1>6 DEF Typed, Placed, Turn, Count
<1>8. QED
  BY <1>7, MapTurnKeeps

LEMMA RefreshKeeps ==
  ASSUME MapInv, Turn, NEW mode, Refresh(mode), open' \in BOOLEAN PROVE MapInv'
<1>1. CASE ClearRead
  BY <1>1, ClearKeeps
<1>2. CASE Untouched
  BY <1>2, UntouchedKeeps
<1>3. QED
  BY <1>1, <1>2 DEF Refresh, Untouched

LEMMA MapStepKeeps == MapInv /\ [Next]_vars => MapInv'
<1> SUFFICES ASSUME MapInv, [Next]_vars PROVE MapInv'
  OBVIOUS
<1> open \in BOOLEAN
  BY DEF MapInv, Typed
<1>1. CASE Draw
  BY <1>1, MapDrawKeeps
<1>2. CASE GraphArrives
  BY <1>2, GraphArrivesKeeps
<1>3. CASE SummaryArrives \/ Expires \/ KeyMap \/ Redraw \/ KeySearch \/ KeyEdit
  <2>1. Turn /\ Untouched /\ UNCHANGED open
    BY <1>3 DEF SummaryArrives, Expires, KeyMap, Redraw, KeySearch, KeyEdit, Event, Key, Act,
                Untouched, modes, views, content
  <2>2. QED
    BY <2>1, UntouchedKeeps
<1>4. CASE TaskUpdated \/ KeyGraph \/ KeyCancel \/ KeyClose
  <2>1. Turn /\ ClearRead /\ open' \in BOOLEAN
    BY <1>4 DEF TaskUpdated, KeyGraph, KeyCancel, KeyClose, Event, Key, Act, modes
  <2>2. QED
    BY <2>1, ClearKeeps
<1>5. CASE KeyRead
  <2>1. Turn /\ Refresh(graphMode) /\ open' \in BOOLEAN
    BY <1>5 DEF KeyRead, Act
  <2>2. QED
    BY <2>1, RefreshKeeps
<1>6. CASE KeySelect
  BY <1>6, KeySelectKeeps
<1>7. CASE KeyMove \/ MouseWheel
  <2>1. Turn /\ UNCHANGED <<graph, selected, open>>
    BY <1>7 DEF KeyMove, MouseWheel, Key, Act, content, modes
  <2>2. CASE \E key \in Moves \cup {"Left", "Right"} : MoveMap(key)
    BY <2>1, <2>2, MoveMapKeeps
  <2>3. CASE \E key \in Moves : MoveText(key)
    <3>1. Untouched
      BY <2>1, <2>3 DEF MoveText, Untouched
    <3>2. QED
      BY <2>1, <3>1, UntouchedKeeps
  <2>4. QED
    BY <1>7, <2>2, <2>3 DEF KeyMove, MouseWheel, Wheel, Moves
<1>8. CASE UNCHANGED vars
  BY <1>8 DEF vars, content, modes, views, history, MapInv, Typed, Placed, Routed,
              MapShowsSelection, Drawn, Count
<1>9. QED
  BY <1>1, <1>2, <1>3, <1>4, <1>5, <1>6, <1>7, <1>8 DEF Next, Keys

LEMMA MapInitHolds == Init => MapInv
BY NewMapType DEF Init, MapInv, Typed, Placed, Routed, MapShowsSelection, Drawn

LEMMA MapInvariance == Spec => []MapInv
BY MapInitHolds, MapStepKeeps, PTL DEF Spec
-----------------------------------------------------------------------------
(***************************************************************************)
(* The inspector's text, for every text, graph and size.  How many rows a  *)
(* text takes is recursive, and which line the k-th match is in is a choice: *)
(* both are proved by induction, in the form that a non-empty set of numbers *)
(* has a least element.                                                    *)
(***************************************************************************)
\* Every non-empty set of numbers has a least one.
LEMMA LeastNumber ==
  ASSUME NEW T, T \subseteq Nat, T # {}
  PROVE  \E x \in T : \A y \in T : x <= y
<1>1. PICK x \in T : \A y \in T : ~(<<y, x>> \in OpToRel(<, Nat))
  BY NatLessThanWellFounded, WFMin
<1>2. \A y \in T : ~(y < x)
  BY <1>1 DEF OpToRel
<1> QED
  BY <1>2

\* Induction, for a set of numbers.
LEMMA NumbersByInduction ==
  ASSUME NEW S, 0 \in S, \A n \in Nat : n \in S => n + 1 \in S
  PROVE  Nat \subseteq S
<1> SUFFICES ASSUME Nat \ S # {} PROVE FALSE
  OBVIOUS
<1>1. PICK x \in Nat \ S : \A y \in Nat \ S : x <= y
  BY LeastNumber
<1>2. x - 1 \in Nat /\ x - 1 \in S
  BY <1>1
<1> QED
  BY <1>1, <1>2

\* Every line takes a row.
LEMMA QuotientIsPositive ==
  ASSUME NEW n \in Nat, NEW d \in Nat \ {0}, n >= d
  PROVE  n \div d \in Nat \ {0}
OBVIOUS

LEMMA LineTakesRows ==
  ASSUME NEW line \in TextLine, NEW width \in Nat \ {0}
  PROVE  Rows(line, width) \in Nat \ {0}
<1>1. line.cells \in Nat
  BY DEF TextLine
<1>2. CASE line.cells = 0
  BY <1>2 DEF Rows
<1>3. CASE line.cells # 0
  <2>1. line.cells + width - 1 \in Nat /\ line.cells + width - 1 >= width
    BY <1>1, <1>3
  <2> QED
    BY <1>3, <2>1, QuotientIsPositive DEF Rows
<1> QED
  BY <1>2, <1>3

IsRows(f, lines, width, m) ==
  f = [i \in 0..m |-> IF i = 0 THEN 0 ELSE f[i - 1] + Rows(lines[i], width)]

\* The recursion of RowsUpTo is well defined.
LEMMA RowsExist ==
  ASSUME NEW lines \in Seq(TextLine), NEW width \in Nat \ {0}
  PROVE  \E f \in [0..Len(lines) -> Nat] : IsRows(f, lines, width, Len(lines))
<1> DEFINE S == {m \in Nat : m <= Len(lines) =>
                   \E f \in [0..m -> Nat] : IsRows(f, lines, width, m)}
<1>1. 0 \in S
  <2> DEFINE f == [i \in 0..0 |-> 0]
  <2>1. f \in [0..0 -> Nat] /\ IsRows(f, lines, width, 0)
    BY DEF IsRows
  <2> QED
    BY <2>1
<1>2. ASSUME NEW m \in Nat, m \in S PROVE m + 1 \in S
  <2> SUFFICES ASSUME m + 1 <= Len(lines)
               PROVE  \E g \in [0..m + 1 -> Nat] : IsRows(g, lines, width, m + 1)
    OBVIOUS
  <2>1. PICK f \in [0..m -> Nat] : IsRows(f, lines, width, m)
    BY <1>2
  <2> DEFINE g == [i \in 0..m + 1 |-> IF i <= m THEN f[i]
                                      ELSE f[m] + Rows(lines[m + 1], width)]
  <2>2. Rows(lines[m + 1], width) \in Nat
    BY LineTakesRows
  <2>3. g \in [0..m + 1 -> Nat]
    BY <2>2
  <2>4. ASSUME NEW i \in 0..m + 1
        PROVE  g[i] = IF i = 0 THEN 0 ELSE g[i - 1] + Rows(lines[i], width)
    BY <2>1 DEF IsRows
  <2> HIDE DEF g
  <2>5. IsRows(g, lines, width, m + 1)
    BY <2>3, <2>4 DEF IsRows
  <2> QED
    BY <2>3, <2>5
<1>3. Nat \subseteq S
  <2> HIDE DEF S
  <2> QED
    BY <1>1, <1>2, NumbersByInduction
<1> QED
  BY <1>3

\* What RowsUpTo sums up: the rows of the first lines.
LEMMA RowsAre ==
  ASSUME NEW lines \in Seq(TextLine), NEW width \in Nat \ {0}
  PROVE  /\ \A i \in 0..Len(lines) : RowsUpTo(lines, width)[i] \in Nat
         /\ \A i \in 1..Len(lines) : RowsUpTo(lines, width)[i]
              = RowsUpTo(lines, width)[i - 1] + Rows(lines[i], width)
<1>1. PICK f \in [0..Len(lines) -> Nat] : IsRows(f, lines, width, Len(lines))
  BY RowsExist
<1>2. IsRows(RowsUpTo(lines, width), lines, width, Len(lines))
  BY <1>1 DEF RowsUpTo, IsRows
<1> DEFINE r == RowsUpTo(lines, width)
<1>3. \A i \in 0..Len(lines) : r[i] = IF i = 0 THEN 0 ELSE r[i - 1] + Rows(lines[i], width)
  BY <1>2 DEF IsRows
<1> HIDE DEF r
<1> DEFINE S == {i \in Nat : i <= Len(lines) => r[i] \in Nat}
<1>4. 0 \in S
  BY <1>3
<1>5. ASSUME NEW i \in Nat, i \in S PROVE i + 1 \in S
  <2> SUFFICES ASSUME i + 1 <= Len(lines) PROVE r[i + 1] \in Nat
    OBVIOUS
  <2>1. Rows(lines[i + 1], width) \in Nat
    BY LineTakesRows
  <2> QED
    BY <1>3, <1>5, <2>1
<1>6. \A i \in 0..Len(lines) : r[i] \in Nat
  <2>1. Nat \subseteq S
    <3> HIDE DEF S
    <3> QED
      BY <1>4, <1>5, NumbersByInduction
  <2> QED
    BY <2>1
<1> QED
  BY <1>3, <1>6 DEF r

\* A line starts in a row of the text.
LEMMA RowIsInText ==
  ASSUME NEW lines \in Seq(TextLine), NEW width \in Nat \ {0}, NEW i \in 1..Len(lines)
  PROVE  /\ RowOfLine(lines, i, width) \in Nat /\ RowsOf(lines, width) \in Nat
         /\ RowOfLine(lines, i, width) < RowsOf(lines, width)
<1> DEFINE r == RowsUpTo(lines, width)
<1>1. \A n \in 0..Len(lines) : r[n] \in Nat
  BY RowsAre
<1>2. ASSUME NEW n \in 1..Len(lines) PROVE r[n - 1] < r[n]
  <2>1. Rows(lines[n], width) \in Nat \ {0}
    BY LineTakesRows
  <2>2. r[n] = r[n - 1] + Rows(lines[n], width) /\ r[n - 1] \in Nat
    BY <1>1, RowsAre
  <2> HIDE DEF r
  <2> QED
    BY <2>1, <2>2
<1>3. RowOfLine(lines, i, width) = r[i - 1] /\ RowsOf(lines, width) = r[Len(lines)]
  BY DEF RowOfLine, RowsOf
<1> HIDE DEF r
<1> DEFINE S == {n \in Nat : i + n <= Len(lines) => r[i - 1] < r[i + n]}
<1>4. 0 \in S
  BY <1>2
<1>5. ASSUME NEW n \in Nat, n \in S PROVE n + 1 \in S
  <2> SUFFICES ASSUME i + (n + 1) <= Len(lines) PROVE r[i - 1] < r[i + (n + 1)]
    OBVIOUS
  <2>1. i + (n + 1) \in 1..Len(lines) /\ (i + (n + 1)) - 1 = i + n
    OBVIOUS
  <2>2. r[i + n] < r[i + (n + 1)]
    BY <1>2, <2>1
  <2>3. r[i - 1] \in Nat /\ r[i + n] \in Nat /\ r[i + (n + 1)] \in Nat
    BY <1>1
  <2> QED
    BY <1>5, <2>2, <2>3
<1>6. Nat \subseteq S
  <2> HIDE DEF S
  <2> QED
    BY <1>4, <1>5, NumbersByInduction
<1>7. Len(lines) - i \in S /\ i + (Len(lines) - i) = Len(lines)
  BY <1>6
<1> QED
  BY <1>1, <1>3, <1>7

\* Two texts, one after the other.
LEMMA JoinedAre ==
  ASSUME NEW S, NEW s \in Seq(S), NEW t \in Seq(S)
  PROVE  /\ s \o t \in Seq(S) /\ Len(s \o t) = Len(s) + Len(t)
         /\ \A i \in 1..Len(s) : (s \o t)[i] = s[i]
         /\ \A i \in 1..Len(t) : (s \o t)[Len(s) + i] = t[i]
  OBVIOUS

LEMMA FunctionIsSeq ==
  ASSUME NEW S, NEW n \in Nat, NEW f \in [1..n -> S]
  PROVE  f \in Seq(S) /\ Len(f) = n
OBVIOUS

LEMMA SingleIsSeq ==
  ASSUME NEW S, NEW e \in S
  PROVE  <<e>> \in Seq(S) /\ Len(<<e>>) = 1 /\ <<>> \in Seq(S)
OBVIOUS

\* A line with its mark is a line, and starts with the mark.
LEMMA MarkedIsALine ==
  ASSUME NEW line \in TextLine, NEW mark \in Symbols
  PROVE  /\ Marked(line, mark) \in TextLine
         /\ Marked(line, mark).letters # <<>> /\ Head(Marked(line, mark).letters) = mark
<1>1. line.letters \in Seq(Symbols)
  BY DEF TextLine
<1>2. <<mark>> \o line.letters \in Seq(Symbols)
  BY <1>1, SingleIsSeq, JoinedAre
<1>3. Marked(line, mark) = [line EXCEPT !.letters = <<mark>> \o line.letters]
  BY DEF Marked
<1>4. Marked(line, mark).letters = <<mark>> \o line.letters
  BY <1>3 DEF TextLine
<1>5. Marked(line, mark) \in TextLine
  BY <1>2, <1>3 DEF TextLine
<1>6. Len(<<mark>> \o line.letters) = 1 + Len(line.letters) /\ (<<mark>> \o line.letters)[1] = mark
  BY <1>1
<1>7. <<mark>> \o line.letters # <<>> /\ Head(<<mark>> \o line.letters) = mark
  BY <1>1, <1>2, <1>6
<1> QED
  BY <1>4, <1>5, <1>7

\* The types of what is drawn.
Showable ==
  /\ graphMode \in BOOLEAN /\ summary \in Summaries \cup {Unavailable}
  /\ graph \in Graphs \cup {NoGraph}
  /\ graph \in Graphs => selected \in 0..(Count(graph) - 1)

\* A graph has its name in it, NoGraph has none.
LEMMA NoGraphIsNone == NoGraph \notin Graphs
<1>1. NoGraph.names = <<>> /\ Len(<<>>) = 0
  BY DEF NoGraph
<1> QED
  BY <1>1, GraphAssumption

\* The list of a graph's steps: one line each, the selected one is marked.
LEMMA StepLinesAre ==
  ASSUME NEW g \in Graphs, NEW at \in 0..(Count(g) - 1)
  PROVE  /\ StepLines(g, at) \in Seq(TextLine) /\ Len(StepLines(g, at)) = Count(g)
         /\ StepLines(g, at)[at + 1].letters # <<>>
         /\ Head(StepLines(g, at)[at + 1].letters) = ">"
<1>1. Count(g) \in Nat \ {0} /\ g.names \in Seq(TextLine)
  BY GraphAssumption, TextAssumption DEF Count
<1>2. ASSUME NEW i \in 1..Count(g) PROVE g.names[i] \in TextLine
  BY <1>1 DEF Count
<1>3. ASSUME NEW i \in 1..Count(g)
      PROVE  Marked(g.names[i], IF i = at + 1 THEN ">" ELSE " ") \in TextLine
  <2>1. ">" \in Symbols /\ " " \in Symbols /\ g.names[i] \in TextLine
    BY <1>2 DEF Symbols
  <2>2. CASE i = at + 1
    BY <2>1, <2>2, MarkedIsALine
  <2>3. CASE i # at + 1
    BY <2>1, <2>3, MarkedIsALine
  <2> QED
    BY <2>2, <2>3
<1>4. StepLines(g, at) \in [1..Count(g) -> TextLine]
  BY <1>3 DEF StepLines
<1>5. at + 1 \in 1..Count(g)
  BY <1>1
<1>6. StepLines(g, at)[at + 1] = Marked(g.names[at + 1], ">")
  BY <1>5 DEF StepLines
<1>7. Marked(g.names[at + 1], ">").letters # <<>>
      /\ Head(Marked(g.names[at + 1], ">").letters) = ">"
  <2>1. ">" \in Symbols /\ g.names[at + 1] \in TextLine
    BY <1>2, <1>5 DEF Symbols
  <2> QED
    BY <2>1, MarkedIsALine
<1> QED
  BY <1>1, <1>4, <1>6, <1>7, FunctionIsSeq

IsMarked(lines, i) == lines[i].letters # <<>> /\ Head(lines[i].letters) = ">"

\* A marked line stays one when a text is put before or behind it.
LEMMA JoinedStaysMarked ==
  ASSUME NEW s \in Seq(TextLine), NEW t \in Seq(TextLine)
  PROVE  /\ (\E i \in 1..Len(s) : IsMarked(s, i)) => \E i \in 1..Len(s \o t) : IsMarked(s \o t, i)
         /\ (\E i \in 1..Len(t) : IsMarked(t, i)) => \E i \in 1..Len(s \o t) : IsMarked(s \o t, i)
<1>1. /\ Len(s \o t) = Len(s) + Len(t)
      /\ \A i \in 1..Len(s) : (s \o t)[i] = s[i]
      /\ \A i \in 1..Len(t) : (s \o t)[Len(s) + i] = t[i]
  BY JoinedAre
<1>2. ASSUME NEW i \in 1..Len(s), IsMarked(s, i)
      PROVE  i \in 1..Len(s \o t) /\ IsMarked(s \o t, i)
  BY <1>1, <1>2 DEF IsMarked
<1>3. ASSUME NEW i \in 1..Len(t), IsMarked(t, i)
      PROVE  Len(s) + i \in 1..Len(s \o t) /\ IsMarked(s \o t, Len(s) + i)
  <2>1. (s \o t)[Len(s) + i] = t[i]
    BY <1>1
  <2>2. Len(s) + i \in 1..Len(s \o t)
    BY <1>1
  <2> QED
    BY <1>3, <2>1, <2>2 DEF IsMarked
<1> QED
  BY <1>2, <1>3

\* What is drawn is a text, and a graph's list has its mark.
LEMMA BodyIs ==
  ASSUME Showable
  PROVE  /\ Body \in Seq(TextLine)
         /\ graphMode /\ graph \in Graphs => \E i \in 1..Len(Body) : IsMarked(Body, i)
<1>1. CASE graphMode /\ graph \in Graphs
  <2> DEFINE steps == StepLines(graph, selected)
             behind == graph.details[selected]
  <2>1. selected \in 0..(Count(graph) - 1)
    BY <1>1 DEF Showable
  <2>2. steps \in Seq(TextLine) /\ Len(steps) = Count(graph) /\ IsMarked(steps, selected + 1)
    BY <1>1, <2>1, StepLinesAre DEF IsMarked
  <2>3. graph.above \in Seq(TextLine) /\ behind \in Seq(TextLine)
    BY <1>1, <2>1, TextAssumption DEF Count
  <2>4. selected + 1 \in 1..Len(steps)
    BY <1>1, <2>1, <2>2, GraphAssumption DEF Count
  <2>5. Body = graph.above \o steps \o behind
    BY <1>1, NoGraphIsNone DEF Body
  <2> HIDE DEF steps, behind
  <2>6. graph.above \o steps \in Seq(TextLine)
    BY <2>2, <2>3, JoinedAre
  <2>7. graph.above \o steps \o behind \in Seq(TextLine)
    BY <2>3, <2>6, JoinedAre
  <2>8. \E i \in 1..Len(graph.above \o steps) : IsMarked(graph.above \o steps, i)
    BY <2>2, <2>3, <2>4, JoinedStaysMarked
  <2>9. \E i \in 1..Len(graph.above \o steps \o behind) :
          IsMarked(graph.above \o steps \o behind, i)
    BY <2>3, <2>6, <2>8, JoinedStaysMarked
  <2> QED
    BY <2>5, <2>7, <2>9
<1>2. CASE graphMode /\ graph = NoGraph
  BY <1>2, NoGraphIsNone, TextAssumption DEF Body
<1>3. CASE ~graphMode
  <2>1. Body = summary /\ summary \in Seq(TextLine)
    BY <1>3, TextAssumption DEF Body, Showable
  <2> QED
    BY <1>3, <2>1
<1> QED
  BY <1>1, <1>2, <1>3 DEF Showable

LEMMA TextIs ==
  ASSUME Showable
  PROVE  /\ Text \in Seq(TextLine)
         /\ graphMode /\ graph \in Graphs => \E i \in 1..Len(Text) : IsMarked(Text, i)
<1> DEFINE note == IF spatialMode /\ graph # NoGraph /\ ~search.open THEN <<MapNote>> ELSE <<>>
           wait == IF reading THEN <<ReadingNote>> ELSE <<>>
           help == Help[graphMode]
<1>1. note \in Seq(TextLine) /\ wait \in Seq(TextLine)
  <2>1. <<MapNote>> \in Seq(TextLine) /\ <<ReadingNote>> \in Seq(TextLine) /\ <<>> \in Seq(TextLine)
    BY TextAssumption, SingleIsSeq
  <2> QED
    BY <2>1
<1>2. help \in Seq(TextLine)
  BY TextAssumption DEF Showable
<1>3. Body \in Seq(TextLine)
      /\ (graphMode /\ graph \in Graphs => \E i \in 1..Len(Body) : IsMarked(Body, i))
  BY BodyIs
<1>4. Text = note \o wait \o Body \o help
  BY DEF Text
<1> HIDE DEF note, wait, help
<1>5. note \o wait \in Seq(TextLine)
  BY <1>1, JoinedAre
<1>6. note \o wait \o Body \in Seq(TextLine)
  BY <1>3, <1>5, JoinedAre
<1>7. note \o wait \o Body \o help \in Seq(TextLine)
  BY <1>2, <1>6, JoinedAre
<1>8. ASSUME graphMode, graph \in Graphs
      PROVE  \E i \in 1..Len(note \o wait \o Body \o help) :
               IsMarked(note \o wait \o Body \o help, i)
  <2>1. \E i \in 1..Len(note \o wait \o Body) : IsMarked(note \o wait \o Body, i)
    BY <1>3, <1>5, <1>8, JoinedStaysMarked
  <2> QED
    BY <1>2, <1>6, <2>1, JoinedStaysMarked
<1> QED
  BY <1>4, <1>7, <1>8

\* The marked line is found.
LEMMA GraphRowIs ==
  ASSUME Showable
  PROVE  /\ GraphRow(Text) # 0 => GraphRow(Text) \in 1..Len(Text)
         /\ graphMode /\ graph \in Graphs => GraphRow(Text) # 0
<1>1. /\ Text \in Seq(TextLine)
      /\ graphMode /\ graph \in Graphs => \E i \in 1..Len(Text) : IsMarked(Text, i)
  BY TextIs
<1> DEFINE lines == Text
           marked == {i \in DOMAIN lines : IsMarked(lines, i)}
<1>2. GraphRow(lines) = IF ~graphMode \/ marked = {} THEN 0
                        ELSE CHOOSE i \in marked : \A j \in marked : i <= j
  BY DEF GraphRow, IsMarked
<1> HIDE DEF lines
<1>3. DOMAIN lines = 1..Len(lines) /\ Len(lines) \in Nat
  BY <1>1 DEF lines
<1>4. marked \subseteq 1..Len(lines) /\ marked \subseteq Nat
  BY <1>3
<1>5. marked # {} => \E i \in marked : \A j \in marked : i <= j
  BY <1>4, LeastNumber
<1>6. marked # {} /\ graphMode => GraphRow(lines) \in marked
  <2> HIDE DEF marked
  <2> QED
    BY <1>2, <1>5
<1>7. GraphRow(lines) # 0 => GraphRow(lines) \in 1..Len(lines)
  BY <1>2, <1>4, <1>6
<1>8. graphMode /\ graph \in Graphs => marked # {}
  BY <1>1, <1>3 DEF lines
<1>9. graphMode /\ graph \in Graphs => GraphRow(lines) # 0
  BY <1>4, <1>6, <1>8
<1> QED
  BY <1>7, <1>9 DEF lines

\* The numbers of M that are less than x.
Below(M, x) == {j \in M : j < x}

\* The k-th number of a set of numbers.
LEMMA NthNumber ==
  ASSUME NEW n \in Nat, NEW M, M \subseteq 1..n, NEW k \in Nat, k < Cardinality(M)
  PROVE  \E i \in M : Cardinality(Below(M, i)) = k
<1> DEFINE T == {x \in Nat : k < Cardinality(Below(M, x))}
<1>0. IsFiniteSet(M)
  <2>1. IsFiniteSet(1..n)
    BY FS_Interval
  <2> QED
    BY <2>1, FS_Subset
<1>1. ASSUME NEW x PROVE IsFiniteSet(Below(M, x)) /\ Cardinality(Below(M, x)) \in Nat
  <2>1. Below(M, x) \subseteq M
    BY DEF Below
  <2>2. IsFiniteSet(Below(M, x))
    BY <1>0, <2>1, FS_Subset
  <2> QED
    BY <2>2, FS_CardinalityType
<1>2. Below(M, n + 1) = M
  <2>1. \A j \in M : j < n + 1
    OBVIOUS
  <2> QED
    BY <2>1 DEF Below
<1>3. Below(M, 0) = {}
  <2>1. \A j \in M : ~(j < 0)
    OBVIOUS
  <2> QED
    BY <2>1 DEF Below
<1>4. n + 1 \in T /\ T \subseteq Nat
  <2>1. k < Cardinality(Below(M, n + 1))
    BY <1>2
  <2> QED
    BY <2>1
<1>5. PICK x \in T : \A y \in T : x <= y
  <2> HIDE DEF T
  <2> QED
    BY <1>4, LeastNumber
<1>6. x \in Nat /\ k < Cardinality(Below(M, x))
  OBVIOUS
<1>7. x # 0
  BY <1>3, <1>6, FS_EmptySet
<1>8. x - 1 \in Nat /\ x - 1 \notin T
  BY <1>5, <1>6, <1>7
<1>9. Cardinality(Below(M, x - 1)) <= k
  BY <1>1, <1>8
<1>10. x - 1 \in M
  <2> SUFFICES ASSUME x - 1 \notin M PROVE FALSE
    OBVIOUS
  <2>1. \A j \in M : j < x <=> j < x - 1
    BY <1>6, <1>7
  <2>2. Below(M, x) = Below(M, x - 1)
    BY <2>1 DEF Below
  <2> QED
    BY <1>1, <1>6, <1>9, <2>2
<1>11. Below(M, x) = Below(M, x - 1) \cup {x - 1} /\ x - 1 \notin Below(M, x - 1)
  <2>1. \A j \in M : j < x <=> j < x - 1 \/ j = x - 1
    BY <1>6, <1>7
  <2>2. x - 1 < x /\ ~(x - 1 < x - 1)
    BY <1>6, <1>7
  <2>3. \A j : j \in Below(M, x) <=> j \in Below(M, x - 1) \cup {x - 1}
    BY <1>10, <2>1, <2>2 DEF Below
  <2> QED
    BY <2>2, <2>3 DEF Below
<1>12. Cardinality(Below(M, x)) = Cardinality(Below(M, x - 1)) + 1
  BY <1>1, <1>11, FS_AddElement
<1>13. Cardinality(Below(M, x - 1)) = k
  BY <1>1, <1>6, <1>9, <1>12
<1> QED
  BY <1>10, <1>13

\* A match that is counted is a line of the text.
LEMMA MatchIsALine ==
  ASSUME NEW lines \in Seq(TextLine), NEW query, NEW k \in Nat,
         k < Cardinality(Matching(lines, query))
  PROVE  MatchLine(lines, query, k) \in 1..Len(lines)
<1> DEFINE M == Matching(lines, query)
<1>1. M \subseteq 1..Len(lines)
  BY DEF Matching
<1> HIDE DEF M
<1>2. \E i \in M : Cardinality(Below(M, i)) = k
  <2>1. Len(lines) \in Nat /\ k < Cardinality(M)
    BY DEF M
  <2> QED
    BY <1>1, <2>1, NthNumber
<1>3. MatchLine(lines, query, k) \in M
  BY <1>2 DEF MatchLine, M, Below
<1> QED
  BY <1>1, <1>3

\* What is counted is a number.
LEMMA MatchesAreCounted ==
  ASSUME NEW lines \in Seq(TextLine), NEW query
  PROVE  Cardinality(Matching(lines, query)) \in Nat
<1>1. Matching(lines, query) \subseteq 1..Len(lines)
  BY DEF Matching
<1>2. IsFiniteSet(1..Len(lines))
  BY FS_Interval
<1> QED
  BY <1>1, <1>2, FS_Subset, FS_CardinalityType

\* What is drawn of a line in a window that reveals it.
LEMMA LineIsRevealed ==
  ASSUME NEW v \in Viewports, NEW lines \in Seq(TextLine), NEW width \in Nat \ {0},
         NEW height \in 0..MaxRow, height > 0, NEW line \in 1..Len(lines)
  PROVE  LET r   == Revealed(Measured(v, RowsOf(lines, width), height),
                             RowOfLine(lines, line, width), 1)
             row == RowOfLine(lines, line, width)
         IN  row < MaxRow => InWindow(r, row)
<1> DEFINE row  == RowOfLine(lines, line, width)
           rows == RowsOf(lines, width)
           m    == Measured(v, rows, height)
           r    == Revealed(m, row, 1)
<1>1. row \in Nat /\ rows \in Nat /\ row < rows
  BY RowIsInText
<1> HIDE DEF row, rows
<1>2. /\ m \in Viewports /\ m.height = height
      /\ m.maximum = Lesser(Minus(rows, height), MaxRow)
      /\ m.visible = Lesser(m.requested, m.maximum)
  BY <1>1, MeasuredType
<1> HIDE DEF m
<1> SUFFICES ASSUME row < MaxRow PROVE InWindow(r, row)
  BY DEF row, rows, m
<1>3. row + 1 <= MaxRow /\ row + 1 <= m.maximum + m.height
  BY <1>1, <1>2, MaxRowIsPositive DEF Lesser, Minus
<1>4. r.visible <= row /\ row + Lesser(1, m.height) <= r.visible + m.height
  BY <1>1, <1>2, <1>3, RevealShows
<1>5. r \in Viewports /\ r.height = m.height
  <2>1. m \in Viewports /\ row \in Nat /\ 1 \in Nat
    BY <1>1, <1>2
  <2> QED
    BY <2>1, RevealedType
<1>6. r.visible \in Nat
  BY <1>5, MaxRowIsPositive DEF Viewports
<1>7. Lesser(1, m.height) = 1
  BY <1>2, MaxRowIsPositive DEF Lesser
<1> HIDE DEF r
<1> QED
  BY <1>1, <1>2, <1>4, <1>5, <1>6, <1>7, MaxRowIsPositive DEF InWindow
-----------------------------------------------------------------------------
(***************************************************************************)
(* The invariant.  What was selected, chosen or scrolled to waits for the  *)
(* next list: a step with revealStep, a match with the search's reveal, and *)
(* the place as the row that is asked for, which only the user changes.    *)
(***************************************************************************)
Searches == [open : BOOLEAN, query : Seq(Letters), selected : Nat, matches : Nat,
             reveal : BOOLEAN]

\* The offset that a text of `rows' rows has in a frame of the given height.
OffsetOf(rows, height) ==
  Lesser(viewport.requested, Lesser(Minus(rows, height - 2), MaxRow))

\* A step that was selected waits for a list.
Selecting ==
  fresh /\ (turn = "draw" \/ frame.what # "list") =>
    revealStep /\ graphMode /\ graph \in Graphs /\ ~search.open

\* A match that was chosen waits for a list.
Editing == edited /\ turn = "draw" => search.open /\ search.reveal

\* The row that is asked for is the one the place was reached with.
Keeping == ~touched /\ place # Nowhere => OffsetOf(place.rows, place.height) = place.offset

HistoryType ==
  /\ fresh \in BOOLEAN /\ edited \in BOOLEAN /\ touched \in BOOLEAN
  /\ search \in Searches
  /\ viewport.visible = Lesser(viewport.requested, viewport.maximum)

ListInv ==
  /\ MapInv /\ ScreenTypeOK /\ HistoryType /\ Selecting /\ Editing /\ Keeping
  /\ ListShowsSelection /\ MatchIsRevealed /\ PlaceIsKept

\* The types that are not among the map's.
Modes == /\ readable \in BOOLEAN /\ reading \in BOOLEAN
         /\ graphMode \in BOOLEAN /\ spatialMode \in BOOLEAN /\ acts \in 0..Acts

Content == /\ spatialVisible \in BOOLEAN /\ revealStep \in BOOLEAN
           /\ summary \in Summaries \cup {Unavailable}

Position == /\ viewport \in Viewports /\ touched \in BOOLEAN
            /\ viewport.visible = Lesser(viewport.requested, viewport.maximum)

Finding == /\ search \in Searches /\ Len(search.query) <= MaxQuery
           /\ search.selected = 0 \/ search.selected < search.matches

Chosen == fresh \in BOOLEAN /\ edited \in BOOLEAN /\ Selecting /\ Editing

LEMMA TypesAre ==
  Typed => (ScreenTypeOK /\ HistoryType /\ Selecting /\ Editing
              <=> Modes /\ Content /\ Position /\ Finding /\ Chosen)
BY DEF Typed, Maps, ScreenTypeOK, HistoryType, Modes, Content, Position, Finding, Chosen

\* What can be drawn.
LEMMA StateIsShowable == ListInv => Showable
<1>1. ListInv /\ graph \in Graphs => selected \in 0..(Count(graph) - 1)
  BY CardOnGraph DEF ListInv, MapInv
<1> QED
  BY <1>1 DEF ListInv, ScreenTypeOK, Showable
-----------------------------------------------------------------------------
(***************************************************************************)
(* Drawing a list.                                                         *)
(***************************************************************************)
\* A row that is wanted is one of the text.
LEMMA WantedIsALine ==
  ASSUME Showable, HistoryType
  PROVE  /\ search.open => /\ Searched(Text) \in Searches /\ Searched(Text).open
                           /\ ~Searched(Text).reveal
                           /\ \/ Searched(Text).selected = 0
                              \/ Searched(Text).selected < Searched(Text).matches
                           /\ Searched(Text).query = search.query
                           /\ SelectedLine(Text, Searched(Text)) # 0 =>
                                SelectedLine(Text, Searched(Text)) \in 1..Len(Text)
         /\ Wanted # 0 => Wanted \in 1..Len(Text)
<1> DEFINE lines == Text
           found == Searched(lines)
           n     == Cardinality(Matching(lines, search.query))
<1>1. lines \in Seq(TextLine)
  BY TextIs
<1>2. /\ GraphRow(lines) # 0 => GraphRow(lines) \in 1..Len(lines)
  BY GraphRowIs
<1>3. Wanted = IF search.open
               THEN IF search.reveal THEN SelectedLine(lines, found) ELSE 0
               ELSE IF revealStep THEN GraphRow(lines) ELSE 0
  BY DEF Wanted
<1> HIDE DEF lines
<1>4. n \in Nat
  BY <1>1, MatchesAreCounted
<1>5. search \in Searches
  BY DEF HistoryType
<1>6. found = [search EXCEPT !.matches = n,
                             !.selected = Lesser(search.selected, Minus(n, 1)),
                             !.reveal = FALSE]
  BY DEF Searched
<1> HIDE DEF n
<1>7. /\ Lesser(search.selected, Minus(n, 1)) \in Nat
      /\ \/ Lesser(search.selected, Minus(n, 1)) = 0
         \/ Lesser(search.selected, Minus(n, 1)) < n
  BY <1>4, <1>5 DEF Searches, Lesser, Minus
<1>8. /\ found \in Searches /\ ~found.reveal /\ found.open = search.open
      /\ found.matches = n /\ found.query = search.query
      /\ found.selected = Lesser(search.selected, Minus(n, 1))
  BY <1>4, <1>5, <1>6, <1>7 DEF Searches
<1> HIDE DEF found
<1>9. SelectedLine(lines, found) # 0 => SelectedLine(lines, found) \in 1..Len(lines)
  <2> SUFFICES ASSUME found.open, found.matches > 0
               PROVE  SelectedLine(lines, found) \in 1..Len(lines)
    BY DEF SelectedLine
  <2>1. found.selected < n
    BY <1>4, <1>7, <1>8
  <2>2. found.selected \in Nat
    BY <1>7, <1>8
  <2>3. MatchLine(lines, found.query, found.selected) \in 1..Len(lines)
    BY <1>1, <1>8, <2>1, <2>2, MatchIsALine DEF n
  <2> QED
    BY <2>3 DEF SelectedLine
<1> QED
  BY <1>2, <1>3, <1>7, <1>8, <1>9 DEF lines, found

\* What a list frame has in its window.
LEMMA ListDrawnIs ==
  ASSUME Showable, HistoryType, viewport \in Viewports, NEW size \in Sizes
  PROVE  LET v == ListDrawn(size)
             rows == RowsOf(Text, size.width - 2)
         IN  /\ v \in Viewports /\ rows \in Nat
             /\ v.visible = Lesser(v.requested, v.maximum)
             /\ v.maximum = Lesser(Minus(rows, size.height - 2), MaxRow)
             /\ Wanted = 0 => v.requested = viewport.requested
             /\ Wanted # 0 => LET row == RowsUpTo(Text, size.width - 2)[Wanted - 1]
                              IN  row < MaxRow => InWindow(v, row)
<1> DEFINE lines == Text
           width == size.width - 2
           height == size.height - 2
           rows == RowsOf(lines, width)
           m == Measured(viewport, rows, height)
<1>1. lines \in Seq(TextLine)
  BY TextIs
<1>2. width \in Nat \ {0} /\ height \in 0..MaxRow /\ height > 0
  BY SizeAssumption, MaxRowIsPositive
<1>3. Wanted # 0 => Wanted \in 1..Len(lines)
  BY WantedIsALine
<1>4. ListDrawn(size) = IF Wanted = 0 THEN m ELSE Revealed(m, RowOfLine(lines, Wanted, width), 1)
  BY DEF ListDrawn
<1> HIDE DEF lines, width, height
<1>5. \A line \in 1..Len(lines) : RowOfLine(lines, line, width) \in Nat
  BY <1>1, <1>2, RowIsInText
<1>6. rows \in Nat
  BY <1>1, <1>2, RowsAre DEF RowsOf
<1>7. /\ m \in Viewports /\ m.height = height
      /\ m.maximum = Lesser(Minus(rows, height), MaxRow)
      /\ m.visible = Lesser(m.requested, m.maximum)
      /\ m.requested = viewport.requested
  <2> HIDE DEF rows
  <2>1. m.requested = viewport.requested
    BY DEF Measured
  <2> QED
    BY <1>2, <1>6, <2>1, MeasuredType
<1>8. CASE Wanted = 0
  BY <1>4, <1>6, <1>7, <1>8 DEF lines, width, height
<1>9. CASE Wanted # 0
  <2> DEFINE row == RowOfLine(lines, Wanted, width)
             v == Revealed(m, row, 1)
  <2>1. row < MaxRow => InWindow(v, row)
    BY <1>1, <1>2, <1>3, <1>9, LineIsRevealed
  <2>2. row \in Nat
    BY <1>3, <1>5, <1>9
  <2>3. RowsUpTo(Text, size.width - 2)[Wanted - 1] = row
    BY DEF RowOfLine, lines, width
  <2>4. ListDrawn(size) = v
    BY <1>4, <1>9
  <2> HIDE DEF row, m
  <2>5. /\ v \in Viewports /\ v.maximum = m.maximum
        /\ v.visible = Lesser(v.requested, v.maximum)
    BY <1>7, <2>2, RevealedType
  <2> HIDE DEF v
  <2> QED
    BY <1>6, <1>7, <1>9, <2>1, <2>3, <2>4, <2>5 DEF lines, width, height
<1> QED
  BY <1>8, <1>9

\* The row of the selected step in the list.
ListedRow == GraphRow(Text)

ListedInSight == ListedRow # 0 /\ LineInSight(ListedRow)

LEMMA SelectionIs ==
  ListShowsSelection <=> (Drawn /\ frame.what = "list" /\ fresh => ListedInSight)
BY DEF ListShowsSelection, ListedRow, ListedInSight

LEMMA SelectionIsThen ==
  ListShowsSelection' <=> (Drawn /\ frame.what = "list" /\ fresh => ListedInSight)'
BY SelectionIs, PTL

\* Drawing does not change the text.
LEMMA TextStays ==
  ASSUME UNCHANGED <<reading, graphMode, spatialMode, summary, graph, selected>>,
         search'.open = search.open
  PROVE  /\ Text' = Text /\ ListedRow' = ListedRow
<1>1. Body' = Body
  BY DEF Body, StepLines, Count, Marked
<1>2. Text' = Text
  BY <1>1 DEF Text
<1> QED
  BY <1>2 DEF GraphRow, ListedRow

\* A list shows what was waiting for it.
LEMMA ListIsDrawn ==
  ASSUME ListInv, NEW size \in Sizes, Draw, DrawList(size), MapInv',
         UNCHANGED spatialVisible \/ spatialVisible' \in BOOLEAN
  PROVE  ListInv'
<1> DEFINE rows == RowsOf(Text, size.width - 2)
           found == Searched(Text)
<1>1. Showable /\ HistoryType /\ viewport \in Viewports /\ Typed /\ Typed'
  BY StateIsShowable DEF ListInv, ScreenTypeOK, MapInv
<1>2. /\ turn = "draw" /\ turn' = "select"
      /\ UNCHANGED <<acts, open, readable, reading, graphMode, spatialMode, summary, graph,
                     selected, fresh, edited, followed>>
  BY DEF Draw
<1>3. /\ viewport' = ListDrawn(size)
      /\ search' = IF search.open THEN found ELSE search
      /\ revealStep' = FALSE /\ touched' = FALSE
      /\ frame' = [what |-> "list", width |-> size.width, height |-> size.height]
      /\ place' = IF touched \/ Wanted # 0
                  THEN [rows |-> rows, height |-> size.height, offset |-> viewport'.visible]
                  ELSE place
  BY DEF DrawList
<1>4. /\ viewport' \in Viewports /\ rows \in Nat
      /\ viewport'.visible = Lesser(viewport'.requested, viewport'.maximum)
      /\ viewport'.maximum = Lesser(Minus(rows, size.height - 2), MaxRow)
      /\ Wanted = 0 => viewport'.requested = viewport.requested
      /\ Wanted # 0 => LET row == RowsUpTo(Text, size.width - 2)[Wanted - 1]
                       IN  row < MaxRow => InWindow(viewport', row)
  BY <1>1, <1>3, ListDrawnIs
<1>5. /\ search.open => /\ found \in Searches /\ found.open /\ ~found.reveal
                        /\ found.selected = 0 \/ found.selected < found.matches
                        /\ found.query = search.query
      /\ Wanted # 0 => Wanted \in 1..Len(Text)
  BY <1>1, WantedIsALine
<1> HIDE DEF found, rows
<1>6. search'.open = search.open
  BY <1>1, <1>3, <1>5 DEF HistoryType, Searches
<1>7. Text' = Text /\ ListedRow' = ListedRow
  BY <1>2, <1>6, TextStays
<1>8. Modes' /\ Content' /\ Position' /\ Chosen'
  <2>1. Modes /\ Content /\ Position /\ Chosen
    BY <1>1, TypesAre DEF ListInv
  <2>2. Modes' /\ Content'
    BY <1>2, <1>3, <2>1 DEF Modes, Content
  <2>3. Position'
    BY <1>3, <1>4 DEF Position
  <2>4. Selecting' /\ Editing'
    BY <1>2, <1>3 DEF Selecting, Editing
  <2> QED
    BY <1>2, <2>1, <2>2, <2>3, <2>4 DEF Chosen
<1>9. Finding'
  <2>1. Finding
    BY <1>1, TypesAre DEF ListInv
  <2> QED
    BY <1>3, <1>5, <2>1 DEF Finding
<1>10. ScreenTypeOK' /\ HistoryType' /\ Selecting' /\ Editing'
  <2>1. Typed => (ScreenTypeOK /\ HistoryType /\ Selecting /\ Editing
                    <=> Modes /\ Content /\ Position /\ Finding /\ Chosen)
    BY TypesAre
  <2>2. Typed' => (ScreenTypeOK' /\ HistoryType' /\ Selecting' /\ Editing'
                    <=> Modes' /\ Content' /\ Position' /\ Finding' /\ Chosen')
    BY TypesAre, PTL
  <2> QED
    BY <1>1, <1>8, <1>9, <2>2
<1>12. Keeping'
  <2>1. CASE touched \/ Wanted # 0
    <3>1. place'.rows = rows /\ place'.height = size.height /\ place'.offset = viewport'.visible
      BY <1>3, <2>1
    <3> QED
      BY <1>4, <3>1 DEF Keeping, OffsetOf
  <2>2. CASE ~(touched \/ Wanted # 0)
    <3>1. place' = place /\ viewport'.requested = viewport.requested /\ Keeping
      BY <1>3, <1>4, <2>2 DEF ListInv
    <3> QED
      BY <2>2, <3>1 DEF Keeping, OffsetOf
  <2> QED
    BY <2>1, <2>2
<1>13. PlaceIsKept'
  <2> SUFFICES ASSUME place' # Nowhere, place'.rows = RowsOf(Text', frame'.width - 2),
                      place'.height = frame'.height
               PROVE  viewport'.visible = place'.offset
    BY DEF PlaceIsKept
  <2>1. place'.rows = rows /\ place'.height = size.height
    BY <1>3, <1>7 DEF rows
  <2>2. Lesser(viewport'.requested, Lesser(Minus(place'.rows, place'.height - 2), MaxRow))
          = place'.offset
    BY <1>3, <1>12 DEF Keeping, OffsetOf
  <2> QED
    BY <1>4, <2>1, <2>2
<1>14. Wanted # 0 =>
         LET row == RowsUpTo(Text', frame'.width - 2)[Wanted - 1]
         IN  row < MaxRow => InWindow(viewport', row)
  BY <1>3, <1>4, <1>7
<1>15. ListShowsSelection'
  <2> SUFFICES ASSUME fresh' PROVE ListedInSight'
    BY SelectionIsThen
  <2>1. revealStep /\ graphMode /\ graph \in Graphs /\ ~search.open
    BY <1>2 DEF ListInv, Selecting
  <2>2. Wanted = ListedRow
    BY <2>1 DEF Wanted, ListedRow
  <2>3. ListedRow # 0
    BY <1>1, <2>1, GraphRowIs DEF ListedRow
  <2> QED
    BY <1>7, <1>14, <2>2, <2>3 DEF ListedInSight, LineInSight
<1>16. MatchIsRevealed'
  <2> SUFFICES ASSUME edited', SelectedLine(Text', search') # 0
               PROVE  LET row == RowsUpTo(Text', frame'.width - 2)[SelectedLine(Text', search') - 1]
                      IN  row < MaxRow => InWindow(viewport', row)
    BY DEF MatchIsRevealed, MatchShown, LineInSight
  <2>1. search.open /\ search.reveal
    BY <1>2 DEF ListInv, Editing
  <2>2. Wanted = SelectedLine(Text', search')
    BY <1>3, <1>7, <2>1 DEF Wanted, found
  <2> QED
    BY <1>14, <2>2
<1> QED
  BY <1>10, <1>12, <1>13, <1>15, <1>16 DEF ListInv

\* The parts of the invariant, after a step.
LEMMA PartsAreTypes ==
  ASSUME MapInv', Modes', Content', Position', Finding', Chosen'
  PROVE  ScreenTypeOK' /\ HistoryType' /\ Selecting' /\ Editing'
<1>1. Typed' => (ScreenTypeOK' /\ HistoryType' /\ Selecting' /\ Editing'
                   <=> Modes' /\ Content' /\ Position' /\ Finding' /\ Chosen')
  BY TypesAre, PTL
<1> QED
  BY <1>1 DEF MapInv

LEMMA InvIsParts ==
  ListInv => MapInv /\ Modes /\ Content /\ Position /\ Finding /\ Chosen /\ Keeping
BY TypesAre DEF ListInv, MapInv

\* A map or another view leaves what waits for a list alone.
LEMMA OtherIsDrawn ==
  ASSUME ListInv, NEW size, Draw, DrawMap(size) \/ DrawOther, MapInv',
         spatialVisible' \in BOOLEAN
  PROVE  ListInv'
<1>1. MapInv /\ Modes /\ Content /\ Position /\ Finding /\ Chosen /\ Keeping
  BY InvIsParts
<1>2. /\ turn = "draw" /\ turn' = "select"
      /\ UNCHANGED <<acts, open, readable, reading, graphMode, spatialMode, summary, graph,
                     selected, fresh, edited, followed>>
  BY DEF Draw
<1>3. /\ UNCHANGED <<viewport, search, revealStep, touched, place>>
      /\ frame'.what # "list"
  BY DEF DrawMap, DrawOther
<1>4. Modes' /\ Content' /\ Position' /\ Finding'
  BY <1>1, <1>2, <1>3 DEF Modes, Content, Position, Finding
<1>5. Chosen'
  <2>1. Selecting' /\ Editing'
    BY <1>1, <1>2, <1>3 DEF Chosen, Selecting, Editing
  <2> QED
    BY <1>1, <1>2, <2>1 DEF Chosen
<1>6. Keeping'
  BY <1>1, <1>3 DEF Keeping, OffsetOf
<1>7. ListShowsSelection' /\ MatchIsRevealed' /\ PlaceIsKept'
  BY <1>3 DEF ListShowsSelection, MatchIsRevealed, PlaceIsKept
<1>8. ScreenTypeOK' /\ HistoryType' /\ Selecting' /\ Editing'
  BY <1>1, <1>4, <1>5, PartsAreTypes
<1> QED
  BY <1>6, <1>7, <1>8 DEF ListInv

LEMMA ListDrawKeeps == ListInv /\ Draw => ListInv'
<1> SUFFICES ASSUME ListInv, Draw PROVE ListInv'
  OBVIOUS
<1>1. MapInv'
  BY MapDrawKeeps DEF ListInv
<1>2. PICK size \in Sizes :
        /\ spatialVisible' = IF open THEN MapVisible(size) ELSE spatialVisible
        /\ CASE ~open                       -> DrawOther
             [] open /\ MapVisible(size)    -> DrawMap(size)
             [] open /\ ~MapVisible(size)   -> DrawList(size)
  BY DEF Draw
<1>3. open \in BOOLEAN /\ spatialVisible \in BOOLEAN
  BY DEF ListInv, ScreenTypeOK
<1>4. spatialVisible' \in BOOLEAN
  BY <1>2, <1>3 DEF MapVisible
<1>5. DrawMap(size) \/ DrawOther \/ DrawList(size)
  BY <1>2, <1>3
<1> QED
  BY <1>1, <1>4, <1>5, ListIsDrawn, OtherIsDrawn
-----------------------------------------------------------------------------
(***************************************************************************)
(* The other events, which wait for a drawing.                             *)
(***************************************************************************)
\* What an event must show; the promises are about frames.
LEMMA ListTurnKeeps ==
  ASSUME MapInv', turn' = "draw", Modes', Content', Position', Finding', Chosen', Keeping'
  PROVE  ListInv'
<1>1. ScreenTypeOK' /\ HistoryType' /\ Selecting' /\ Editing'
  BY PartsAreTypes
<1>2. ListShowsSelection' /\ MatchIsRevealed' /\ PlaceIsKept'
  BY DEF ListShowsSelection, MatchIsRevealed, PlaceIsKept, Drawn
<1> QED
  BY <1>1, <1>2 DEF ListInv

\* The content is gone, and with it what was selected.
LEMMA ClearedContent == ASSUME ClearRead PROVE Content' /\ Chosen'
BY DEF ClearRead, Content, Chosen, Selecting, Editing

\* Nothing was selected or searched for.
LEMMA PassedChoice ==
  ASSUME ListInv, Turn, Passing, UNCHANGED <<graphMode, graph, revealStep, search>>
  PROVE  Chosen'
<1>1. Chosen
  BY InvIsParts
<1>2. fresh' = (fresh /\ frame.what # "list") /\ edited' = FALSE /\ frame' = frame
  BY DEF Passing, Turn
<1>3. Selecting' /\ Editing'
  BY <1>1, <1>2 DEF Chosen, Selecting, Editing
<1> QED
  BY <1>1, <1>2, <1>3 DEF Chosen

\* The place is the same, or the user is on the way to another.
LEMMA PlaceKeeps ==
  ASSUME ListInv, \/ UNCHANGED <<viewport, touched, place>>
                  \/ viewport' = AtTop /\ touched' = TRUE
  PROVE  Position' /\ Keeping'
<1>1. Position /\ Keeping
  BY InvIsParts
<1>2. AtTop \in Viewports /\ AtTop.visible = Lesser(AtTop.requested, AtTop.maximum)
  BY MaxRowIsPositive DEF AtTop, Viewports, Lesser
<1>3. CASE UNCHANGED <<viewport, touched, place>>
  BY <1>1, <1>3 DEF Position, Keeping, OffsetOf
<1>4. CASE viewport' = AtTop /\ touched' = TRUE
  BY <1>2, <1>4 DEF Position, Keeping
<1> QED
  BY <1>3, <1>4

\* A key of the text leaves the window where it asks for.
LEMMA HandledAsks ==
  ASSUME NEW v \in Viewports, NEW key \in Moves
  PROVE  Handled(v, key).visible = Lesser(Handled(v, key).requested, Handled(v, key).maximum)
<1>1. ASSUME NEW row \in 0..MaxRow
      PROVE  Asked(v, row).visible = Lesser(Asked(v, row).requested, Asked(v, row).maximum)
  <2>1. Asked(v, row).requested = row
    BY DEF Asked, Viewports
  <2> QED
    BY <2>1, AskedType
<1>2. /\ v.visible \in 0..MaxRow /\ v.maximum \in 0..MaxRow /\ v.height \in 0..MaxRow
  BY DEF Viewports
<1>3. /\ Minus(v.visible, 1) \in 0..MaxRow /\ Minus(v.visible, Page(v)) \in 0..MaxRow
  BY <1>2, MaxRowIsPositive DEF Minus, Page
<1>4. /\ Lesser(Plus(v.visible, 1), v.maximum) \in 0..MaxRow
      /\ Lesser(Plus(v.visible, Page(v)), v.maximum) \in 0..MaxRow
  BY <1>2, MaxRowIsPositive DEF Lesser, Plus, Page
<1>5. 0 \in 0..MaxRow /\ MaxRow \in 0..MaxRow
  BY MaxRowIsPositive
<1> QED
  BY <1>1, <1>3, <1>4, <1>5 DEF Handled, Moves

\* The keys a search takes.
LEMMA EditedIs ==
  ASSUME ListInv, search.open, Edited
  PROVE  Finding' /\ search'.open /\ search'.reveal
<1>1. search \in Searches /\ Len(search.query) <= MaxQuery
  BY InvIsParts DEF Finding
<1>2. search.query \in Seq(Letters) /\ search.matches \in Nat /\ search.selected \in Nat
  BY <1>1 DEF Searches
<1>3. CASE search.matches > 0 /\ \E k \in Cycled :
             search' = [search EXCEPT !.selected = k, !.reveal = TRUE]
  <2>1. PICK k \in Cycled : search' = [search EXCEPT !.selected = k, !.reveal = TRUE]
    BY <1>3
  <2>2. PICK step \in {1, search.matches - 1} : k = (search.selected + step) % search.matches
    BY DEF Cycled
  <2>3. search.matches \in Nat \ {0} /\ search.selected + step \in Nat
    BY <1>2, <1>3
  <2>4. k \in 0..(search.matches - 1)
    BY <2>2, <2>3, Around
  <2>5. k \in Nat /\ k < search.matches
    BY <2>3, <2>4
  <2> QED
    BY <1>1, <2>1, <2>5 DEF Finding, Searches
<1>4. CASE search' = [search EXCEPT !.query = SubSeq(@, 1, Len(@) - 1), !.selected = 0,
                                    !.reveal = TRUE]
  <2>1. /\ SubSeq(search.query, 1, Len(search.query) - 1) \in Seq(Letters)
        /\ Len(SubSeq(search.query, 1, Len(search.query) - 1)) <= Len(search.query)
    BY <1>2
  <2>2. Len(search.query) \in Nat /\ MaxQuery \in Nat
        /\ Len(SubSeq(search.query, 1, Len(search.query) - 1)) \in Nat
    BY <1>2, <2>1, SizeAssumption
  <2>3. Len(SubSeq(search.query, 1, Len(search.query) - 1)) <= MaxQuery
    BY <1>1, <2>1, <2>2
  <2> QED
    BY <1>1, <1>4, <2>1, <2>3 DEF Finding, Searches
<1>5. CASE Len(search.query) < MaxQuery /\ \E letter \in Letters :
             search' = [search EXCEPT !.query = Append(@, letter), !.selected = 0,
                                      !.reveal = TRUE]
  <2>1. PICK letter \in Letters :
          search' = [search EXCEPT !.query = Append(@, letter), !.selected = 0, !.reveal = TRUE]
    BY <1>5
  <2>2. Append(search.query, letter) \in Seq(Letters)
        /\ Len(Append(search.query, letter)) = Len(search.query) + 1
    BY <1>2
  <2>3. Len(Append(search.query, letter)) <= MaxQuery
    BY <1>2, <1>5, <2>2, SizeAssumption
  <2> QED
    BY <1>1, <2>1, <2>2, <2>3 DEF Finding, Searches
<1> QED
  BY <1>3, <1>4, <1>5 DEF Edited

\* The user moves the text.
LEMMA TextIsMoved ==
  ASSUME ListInv, NEW key \in Moves, MoveText(key), UNCHANGED place
  PROVE  Position' /\ Keeping'
<1>1. viewport \in Viewports
  BY InvIsParts DEF Position
<1>2. /\ Handled(viewport, key) \in Viewports
      /\ Handled(viewport, key).visible
           = Lesser(Handled(viewport, key).requested, Handled(viewport, key).maximum)
  BY <1>1, HandledType, HandledAsks
<1> QED
  BY <1>2 DEF MoveText, Position, Keeping

\* Fewer acts are left, or as many.
LEMMA ModesKeep ==
  ASSUME Modes, UNCHANGED acts \/ (acts > 0 /\ acts' = acts - 1),
         readable' \in BOOLEAN, reading' \in BOOLEAN, graphMode' \in BOOLEAN,
         spatialMode' \in BOOLEAN
  PROVE  Modes'
BY SizeAssumption DEF Modes

\* The content and the choice after a key that refreshes.
LEMMA Refreshed ==
  ASSUME ListInv, Turn, Refresh(graphMode), UNCHANGED <<graphMode, search>>
  PROVE  Content' /\ Chosen' /\ reading' \in BOOLEAN
<1>1. Modes /\ Content /\ Chosen
  BY InvIsParts
<1>2. CASE ClearRead /\ reading' = readable
  BY <1>1, <1>2, ClearedContent DEF Modes
<1>3. CASE Passing /\ UNCHANGED <<reading, graph, summary, selected, revealStep, spatialVisible,
                                  spatial, panned>>
  <2>1. Chosen'
    BY <1>3, PassedChoice
  <2> QED
    BY <1>1, <1>3, <2>1 DEF Content, Modes
<1> QED
  BY <1>2, <1>3 DEF Refresh

LEMMA ListEventKeeps ==
  ASSUME ListInv, MapInv', Next, ~Draw
  PROVE  ListInv'
<1>0. Modes /\ Content /\ Position /\ Finding /\ Chosen /\ Keeping
  BY InvIsParts
<1>a. UNCHANGED search => Finding'
  BY <1>0 DEF Finding
<1>b. UNCHANGED <<viewport, touched, place>> => Position' /\ Keeping'
  BY PlaceKeeps
<1>c. viewport' = AtTop /\ touched' = TRUE => Position' /\ Keeping'
  BY PlaceKeeps
<1>d. /\ readable \in BOOLEAN /\ reading \in BOOLEAN
      /\ graphMode \in BOOLEAN /\ spatialMode \in BOOLEAN
  BY <1>0 DEF Modes
<1>1. CASE GraphArrives
  <2>1. /\ Turn /\ UNCHANGED acts /\ graphMode /\ reading' = FALSE
        /\ UNCHANGED <<readable, open, graphMode, spatialMode, search, viewport, touched, place>>
    BY <1>1 DEF GraphArrives, Event, modes
  <2>2. Modes'
    BY <1>0, <1>d, <2>1, ModesKeep
  <2>3. Content' /\ Chosen'
    <3>1. CASE ClearRead
      BY <3>1, ClearedContent
    <3>2. CASE /\ graph' \in Graphs /\ revealStep' = TRUE
               /\ summary' = Unavailable /\ spatialVisible' = FALSE
               /\ fresh' = ~search.open /\ edited' = FALSE
      <4>1. Selecting' /\ Editing'
        BY <2>1, <3>2 DEF Selecting, Editing
      <4>2. search.open \in BOOLEAN
        BY <1>0 DEF Finding, Searches
      <4> QED
        BY <3>2, <4>1, <4>2 DEF Content, Chosen
    <3> QED
      BY <1>1, <3>1, <3>2 DEF GraphArrives
  <2> QED
    BY <1>a, <1>b, <2>1, <2>2, <2>3, ListTurnKeeps DEF Turn
<1>2. CASE SummaryArrives \/ Expires
  <2>1. /\ Turn /\ UNCHANGED acts /\ reading' \in BOOLEAN /\ Passing
        /\ UNCHANGED <<readable, graphMode, spatialMode, search, viewport, touched, place,
                       graph, revealStep, spatialVisible>>
        /\ summary' \in Summaries \cup {Unavailable}
    BY <1>2, <1>d DEF SummaryArrives, Expires, Event, modes, views
  <2>2. Modes'
    BY <1>0, <1>d, <2>1, ModesKeep
  <2>3. Content'
    BY <1>0, <2>1 DEF Content
  <2>4. Chosen'
    BY <2>1, PassedChoice
  <2> QED
    BY <1>a, <1>b, <2>1, <2>2, <2>3, <2>4, ListTurnKeeps DEF Turn
<1>3. CASE TaskUpdated
  <2>1. /\ Turn /\ UNCHANGED acts /\ readable' \in BOOLEAN /\ reading' = FALSE /\ ClearRead
        /\ viewport' = AtTop /\ search' = NoSearch /\ touched' = TRUE
        /\ UNCHANGED <<graphMode, spatialMode>>
    BY <1>3 DEF TaskUpdated, Event
  <2>2. Modes'
    BY <1>0, <1>d, <2>1, ModesKeep
  <2>3. Content' /\ Chosen'
    BY <2>1, ClearedContent
  <2>4. Finding'
    <3>1. <<>> \in Seq(Letters) /\ Len(<<>>) = 0 /\ 0 <= MaxQuery
      BY SizeAssumption
    <3> QED
      BY <2>1, <3>1 DEF Finding, Searches, NoSearch
  <2> QED
    BY <1>c, <2>1, <2>2, <2>3, <2>4, ListTurnKeeps DEF Turn
<1>4. CASE KeyRead
  <2>1. /\ Turn /\ acts > 0 /\ acts' = acts - 1 /\ Refresh(graphMode)
        /\ UNCHANGED <<readable, graphMode, spatialMode, search, viewport, touched, place>>
    BY <1>4 DEF KeyRead, Act
  <2>2. Content' /\ Chosen' /\ reading' \in BOOLEAN
    BY <2>1, Refreshed
  <2>3. Modes'
    BY <1>0, <1>d, <2>1, <2>2, ModesKeep
  <2> QED
    BY <1>a, <1>b, <2>1, <2>2, <2>3, ListTurnKeeps DEF Turn
<1>5. CASE KeyGraph \/ KeyCancel \/ KeyClose
  <2>1. /\ Turn /\ acts > 0 /\ acts' = acts - 1 /\ ClearRead
        /\ readable' \in BOOLEAN /\ reading' \in BOOLEAN /\ graphMode' \in BOOLEAN
        /\ spatialMode' \in BOOLEAN /\ UNCHANGED search
        /\ \/ UNCHANGED <<viewport, touched, place>>
           \/ viewport' = AtTop /\ touched' = TRUE
    BY <1>5, <1>d DEF KeyGraph, KeyCancel, KeyClose, Key, Act, modes
  <2>2. Modes'
    BY <1>0, <1>d, <2>1, ModesKeep
  <2>3. Content' /\ Chosen'
    BY <2>1, ClearedContent
  <2> QED
    BY <1>a, <1>b, <1>c, <2>1, <2>2, <2>3, ListTurnKeeps DEF Turn
<1>6. CASE KeyMap \/ Redraw
  <2>1. /\ Turn /\ (UNCHANGED acts \/ (acts > 0 /\ acts' = acts - 1))
        /\ Passing /\ spatialMode' \in BOOLEAN
        /\ UNCHANGED <<readable, reading, summary, graph, revealStep, graphMode, search,
                       spatialVisible, viewport, touched, place>>
    BY <1>6, <1>d DEF KeyMap, Redraw, Key, Act, Event, content, modes, views
  <2>2. Modes'
    BY <1>0, <1>d, <2>1, ModesKeep
  <2>3. Content'
    BY <1>0, <2>1 DEF Content
  <2>4. Chosen'
    BY <2>1, PassedChoice
  <2> QED
    BY <1>a, <1>b, <2>1, <2>2, <2>3, <2>4, ListTurnKeeps DEF Turn
<1>7. CASE KeySelect
  <2>1. /\ Turn /\ acts > 0 /\ acts' = acts - 1 /\ ~search.open /\ graphMode /\ graph # NoGraph
        /\ revealStep' = TRUE /\ fresh' = TRUE /\ edited' = FALSE
        /\ UNCHANGED <<readable, reading, summary, graph, graphMode, spatialMode, search,
                       spatialVisible, viewport, touched, place>>
    BY <1>7 DEF KeySelect, Key, Act, modes
  <2>2. Modes'
    BY <1>0, <1>d, <2>1, ModesKeep
  <2>3. Content'
    BY <1>0, <2>1 DEF Content
  <2>4. graph \in Graphs
    BY <2>1 DEF ListInv, ScreenTypeOK
  <2>5. Chosen'
    BY <2>1, <2>4 DEF Chosen, Selecting, Editing
  <2> QED
    BY <1>a, <1>b, <2>1, <2>2, <2>3, <2>5, ListTurnKeeps DEF Turn
<1>8. CASE KeyMove \/ MouseWheel
  <2>1. /\ Turn /\ acts > 0 /\ acts' = acts - 1 /\ Passing
        /\ UNCHANGED <<readable, reading, summary, graph, revealStep, graphMode, spatialMode,
                       search, spatialVisible, place>>
    BY <1>8 DEF KeyMove, MouseWheel, Key, Act, content, modes
  <2>2. Modes'
    BY <1>0, <1>d, <2>1, ModesKeep
  <2>3. Content'
    BY <1>0, <2>1 DEF Content
  <2>4. Chosen'
    BY <2>1, PassedChoice
  <2>5. Position' /\ Keeping'
    <3>1. CASE \E key \in Moves \cup {"Left", "Right"} : MoveMap(key)
      BY <1>b, <2>1, <3>1 DEF MoveMap
    <3>2. CASE \E key \in Moves : MoveText(key)
      BY <2>1, <3>2, TextIsMoved
    <3> QED
      BY <1>8, <3>1, <3>2 DEF KeyMove, MouseWheel, Wheel, Moves
  <2> QED
    BY <1>a, <2>1, <2>2, <2>3, <2>4, <2>5, ListTurnKeeps DEF Turn
<1>9. CASE KeySearch
  <2>1. /\ Turn /\ acts > 0 /\ acts' = acts - 1 /\ fresh' = FALSE /\ edited' = FALSE
        /\ search' = IF search.open THEN NoSearch ELSE [NoSearch EXCEPT !.open = TRUE]
        /\ UNCHANGED <<readable, reading, summary, revealStep, graphMode, spatialMode,
                       spatialVisible, viewport, touched, place>>
    BY <1>9 DEF KeySearch, Act, content, views
  <2>2. Modes'
    BY <1>0, <1>d, <2>1, ModesKeep
  <2>3. Content'
    BY <1>0, <2>1 DEF Content
  <2>4. Chosen'
    BY <2>1 DEF Chosen, Selecting, Editing
  <2>5. Finding'
    <3>1. <<>> \in Seq(Letters) /\ Len(<<>>) = 0 /\ 0 <= MaxQuery
      BY SizeAssumption
    <3> QED
      BY <2>1, <3>1 DEF Finding, Searches, NoSearch
  <2> QED
    BY <1>b, <2>1, <2>2, <2>3, <2>4, <2>5, ListTurnKeeps DEF Turn
<1>10. CASE KeyEdit
  <2>1. /\ Turn /\ acts > 0 /\ acts' = acts - 1 /\ search.open /\ Edited /\ edited' = TRUE
        /\ fresh' = (fresh /\ frame.what # "list")
        /\ UNCHANGED <<readable, reading, summary, graph, revealStep, graphMode, spatialMode,
                       spatialVisible, viewport, touched, place>>
    BY <1>10 DEF KeyEdit, Act, content, views
  <2>2. Modes'
    BY <1>0, <1>d, <2>1, ModesKeep
  <2>3. Content'
    BY <1>0, <2>1 DEF Content
  <2>4. Finding' /\ search'.open /\ search'.reveal
    BY <2>1, EditedIs
  <2>5. fresh' = FALSE
    BY <1>0, <2>1 DEF Chosen, Selecting
  <2>6. Chosen'
    BY <2>1, <2>4, <2>5 DEF Chosen, Selecting, Editing
  <2> QED
    BY <1>b, <2>1, <2>2, <2>3, <2>4, <2>6, ListTurnKeeps DEF Turn
<1> QED
  BY <1>1, <1>2, <1>3, <1>4, <1>5, <1>6, <1>7, <1>8, <1>9, <1>10 DEF Next, Keys

LEMMA ListStepKeeps == ListInv /\ [Next]_vars => ListInv'
<1> SUFFICES ASSUME ListInv, [Next]_vars PROVE ListInv'
  OBVIOUS
<1>1. MapInv'
  BY MapStepKeeps DEF ListInv
<1>2. CASE Draw
  BY <1>2, ListDrawKeeps
<1>3. CASE Next /\ ~Draw
  BY <1>1, <1>3, ListEventKeeps
<1>4. CASE UNCHANGED vars
  <2>1. Modes /\ Content /\ Position /\ Finding /\ Chosen /\ Keeping
    BY InvIsParts
  <2>2. /\ UNCHANGED <<turn, frame, acts, readable, reading, summary, graph, selected,
                       revealStep, open, graphMode, spatialMode, search, spatialVisible,
                       viewport, fresh, edited, touched, place>>
    BY <1>4 DEF vars, content, modes, views, history
  <2>3. Modes' /\ Content' /\ Position' /\ Finding'
    BY <2>1, <2>2 DEF Modes, Content, Position, Finding
  <2>4. Chosen'
    <3>1. Selecting' /\ Editing'
      BY <2>1, <2>2 DEF Chosen, Selecting, Editing
    <3> QED
      BY <2>1, <2>2, <3>1 DEF Chosen
  <2>5. Keeping'
    BY <2>1, <2>2 DEF Keeping, OffsetOf
  <2>6. Text' = Text /\ ListedRow' = ListedRow
    BY <2>2, TextStays
  <2>7. ListShowsSelection'
    <3>1. Drawn /\ frame.what = "list" /\ fresh => ListedInSight
      BY SelectionIs DEF ListInv
    <3>3. ListedInSight' <=> ListedInSight
      BY <2>2, <2>6 DEF ListedInSight, LineInSight
    <3> QED
      BY <2>2, <3>1, <3>3, SelectionIsThen DEF Drawn
  <2>8. MatchIsRevealed' /\ PlaceIsKept'
    BY <2>2, <2>6 DEF ListInv, MatchIsRevealed, MatchShown, LineInSight, PlaceIsKept, Drawn
  <2>9. ScreenTypeOK' /\ HistoryType' /\ Selecting' /\ Editing'
    BY <1>1, <2>3, <2>4, PartsAreTypes
  <2> QED
    BY <1>1, <2>5, <2>7, <2>8, <2>9 DEF ListInv
<1> QED
  BY <1>2, <1>3, <1>4

LEMMA ListInitHolds == Init => ListInv
<1> SUFFICES ASSUME Init PROVE ListInv
  OBVIOUS
<1>1. MapInv /\ Typed
  BY MapInitHolds DEF MapInv
<1>2. AtTop \in Viewports /\ AtTop.visible = Lesser(AtTop.requested, AtTop.maximum)
  BY MaxRowIsPositive DEF AtTop, Viewports, Lesser
<1>3. <<>> \in Seq(Letters) /\ Len(<<>>) = 0 /\ 0 <= MaxQuery /\ Acts \in 0..Acts
  BY SizeAssumption
<1>4. Finding
  BY <1>3 DEF Init, Finding, Searches, NoSearch
<1>5. Modes /\ Content /\ Position /\ Chosen
  BY <1>2, <1>3 DEF Init, Modes, Content, Position, Chosen, Selecting, Editing
<1>6. ScreenTypeOK /\ HistoryType /\ Selecting /\ Editing
  BY <1>1, <1>4, <1>5, TypesAre
<1>7. Keeping /\ ListShowsSelection /\ MatchIsRevealed /\ PlaceIsKept
  BY DEF Init, Keeping, ListShowsSelection, MatchIsRevealed, PlaceIsKept, Drawn
<1> QED
  BY <1>1, <1>6, <1>7 DEF ListInv
-----------------------------------------------------------------------------
(***************************************************************************)
(* The theorems.                                                           *)
(***************************************************************************)
\* The map shows the selected card, or as much of it as fits, until the user
\* pans it away, however the terminal, the graph and the view change.
THEOREM SelectionIsOnTheMap == Spec => []MapShowsSelection
<1>1. MapInv => MapShowsSelection
  BY DEF MapInv
<1>2. QED
  BY <1>1, MapInvariance, PTL

\* Keys and the wheel move the text if the last frame shows it, and the map if
\* the last frame shows that.
THEOREM MovesAreSeen == Spec => MovesWhatIsShown
<1>1. ASSUME MapInv, KeyMove \/ MouseWheel
      PROVE  /\ viewport' # viewport => frame.what = "list"
             /\ spatial' # spatial => frame.what = "map"
  <2>1. Drawn /\ open
    BY <1>1 DEF KeyMove, MouseWheel, Key, Act, Turn, Drawn
  <2>2. frame.what = IF spatialVisible THEN "map" ELSE "list"
    BY <1>1, <2>1 DEF MapInv, Routed
  <2>3. ToMap <=> spatialVisible
    BY <1>1, <2>1 DEF MapInv, Routed, ToMap
  <2>4. /\ ToMap => UNCHANGED viewport
        /\ ~ToMap => UNCHANGED spatial
    BY <1>1 DEF KeyMove, MouseWheel, MoveMap, MoveText
  <2>5. QED
    BY <2>2, <2>3, <2>4
<1>2. MapInv /\ [Next]_vars =>
        [KeyMove \/ MouseWheel =>
           /\ viewport' # viewport => frame.what = "list"
           /\ spatial' # spatial => frame.what = "map"]_vars
  BY <1>1
<1>3. QED
  BY <1>2, MapInvariance, PTL DEF Spec, MovesWhatIsShown

\* The list shows the selected step when it is drawn next, a search the match that
\* was chosen, and neither another text nor another window loses the place the user
\* scrolled to, for every text, graph and size of the terminal.
THEOREM PlacesStayKept == Spec => []ScreenIsKept
<1>1. ListInv => ScreenIsKept
  BY DEF ListInv, ScreenIsKept
<1>2. QED
  BY <1>1, ListInitHolds, ListStepKeeps, PTL DEF Spec
=============================================================================
