----------------------------- MODULE PageProofs -----------------------------
(***************************************************************************)
(* Proofs about the other components of the pages: the sticky notes, the   *)
(* widgets, the panels of /server and the grid of its uptime panel, and    *)
(* the events of /cluster, for any board, frame, number of links, polls,   *)
(* windows and subjects.                                                   *)
(***************************************************************************)
EXTENDS NoteBoard, Widgets, ClusterPage, ServerPage, UptimeGrid, NatOrder,
        FiniteSetTheorems, SequenceTheorems, TLAPS

-----------------------------------------------------------------------------
(* The board *)

BoardStep == BoardNext \/ BoardMount

\* A drag remembers where the note was and what its offset was then, which have
\* to differ by the note's place on the board of that time: the offset is added
\* up from drag to drag and would carry any discrepancy along.
BoardInv ==
    /\ board \in Boards /\ offset \in Int
    /\ drag = NoDrag \/ drag \in Drags
    /\ drag # NoDrag => drag.left = (Border + Place(drag.board)) + drag.start
    /\ NotesInside

\* A place is a number of positions.
LEMMA PlaceIsInt == \A b \in Boards : Place(b) \in Int /\ b \in Nat
<1>1. /\ Notes \in Nat \ {0} /\ Watched \in Nat /\ NoteWidth \in Nat /\ Border \in Nat
      /\ \A b \in Boards : b \in Nat
  BY NoteBoardAssumption
<1>2. \A b \in Boards : (2 * Watched - 1) * (b - 2 * Border) \in Int
  BY <1>1
<1>3. 2 * Notes \in Nat \ {0}
  BY <1>1
<1>4. \A x \in Int, y \in Nat \ {0} : x \div y \in Int
  OBVIOUS
<1>5. \A b \in Boards : ((2 * Watched - 1) * (b - 2 * Border)) \div (2 * Notes) \in Int
  BY <1>2, <1>3, <1>4
<1>6. NoteWidth \div 2 \in Int
  BY <1>1
<1> QED
  BY <1>1, <1>5, <1>6 DEF Place

\* A board that nobody has touched satisfies the invariant.
LEMMA BoardStarts == BoardInit \/ BoardIdle => BoardInv
<1> SUFFICES ASSUME BoardInit \/ BoardIdle
             PROVE  BoardInv
  OBVIOUS
<1>1. offset = 0 /\ drag = NoDrag /\ placed = FALSE
  BY DEF BoardInit, BoardIdle
<1>2. board \in Boards
  BY NoteBoardAssumption DEF BoardInit, BoardIdle
<1> QED
  BY <1>1, <1>2 DEF BoardInv, NotesInside

\* A move puts the note within the board of its drag, which is the board as it
\* is or leaves the note unplaced.
LEMMA BoardKeeps == BoardInv /\ [BoardStep]_boardVars => BoardInv'
<1> SUFFICES ASSUME BoardInv, [BoardStep]_boardVars
             PROVE  BoardInv'
  OBVIOUS
<1>1. /\ board \in Boards /\ offset \in Int
      /\ drag = NoDrag \/ drag \in Drags
      /\ drag # NoDrag => drag.left = (Border + Place(drag.board)) + drag.start
      /\ NotesInside
      /\ Place(board) \in Int /\ Border \in Int
  BY PlaceIsInt, NoteBoardAssumption DEF BoardInv
<1>2. ASSUME NEW i \in 1 .. Notes, PointerDown(i)
      PROVE  BoardInv'
  <2>1. UNCHANGED <<board, offset, placed>>
    BY <1>2 DEF PointerDown
  <2>2. Left \in Int /\ NotesInside'
    BY <1>1, <2>1 DEF Left, NotesInside, Place
  <2>3. CASE i = Watched
    <3>1. drag' = [left |-> Left, board |-> board, start |-> offset]
      BY <1>2, <2>3 DEF PointerDown
    <3>2. drag' \in Drags
      BY <1>1, <2>2, <3>1 DEF Drags
    <3>3. drag'.left = (Border + Place(drag'.board)) + drag'.start
      BY <3>1 DEF Left
    <3> QED
      BY <1>1, <2>1, <2>2, <3>2, <3>3 DEF BoardInv, Place
  <2>4. CASE i # Watched
    <3>1. drag' = drag
      BY <1>2, <2>4 DEF PointerDown
    <3> QED
      BY <1>1, <2>1, <2>2, <3>1 DEF BoardInv, Place
  <2> QED
    BY <2>3, <2>4
<1>3. ASSUME NEW dx \in Reach, PointerMove(dx)
      PROVE  BoardInv'
  <2> DEFINE to == Dragged(dx)
  <2>1. /\ drag # NoDrag /\ drag \in Drags
        /\ drag.left = (Border + Place(drag.board)) + drag.start
        /\ offset' = drag.start + to - drag.left
        /\ placed' = (drag.board = board)
        /\ UNCHANGED <<board, drag>>
    BY <1>1, <1>3 DEF PointerMove
  <2>2. /\ drag.left \in Int /\ drag.start \in Int /\ drag.board \in Boards
        /\ dx \in Int /\ NoteWidth \in Nat
    BY <2>1, NoteBoardAssumption DEF Drags, Reach
  <2>3. drag.board \in Nat /\ Place(drag.board) \in Int
    BY <2>2, PlaceIsInt
  <2>4. /\ to \in Int /\ 0 <= to
        /\ NoteWidth <= drag.board => to <= drag.board - NoteWidth
    BY <2>2, <2>3 DEF Dragged, Clamp
  <2> HIDE DEF to
  <2>5. offset' \in Int /\ Border + Place(drag.board) + offset' = to
    BY <1>1, <2>1, <2>2, <2>3, <2>4
  <2>6. NotesInside'
    <3>1. CASE drag.board = board
      <4>1. Left' = to /\ board' = drag.board
        BY <2>1, <2>5, <3>1 DEF Left, Place
      <4> QED
        BY <2>2, <2>3, <2>4, <4>1 DEF NotesInside
    <3>2. CASE drag.board # board
      BY <2>1, <3>2 DEF NotesInside
    <3> QED
      BY <3>1, <3>2
  <2> QED
    BY <1>1, <2>1, <2>5, <2>6 DEF BoardInv, Place
<1>4. CASE PointerUp
  BY <1>1, <1>4 DEF PointerUp, BoardInv, NotesInside, Left, Place
<1>5. CASE BoardResize
  BY <1>1, <1>5 DEF BoardResize, BoardInv, NotesInside, Place
<1>6. CASE BoardMount
  BY <1>6 DEF BoardMount, BoardInv, NotesInside
<1>7. CASE UNCHANGED boardVars
  BY <1>1, <1>7 DEF boardVars, BoardInv, NotesInside, Left, Place
<1> QED
  BY <1>2, <1>3, <1>4, <1>5, <1>6, <1>7 DEF BoardStep, BoardNext

\* For any number of notes, any widths of notes, boards and frame and any drags, a
\* note that was dragged on the board of ProjectsBoard as it is lies within its
\* outer edge, on a board that has room for the note.
THEOREM NotesInsideHolds == BoardSpec => []NotesInside
<1>1. BoardInit => BoardInv
  BY BoardStarts
<1>2. BoardInv /\ [BoardStep]_boardVars => BoardInv'
  BY BoardKeeps
<1>3. BoardInv => NotesInside
  BY DEF BoardInv
<1> QED
  BY <1>1, <1>2, <1>3, PTL DEF BoardSpec, BoardStep

\* Every note is in the order.
OrderInv ==
    /\ order \in [1 .. Notes -> 1 .. Notes]
    /\ \A i \in 1 .. Notes : \E k \in 1 .. Notes : order[k] = i
    /\ placed \in BOOLEAN

\* A note that comes to the front leaves the others in the order.
LEMMA FrontKeepsAll ==
    ASSUME OrderInv, NEW i \in 1 .. Notes
    PROVE  /\ BringToFront(i) \in [1 .. Notes -> 1 .. Notes]
           /\ \A j \in 1 .. Notes : \E k \in 1 .. Notes : BringToFront(i)[k] = j
<1> DEFINE at == CHOOSE k \in DOMAIN order : order[k] = i
           below == SubSeq(order, 1, at - 1)
           above == SubSeq(order, at + 1, Notes)
           rest == below \o above
           S == 1 .. Notes
<1>1. Notes \in Nat \ {0} /\ DOMAIN order = 1 .. Notes /\ order \in Seq(S) /\ Len(order) = Notes
  <2>1. Notes \in Nat \ {0} /\ order \in [1 .. Notes -> S]
    BY NoteBoardAssumption DEF OrderInv
  <2> HIDE DEF S
  <2> QED
    BY <2>1
<1>2. at \in 1 .. Notes /\ order[at] = i
  BY <1>1 DEF OrderInv
<1>3. \A k \in 1 .. Notes : order[k] \in S
  BY DEF OrderInv
<1> HIDE DEF at, S
<1>4. /\ below \in Seq(S) /\ Len(below) = at - 1
      /\ \A k \in 1 .. at - 1 : below[k] = order[k]
  <2>1. \A k \in 1 .. at - 1 : order[k] \in S
    BY <1>1, <1>2, <1>3
  <2>2. 1 \in Int /\ at - 1 \in Int
    BY <1>1, <1>2
  <2>3. /\ below \in Seq(S)
        /\ Len(below) = IF 1 <= at - 1 THEN (at - 1) - 1 + 1 ELSE 0
        /\ \A k \in 1 .. (at - 1) - 1 + 1 : below[k] = order[1 + k - 1]
    BY <2>1, <2>2, SubSeqProperties
  <2> HIDE DEF below
  <2> QED
    BY <1>1, <1>2, <2>3
<1>5. /\ above \in Seq(S) /\ Len(above) = Notes - at
      /\ \A k \in 1 .. Notes - at : above[k] = order[at + k]
  <2>1. \A k \in at + 1 .. Notes : order[k] \in S
    BY <1>1, <1>2, <1>3
  <2>2. at + 1 \in Int /\ Notes \in Int
    BY <1>1, <1>2
  <2>3. /\ above \in Seq(S)
        /\ Len(above) = IF at + 1 <= Notes THEN Notes - (at + 1) + 1 ELSE 0
        /\ \A k \in 1 .. Notes - (at + 1) + 1 : above[k] = order[(at + 1) + k - 1]
    BY <2>1, <2>2, SubSeqProperties
  <2> HIDE DEF above
  <2> QED
    BY <1>1, <1>2, <2>3
<1>6. /\ rest \in Seq(S) /\ Len(rest) = Notes - 1
      /\ \A k \in 1 .. Notes - 1 : rest[k] = IF k <= at - 1 THEN order[k] ELSE order[k + 1]
  <2>1. /\ rest \in Seq(S) /\ Len(rest) = Len(below) + Len(above)
        /\ \A k \in 1 .. Len(below) + Len(above) :
              rest[k] = IF k <= Len(below) THEN below[k] ELSE above[k - Len(below)]
    BY <1>4, <1>5, ConcatProperties
  <2> HIDE DEF below, above, rest
  <2>2. Len(rest) = Notes - 1 /\ Len(below) + Len(above) = Notes - 1
    BY <1>1, <1>2, <1>4, <1>5, <2>1
  <2>3. ASSUME NEW k \in 1 .. Notes - 1
        PROVE  rest[k] = IF k <= at - 1 THEN order[k] ELSE order[k + 1]
    <3>1. ASSUME k <= at - 1
          PROVE  rest[k] = order[k]
      <4>1. k \in 1 .. at - 1
        BY <3>1, <1>1, <1>2
      <4> QED
        BY <1>4, <2>1, <2>2, <3>1, <4>1
    <3>2. ASSUME ~ (k <= at - 1)
          PROVE  rest[k] = order[k + 1]
      <4>1. k - (at - 1) \in 1 .. Notes - at /\ at + (k - (at - 1)) = k + 1
        BY <3>2, <1>1, <1>2
      <4>2. rest[k] = above[k - (at - 1)]
        BY <1>4, <2>1, <2>2, <3>2
      <4> QED
        BY <1>5, <4>1, <4>2
    <3> QED
      BY <3>1, <3>2
  <2> QED
    BY <2>1, <2>2, <2>3
<1>7. BringToFront(i) = Append(rest, i)
  BY <1>1 DEF BringToFront, RemoveAt, at
<1>8. i \in S
  BY DEF S
<1> HIDE DEF rest
<1> DEFINE front == Append(rest, i)
<1>9. /\ front \in [1 .. Notes -> S] /\ front[Notes] = i
      /\ \A k \in 1 .. Notes - 1 : front[k] = rest[k]
  <2>1. /\ front \in Seq(S) /\ Len(front) = Notes
        /\ \A k \in 1 .. Len(rest) : front[k] = rest[k]
        /\ front[Len(rest) + 1] = i
    BY <1>1, <1>6, <1>8
  <2> HIDE DEF front
  <2>2. Len(rest) + 1 = Notes
    BY <1>1, <1>6
  <2> QED
    BY <1>1, <1>6, <2>1, <2>2
<1> HIDE DEF front
<1>10. ASSUME NEW j \in 1 .. Notes
       PROVE  \E k \in 1 .. Notes : front[k] = j
  <2>1. ASSUME j = i
        PROVE  \E k \in 1 .. Notes : front[k] = j
    BY <1>1, <1>9, <2>1
  <2>2. ASSUME j # i
        PROVE  \E k \in 1 .. Notes : front[k] = j
    <3>1. PICK k \in 1 .. Notes : order[k] = j
      BY DEF OrderInv
    <3>2. k # at
      BY <1>2, <2>2, <3>1
    <3>3. ASSUME k < at
          PROVE  \E m \in 1 .. Notes : front[m] = j
      <4>1. k \in 1 .. Notes - 1 /\ k <= at - 1
        BY <1>1, <1>2, <3>3
      <4>2. front[k] = order[k]
        BY <1>6, <1>9, <4>1
      <4>3. front[k] = j
        BY <3>1, <4>2
      <4> QED
        BY <4>3
    <3>4. ASSUME k > at
          PROVE  \E m \in 1 .. Notes : front[m] = j
      <4>1. k - 1 \in 1 .. Notes - 1 /\ ~ (k - 1 <= at - 1) /\ (k - 1) + 1 = k
        BY <1>1, <1>2, <3>4
      <4>2. front[k - 1] = order[(k - 1) + 1]
        BY <1>6, <1>9, <4>1
      <4>3. front[k - 1] = j
        BY <3>1, <4>1, <4>2
      <4>4. k - 1 \in 1 .. Notes
        BY <1>1, <4>1
      <4> QED
        BY <4>3, <4>4
    <3> QED
      BY <1>2, <3>2, <3>3, <3>4
  <2> QED
    BY <2>1, <2>2
<1> QED
  BY <1>7, <1>9, <1>10 DEF front, S

\* A board that nobody has touched has its notes in the order they come in.
LEMMA OrderStarts == BoardInit \/ BoardIdle => OrderInv
<1> SUFFICES ASSUME BoardInit \/ BoardIdle
             PROVE  OrderInv
  OBVIOUS
<1>1. order = [i \in 1 .. Notes |-> i] /\ placed = FALSE
  BY DEF BoardInit, BoardIdle
<1> QED
  BY <1>1 DEF OrderInv

\* Pressing a note is all that changes the order.
LEMMA OrderKeeps == OrderInv /\ [BoardStep]_boardVars => OrderInv'
<1> SUFFICES ASSUME OrderInv, [BoardStep]_boardVars
             PROVE  OrderInv'
  OBVIOUS
<1>1. ASSUME NEW i \in 1 .. Notes, PointerDown(i)
      PROVE  OrderInv'
  BY <1>1, FrontKeepsAll DEF PointerDown, OrderInv
<1>2. ASSUME NEW dx \in Reach, PointerMove(dx)
      PROVE  OrderInv'
  BY <1>2 DEF PointerMove, OrderInv
<1>3. ASSUME PointerUp \/ BoardResize \/ UNCHANGED boardVars
      PROVE  OrderInv'
  BY <1>3 DEF PointerUp, BoardResize, boardVars, OrderInv
<1>4. ASSUME BoardMount
      PROVE  OrderInv'
  BY <1>4 DEF BoardMount, OrderInv
<1> QED
  BY <1>1, <1>2, <1>3, <1>4 DEF BoardStep, BoardNext

-----------------------------------------------------------------------------
(* The widgets *)

WidgetsStep == WidgetsNext \/ WidgetsMount

WidgetsInv == WidgetsTypeOK /\ FlagsEnd /\ LabelRestored

\* No flag is up and the label is shown when the page opens.
LEMMA WidgetsStarts == WidgetsInit => WidgetsInv
<1> SUFFICES ASSUME WidgetsInit
             PROVE  WidgetsInv
  OBVIOUS
<1> USE WidgetsAssumption DEF WidgetsInit
<1>1. over \in BOOLEAN /\ tween \in BOOLEAN
  BY Zenon
<1>2. {over, tween} \subseteq BOOLEAN
  BY <1>1, Zenon
<1>3. flag \in [Flags -> BOOLEAN]
  BY Zenon
<1>4. \A f \in Flags : ~ flag[f]
  BY Zenon
<1> QED
  BY <1>2, <1>3, <1>4 DEF WidgetsInv, WidgetsTypeOK, FlagsEnd, LabelRestored

\* A flag is raised with a timer of its own, and while timers of other clicks may
\* clear it early, the one that ends last leaves it cleared.
LEMMA WidgetsKeeps == WidgetsInv /\ [WidgetsStep]_widgetVars => WidgetsInv'
<1> SUFFICES ASSUME WidgetsInv, [WidgetsStep]_widgetVars
             PROVE  WidgetsInv'
  OBVIOUS
<1> DEFINE Timers == /\ flag' \in [Flags -> BOOLEAN]
                     /\ timers' \in [Flags -> 0 .. MaxTimers]
                     /\ FlagsEnd'
           Text == /\ over' \in BOOLEAN /\ tween' \in BOOLEAN
                   /\ text' \in {"label", "scrambled"}
                   /\ LabelRestored'
           Rest == /\ active' \in 0 .. Links /\ tab' \in {"work", "education"}
                   /\ activity' \in {"loading", "none", "commits"}
<1>1. /\ flag \in [Flags -> BOOLEAN] /\ timers \in [Flags -> 0 .. MaxTimers]
      /\ FlagsEnd
  BY DEF WidgetsInv, WidgetsTypeOK
<1>2. /\ over \in BOOLEAN /\ tween \in BOOLEAN
      /\ text \in {"label", "scrambled"} /\ LabelRestored
  BY DEF WidgetsInv, WidgetsTypeOK
<1>3. /\ active \in 0 .. Links /\ tab \in {"work", "education"}
      /\ activity \in {"loading", "none", "commits"}
  BY DEF WidgetsInv, WidgetsTypeOK
<1> USE WidgetsAssumption
<1>4. ASSUME NEW f \in Flags, Raise(f)
      PROVE  Timers
  BY <1>1, <1>4 DEF Raise, FlagsEnd
<1>5. ASSUME UNCHANGED <<flag, timers>>
      PROVE  Timers
  BY <1>1, <1>5 DEF FlagsEnd
<1>6. ASSUME UNCHANGED <<over, tween, text>>
      PROVE  Text
  BY <1>2, <1>6 DEF LabelRestored
<1>7. ASSUME NEW f \in Flags, TimerClears(f) \/ AnimationEnd(f)
      PROVE  Timers /\ Text /\ Rest
  <2>1. Timers
    <3>1. flag' = [flag EXCEPT ![f] = FALSE]
      BY <1>7, Zenon DEF TimerClears, AnimationEnd
    <3>2. flag' \in [Flags -> BOOLEAN] /\ flag'[f] = FALSE
      BY <1>1, <3>1, Zenon
    <3>3. timers' \in [Flags -> 0 .. MaxTimers] /\ \A g \in Flags \ {f} : timers'[g] = timers[g]
      BY <1>1, <1>7 DEF TimerClears, AnimationEnd
    <3>4. \A g \in Flags \ {f} : flag'[g] = flag[g]
      BY <1>1, <3>1
    <3> QED
      BY <1>1, <3>2, <3>3, <3>4 DEF FlagsEnd
  <2>2. Text
    BY <1>6, <1>7 DEF TimerClears, AnimationEnd
  <2>3. Rest
    BY <1>3, <1>7 DEF TimerClears, AnimationEnd
  <2> QED
    BY <2>1, <2>2, <2>3
<1>8. ASSUME NEW i \in 1 .. Links, MoveBlobTo(i)
      PROVE  Timers /\ Text /\ Rest
  <2>1. Timers
    BY <1>4, <1>5, <1>8 DEF MoveBlobTo, Flags
  <2>2. Text
    BY <1>6, <1>8 DEF MoveBlobTo
  <2>3. Rest
    BY <1>3, <1>8 DEF MoveBlobTo
  <2> QED
    BY <2>1, <2>2, <2>3
<1>9. ASSUME NEW t \in {"work", "education"}, SelectTab(t)
      PROVE  Timers /\ Text /\ Rest
  <2>1. Timers
    BY <1>4, <1>9 DEF SelectTab, Flags
  <2>2. Text
    BY <1>6, <1>9 DEF SelectTab
  <2>3. Rest
    BY <1>3, <1>9 DEF SelectTab
  <2> QED
    BY <2>1, <2>2, <2>3
<1>10. CASE HideBlob \/ HandleCopy \/ FetchGithubEnds
  <2>1. Timers
    BY <1>4, <1>5, <1>10 DEF HideBlob, HandleCopy, FetchGithubEnds, Flags
  <2>2. Text
    BY <1>6, <1>10 DEF HideBlob, HandleCopy, FetchGithubEnds
  <2>3. Rest
    BY <1>3, <1>10 DEF HideBlob, HandleCopy, FetchGithubEnds
  <2> QED
    BY <2>1, <2>2, <2>3 DEF WidgetsInv, WidgetsTypeOK
<1>11. CASE HandleEnter \/ Scramble \/ TweenEnds \/ HandleLeave
  <2>1. Timers /\ Rest
    BY <1>3, <1>5, <1>11 DEF HandleEnter, Scramble, TweenEnds, HandleLeave
  <2>2. over' \in BOOLEAN /\ tween' \in BOOLEAN
    BY <1>2, <1>11, Zenon DEF HandleEnter, Scramble, TweenEnds, HandleLeave
  <2>3. text' \in {"label", "scrambled"} /\ LabelRestored'
    BY <1>2, <1>11 DEF HandleEnter, Scramble, TweenEnds, HandleLeave, LabelRestored
  <2> QED
    BY <2>1, <2>2, <2>3 DEF WidgetsInv, WidgetsTypeOK
<1>12. CASE WidgetsMount
  <2>1. over' \in BOOLEAN /\ tween' \in BOOLEAN
    BY <1>12, Zenon DEF WidgetsMount
  <2>2. flag' \in [Flags -> BOOLEAN] /\ \A f \in Flags : ~ flag'[f]
    BY <1>12, Zenon DEF WidgetsMount
  <2> QED
    BY <1>12, <2>1, <2>2 DEF WidgetsMount, WidgetsInv, WidgetsTypeOK, FlagsEnd, LabelRestored
<1>13. CASE UNCHANGED widgetVars
  <2>1. Timers /\ Text /\ Rest
    BY <1>3, <1>5, <1>6, <1>13 DEF widgetVars
  <2> QED
    BY <2>1 DEF WidgetsInv, WidgetsTypeOK
<1>14. ASSUME Timers, Text, Rest
       PROVE  WidgetsInv'
  BY <1>14 DEF WidgetsInv, WidgetsTypeOK
<1> QED
  BY <1>7, <1>8, <1>9, <1>10, <1>11, <1>12, <1>13, <1>14 DEF WidgetsStep, WidgetsNext

\* For any number of links and timers: no flag of the navigation, the tabs or the
\* copy button stays up for good, and a link that is left shows its label.
THEOREM WidgetsSound == WidgetsSpec => [](WidgetsTypeOK /\ FlagsEnd /\ LabelRestored)
<1>1. WidgetsInit => WidgetsInv
  BY WidgetsStarts
<1>2. WidgetsInv /\ [WidgetsStep]_widgetVars => WidgetsInv'
  BY WidgetsKeeps
<1>3. WidgetsInv => WidgetsTypeOK /\ FlagsEnd /\ LabelRestored
  BY DEF WidgetsInv
<1> QED
  BY <1>1, <1>2, <1>3, PTL DEF WidgetsSpec, WidgetsStep

-----------------------------------------------------------------------------
(* The grid of the uptime panel *)

GridStep == GridNext \/ GridMount

\* The greatest window is one of them.
LEMMA MaxWindowFacts ==
    /\ MaxWindow \in Windows /\ MaxWindow \in Nat \ {0} /\ MaxDays \in Nat
    /\ \A v \in Windows : v \in Nat \ {0} /\ v <= MaxWindow
BY UptimeGridAssumption DEF MaxWindow

\* The panel before its first answer.
LEMMA GridStarts == GridInit => GridTypeOK
BY MaxWindowFacts DEF GridInit, GridTypeOK, FirstDay

\* No answer is of a day to come, and every window lies within the days there are.
LEMMA GridKeeps == GridTypeOK /\ [GridStep]_gridVars => GridTypeOK'
<1> SUFFICES ASSUME GridTypeOK, [GridStep]_gridVars
             PROVE  GridTypeOK'
  OBVIOUS
<1>1. /\ FirstDay \in Nat \ {0} /\ MaxDays \in Nat
      /\ \A v \in Windows : v \in Nat \ {0} /\ v <= FirstDay
  BY MaxWindowFacts DEF FirstDay
<1>2. /\ today \in FirstDay .. FirstDay + MaxDays
      /\ avail \in {NoAnswer} \cup FirstDay .. today
      /\ uptimeDays \in Windows
      /\ selDay \in {NoDay} \cup 1 .. today
  BY DEF GridTypeOK
<1>3. today \in Nat /\ today >= FirstDay
  BY <1>1, <1>2
<1>4. ASSUME NextDay
      PROVE  GridTypeOK'
  <2>1. /\ today' = today + 1 /\ today < FirstDay + MaxDays
        /\ avail' = avail /\ uptimeDays' = uptimeDays /\ selDay' = selDay
    BY <1>4 DEF NextDay
  <2>2. today' \in FirstDay .. FirstDay + MaxDays /\ avail' \in {NoAnswer} \cup FirstDay .. today'
    BY <1>1, <1>2, <1>3, <2>1
  <2>3. 1 .. today \subseteq 1 .. today' /\ FirstDay .. today \subseteq FirstDay .. today'
    BY <1>1, <1>3, <2>1
  <2> QED
    BY <1>2, <2>1, <2>2, <2>3 DEF GridTypeOK, FirstDay, MaxWindow
<1>5. ASSUME Refresh \/ GridMount \/ UNCHANGED gridVars
      PROVE  GridTypeOK'
  BY <1>2, <1>5, MaxWindowFacts DEF Refresh, GridMount, gridVars, GridTypeOK, FirstDay, MaxWindow
<1>6. ASSUME NEW n \in Windows, SetUptimeDays(n)
      PROVE  GridTypeOK'
  BY <1>2, <1>6 DEF SetUptimeDays, GridTypeOK, FirstDay, MaxWindow
<1>7. ASSUME NEW d \in avail - uptimeDays + 1 .. avail, SelectDay(d)
      PROVE  GridTypeOK'
  <2>1. avail \in FirstDay .. today /\ UNCHANGED <<today, avail, uptimeDays>>
    BY <1>2, <1>7 DEF SelectDay
  <2>2. d \in 1 .. today
    BY <1>1, <1>2, <1>3, <2>1
  <2>3. selDay' = NoDay \/ selDay' = d
    BY <1>7 DEF SelectDay
  <2> QED
    BY <1>2, <2>1, <2>2, <2>3 DEF GridTypeOK, FirstDay, MaxWindow
<1> QED
  BY <1>4, <1>5, <1>6, <1>7 DEF GridStep, GridNext

\* A remainder by 7 and what is missing to the next multiple of it.
LEMMA SevensFacts ==
    ASSUME NEW x \in Int
    PROVE  /\ x % 7 \in 0 .. 6 /\ ((-x) % 7) \in 0 .. 6
           /\ 7 * ((x + ((-x) % 7)) \div 7) = x + ((-x) % 7)
           /\ (x + ((-x) % 7)) \div 7 \in Int
<1>1. /\ x % 7 \in 0 .. 6 /\ ((-x) % 7) \in 0 .. 6
      /\ (-x) \div 7 \in Int /\ -x = 7 * ((-x) \div 7) + ((-x) % 7)
  OBVIOUS
<1> DEFINE q == (-x) \div 7
           r == ((-x) % 7)
<1> HIDE DEF q, r
<1>2. x + r = 7 * (- q) /\ q \in Int /\ r \in Int
  BY <1>1 DEF q, r
<1>3. \A k \in Int : (7 * k) \div 7 = k
  OBVIOUS
<1>4. (x + r) \div 7 = - q
  BY <1>2, <1>3
<1> QED
  BY <1>1, <1>2, <1>4 DEF q, r

\* The cells of the grid: the days after those of the week before the first one,
\* in full weeks.
LEMMA WeeksFacts ==
    ASSUME NEW last \in Nat, NEW n \in Nat \ {0}, n <= last
    PROVE  LET first == last - n + 1
               weeks == Weeks(Days(last, n))
               start == first - Weekday(first)
               count == Len(weeks)
           IN  /\ count \in Nat /\ count >= 1 /\ DOMAIN weeks = 1 .. count
               /\ Weekday(first) \in 0 .. 6
               /\ Weekday(first) + n <= 7 * count /\ 7 * count < Weekday(first) + n + 7
               /\ \A col \in 1 .. count, row \in 1 .. 7 :
                    weeks[col][row] = IF start + 7 * (col - 1) + (row - 1) \in first .. last
                                      THEN start + 7 * (col - 1) + (row - 1) ELSE NoCell
<1> DEFINE first == last - n + 1
           days == Days(last, n)
           dow == Weekday(first)
           before == [i \in 1 .. dow |-> NoCell]
           padded == before \o days
           gap == (-Len(padded)) % 7
           after == [i \in 1 .. gap |-> NoCell]
           cells == padded \o after
           count == Len(cells) \div 7
           weeks == [k \in 1 .. count |-> SubSeq(cells, 7 * k - 6, 7 * k)]
<1>1. /\ days \in Seq(Int) /\ Len(days) = n
      /\ \A i \in 1 .. n : days[i] = last - n + i
  <2>1. \A i \in 1 .. n : last - n + i \in Int
    OBVIOUS
  <2> QED
    BY <2>1 DEF Days
<1>2. days[1] = first /\ Weekday(days[1]) = dow /\ first \in Int
  BY <1>1
<1>3. dow \in 0 .. 6
  BY <1>2, SevensFacts DEF Weekday
<1>4. Weeks(days) = weeks
  BY <1>2 DEF Weeks
<1>5. before \in Seq(Int) /\ Len(before) = dow /\ \A i \in 1 .. dow : before[i] = NoCell
  <2> HIDE DEF dow
  <2> QED
    BY <1>3 DEF NoCell
<1> HIDE DEF days, dow, before
<1>6. /\ padded \in Seq(Int) /\ Len(padded) = dow + n
      /\ \A i \in 1 .. dow + n : padded[i] = IF i <= dow THEN NoCell ELSE last - n + (i - dow)
  <2>1. /\ padded \in Seq(Int) /\ Len(padded) = Len(before) + Len(days)
        /\ \A i \in 1 .. Len(before) + Len(days) :
              padded[i] = IF i <= Len(before) THEN before[i] ELSE days[i - Len(before)]
    BY <1>1, <1>5, ConcatProperties
  <2> HIDE DEF padded
  <2>2. ASSUME NEW i \in 1 .. dow + n
        PROVE  padded[i] = IF i <= dow THEN NoCell ELSE last - n + (i - dow)
    <3>1. padded[i] = IF i <= dow THEN before[i] ELSE days[i - dow]
      BY <1>1, <1>5, <2>1
    <3>2. i <= dow => i \in 1 .. dow
      BY <1>3
    <3>3. ~ (i <= dow) => i - dow \in 1 .. n
      BY <1>3
    <3> QED
      BY <1>1, <1>5, <3>1, <3>2, <3>3
  <2> QED
    BY <1>1, <1>5, <2>1, <2>2
<1> HIDE DEF padded
<1>7. /\ gap \in 0 .. 6 /\ dow + n \in Nat
      /\ (dow + n + gap) \div 7 \in Int /\ 7 * ((dow + n + gap) \div 7) = dow + n + gap
  <2> DEFINE x == dow + n
  <2>1. x \in Nat /\ x \in Int
    BY <1>3
  <2>2. gap = (-x) % 7
    BY <1>6
  <2> HIDE DEF gap, x
  <2>3. /\ gap \in 0 .. 6 /\ (x + gap) \div 7 \in Int /\ 7 * ((x + gap) \div 7) = x + gap
    BY <2>1, <2>2, SevensFacts
  <2> QED
    BY <2>1, <2>3 DEF x
<1> HIDE DEF gap
<1>8. after \in Seq(Int) /\ Len(after) = gap /\ \A i \in 1 .. gap : after[i] = NoCell
  BY <1>7 DEF NoCell
<1> HIDE DEF after
<1>9. /\ cells \in Seq(Int) /\ Len(cells) = dow + n + gap
      /\ \A i \in 1 .. dow + n + gap :
            cells[i] = IF dow < i /\ i <= dow + n THEN last - n + (i - dow) ELSE NoCell
  <2>1. /\ cells \in Seq(Int) /\ Len(cells) = Len(padded) + Len(after)
        /\ \A i \in 1 .. Len(padded) + Len(after) :
              cells[i] = IF i <= Len(padded) THEN padded[i] ELSE after[i - Len(padded)]
    BY <1>6, <1>8, ConcatProperties
  <2> HIDE DEF cells
  <2>2. Len(padded) + Len(after) = dow + n + gap
    BY <1>6, <1>8
  <2>3. ASSUME NEW i \in 1 .. dow + n + gap
        PROVE  cells[i] = IF dow < i /\ i <= dow + n THEN last - n + (i - dow) ELSE NoCell
    <3>1. cells[i] = IF i <= dow + n THEN padded[i] ELSE after[i - (dow + n)]
      BY <1>6, <2>1, <2>2
    <3>2. i <= dow + n => i \in 1 .. dow + n
      BY <1>7
    <3>3. ~ (i <= dow + n) => i - (dow + n) \in 1 .. gap
      BY <1>7
    <3>4. i \in Int /\ dow \in Int
      BY <1>3, <1>7
    <3> QED
      BY <1>6, <1>8, <3>1, <3>2, <3>3, <3>4
  <2> QED
    BY <2>1, <2>2, <2>3
<1> HIDE DEF cells
<1>10. count \in Int /\ 7 * count = dow + n + gap
  BY <1>7, <1>9
<1> HIDE DEF count
<1>11. count \in Nat /\ count >= 1 /\ dow + n <= 7 * count /\ 7 * count < dow + n + 7
  BY <1>3, <1>7, <1>10
<1>12. \A k \in 1 .. count : weeks[k] = SubSeq(cells, 7 * k - 6, 7 * k)
  OBVIOUS
<1>13. weeks \in Seq(Seq(Int)) /\ Len(weeks) = count /\ DOMAIN weeks = 1 .. count
  <2>1. \A k \in 1 .. count : SubSeq(cells, 7 * k - 6, 7 * k) \in Seq(Int)
    <3> SUFFICES ASSUME NEW k \in 1 .. count
                 PROVE  SubSeq(cells, 7 * k - 6, 7 * k) \in Seq(Int)
      OBVIOUS
    <3>1. \A i \in 7 * k - 6 .. 7 * k : cells[i] \in Int
      BY <1>9, <1>10, <1>11, ElementOfSeq
    <3>2. 7 * k - 6 \in Int /\ 7 * k \in Int
      BY <1>11
    <3> QED
      BY <3>1, <3>2, SubSeqProperties
  <2> QED
    BY <1>11, <2>1
<1> HIDE DEF weeks
<1>14. ASSUME NEW col \in 1 .. count, NEW row \in 1 .. 7
       PROVE  weeks[col][row] = cells[7 * (col - 1) + row]
  <2>1. \A i \in 7 * col - 6 .. 7 * col : cells[i] \in Int
    BY <1>9, <1>10, <1>11, ElementOfSeq
  <2>2. 7 * col - 6 \in Int /\ 7 * col \in Int
    BY <1>11
  <2>3. \A i \in 1 .. 7 * col - (7 * col - 6) + 1 :
            SubSeq(cells, 7 * col - 6, 7 * col)[i] = cells[(7 * col - 6) + i - 1]
    BY <2>1, <2>2, SubSeqProperties
  <2>4. row \in 1 .. 7 * col - (7 * col - 6) + 1
        /\ (7 * col - 6) + row - 1 = 7 * (col - 1) + row
    BY <1>11
  <2>5. SubSeq(cells, 7 * col - 6, 7 * col)[row] = cells[(7 * col - 6) + row - 1]
    BY <2>3, <2>4
  <2> QED
    BY <1>12, <2>4, <2>5
<1>15. ASSUME NEW col \in 1 .. count, NEW row \in 1 .. 7
       PROVE  weeks[col][row] = IF first - dow + 7 * (col - 1) + (row - 1) \in first .. last
                                THEN first - dow + 7 * (col - 1) + (row - 1) ELSE NoCell
  <2> DEFINE i == 7 * (col - 1) + row
             d == first - dow + 7 * (col - 1) + (row - 1)
  <2>1. i \in 1 .. dow + n + gap
    BY <1>10, <1>11
  <2>2. i \in Int /\ d \in Int /\ dow \in Int /\ last - n + (i - dow) = d
    BY <1>2, <1>3, <1>11
  <2>3. d \in first .. last <=> dow < i /\ i <= dow + n
    BY <1>3, <1>11, <2>2
  <2>4. cells[i] = IF dow < i /\ i <= dow + n THEN last - n + (i - dow) ELSE NoCell
    BY <1>9, <2>1
  <2> HIDE DEF i, d
  <2>5. cells[i] = IF d \in first .. last THEN d ELSE NoCell
    BY <2>2, <2>3, <2>4
  <2> QED
    BY <1>14, <2>5 DEF i, d
<1> HIDE DEF first
<1> QED
  BY <1>3, <1>4, <1>11, <1>13, <1>15 DEF first, dow, days

\* The month of a week is the one of its first day.
LEMMA FirstMonthIs ==
    ASSUME NEW week, NEW row \in 1 .. 7, week[row] # NoCell,
           \A r \in 1 .. row - 1 : week[r] = NoCell
    PROVE  FirstMonth(week) = Month(week[row])
<1> DEFINE IsFirst(k) == week[k] # NoCell /\ \A r \in 1 .. k - 1 : week[r] = NoCell
           chosen == CHOOSE k \in 1 .. 7 : IsFirst(k)
<1>1. chosen \in 1 .. 7 /\ IsFirst(chosen)
  <2>1. IsFirst(row)
    OBVIOUS
  <2> HIDE DEF IsFirst
  <2> QED
    BY <2>1
<1>2. FirstMonth(week) = Month(week[chosen])
  BY DEF FirstMonth
<1> HIDE DEF chosen
<1>3. ~ (chosen < row)
  <2>1. chosen < row => chosen \in 1 .. row - 1
    BY <1>1
  <2> QED
    BY <1>1, <2>1
<1>4. ~ (row < chosen)
  <2>1. row < chosen => row \in 1 .. chosen - 1
    BY <1>1
  <2> QED
    BY <1>1, <2>1
<1>5. chosen = row
  BY <1>1, <1>3, <1>4
<1> QED
  BY <1>2, <1>5

\* The last label up to a week names the month of the week.
LEMMA LabelsFacts ==
    ASSUME NEW weeks, NEW count \in Nat, DOMAIN weeks = 1 .. count, NEW col \in 1 .. count
    PROVE  \E label \in Months(weeks) :
              /\ label.col <= col /\ label.month = FirstMonth(weeks[col])
              /\ \A other \in Months(weeks) : other.col <= label.col \/ other.col > col
<1> DEFINE M(c) == FirstMonth(weeks[c])
           Labelled == {c \in DOMAIN weeks : c > 1 => M(c) # M(c - 1)}
           Upto == {col - c : c \in {c \in Labelled : c <= col}}
<1>1. Months(weeks) = {[month |-> M(c), col |-> c] : c \in Labelled}
  BY DEF Months
<1> HIDE DEF M
<1>2. col \in Nat /\ col >= 1 /\ \A c \in Labelled : c \in Nat /\ c >= 1 /\ c <= count
  OBVIOUS
<1>3. Upto \in SUBSET Nat /\ Upto # {}
  <2>1. 1 \in Labelled /\ 1 <= col
    BY <1>2
  <2> QED
    BY <1>2, <2>1
<1>4. PICK u \in Upto : \A v \in Upto : u <= v
  <2> HIDE DEF Upto
  <2> QED
    BY <1>3, LeastExists
<1>5. PICK g \in Labelled : g <= col /\ u = col - g
  OBVIOUS
<1>6. ASSUME NEW c \in Labelled
      PROVE  c <= g \/ c > col
  <2> SUFFICES ASSUME c <= col
               PROVE  c <= g
    BY <1>2
  <2>1. u <= col - c
    BY <1>4
  <2> HIDE DEF Labelled, Upto
  <2> QED
    BY <1>2, <1>5, <2>1
\* The month does not change without a label.
<1>7. M(col) = M(g)
  <2> DEFINE Other == {c \in g .. col : M(c) # M(g)}
  <2>1. g \in Nat /\ g >= 1
    BY <1>2
  <2> SUFFICES ASSUME Other # {}
               PROVE  FALSE
    BY <1>2, <1>5, <2>1
  <2>2. Other \in SUBSET Nat
    BY <2>1
  <2>3. PICK c \in Other : \A d \in Other : c <= d
    <3> HIDE DEF Other
    <3> QED
      BY <2>2, LeastExists
  <2>4. c \in Nat /\ g < c /\ c <= col /\ M(c) # M(g)
    BY <1>2, <2>1
  <2>5. c - 1 \in g .. col /\ c - 1 < c
    BY <1>2, <2>1, <2>4
  <2>6. M(c - 1) = M(g)
    <3>1. c - 1 \notin Other
      <4> HIDE DEF Other
      <4>1. c - 1 \in Other => c <= c - 1
        BY <2>3
      <4> QED
        BY <2>4, <4>1
    <3> QED
      BY <2>5, <3>1
  <2>7. c \in DOMAIN weeks
    BY <1>2, <2>1, <2>4
  <2>8. c \in Labelled
    BY <2>4, <2>6, <2>7
  <2>9. c <= g \/ c > col
    BY <1>6, <2>8
  <2> QED
    BY <1>2, <2>1, <2>4, <2>9
<1> DEFINE label == [month |-> M(g), col |-> g]
<1>8. label \in Months(weeks)
  BY <1>1
<1>9. \A other \in Months(weeks) : other.col <= g \/ other.col > col
  BY <1>1, <1>6
<1> HIDE DEF Labelled, Upto
<1> QED
  BY <1>5, <1>7, <1>8, <1>9 DEF M

\* The grid is aligned for every answer and every window.
LEMMA GridIsAligned == GridTypeOK => GridAligned
<1> SUFFICES ASSUME GridTypeOK, avail # NoAnswer
             PROVE  GridAligned
  BY DEF GridAligned
<1> DEFINE first == avail - uptimeDays + 1
           weeks == Weeks(Days(avail, uptimeDays))
           months == Months(weeks)
           start == first - Weekday(first)
           count == Len(weeks)
           Begins(col) == IF col = 1 THEN first ELSE weeks[col][1]
<1>1. /\ avail \in Nat /\ uptimeDays \in Nat \ {0} /\ uptimeDays <= avail
      /\ first \in Nat /\ first >= 1 /\ first <= avail
  <2>1. /\ FirstDay \in Nat \ {0} /\ MaxDays \in Nat
        /\ \A v \in Windows : v \in Nat \ {0} /\ v <= FirstDay
    BY MaxWindowFacts DEF FirstDay
  <2>2. today \in Nat /\ avail \in FirstDay .. today /\ uptimeDays \in Windows
    BY <2>1 DEF GridTypeOK
  <2> QED
    BY <2>1, <2>2
<1>2. /\ count \in Nat /\ count >= 1 /\ DOMAIN weeks = 1 .. count
      /\ Weekday(first) \in 0 .. 6
      /\ Weekday(first) + uptimeDays <= 7 * count
      /\ 7 * count < Weekday(first) + uptimeDays + 7
      /\ \A col \in 1 .. count, row \in 1 .. 7 :
           weeks[col][row] = IF start + 7 * (col - 1) + (row - 1) \in first .. avail
                             THEN start + 7 * (col - 1) + (row - 1) ELSE NoCell
  BY <1>1, WeeksFacts
<1>3. avail - uptimeDays + 1 = first
  OBVIOUS
<1> HIDE DEF weeks, count
<1>4. ASSUME NEW col \in 1 .. count
      PROVE  FirstMonth(weeks[col]) = Month(Begins(col))
  <2> DEFINE dow == Weekday(first)
  <2>1. ASSUME col = 1
        PROVE  FirstMonth(weeks[col]) = Month(Begins(col))
    <3>1. \A row \in 1 .. 7 : weeks[1][row] = IF first - dow + (row - 1) \in first .. avail
                                              THEN first - dow + (row - 1) ELSE NoCell
      <4>1. \A row \in 1 .. 7 : start + 7 * (1 - 1) + (row - 1) = first - dow + (row - 1)
        BY <1>1, <1>2
      <4>2. 1 \in 1 .. count
        BY <1>2
      <4> HIDE DEF first
      <4> QED
        BY <1>2, <4>1, <4>2
    <3>2. dow + 1 \in 1 .. 7 /\ weeks[1][dow + 1] = first
      <4>1. dow + 1 \in 1 .. 7 /\ first - dow + ((dow + 1) - 1) = first /\ first \in first .. avail
        BY <1>1, <1>2
      <4> HIDE DEF first, dow
      <4> QED
        BY <3>1, <4>1
    <3>3. ASSUME NEW r \in 1 .. (dow + 1) - 1
          PROVE  weeks[1][r] = NoCell
      <4>1. dow \in 0 .. 6 /\ first \in Int
        BY <1>1, <1>2
      <4> HIDE DEF first, dow
      <4>2. r \in 1 .. 7 /\ ~ (first - dow + (r - 1) >= first)
        BY <4>1
      <4>3. first - dow + (r - 1) \notin first .. avail
        BY <4>2
      <4> QED
        BY <3>1, <4>2, <4>3
    <3>4. first # NoCell
      BY <1>1 DEF NoCell
    <3> HIDE DEF first, dow
    <3>5. FirstMonth(weeks[1]) = Month(weeks[1][dow + 1])
      BY <3>2, <3>3, <3>4, FirstMonthIs
    <3> QED
      BY <2>1, <3>2, <3>5
  <2>2. ASSUME col # 1
        PROVE  FirstMonth(weeks[col]) = Month(Begins(col))
    <3> DEFINE d == start + 7 * (col - 1) + (1 - 1)
    <3>1. d \in first .. avail
      <4>1. first \in Int /\ avail \in Int /\ uptimeDays \in Int /\ avail = first + uptimeDays - 1
        BY <1>1
      <4>2. col \in Int /\ col >= 2 /\ col <= count /\ count \in Int
        BY <1>2, <2>2
      <4> HIDE DEF first, dow
      <4>3. dow \in 0 .. 6 /\ 7 * count < dow + uptimeDays + 7
        BY <1>2 DEF dow
      <4>4. d = first - dow + 7 * (col - 1)
        BY <4>1, <4>2, <4>3 DEF dow
      <4> HIDE DEF d
      <4> QED
        BY <4>1, <4>2, <4>3, <4>4
    <3>2. weeks[col][1] = d
      <4> HIDE DEF first
      <4>1. weeks[col][1] = IF d \in first .. avail THEN d ELSE NoCell
        BY <1>2
      <4> HIDE DEF d
      <4> QED
        BY <3>1, <4>1
    <3>3. d # NoCell
      <4> HIDE DEF d, first
      <4> QED
        BY <1>1, <3>1 DEF NoCell
    <3>4. \A r \in 1 .. 1 - 1 : weeks[col][r] = NoCell
      OBVIOUS
    <3> HIDE DEF d, first
    <3>5. FirstMonth(weeks[col]) = Month(weeks[col][1])
      BY <3>2, <3>3, <3>4, FirstMonthIs
    <3> QED
      BY <2>2, <3>5
  <2> QED
    BY <2>1, <2>2
<1>5. ASSUME NEW col \in 1 .. count
      PROVE  \E label \in months :
                /\ label.col <= col /\ label.month = Month(Begins(col))
                /\ \A other \in months : other.col <= label.col \/ other.col > col
  <2>1. FirstMonth(weeks[col]) = Month(Begins(col))
    BY <1>4
  <2> HIDE DEF first, Begins
  <2> QED
    BY <1>2, <2>1, LabelsFacts
<1> HIDE DEF months, Begins
<1>6. GridAligned <=>
         /\ \A col \in DOMAIN weeks : \A row \in 1 .. 7 :
               LET d == first - Weekday(first) + 7 * (col - 1) + (row - 1)
               IN  weeks[col][row] = IF d \in first .. avail THEN d ELSE NoCell
         /\ 7 * Len(weeks) >= Weekday(first) + uptimeDays
         /\ \A col \in DOMAIN weeks :
               \E label \in months :
                  /\ label.col <= col /\ label.month = Month(Begins(col))
                  /\ \A other \in months : other.col <= label.col \/ other.col > col
  BY DEF GridAligned, weeks, months, Begins
<1>7. 7 * Len(weeks) >= Weekday(first) + uptimeDays
  <2> HIDE DEF first
  <2> QED
    BY <1>1, <1>2 DEF count
<1> HIDE DEF first
<1> QED
  BY <1>2, <1>5, <1>6, <1>7

\* For any windows, any length of a month and any number of days, the grid shows
\* every day of the window in its row and column, under the label of its month.
THEOREM GridAlignedHolds == GridSpec => []GridAligned
<1>1. GridTypeOK /\ [GridStep]_gridVars => GridTypeOK'
  BY GridKeeps
<1> QED
  BY <1>1, GridStarts, GridIsAligned, PTL DEF GridSpec, GridStep

-----------------------------------------------------------------------------
(* The panels of /server *)

ServerStep == ServerNext \/ ServerMount \/ ServerUnmount

PollRecord == [state : {"none", "sent", "data", "null"},
               at : Versions \cup {Nothing}, rest : BOOLEAN]

\* An answer that carries data carries a version, and a page that is closed has
\* no poll under way and shows the first screen when it is opened again.
ServerInv ==
    /\ serverOpen \in BOOLEAN /\ initialLoading \in BOOLEAN
    /\ version \in Versions /\ shown \in Versions \cup {Nothing}
    /\ polls \in [1 .. ServerPolls -> PollRecord]
    /\ \A i \in 1 .. ServerPolls : polls[i].state = "data" => polls[i].at \in Versions
    /\ ~ serverOpen => initialLoading /\ \A i \in 1 .. ServerPolls : polls[i] = NoPoll

\* A poll that has just begun, or none, carries no data.
LEMMA PollsAreTyped ==
    /\ NoPoll \in PollRecord /\ NewPoll \in PollRecord
    /\ NoPoll.state = "none" /\ NewPoll.state = "sent"
    /\ FirstPoll \in [1 .. ServerPolls -> PollRecord]
    /\ \A i \in 1 .. ServerPolls : FirstPoll[i].state # "data"
<1>1. NoPoll \in PollRecord /\ NoPoll.state = "none"
  BY DEF NoPoll, PollRecord
<1>2. NewPoll \in PollRecord /\ NewPoll.state = "sent"
  BY <1>1 DEF NewPoll, PollRecord
<1> QED
  BY <1>1, <1>2 DEF FirstPoll

\* A page that has just been opened, or none, satisfies the invariant.
LEMMA ServerStarts == ServerInit \/ ServerIdle => ServerInv
<1> SUFFICES ASSUME ServerInit \/ ServerIdle
             PROVE  ServerInv
  OBVIOUS
<1>1. serverOpen \in BOOLEAN /\ initialLoading \in BOOLEAN /\ initialLoading
  BY Zenon DEF ServerInit, ServerIdle
<1>2. version = 0 /\ shown = Nothing /\ 0 \in Versions
  BY ServerPageAssumption DEF ServerInit, ServerIdle, Versions
<1>3. CASE ServerInit
  BY <1>1, <1>2, <1>3, PollsAreTyped DEF ServerInit, ServerInv
<1>4. CASE ServerIdle
  BY <1>1, <1>2, <1>4, PollsAreTyped DEF ServerIdle, ServerInv
<1> QED
  BY <1>3, <1>4

\* The path that is followed is one of the page.
LEMMA PathStarts == ServerInit \/ ServerIdle => path \in FastPaths \cup SlowPaths
BY ServerPageAssumption DEF ServerInit, ServerIdle

\* No step of the page follows another path.
LEMMA PathKeeps == [ServerStep]_serverPageVars => path' = path
BY DEF ServerStep, ServerNext, NewVersion, FastEnds, ServerRuns, StartPoll, Respond, Fail,
       RestEnds, Apply, ServerMount, ServerUnmount, serverPageVars

\* What a step does to the polls; the rest of the invariant follows.
LEMMA ServerKeeps == ServerInv /\ [ServerStep]_serverPageVars => ServerInv'
<1> SUFFICES ASSUME ServerInv, [ServerStep]_serverPageVars
             PROVE  ServerInv'
  OBVIOUS
<1> USE ServerPageAssumption
<1> DEFINE PollsOK == /\ polls' \in [1 .. ServerPolls -> PollRecord]
                      /\ \A i \in 1 .. ServerPolls :
                            polls'[i].state = "data" => polls'[i].at \in Versions
<1>1. /\ serverOpen \in BOOLEAN /\ initialLoading \in BOOLEAN
      /\ version \in Versions /\ shown \in Versions \cup {Nothing}
      /\ polls \in [1 .. ServerPolls -> PollRecord]
      /\ \A i \in 1 .. ServerPolls : polls[i].state = "data" => polls[i].at \in Versions
      /\ ~ serverOpen => initialLoading /\ \A i \in 1 .. ServerPolls : polls[i] = NoPoll
  BY DEF ServerInv
<1>2. ASSUME NEW i \in 1 .. ServerPolls, NEW p \in PollRecord,
             p.state = "data" => p.at \in Versions,
             polls' = [polls EXCEPT ![i] = p]
      PROVE  PollsOK
  BY <1>1, <1>2
<1>3. ASSUME NEW i \in 1 .. ServerPolls, StartPoll(i)
      PROVE  ServerInv'
  <2>1. PollsOK
    BY <1>2, <1>3, PollsAreTyped DEF StartPoll
  <2> QED
    BY <1>1, <1>3, <2>1 DEF StartPoll, ServerInv
<1>4. ASSUME NEW i \in 1 .. ServerPolls, Respond(i)
      PROVE  ServerInv'
  <2> DEFINE p == [polls[i] EXCEPT !.state = "data", !.at = version]
  <2>1. polls[i] \in PollRecord
    BY <1>1
  <2>2. p \in PollRecord /\ p.at \in Versions
    BY <1>1, <2>1 DEF PollRecord
  <2>3. polls' = [polls EXCEPT ![i] = p]
    BY <1>1, <1>4 DEF Respond
  <2>4. PollsOK
    BY <1>2, <2>2, <2>3
  <2>5. serverOpen
    BY <1>1, <1>4, PollsAreTyped DEF Respond
  <2> QED
    BY <1>1, <1>4, <2>4, <2>5 DEF Respond, ServerInv
<1>5. ASSUME NEW i \in 1 .. ServerPolls, Fail(i)
      PROVE  ServerInv'
  <2> DEFINE p == [polls[i] EXCEPT !.state = "null", !.at = Nothing]
  <2>1. polls[i] \in PollRecord
    BY <1>1
  <2>2. p \in PollRecord /\ p.state = "null"
    BY <2>1 DEF PollRecord
  <2>3. polls' = [polls EXCEPT ![i] = p]
    BY <1>1, <1>5 DEF Fail
  <2>4. PollsOK
    BY <1>2, <2>2, <2>3
  <2>5. serverOpen
    BY <1>1, <1>5, PollsAreTyped DEF Fail
  <2> QED
    BY <1>1, <1>5, <2>4, <2>5 DEF Fail, ServerInv
<1>6. ASSUME NEW i \in 1 .. ServerPolls, RestEnds(i)
      PROVE  ServerInv'
  <2> DEFINE p == [polls[i] EXCEPT !.rest = TRUE]
  <2>1. polls[i] \in PollRecord
    BY <1>1
  <2>2. p \in PollRecord /\ p.state = polls[i].state /\ p.at = polls[i].at
    BY <2>1 DEF PollRecord
  <2>3. polls' = [polls EXCEPT ![i] = p]
    BY <1>1, <1>6 DEF RestEnds
  <2>4. PollsOK
    BY <1>1, <1>2, <2>2, <2>3
  <2>5. serverOpen
    BY <1>1, <1>6, PollsAreTyped DEF RestEnds
  <2> QED
    BY <1>1, <1>6, <2>4, <2>5 DEF RestEnds, ServerInv
<1>7. ASSUME NEW i \in 1 .. ServerPolls, Apply(i)
      PROVE  ServerInv'
  <2>1. PollsOK
    BY <1>2, <1>7, PollsAreTyped DEF Apply
  <2>2. serverOpen
    BY <1>1, <1>7, PollsAreTyped DEF Apply, Ended
  <2>3. shown' \in Versions \cup {Nothing}
    BY <1>1, <1>7 DEF Apply
  <2>4. initialLoading' \in BOOLEAN
    BY <1>7, Zenon DEF Apply
  <2> QED
    BY <1>1, <1>7, <2>1, <2>2, <2>3, <2>4 DEF Apply, ServerInv
<1>8. CASE NewVersion
  <2>1. version' \in Versions
    BY <1>1, <1>8 DEF NewVersion, Versions
  <2> QED
    BY <1>1, <1>8, <2>1 DEF NewVersion, ServerInv, PollRecord, Versions, Nothing, NoPoll
<1>9. CASE FastEnds
  <2>1. initialLoading' \in BOOLEAN
    BY <1>9, Zenon DEF FastEnds
  <2> QED
    BY <1>1, <1>9, <2>1 DEF FastEnds, ServerInv
<1>10. CASE ServerMount
  <2>1. serverOpen' \in BOOLEAN /\ initialLoading' \in BOOLEAN
    BY <1>10, Zenon DEF ServerMount
  <2> QED
    BY <1>1, <1>10, <2>1, PollsAreTyped DEF ServerMount, ServerInv
<1>11. CASE ServerUnmount
  <2>1. serverOpen' \in BOOLEAN /\ initialLoading' \in BOOLEAN
    BY <1>11, Zenon DEF ServerUnmount
  <2> QED
    BY <1>1, <1>11, <2>1, PollsAreTyped DEF ServerUnmount, ServerInv
<1>12. CASE UNCHANGED serverPageVars
  BY <1>1, <1>12 DEF serverPageVars, ServerInv
<1> QED
  BY <1>3, <1>4, <1>5, <1>6, <1>7, <1>8, <1>9, <1>10, <1>11, <1>12
     DEF ServerStep, ServerNext, ServerRuns

\* No step of an open page takes data away that it shows.
LEMMA PanelStep ==
    ServerInv /\ [ServerStep]_serverPageVars
        => [ShowsData /\ serverOpen' => ShowsData']_serverPageVars
<1> SUFFICES ASSUME ServerInv, ServerStep, ShowsData, serverOpen'
             PROVE  ShowsData'
  OBVIOUS
<1>1. ~ initialLoading /\ shown # Nothing
  BY DEF ShowsData
<1>2. ASSUME UNCHANGED <<shown, initialLoading>>
      PROVE  ShowsData'
  BY <1>1, <1>2 DEF ShowsData, Nothing
<1>3. ASSUME NEW i \in 1 .. ServerPolls, Apply(i)
      PROVE  ShowsData'
  <2>1. ~ initialLoading'
    BY <1>1, <1>3, Zenon DEF Apply
  <2>2. shown' # Nothing
    <3>1. \A v \in Versions : v # Nothing
      BY DEF Versions, Nothing
    <3> QED
      BY <1>1, <1>3, <3>1 DEF Apply, ServerInv
  <2> QED
    BY <2>1, <2>2 DEF ShowsData, Nothing
<1>4. ASSUME NEW i \in 1 .. ServerPolls, StartPoll(i) \/ Respond(i) \/ Fail(i) \/ RestEnds(i)
      PROVE  ShowsData'
  BY <1>2, <1>4 DEF StartPoll, Respond, Fail, RestEnds
<1>5. CASE NewVersion
  BY <1>2, <1>5 DEF NewVersion
<1>6. CASE FastEnds
  BY <1>1, <1>6 DEF FastEnds
<1>7. CASE ServerMount
  BY <1>1, <1>7 DEF ServerMount, ServerInv
<1>8. CASE ServerUnmount
  BY <1>8, Zenon DEF ServerUnmount
<1> QED
  BY <1>3, <1>4, <1>5, <1>6, <1>7, <1>8 DEF ServerStep, ServerNext, ServerRuns

\* For any number of polls and versions and any order of answers and failures, a
\* panel of /server that has shown data shows data until the page is closed.
THEOREM PanelStaysHolds == ServerSpec => PanelStays
<1>1. ServerInit => ServerInv
  BY ServerStarts
<1>2. ServerInv /\ [ServerStep]_serverPageVars => ServerInv'
  BY ServerKeeps
<1>3. ServerInv /\ [ServerStep]_serverPageVars
          => [ShowsData /\ serverOpen' => ShowsData']_serverPageVars
  BY PanelStep
<1>4. [\/ ServerNext /\ UNCHANGED reachable
       \/ (ServerMount \/ ServerUnmount) /\ UNCHANGED reachable
       \/ ApiNext /\ UNCHANGED serverPageVars]_<<reachable, serverPageVars>>
          => [ServerStep]_serverPageVars
  BY Zenon DEF ServerStep
<1> QED
  BY <1>1, <1>2, <1>3, <1>4, PTL DEF ServerSpec, PanelStays

-----------------------------------------------------------------------------
(* The events of the cluster page *)

ClusterStep == ClusterNext \/ ClusterMount \/ ClusterUnmount

TickRecord == [cluster : {"sent", "answered", "done"}, answer : Answers, keys : {"sent", "done"}]

\* The events tell the story up to the state seen last, which the answer shown
\* does not contradict.
Story(log, seen) ==
    \A s \in Subject : \A i \in DOMAIN log :
        log[i].subject = s =>
            /\ (\A k \in DOMAIN log : log[k].subject = s => i <= k) => log[i].to = seen[s]
            /\ \A j \in DOMAIN log :
                 /\ log[j].subject = s /\ i < j
                 /\ \A k \in DOMAIN log : log[k].subject = s => k <= i \/ j <= k
                 => log[i].from = log[j].to

\* New events tell of a subject once, how it came from the state seen before to
\* the one seen now; a subject with older events and none of these is seen in
\* the same state still.
Continues(list, new, seen, now) ==
    /\ \A i \in DOMAIN new : new[i].subject \in Subject =>
         new[i].from = seen[new[i].subject] /\ new[i].to = now[new[i].subject]
    /\ \A i, j \in DOMAIN new :
         new[i].subject \in Subject /\ new[i].subject = new[j].subject => i = j
    /\ \A s \in Subject, k \in DOMAIN list :
         /\ list[k].subject = s /\ list[k].to = seen[s]
         /\ \A i \in DOMAIN new : new[i].subject # s
         => now[s] = seen[s]

EventInv ==
    /\ ClusterPageTypeOK
    /\ Story(events, prevStates)
    /\ \A s \in Subject : data[s] # "none" => prevStates[s] = data[s]

\* Counting from the greatest numbers a finite set of numbers, each once.
LEMMA CountFromLast ==
    ASSUME NEW n \in Nat, NEW S \in SUBSET (1 .. n)
    PROVE  /\ Cardinality(S) \in Nat
           /\ \A i \in 1 .. Cardinality(S) : FromLast(S, i) \in S
           /\ \A i, j \in 1 .. Cardinality(S) : FromLast(S, i) = FromLast(S, j) => i = j
           /\ \A k \in S : \E i \in 1 .. Cardinality(S) : FromLast(S, i) = k
<1> DEFINE up(k) == {j \in S : j >= k}
<1>0. \A k \in S : k \in Nat /\ k <= n /\ n - k \in Nat
  OBVIOUS
<1>1. ASSUME NEW T \in SUBSET S
      PROVE  IsFiniteSet(T) /\ Cardinality(T) \in Nat /\ Cardinality(T) <= Cardinality(S)
  <2>1. IsFiniteSet(1 .. n)
    BY FS_Interval
  <2>2. IsFiniteSet(S) /\ IsFiniteSet(T)
    BY <2>1, FS_Subset
  <2> QED
    BY <2>2, FS_Subset, FS_CardinalityType
<1>2. ASSUME NEW T \in SUBSET S, NEW k \in T
      PROVE  Cardinality(T \ {k}) = Cardinality(T) - 1
  BY <1>1, FS_RemoveElement
<1>3. \A k \in S : up(k) \in SUBSET S /\ k \in up(k)
  OBVIOUS
<1>4. ASSUME NEW T \in SUBSET S, T # {}
      PROVE  \E x \in T : \A y \in T : x <= y
  <2>1. T \in SUBSET Nat
    OBVIOUS
  <2> QED
    BY <1>4, <2>1, LeastExists
\* A later number has fewer at or after it.
<1>5. ASSUME NEW k \in S, NEW m \in S, k < m
      PROVE  Cardinality(up(m)) < Cardinality(up(k))
  <2>1. up(m) \subseteq up(k) \ {k}
    <3>1. ASSUME NEW j \in S, j >= m
          PROVE  j >= k /\ j # k
      BY <1>0, <1>5, <3>1
    <3> QED
      BY <3>1
  <2>2. up(k) \ {k} \in SUBSET S
    OBVIOUS
  <2>3. IsFiniteSet(up(k) \ {k}) /\ Cardinality(up(m)) <= Cardinality(up(k) \ {k})
    BY <1>1, <2>1, <2>2, FS_Subset
  <2>4. Cardinality(up(k) \ {k}) = Cardinality(up(k)) - 1
    BY <1>2, <1>3
  <2>5. Cardinality(up(k)) \in Nat /\ Cardinality(up(m)) \in Nat
    BY <1>1, <1>3
  <2> HIDE DEF up
  <2> QED
    BY <2>3, <2>4, <2>5
<1>6. \A k \in S : Cardinality(up(k)) \in 1 .. Cardinality(S)
  <2> SUFFICES ASSUME NEW k \in S PROVE Cardinality(up(k)) \in 1 .. Cardinality(S)
    OBVIOUS
  <2>1. Cardinality(up(k)) \in Nat /\ Cardinality(up(k)) <= Cardinality(S) /\ IsFiniteSet(up(k))
    BY <1>1, <1>3
  <2>2. Cardinality(up(k)) # 0
    BY <1>3, <2>1, FS_EmptySet
  <2>3. Cardinality(S) \in Nat
    BY <1>1
  <2> HIDE DEF up
  <2> QED
    BY <2>1, <2>2, <2>3
\* Of the numbers with at least i at or after them, the greatest has just i.
<1>7. ASSUME NEW i \in 1 .. Cardinality(S)
      PROVE  \E k \in S : Cardinality(up(k)) = i
  <2> DEFINE D == {k \in S : Cardinality(up(k)) >= i}
             R == {n - k : k \in D}
  <2>0. Cardinality(S) \in Nat /\ i \in Nat /\ i >= 1
    BY <1>1
  <2>1. D # {}
    <3>1. S # {}
      BY <2>0, FS_EmptySet
    <3>2. PICK k \in S : \A y \in S : k <= y
      BY <1>4, <3>1
    <3>3. up(k) = S
      BY <3>2
    <3>4. Cardinality(up(k)) >= i
      BY <3>3, <2>0
    <3> QED
      BY <3>4
  <2>2. R \in SUBSET Nat /\ R # {}
    BY <1>0, <2>1
  <2>3. PICK r \in R : \A y \in R : r <= y
    <3> HIDE DEF R
    <3> QED
      BY <2>2, LeastExists
  <2>4. PICK g \in D : r = n - g
    OBVIOUS
  <2>5. ASSUME NEW k \in D
        PROVE  k <= g
    <3>1. n - k \in R
      OBVIOUS
    <3>2. r <= n - k
      BY <2>3, <3>1
    <3>3. k \in Nat /\ g \in Nat
      BY <1>0
    <3> HIDE DEF R, D
    <3> QED
      BY <2>4, <3>2, <3>3
  <2>6. g \in S /\ Cardinality(up(g)) \in Nat /\ Cardinality(up(g)) >= i
    BY <1>6
  <2>7. ASSUME Cardinality(up(g)) > i
        PROVE  FALSE
    <3> DEFINE T == up(g) \ {g}
    <3>1. T \in SUBSET S /\ Cardinality(T) = Cardinality(up(g)) - 1
      BY <1>2, <1>3, <2>6
    <3>2. Cardinality(T) >= i
      BY <3>1, <2>0, <2>6, <2>7
    <3>3. T # {}
      <4>1. Cardinality({}) = 0
        BY FS_EmptySet
      <4> HIDE DEF T
      <4> QED
        BY <3>2, <2>0, <4>1
    <3>4. PICK h \in T : \A y \in T : h <= y
      BY <1>4, <3>1, <3>3
    <3>5. h \in S /\ h > g /\ up(h) = T
      <4>1. h \in S /\ h >= g /\ h # g /\ g \in Nat /\ h \in Nat
        BY <3>4, <2>6
      <4>2. \A j \in S : j \in T <=> j >= g /\ j # g
        OBVIOUS
      <4>3. \A j \in S : j \in Nat
        OBVIOUS
      <4>4. \A j \in T : j \in S /\ h <= j
        BY <3>4
      <4>5. \A j \in S : j \in up(h) <=> j >= h
        OBVIOUS
      <4> HIDE DEF T
      <4>6. \A j \in S : j \in T <=> j >= h
        BY <4>1, <4>2, <4>3, <4>4
      <4>7. up(h) \subseteq S
        OBVIOUS
      <4> HIDE DEF up
      <4> QED
        BY <4>1, <4>4, <4>5, <4>6, <4>7
    <3>6. h \in D
      BY <3>2, <3>5
    <3> QED
      BY <2>5, <3>5, <3>6
  <2>8. Cardinality(up(g)) = i
    BY <2>0, <2>6, <2>7
  <2> QED
    BY <2>6, <2>8
<1>8. \A i \in 1 .. Cardinality(S) :
          FromLast(S, i) \in S /\ Cardinality(up(FromLast(S, i))) = i
  BY <1>7 DEF FromLast
<1>9. ASSUME NEW k \in S
      PROVE  FromLast(S, Cardinality(up(k))) = k
  <2> DEFINE f == FromLast(S, Cardinality(up(k)))
  <2>1. f \in S /\ Cardinality(up(f)) = Cardinality(up(k))
    BY <1>6, <1>8
  <2>2. Cardinality(up(f)) \in Nat /\ Cardinality(up(k)) \in Nat
    BY <1>1, <1>3, <2>1
  <2>3. ~ (f < k) /\ ~ (k < f)
    <3> HIDE DEF f, up
    <3> QED
      BY <1>5, <2>1, <2>2
  <2> HIDE DEF f, up
  <2>4. f \in Int /\ k \in Int
    BY <1>0, <2>1
  <2>5. f = k
    BY <2>3, <2>4
  <2> QED
    BY <2>5 DEF f
<1>10. Cardinality(S) \in Nat
  BY <1>1
<1> HIDE DEF up
<1> QED
  BY <1>6, <1>8, <1>9, <1>10

\* What is logged of an answer: one event for each subject that is in another
\* state than it was seen in.
LEMMA ChangedFacts ==
    ASSUME prevStates \in Answers, NEW a \in Answers
    PROVE  /\ Changed(a) \in Seq(Logged)
           /\ \A i \in DOMAIN Changed(a) :
                LET e == Changed(a)[i]
                IN  /\ e.subject \in Subject /\ a[e.subject] # "none"
                    /\ e.from = prevStates[e.subject] /\ e.from # "none"
                    /\ e.to = a[e.subject] /\ e.to # e.from
           /\ \A i, j \in DOMAIN Changed(a) :
                Changed(a)[i].subject = Changed(a)[j].subject => i = j
           /\ \A s \in Subject : a[s] # "none" /\ prevStates[s] \notin {"none", a[s]}
                => \E i \in DOMAIN Changed(a) : Changed(a)[i].subject = s
<1> DEFINE IsChange(s) == a[s] # "none" /\ prevStates[s] \notin {"none", a[s]}
           Log(s) == Event(s, prevStates[s], a[s])
           seen == {k \in DOMAIN Subjects : IsChange(Subjects[k])}
           n == Cardinality(seen)
           subj(i) == Subjects[FromLast(seen, i)]
<1>1. /\ Subjects \in Seq(Seq(STRING)) /\ Len(Subjects) \in Nat
      /\ DOMAIN Subjects = 1 .. Len(Subjects)
      /\ \A i, j \in DOMAIN Subjects : Subjects[i] = Subjects[j] => i = j
  BY ClusterPageAssumption
<1>2. seen \in SUBSET (1 .. Len(Subjects))
  BY <1>1
<1>3. /\ n \in Nat
      /\ \A i \in 1 .. n : FromLast(seen, i) \in seen
      /\ \A i, j \in 1 .. n : FromLast(seen, i) = FromLast(seen, j) => i = j
      /\ \A k \in seen : \E i \in 1 .. n : FromLast(seen, i) = k
  <2> HIDE DEF seen
  <2> QED
    BY <1>1, <1>2, CountFromLast
<1>4. Changed(a) = [i \in 1 .. n |-> Log(subj(i))]
  BY DEF Changed
<1>5. \A i \in 1 .. n : subj(i) \in Subject /\ IsChange(subj(i))
  BY <1>3 DEF Subject, ToSet
<1>6. \A s \in Subject : /\ a[s] \in StatesOf(s) \cup {"none"}
                         /\ prevStates[s] \in StatesOf(s) \cup {"none"}
  BY DEF Answers
<1>7. ASSUME NEW i \in 1 .. n
      PROVE  Log(subj(i)) \in Logged
  <2>1. a[subj(i)] \in StatesOf(subj(i)) /\ prevStates[subj(i)] \in StatesOf(subj(i))
    BY <1>5, <1>6
  <2>2. \A s \in Subject : \A from, to \in StatesOf(s) : Event(s, from, to) \in Logged
    BY DEF Logged
  <2> HIDE DEF subj
  <2> QED
    BY <1>5, <2>1, <2>2
<1>8. Changed(a) \in Seq(Logged) /\ DOMAIN Changed(a) = 1 .. n
  <2> DEFINE e(i) == Log(subj(i))
  <2>1. \A i \in 1 .. n : e(i) \in Logged
    BY <1>7
  <2>2. [i \in 1 .. n |-> e(i)] \in Seq(Logged)
    <3> HIDE DEF e, n
    <3> QED
      BY <1>3, <2>1, IsASeq
  <2> QED
    BY <1>4, <2>2
<1>9. \A i \in 1 .. n : Changed(a)[i] = Log(subj(i))
  BY <1>4
<1>10. \A i \in 1 .. n : /\ Changed(a)[i].subject = subj(i)
                         /\ Changed(a)[i].from = prevStates[subj(i)]
                         /\ Changed(a)[i].to = a[subj(i)]
  <2>1. \A s, from, to : /\ Event(s, from, to).subject = s /\ Event(s, from, to).from = from
                          /\ Event(s, from, to).to = to
    BY DEF Event
  <2> HIDE DEF subj, n
  <2> QED
    BY <1>9, <2>1
<1>11. \A i, j \in 1 .. n : subj(i) = subj(j) => i = j
  BY <1>1, <1>3
<1>12. ASSUME NEW s \in Subject, IsChange(s)
       PROVE  \E i \in 1 .. n : subj(i) = s
  <2>1. PICK k \in DOMAIN Subjects : Subjects[k] = s
    BY DEF Subject, ToSet
  <2>2. k \in seen
    BY <1>12, <2>1
  <2> QED
    BY <1>3, <2>1, <2>2
<1> HIDE DEF subj, n, seen
<1> QED
  BY <1>5, <1>8, <1>10, <1>11, <1>12

\* Pushing puts the new events before the old ones and drops the oldest.
LEMMA PushFacts ==
    ASSUME NEW S, NEW list \in Seq(S), NEW new \in Seq(S)
    PROVE  LET p == Push(list, new)
           IN  /\ p \in Seq(S) /\ Len(p) <= MaxEvents /\ Len(p) <= Len(new) + Len(list)
               /\ DOMAIN p = 1 .. Len(p)
               /\ \A i \in 1 .. Len(p) : p[i] = IF i <= Len(new) THEN new[i] ELSE list[i - Len(new)]
<1> DEFINE l == Len(new) + Len(list)
           m == Min({MaxEvents, l})
           c == new \o list
<1>1. MaxEvents \in Nat /\ Len(new) \in Nat /\ Len(list) \in Nat /\ l \in Nat
  BY ClusterPageAssumption
<1>2. m \in Nat /\ m <= MaxEvents /\ m <= l
  <2> DEFINE least == IF MaxEvents <= l THEN MaxEvents ELSE l
  <2>1. least \in {MaxEvents, l} /\ \A y \in {MaxEvents, l} : least <= y
    BY <1>1
  <2>2. m \in {MaxEvents, l} /\ \A y \in {MaxEvents, l} : m <= y
    <3> HIDE DEF l, least
    <3> QED
      BY <2>1 DEF Min
  <2> HIDE DEF m, l
  <2> QED
    BY <1>1, <2>2
<1>3. /\ c \in Seq(S) /\ Len(c) = l
      /\ \A i \in 1 .. l : c[i] = IF i <= Len(new) THEN new[i] ELSE list[i - Len(new)]
  BY ConcatProperties
<1>4. \A i \in 1 .. m : c[i] \in S
  <2> HIDE DEF c, m, l
  <2>1. \A i \in 1 .. m : i \in 1 .. Len(c)
    BY <1>1, <1>2, <1>3
  <2> QED
    BY <1>3, <2>1, ElementOfSeq
<1>5. /\ SubSeq(c, 1, m) \in Seq(S) /\ Len(SubSeq(c, 1, m)) = m
      /\ \A i \in 1 .. m : SubSeq(c, 1, m)[i] = c[i]
  <2> HIDE DEF c, m
  <2>0. 1 \in Int /\ m \in Int
    BY <1>2
  <2>1. /\ SubSeq(c, 1, m) \in Seq(S)
        /\ Len(SubSeq(c, 1, m)) = IF 1 <= m THEN m - 1 + 1 ELSE 0
        /\ \A i \in 1 .. m - 1 + 1 : SubSeq(c, 1, m)[i] = c[1 + i - 1]
    BY <1>4, <2>0, SubSeqProperties
  <2> QED
    BY <1>2, <2>1
<1>6. Push(list, new) = SubSeq(c, 1, m)
  BY DEF Push
<1> HIDE DEF c, m
<1> QED
  BY <1>1, <1>2, <1>3, <1>5, <1>6

\* The story goes on when events are pushed that tell of each subject at most
\* once, from the state it was seen last in to the one it is seen in now, and of
\* no subject that had events before and is seen as it was.
LEMMA StoryGoesOn ==
    ASSUME NEW list \in Seq(Logged), NEW new \in Seq(Logged), NEW seen, NEW now,
           Story(list, seen),
           Continues(list, new, seen, now)
    PROVE  Story(Push(list, new), now)
<1> DEFINE p == Push(list, new)
           n == Len(new)
<1>1. /\ p \in Seq(Logged) /\ Len(p) <= n + Len(list) /\ DOMAIN p = 1 .. Len(p)
      /\ Len(p) \in Nat /\ n \in Nat /\ Len(list) \in Nat
      /\ \A i \in 1 .. Len(p) : p[i] = IF i <= n THEN new[i] ELSE list[i - n]
  BY PushFacts
<1>0. /\ \A i \in DOMAIN new : new[i].subject \in Subject =>
           new[i].from = seen[new[i].subject] /\ new[i].to = now[new[i].subject]
      /\ \A i, j \in DOMAIN new :
           new[i].subject \in Subject /\ new[i].subject = new[j].subject => i = j
      /\ \A s \in Subject, k \in DOMAIN list :
           /\ list[k].subject = s /\ list[k].to = seen[s]
           /\ \A i \in DOMAIN new : new[i].subject # s
           => now[s] = seen[s]
  BY DEF Continues
<1>2. DOMAIN new = 1 .. n /\ DOMAIN list = 1 .. Len(list)
  OBVIOUS
\* Where the events pushed come from.
<1>3. ASSUME NEW i \in DOMAIN p
      PROVE  /\ i \in Nat
             /\ i <= n => i \in 1 .. n /\ p[i] = new[i]
             /\ ~ (i <= n) => i - n \in 1 .. Len(list) /\ p[i] = list[i - n]
  BY <1>1
<1> SUFFICES Story(p, now)
  OBVIOUS
<1> HIDE DEF p, n
<1> SUFFICES ASSUME NEW s \in Subject, NEW i \in DOMAIN p, p[i].subject = s
             PROVE  /\ (\A k \in DOMAIN p : p[k].subject = s => i <= k) => p[i].to = now[s]
                    /\ \A j \in DOMAIN p :
                         /\ p[j].subject = s /\ i < j
                         /\ \A k \in DOMAIN p : p[k].subject = s => k <= i \/ j <= k
                         => p[i].from = p[j].to
  BY DEF Story
\* An event of s among the old ones is pushed behind all the new ones.
<1>4. ASSUME NEW j \in DOMAIN p, ~ (j <= n), p[j].subject = s,
             \A k \in DOMAIN p : p[k].subject = s => ~ (n < k /\ k < j)
      PROVE  /\ list[j - n].subject = s
             /\ list[j - n].to = seen[s]
  <2>1. j - n \in DOMAIN list /\ list[j - n].subject = s /\ j \in Nat
    BY <1>2, <1>3, <1>4
  <2>2. ASSUME NEW k \in DOMAIN list, list[k].subject = s
        PROVE  j - n <= k
    <3>1. k \in Nat /\ k >= 1 /\ k <= Len(list)
      BY <1>1, <1>2
    <3>2. SUFFICES ASSUME k < j - n
                   PROVE  FALSE
      BY <1>1, <2>1, <3>1
    <3>3. /\ k + n \in DOMAIN p /\ ~ (k + n <= n) /\ n < k + n /\ k + n < j
          /\ (k + n) - n = k
      BY <1>1, <2>1, <3>1, <3>2
    <3>4. p[k + n] = list[(k + n) - n]
      BY <1>3, <3>3
    <3>5. p[k + n].subject = s
      BY <2>2, <3>3, <3>4
    <3> QED
      BY <1>4, <3>3, <3>5
  <2> QED
    BY <2>1, <2>2 DEF Story
<1>5. ASSUME \A k \in DOMAIN p : p[k].subject = s => i <= k
      PROVE  p[i].to = now[s]
  <2>1. ASSUME i <= n
        PROVE  p[i].to = now[s]
    BY <1>0, <1>2, <1>3, <2>1
  <2>2. ASSUME ~ (i <= n)
        PROVE  p[i].to = now[s]
    <3>1. \A k \in DOMAIN p : p[k].subject = s => ~ (n < k /\ k < i)
      BY <1>1, <1>3, <1>5
    <3>2. list[i - n].subject = s /\ list[i - n].to = seen[s] /\ i - n \in DOMAIN list
          /\ p[i] = list[i - n]
      BY <1>2, <1>3, <1>4, <2>2, <3>1
    <3>3. \A k \in DOMAIN new : new[k].subject # s
      <4> SUFFICES ASSUME NEW k \in DOMAIN new, new[k].subject = s
                   PROVE  FALSE
        OBVIOUS
      <4>1. k \in DOMAIN p /\ k <= n /\ k < i
        BY <1>1, <1>2, <1>3, <2>2
      <4> QED
        BY <1>3, <1>5, <4>1
    <3> QED
      BY <1>0, <3>2, <3>3
  <2> QED
    BY <2>1, <2>2
<1>6. ASSUME NEW j \in DOMAIN p, p[j].subject = s, i < j,
             \A k \in DOMAIN p : p[k].subject = s => k <= i \/ j <= k
      PROVE  p[i].from = p[j].to
  <2>1. i \in Nat /\ j \in Nat
    BY <1>3
  <2>2. ASSUME i <= n
        PROVE  p[i].from = p[j].to
    <3>1. i \in DOMAIN new /\ p[i] = new[i] /\ p[i].from = seen[s]
      BY <1>0, <1>2, <1>3, <2>2
    <3>2. ~ (j <= n)
      BY <1>0, <1>2, <1>3, <1>6, <2>1, <3>1
    <3>3. ASSUME NEW k \in DOMAIN p, p[k].subject = s
          PROVE  ~ (n < k /\ k < j)
      <4>1. k \in Nat /\ (k <= i \/ j <= k)
        BY <1>3, <1>6, <3>3
      <4> HIDE DEF p, n
      <4> QED
        BY <1>1, <2>1, <2>2, <4>1
    <3>4. list[j - n].to = seen[s] /\ p[j] = list[j - n]
      BY <1>3, <1>4, <1>6, <3>2, <3>3
    <3> QED
      BY <3>1, <3>4
  <2>3. ASSUME ~ (i <= n)
        PROVE  p[i].from = p[j].to
    <3>1. ~ (j <= n) /\ i - n < j - n
      BY <1>1, <1>6, <2>1, <2>3
    <3>2. /\ i - n \in DOMAIN list /\ p[i] = list[i - n]
          /\ j - n \in DOMAIN list /\ p[j] = list[j - n]
      BY <1>2, <1>3, <2>3, <3>1
    <3>3. ASSUME NEW k \in DOMAIN list, list[k].subject = s
          PROVE  k <= i - n \/ j - n <= k
      <4>1. k \in Nat /\ k >= 1 /\ k <= Len(list)
        BY <1>1, <1>2
      <4>2. SUFFICES ASSUME i - n < k, k < j - n
                     PROVE  FALSE
        BY <1>1, <2>1, <4>1
      <4>3. k + n \in DOMAIN p /\ ~ (k + n <= n) /\ k + n < j /\ i < k + n /\ (k + n) - n = k
        BY <1>1, <2>1, <4>1, <4>2
      <4>4. p[k + n] = list[(k + n) - n]
        BY <1>3, <4>3
      <4>5. p[k + n].subject = s
        BY <3>3, <4>3, <4>4
      <4>6. k + n <= i \/ j <= k + n
        BY <1>6, <4>3, <4>5
      <4>7. k + n < j /\ i < k + n /\ k + n \in Nat
        BY <1>1, <4>1, <4>3
      <4> HIDE DEF p, n
      <4> QED
        BY <2>1, <4>6, <4>7
    <3> QED
      BY <1>6, <3>1, <3>2, <3>3 DEF Story
  <2> QED
    BY <2>2, <2>3
<1> QED
  BY <1>5, <1>6

\* Answers tell of every subject a state it can be in, or nothing.
LEMMA AnswersAreTyped ==
    /\ NoData \in Answers /\ AllAlive \in Answers
    /\ \A t \in Answers : AnswerOf(t) \in Answers
    /\ \A a, b \in Answers : [s \in Subject |-> IF a[s] # "none" THEN a[s] ELSE b[s]] \in Answers
    /\ \A s \in Subject : StatesOf(s) \subseteq {"alive", "unreachable", "suspect", "dead"}
    /\ {NoTick, Sent, SentLater} \subseteq TickRecord
<1> DEFINE St == {"alive", "unreachable", "suspect", "dead", "none"}
<1>1. \A s \in Subject : /\ StatesOf(s) \subseteq {"alive", "unreachable", "suspect", "dead"}
                         /\ "alive" \in StatesOf(s)
  BY DEF StatesOf
<1>2. ASSUME NEW f \in [Subject -> St], \A s \in Subject : f[s] \in StatesOf(s) \cup {"none"}
      PROVE  f \in Answers
  BY <1>2 DEF Answers
<1>3. ASSUME NEW a \in Answers
      PROVE  /\ a \in [Subject -> St]
             /\ \A s \in Subject : a[s] \in St /\ a[s] \in StatesOf(s) \cup {"none"}
  BY DEF Answers
<1>4. NoData \in Answers
  <2>1. NoData \in [Subject -> St] /\ \A s \in Subject : NoData[s] = "none"
    BY DEF NoData
  <2> QED
    BY <1>2, <2>1
<1>5. AllAlive \in Answers
  <2>1. AllAlive \in [Subject -> St] /\ \A s \in Subject : AllAlive[s] = "alive"
    BY DEF AllAlive
  <2> QED
    BY <1>1, <1>2, <2>1
<1>6. ASSUME NEW t \in Answers
      PROVE  AnswerOf(t) \in Answers
  <2>1. \A s \in Subject : AnswerOf(t)[s] \in {"none", t[s]}
    BY DEF AnswerOf
  <2>2. AnswerOf(t) \in [Subject -> St]
    BY <1>3 DEF AnswerOf
  <2>3. \A s \in Subject : AnswerOf(t)[s] \in StatesOf(s) \cup {"none"}
    BY <1>3, <2>1
  <2> QED
    BY <1>2, <2>2, <2>3
<1>7. ASSUME NEW a \in Answers, NEW b \in Answers
      PROVE  [s \in Subject |-> IF a[s] # "none" THEN a[s] ELSE b[s]] \in Answers
  <2> DEFINE f == [s \in Subject |-> IF a[s] # "none" THEN a[s] ELSE b[s]]
  <2>1. f \in [Subject -> St]
    BY <1>3
  <2>2. \A s \in Subject : f[s] \in StatesOf(s) \cup {"none"}
    BY <1>3
  <2> HIDE DEF f
  <2>3. f \in Answers
    BY <1>2, <2>1, <2>2
  <2> QED
    BY <2>3 DEF f
<1>8. NoTick \in TickRecord /\ Sent \in TickRecord /\ SentLater \in TickRecord
  BY <1>4 DEF NoTick, Sent, SentLater, TickRecord
<1> QED
  BY <1>1, <1>4, <1>5, <1>6, <1>7, <1>8

\* The end of one of the fetches of a poll leaves a poll for every poll.
LEMMA SettleIsTyped ==
    ASSUME ClusterPageTypeOK, NEW i \in 1 .. ClusterPolls, NEW tick \in TickRecord, Settle(i, tick)
    PROVE  ticks' \in [1 .. ClusterPolls -> TickRecord] /\ loading' \in BOOLEAN
<1> DEFINE after == [ticks EXCEPT ![i] = tick]
<1>1. ticks \in [1 .. ClusterPolls -> TickRecord] /\ DOMAIN ticks = 1 .. ClusterPolls
  BY DEF ClusterPageTypeOK, TickRecord
<1>2. after \in [1 .. ClusterPolls -> TickRecord]
  BY <1>1
<1>3. \A r \in TickRecord : [r EXCEPT !.keys = "done"] \in TickRecord
  BY DEF TickRecord
<1>4. [j \in DOMAIN ticks |-> [after[j] EXCEPT !.keys = "done"]]
          \in [1 .. ClusterPolls -> TickRecord]
  <2> HIDE DEF after
  <2> QED
    BY <1>1, <1>2, <1>3
<1>5. \/ ticks' = after
      \/ ticks' = [j \in DOMAIN ticks |-> [after[j] EXCEPT !.keys = "done"]]
  BY DEF Settle
<1>6. loading' \in BOOLEAN
  BY DEF Settle
<1> QED
  BY <1>2, <1>4, <1>5, <1>6

\* A list without an event, or with the one of the page being opened, tells of
\* no subject.
LEMMA ShortLogs ==
    ASSUME NEW log, log = <<Connecting>> \/ log = <<>>
    PROVE  /\ log \in Seq(Logged) /\ Len(log) <= MaxEvents
           /\ \A i \in DOMAIN log : log[i].subject \notin Subject
<1>1. MaxEvents \in Nat \ {0}
  BY ClusterPageAssumption
<1>2. <<>> \in Seq(Logged) /\ Len(<<>>) = 0
  OBVIOUS
<1>3. <<Connecting>> \in Seq(Logged) /\ Len(<<Connecting>>) = 1
  <2>1. Connecting \in Logged
    BY DEF Logged
  <2> QED
    BY <2>1
<1>4. log \in Seq(Logged) /\ Len(log) \in {0, 1}
  BY <1>2, <1>3, Zenon
<1>5. Connecting.subject \notin Subject
  <2>1. Connecting.subject = <<"cluster">>
    BY DEF Connecting, Event
  <2> QED
    BY <2>1, ClusterPageAssumption DEF Subject, ToSet
<1>6. \A i \in DOMAIN log : log[i].subject \notin Subject
  BY <1>5
<1> QED
  BY <1>1, <1>4, <1>6

\* The page that is opened has one event and nothing to show.
LEMMA EventsStart == ClusterInit \/ ClusterIdle => EventInv
<1> SUFFICES ASSUME ClusterInit \/ ClusterIdle
             PROVE  EventInv
  OBVIOUS
<1>1. /\ clusterOpen \in BOOLEAN /\ loading \in BOOLEAN /\ rebal \in BOOLEAN
      /\ truth = AllAlive /\ changes = 0 /\ data = NoData /\ prevStates = NoData
      /\ events = <<Connecting>> \/ events = <<>>
  BY DEF ClusterInit, ClusterIdle
<1>2. ticks \in [1 .. ClusterPolls -> TickRecord]
  BY AnswersAreTyped DEF ClusterInit, ClusterIdle
<1>3. changes \in 0 .. MaxChanges
  BY <1>1, ClusterPageAssumption
<1>4. /\ events \in Seq(Logged) /\ Len(events) <= MaxEvents
      /\ \A i \in DOMAIN events : events[i].subject \notin Subject
  BY <1>1, ShortLogs
<1>5. ClusterPageTypeOK
  BY <1>1, <1>2, <1>3, <1>4, AnswersAreTyped DEF ClusterPageTypeOK, TickRecord
<1>6. Story(events, prevStates)
  BY <1>4 DEF Story
<1>7. \A s \in Subject : data[s] = "none"
  BY <1>1 DEF NoData
<1> QED
  BY <1>5, <1>6, <1>7 DEF EventInv

\* The story of an answer: what is logged takes every subject from the state it
\* was seen in last to the one it is seen in now.
LEMMA ReceiveTells ==
    ASSUME EventInv, NEW a \in Answers
    PROVE  /\ Push(events, Changed(a)) \in Seq(Logged)
           /\ Len(Push(events, Changed(a))) <= MaxEvents
           /\ Story(Push(events, Changed(a)), Seen(a))
<1>1. events \in Seq(Logged) /\ prevStates \in Answers /\ Story(events, prevStates)
  BY DEF EventInv, ClusterPageTypeOK
<1> DEFINE new == Changed(a)
<1>2. /\ new \in Seq(Logged)
      /\ \A i \in DOMAIN new :
           /\ new[i].subject \in Subject /\ a[new[i].subject] # "none"
           /\ new[i].from = prevStates[new[i].subject] /\ new[i].from # "none"
           /\ new[i].to = a[new[i].subject] /\ new[i].to # new[i].from
      /\ \A i, j \in DOMAIN new : new[i].subject = new[j].subject => i = j
      /\ \A s \in Subject : a[s] # "none" /\ prevStates[s] \notin {"none", a[s]}
           => \E i \in DOMAIN new : new[i].subject = s
  BY <1>1, ChangedFacts
<1>3. \A s \in Subject : Seen(a)[s] = IF a[s] # "none" THEN a[s] ELSE prevStates[s]
  BY DEF Seen
<1> HIDE DEF new
<1>4. \A i \in DOMAIN new : /\ new[i].from = prevStates[new[i].subject]
                            /\ new[i].to = Seen(a)[new[i].subject]
  BY <1>2, <1>3
<1>5. \A k \in DOMAIN events : \A s \in Subject : events[k].subject = s => events[k].to # "none"
  <2> SUFFICES ASSUME NEW k \in DOMAIN events, events[k].subject \in Subject
               PROVE  events[k].to # "none"
    OBVIOUS
  <2>1. events[k] \in Logged
    BY <1>1
  <2>2. events[k] # Connecting /\ events[k] # Rebalanced
    BY ClusterPageAssumption DEF Connecting, Rebalanced, Event, Subject, ToSet
  <2>3. PICK s \in Subject : \E from, to \in StatesOf(s) : events[k] = Event(s, from, to)
    BY <2>1, <2>2 DEF Logged
  <2> QED
    BY <2>3, AnswersAreTyped DEF Event
<1>6. ASSUME NEW s \in Subject, NEW k \in DOMAIN events,
             events[k].subject = s, events[k].to = prevStates[s],
             \A i \in DOMAIN new : new[i].subject # s
      PROVE  Seen(a)[s] = prevStates[s]
  BY <1>2, <1>3, <1>5, <1>6
<1>7. Story(Push(events, new), Seen(a))
  <2>1. Continues(events, new, prevStates, Seen(a))
    BY <1>2, <1>4, <1>6 DEF Continues
  <2> QED
    BY <1>1, <1>2, <2>1, StoryGoesOn
<1>8. Push(events, new) \in Seq(Logged) /\ Len(Push(events, new)) <= MaxEvents
  BY <1>1, <1>2, PushFacts
<1> QED
  BY <1>7, <1>8 DEF new

\* An event that is of no subject leaves the story as it is.
LEMMA RebalanceTells ==
    ASSUME EventInv
    PROVE  /\ Push(events, <<Rebalanced>>) \in Seq(Logged)
           /\ Len(Push(events, <<Rebalanced>>)) <= MaxEvents
           /\ Story(Push(events, <<Rebalanced>>), prevStates)
<1>1. events \in Seq(Logged) /\ Story(events, prevStates)
  BY DEF EventInv, ClusterPageTypeOK
<1> DEFINE new == <<Rebalanced>>
<1>2. new \in Seq(Logged)
  <2>1. Rebalanced \in Logged
    BY DEF Logged
  <2> QED
    BY <2>1
<1>3. \A i \in DOMAIN new : new[i].subject \notin Subject
  <2>1. Rebalanced.subject = <<"rebalance">>
    BY DEF Rebalanced, Event
  <2>2. <<"rebalance">> \notin Subject
    BY ClusterPageAssumption DEF Subject, ToSet
  <2> QED
    BY <2>1, <2>2
<1> HIDE DEF new
<1>4. Story(Push(events, new), prevStates)
  <2>1. Continues(events, new, prevStates, prevStates)
    BY <1>3 DEF Continues
  <2> QED
    BY <1>1, <1>2, <2>1, StoryGoesOn
<1>5. Push(events, new) \in Seq(Logged) /\ Len(Push(events, new)) <= MaxEvents
  BY <1>1, <1>2, PushFacts
<1> QED
  BY <1>4, <1>5 DEF new

\* Every step of the page goes on with the story and keeps the types.
LEMMA EventsKeep == EventInv /\ [ClusterStep]_clusterPageVars => EventInv'
<1> SUFFICES ASSUME EventInv, [ClusterStep]_clusterPageVars
             PROVE  EventInv'
  OBVIOUS
<1>1. /\ clusterOpen \in BOOLEAN /\ loading \in BOOLEAN /\ rebal \in BOOLEAN
      /\ truth \in Answers /\ changes \in 0 .. MaxChanges
      /\ data \in Answers /\ prevStates \in Answers
      /\ events \in Seq(Logged) /\ Len(events) <= MaxEvents
      /\ ticks \in [1 .. ClusterPolls -> TickRecord] /\ DOMAIN ticks = 1 .. ClusterPolls
      /\ Story(events, prevStates)
      /\ \A s \in Subject : data[s] # "none" => prevStates[s] = data[s]
  BY DEF EventInv, ClusterPageTypeOK, TickRecord
\* The parts of the invariant, for the steps that change few of them.
<1> DEFINE Switches == clusterOpen \in BOOLEAN /\ loading \in BOOLEAN /\ rebal \in BOOLEAN
           World == truth \in Answers /\ changes \in 0 .. MaxChanges
           Log == /\ data \in Answers /\ prevStates \in Answers
                  /\ events \in Seq(Logged) /\ Len(events) <= MaxEvents
                  /\ Story(events, prevStates)
                  /\ \A s \in Subject : data[s] # "none" => prevStates[s] = data[s]
           Polls == ticks \in [1 .. ClusterPolls -> TickRecord]
<1>2. Switches' /\ World' /\ Log' /\ Polls' => EventInv'
  BY DEF EventInv, ClusterPageTypeOK, TickRecord
<1>3. UNCHANGED <<truth, changes>> => World'
  BY <1>1
<1>4. UNCHANGED <<data, prevStates, events>> => Log'
  BY <1>1 DEF Story
<1>5. UNCHANGED ticks => Polls'
  BY <1>1
<1>6. ASSUME NEW i \in 1 .. ClusterPolls, NEW t \in TickRecord, ticks' = [ticks EXCEPT ![i] = t]
      PROVE  Polls'
  BY <1>1, <1>6
<1>7. NoTick \in TickRecord /\ Sent \in TickRecord /\ SentLater \in TickRecord
  BY AnswersAreTyped
<1>8. ASSUME ClusterMount \/ ClusterUnmount
      PROVE  EventInv'
  <2>1. /\ clusterOpen' \in BOOLEAN /\ loading' \in BOOLEAN /\ rebal' \in BOOLEAN
        /\ truth' = truth /\ changes' = changes /\ data' = NoData /\ prevStates' = NoData
        /\ events' = <<Connecting>> \/ events' = <<>>
    BY <1>8 DEF ClusterMount, ClusterUnmount
  <2>2. Polls'
    BY <1>7, <1>8 DEF ClusterMount, ClusterUnmount
  <2>3. Log'
    <3>1. /\ events' \in Seq(Logged) /\ Len(events') <= MaxEvents
          /\ \A i \in DOMAIN events' : events'[i].subject \notin Subject
      BY <2>1, ShortLogs
    <3>2. Story(events', prevStates')
      BY <3>1 DEF Story
    <3>3. data' \in Answers /\ prevStates' \in Answers /\ \A s \in Subject : data'[s] = "none"
      BY <2>1, AnswersAreTyped DEF NoData
    <3> QED
      BY <3>1, <3>2, <3>3
  <2>4. Switches' /\ World'
    BY <1>3, <2>1
  <2> HIDE DEF Switches, World, Log, Polls
  <2> QED
    BY <1>2, <2>2, <2>3, <2>4
<1>9. ASSUME Change
      PROVE  EventInv'
  <2>0. PICK s \in Subject : \E new \in StatesOf(s) : truth' = [truth EXCEPT ![s] = new]
    BY <1>9 DEF Change
  <2>1. PICK new \in StatesOf(s) : truth' = [truth EXCEPT ![s] = new]
    BY <2>0
  <2>2. truth' \in Answers
    <3>1. new \in {"alive", "unreachable", "suspect", "dead"}
      BY AnswersAreTyped
    <3> QED
      BY <1>1, <2>1, <3>1 DEF Answers
  <2>3. changes' \in 0 .. MaxChanges
    BY <1>1, <1>9, ClusterPageAssumption DEF Change
  <2>4. /\ Switches' /\ UNCHANGED <<data, prevStates, events>> /\ UNCHANGED ticks
    BY <1>1, <1>9 DEF Change
  <2>5. World'
    BY <2>2, <2>3
  <2> HIDE DEF Switches, World, Log, Polls
  <2> QED
    BY <1>2, <1>4, <1>5, <2>4, <2>5
<1>10. ASSUME TriggerRebal
       PROVE  EventInv'
  <2>1. Switches' /\ UNCHANGED <<truth, changes>> /\ UNCHANGED <<data, prevStates, events>>
        /\ UNCHANGED ticks
    BY <1>1, <1>10 DEF TriggerRebal
  <2> HIDE DEF Switches, World, Log, Polls
  <2> QED
    BY <1>2, <1>3, <1>4, <1>5, <2>1
<1>11. ASSUME RebalEnds
       PROVE  EventInv'
  <2>1. Switches' /\ UNCHANGED <<truth, changes>> /\ UNCHANGED ticks
        /\ data' = data /\ prevStates' = prevStates /\ events' = Push(events, <<Rebalanced>>)
    BY <1>1, <1>11 DEF RebalEnds
  <2>2. Log'
    BY <1>1, <2>1, RebalanceTells DEF Story
  <2> HIDE DEF Switches, World, Log, Polls
  <2> QED
    BY <1>2, <1>3, <1>5, <2>1, <2>2
<1>12. ASSUME NEW i \in 1 .. ClusterPolls, Poll(i)
       PROVE  EventInv'
  <2>1. Switches' /\ UNCHANGED <<truth, changes>> /\ UNCHANGED <<data, prevStates, events>>
    BY <1>1, <1>12 DEF Poll
  <2>2. Polls'
    BY <1>6, <1>7, <1>12 DEF Poll
  <2> HIDE DEF Switches, World, Log, Polls
  <2> QED
    BY <1>2, <1>3, <1>4, <2>1, <2>2
<1>13. ASSUME NEW i \in 1 .. ClusterPolls, Serve(i)
       PROVE  EventInv'
  <2>1. Switches' /\ UNCHANGED <<truth, changes>> /\ UNCHANGED <<data, prevStates, events>>
    BY <1>1, <1>13 DEF Serve
  <2>2. Polls'
    <3>1. AnswerOf(truth) \in Answers /\ ticks[i] \in TickRecord
      BY <1>1, AnswersAreTyped
    <3>2. \A r \in TickRecord, a \in Answers :
              [r EXCEPT !.cluster = "answered", !.answer = a] \in TickRecord
      BY DEF TickRecord
    <3>3. ticks' = [ticks EXCEPT ![i] = [ticks[i] EXCEPT !.cluster = "answered",
                                                         !.answer = AnswerOf(truth)]]
      BY <1>1, <1>13 DEF Serve, TickRecord
    <3> QED
      BY <1>6, <3>1, <3>2, <3>3
  <2> HIDE DEF Switches, World, Log, Polls
  <2> QED
    BY <1>2, <1>3, <1>4, <2>1, <2>2
\* The end of a fetch.
<1>14. ASSUME NEW i \in 1 .. ClusterPolls,
              \/ Settle(i, [ticks[i] EXCEPT !.cluster = "done", !.answer = NoData])
              \/ Settle(i, [ticks[i] EXCEPT !.keys = "done"])
       PROVE  Polls' /\ loading' \in BOOLEAN
  <2>1. \A r \in TickRecord : /\ [r EXCEPT !.cluster = "done", !.answer = NoData] \in TickRecord
                              /\ [r EXCEPT !.keys = "done"] \in TickRecord
    BY AnswersAreTyped DEF TickRecord
  <2>2. ticks[i] \in TickRecord /\ ClusterPageTypeOK
    BY <1>1 DEF EventInv
  <2> QED
    BY <1>14, <2>1, <2>2, SettleIsTyped
<1>15. ASSUME NEW i \in 1 .. ClusterPolls, Receive(i)
       PROVE  EventInv'
  <2> DEFINE a == ticks[i].answer
  <2>1. a \in Answers
    BY <1>1 DEF TickRecord
  <2>2. /\ clusterOpen' = clusterOpen /\ rebal' = rebal /\ UNCHANGED <<truth, changes>>
        /\ data' = a /\ events' = Push(events, Changed(a)) /\ prevStates' = Seen(a)
        /\ Settle(i, [ticks[i] EXCEPT !.cluster = "done", !.answer = NoData])
    BY <1>15 DEF Receive
  <2> HIDE DEF a
  <2>3. Log'
    <3>1. Seen(a) \in Answers
      BY <1>1, <2>1, AnswersAreTyped DEF Seen
    <3>2. /\ Push(events, Changed(a)) \in Seq(Logged)
          /\ Len(Push(events, Changed(a))) <= MaxEvents
          /\ Story(Push(events, Changed(a)), Seen(a))
      BY <2>1, ReceiveTells
    <3>3. \A s \in Subject : a[s] # "none" => Seen(a)[s] = a[s]
      BY DEF Seen
    <3>4. Story(events', prevStates')
      BY <2>2, <3>2 DEF Story
    <3> QED
      BY <2>1, <2>2, <3>1, <3>2, <3>3, <3>4
  <2>4. Polls' /\ Switches'
    BY <1>1, <1>14, <2>2
  <2> HIDE DEF Switches, World, Log, Polls
  <2> QED
    BY <1>2, <1>3, <2>2, <2>3, <2>4
<1>16. ASSUME NEW i \in 1 .. ClusterPolls, ReceiveNothing(i) \/ KeysEnd(i)
       PROVE  EventInv'
  <2>1. /\ clusterOpen' = clusterOpen /\ rebal' = rebal /\ UNCHANGED <<truth, changes>>
        /\ UNCHANGED <<data, prevStates, events>>
        /\ \/ Settle(i, [ticks[i] EXCEPT !.cluster = "done", !.answer = NoData])
           \/ Settle(i, [ticks[i] EXCEPT !.keys = "done"])
    BY <1>16 DEF ReceiveNothing, KeysEnd
  <2>2. Polls' /\ Switches'
    BY <1>1, <1>14, <2>1
  <2> HIDE DEF Switches, World, Log, Polls
  <2> QED
    BY <1>2, <1>3, <1>4, <2>1, <2>2
<1>17. ASSUME UNCHANGED clusterPageVars
       PROVE  EventInv'
  <2>1. Switches' /\ UNCHANGED <<truth, changes>> /\ UNCHANGED <<data, prevStates, events>>
        /\ UNCHANGED ticks
    BY <1>1, <1>17 DEF clusterPageVars
  <2> HIDE DEF Switches, World, Log, Polls
  <2> QED
    BY <1>2, <1>3, <1>4, <1>5, <2>1
<1> HIDE DEF Switches, World, Log, Polls
<1>18. \/ ClusterMount \/ ClusterUnmount \/ Change \/ TriggerRebal \/ RebalEnds
       \/ \E i \in 1 .. ClusterPolls :
            Poll(i) \/ Serve(i) \/ Receive(i) \/ ReceiveNothing(i) \/ KeysEnd(i)
       \/ UNCHANGED clusterPageVars
  BY <1>1 DEF ClusterStep, ClusterNext, ClusterRuns
<1> QED
  BY <1>8, <1>9, <1>10, <1>11, <1>12, <1>13, <1>15, <1>16, <1>17, <1>18

\* The story that the list tells has no gap.
LEMMA StoryMeans == EventInv => EventsChain
<1> SUFFICES ASSUME EventInv, NEW s \in Subject
             PROVE  LET of == {i \in DOMAIN events : events[i].subject = s}
                    IN  /\ \A i, j \in of : i < j /\ (\A k \in of : k <= i \/ j <= k)
                                            => events[i].from = events[j].to
                        /\ \A i \in of : (\A k \in of : i <= k) /\ data[s] # "none"
                                            => events[i].to = data[s]
  BY DEF EventsChain
<1> DEFINE of == {i \in DOMAIN events : events[i].subject = s}
<1>1. Story(events, prevStates) /\ (data[s] # "none" => prevStates[s] = data[s])
  BY DEF EventInv
<1>2. ASSUME NEW i \in of, \A k \in of : i <= k, data[s] # "none"
      PROVE  events[i].to = data[s]
  BY <1>1, <1>2 DEF Story
<1>3. ASSUME NEW i \in of, NEW j \in of, i < j, \A k \in of : k <= i \/ j <= k
      PROVE  events[i].from = events[j].to
  BY <1>1, <1>3 DEF Story
<1> QED
  BY <1>2, <1>3
=============================================================================
