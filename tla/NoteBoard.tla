----------------------------- MODULE NoteBoard -----------------------------
(***************************************************************************)
(* The board of sticky notes (web/src/components/ProjectsBoard.tsx), which *)
(* can be dragged about and come to the front when they are pressed.  A    *)
(* note's offset from its place is kept from drag to drag, and the place   *)
(* is a percentage of a board that may change its width at any time.  The  *)
(* board has a frame; what is measured is its outer edge, the frame        *)
(* included, while the place of a note is relative to the inner one.       *)
(*                                                                         *)
(* Notes differ in their column only, so the position of one is followed;  *)
(* it has one dimension, since the other is handled in the same way.  The  *)
(* slight turn of a note, and its growth while it is held, are left out.   *)
(***************************************************************************)
EXTENDS Browser, Sequences, SequencesExt

CONSTANTS
    Notes,      \* how many notes there are
    Watched,    \* the note whose position is followed
    NoteWidth,
    Border,     \* the width of the frame
    Boards      \* the widths the board may have, with its frame

ASSUME NoteBoardAssumption ==
    /\ Notes \in Nat \ {0} /\ Watched \in 1 .. Notes
    /\ NoteWidth \in Nat /\ Border \in Nat
    /\ Boards \subseteq Nat /\ Boards # {} /\ \A b \in Boards : 2 * Border <= b

VARIABLES
    board,      \* the width of the board
    order,      \* the notes from the back to the front
    offset,     \* of the watched note from its place
    drag,       \* dragStart: the drag of the watched note, or NoDrag
    placed      \* the note was dropped on a board of this width; for a property

boardVars == <<board, order, offset, drag, placed>>

\* initialLayout: the left edge of the watched note's place, which is a
\* percentage of what is within the frame.
Place(b) == ((2 * Watched - 1) * (b - 2 * Border)) \div (2 * Notes) - NoteWidth \div 2

\* getBoundingClientRect: from the outer edge of the board.
Left == Border + Place(board) + offset

NoDrag == [left |-> 0, board |-> 0, start |-> 0]

BoardInit ==
    /\ board \in Boards
    /\ order = [i \in 1 .. Notes |-> i]
    /\ offset = 0 /\ drag = NoDrag /\ placed = FALSE

BoardIdle ==
    /\ board = CHOOSE b \in Boards : TRUE
    /\ order = [i \in 1 .. Notes |-> i]
    /\ offset = 0 /\ drag = NoDrag /\ placed = FALSE

BringToFront(i) ==
    LET at == CHOOSE k \in DOMAIN order : order[k] = i
    IN  Append(RemoveAt(order, at), i)

\* onPointerDown measures the note and the board, and brings the note to the
\* front.  A second finger measures again.
PointerDown(i) ==
    /\ order' = BringToFront(i)
    /\ drag' = IF i = Watched THEN [left |-> Left, board |-> board, start |-> offset]
               ELSE drag
    /\ UNCHANGED <<board, offset, placed>>

\* clampedLeft: the left edge of a note that is dragged by dx, from the outer edge
\* of the board as it was when the drag began.
Dragged(dx) ==
    LET right == drag.board - NoteWidth
    IN  Clamp(drag.left + dx, 0, IF right > 0 THEN right ELSE 0)

\* Mutant: the offset of an earlier drag is forgotten.
PointerMoveFresh(dx) ==
    /\ drag # NoDrag
    /\ offset' = Dragged(dx) - drag.left
    /\ placed' = (drag.board = board)
    /\ UNCHANGED <<board, order, drag>>

\* onPointerMove: the pointer is dx to the right of where the drag began.
PointerMove(dx) ==
    /\ drag # NoDrag
    /\ offset' = drag.start + Dragged(dx) - drag.left
    /\ placed' = (drag.board = board)
    /\ UNCHANGED <<board, order, drag>>

PointerUp ==
    /\ drag # NoDrag /\ drag' = NoDrag
    /\ UNCHANGED <<board, order, offset, placed>>

BoardResize ==
    /\ board' \in Boards \ {board}
    /\ placed' = FALSE
    /\ UNCHANGED <<order, offset, drag>>

Reach == UNION {-b .. b : b \in Boards}

BoardNext ==
    \/ \E i \in 1 .. Notes : PointerDown(i)
    \/ \E dx \in Reach : PointerMove(dx)
    \/ PointerUp
    \/ BoardResize

\* Leaving the page forgets everything; so does coming back.
BoardMount ==
    /\ board' \in Boards
    /\ order' = [i \in 1 .. Notes |-> i]
    /\ offset' = 0 /\ drag' = NoDrag /\ placed' = FALSE

BoardSpec == BoardInit /\ [][BoardNext \/ BoardMount]_boardVars

-----------------------------------------------------------------------------
(* Properties *)

Drags == [left : Int, board : Boards, start : Int]

BoardTypeOK ==
    /\ board \in Boards
    /\ order \in [1 .. Notes -> 1 .. Notes]
    /\ \A i \in 1 .. Notes : \E k \in 1 .. Notes : order[k] = i
    /\ offset \in Int /\ placed \in BOOLEAN
    /\ drag = NoDrag \/ drag \in Drags

\* "Never sliding under the frame or off the edge" (onPointerMove) holds of the
\* edge only: a note that was dragged on the board as it is does not leave its
\* outer edge, however many drags its offset has been added up from and whatever
\* widths the board had before, but it may come to lie on the frame.
NotesInside ==
    placed => 0 <= Left /\ (NoteWidth <= board => Left + NoteWidth <= board)
=============================================================================
