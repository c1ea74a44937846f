-------------------------- MODULE PredictionEngine --------------------------
(***************************************************************************)
(* frontend/overlay.go: the engine that predicts how the server will echo  *)
(* what the user types, as pure operators on its state.                    *)
(*                                                                         *)
(* A prediction belongs to an epoch and to a frame: it is shown once a     *)
(* prediction of its epoch has come true, and judged once the server has   *)
(* acknowledged the echo of its frame, the one that carries the keystroke. *)
(*                                                                         *)
(* A screen is a record of its height h and width w, its cells, and the    *)
(* row and col of its cursor.  Renditions are left out, and so is flagging *)
(* (underlining).  Time is left out too: whether predictions have waited   *)
(* long, or come true quickly, is the input `pace' of Cull.                *)
(***************************************************************************)
EXTENDS Integers, Sequences, FiniteSets, SequencesExt

CONSTANTS
  MaxHeight, MaxWidth,  \* of a screen
  RepairCount           \* GLITCH_REPAIR_COUNT, 10

ASSUME EngineAssumption ==
  MaxHeight \in Nat \ {0} /\ MaxWidth \in Nat \ {0, 1} /\ RepairCount \in Nat \ {0}

Pos == (0..MaxHeight - 1) \X (0..MaxWidth - 1)

\* The members of s at the positions in some, in their order.
Kept(s, some) ==
  LET kept[i \in 0..Len(s)] == IF i = 0 THEN <<>>
                               ELSE IF i \in some THEN Append(kept[i - 1], s[i]) ELSE kept[i - 1]
  IN  kept[Len(s)]

\* terminal.Cell: the second cell of a wide character is `cont' and empty.
Blank      == [ch |-> "", wide |-> FALSE, cont |-> FALSE]
IsBlank(c) == ~c.wide /\ ~c.cont /\ c.ch \in {"", " "}
ContentsMatch(c, x) == (IsBlank(c) /\ IsBlank(x)) \/ c.ch = x.ch

-----------------------------------------------------------------------------
(* One prediction.                                                         *)

\* No prediction; what the last one was for is still there.  An inactive
\* prediction's frame and epoch are never looked at.
Inactive(repl) ==
  [active |-> FALSE, epoch |-> 0, frame |-> 0, unknown |-> FALSE, repl |-> repl, orig |-> {}]

\* Of originalContents only the texts are kept, as a set.
ResetCell(p) == Inactive(p.repl)
ResetWithOrig(p) ==
  IF ~p.active \/ p.unknown THEN ResetCell(p)
  ELSE [ResetCell(p) EXCEPT !.orig = p.orig \cup {p.repl.ch}]

\* A prediction of this epoch for the frame that will be sent next.  The
\* text `there' is what was in the cell before the first of them.
Predict(pe, p, there) ==
  LET q == ResetWithOrig(p)
  IN  [q EXCEPT !.active = TRUE, !.epoch = pe.predictionEpoch, !.frame = pe.localFrameSent + 1,
                !.orig = IF @ = {} THEN {there} ELSE @]

\* Mutated: what was there before is not considered.
MCredited(p) == TRUE

\* Only a prediction that says something new proves that the server echoes.
Credited(p) == p.repl.ch \notin p.orig

Outside(row, col, emu) == row >= emu.h \/ col >= emu.w

CellValidity(p, pos, emu, lateAck) ==
  IF ~p.active                          THEN "Inactive"
  ELSE IF Outside(pos[1], pos[2], emu)  THEN "IncorrectOrExpired"
  ELSE IF lateAck < p.frame             THEN "Pending"
  ELSE IF p.unknown \/ IsBlank(p.repl)  THEN "CorrectNoCredit"
  ELSE IF ~ContentsMatch(emu.cells[pos], p.repl) THEN "IncorrectOrExpired"
  ELSE IF Credited(p) THEN "Correct" ELSE "CorrectNoCredit"

CursorValidity(c, emu, lateAck) ==
  IF Outside(c.row, c.col, emu)               THEN "IncorrectOrExpired"
  ELSE IF lateAck < c.frame                   THEN "Pending"
  ELSE IF emu.row = c.row /\ emu.col = c.col  THEN "Correct" ELSE "IncorrectOrExpired"

-----------------------------------------------------------------------------
(* The engine.  `rows' are the rows of overlays in the order they were     *)
(* made; a row that has not been made holds nothing.                       *)

NoCells == [pos \in Pos |-> Inactive(Blank)]

NewPredictionEngine(preference, overwrite) ==
  [preference |-> preference, overwrite |-> overwrite,
   rows |-> <<>>, cells |-> NoCells, cursors |-> <<>>,
   predictionEpoch |-> 1, confirmedEpoch |-> 0,
   localFrameSent |-> 0, localFrameLateAcked |-> 0,
   height |-> 0, width |-> 0,
   sendInterval |-> "high", srttTrigger |-> FALSE, glitchTrigger |-> 0, applied |-> FALSE]

Cursor(pe) == Last(pe.cursors)

\* active: anything predicted.
Active(pe) == pe.cursors # <<>> \/ \E pos \in Pos : pe.cells[pos].active

GetOrMakeRow(pe, row) ==
  IF \E i \in 1..Len(pe.rows) : pe.rows[i] = row THEN pe
  ELSE [pe EXCEPT !.rows = Append(@, row)]

BecomeTentative(pe) ==
  IF pe.preference = "Experimental" THEN pe ELSE [pe EXCEPT !.predictionEpoch = @ + 1]

Reset(pe) == BecomeTentative([pe EXCEPT !.cursors = <<>>, !.rows = <<>>, !.cells = NoCells])

CursorAt(pe, row, col) ==
  [row |-> row, col |-> col, epoch |-> pe.predictionEpoch, frame |-> pe.localFrameSent + 1]

InitCursor(pe, emu) ==
  IF pe.cursors = <<>>
  THEN [pe EXCEPT !.cursors = <<CursorAt(pe, emu.row, emu.col)>>]
  ELSE IF Cursor(pe).epoch # pe.predictionEpoch
  THEN [pe EXCEPT !.cursors = Append(@, CursorAt(pe, Cursor(pe).row, Cursor(pe).col))]
  ELSE pe

\* The last cursor is moved; expire if the frame is to be the next one.
MoveCursor(pe, row, col) ==
  [pe EXCEPT !.cursors[Len(pe.cursors)].row = row, !.cursors[Len(pe.cursors)].col = col]
ExpireCursor(pe) == [pe EXCEPT !.cursors[Len(pe.cursors)].frame = pe.localFrameSent + 1]

\* Predictions of this epoch and later ones go; the cursor is where it is.
Killed(pe, epoch) ==
  [pos \in Pos |-> LET p == pe.cells[pos]
                   IN  IF p.active /\ p.epoch >= epoch THEN ResetCell(p) ELSE p]
KillEpoch(pe, epoch, emu) ==
  LET older == {i \in DOMAIN pe.cursors : pe.cursors[i].epoch < epoch}
  IN  BecomeTentative(
        [pe EXCEPT !.cursors = Append(Kept(@, older), CursorAt(pe, emu.row, emu.col)),
                   !.cells   = Killed(pe, epoch)])

-----------------------------------------------------------------------------
(* cull.                                                                   *)

\* Mutated: the new size is noted and the predictions stay.
MResized(pe, emu) == [pe EXCEPT !.height = emu.h, !.width = emu.w]

\* If the screen has another size now, all predictions go.
Resized(pe, emu) ==
  IF pe.height = emu.h /\ pe.width = emu.w THEN pe
  ELSE Reset([pe EXCEPT !.height = emu.h, !.width = emu.w])

\* With hysteresis: sendInterval is above SRTT_TRIGGER_HIGH ("high"), not above
\* SRTT_TRIGGER_LOW ("low"), or in between.
SrttTrigger(pe) ==
  \/ pe.sendInterval = "high"
  \/ pe.srttTrigger /\ (pe.sendInterval # "low" \/ Active(pe))

\* A confirmation that comes quickly takes the glitch trigger back one step,
\* once in a cull (GLITCH_REPAIR_MININTERVAL).
Confirm(cull, pos, pace) ==
  LET p == cull.pe.cells[pos]
      repair == pace = "quick" /\ ~cull.repaired /\ cull.pe.glitchTrigger > 0
  IN  [cull EXCEPT !.repaired = @ \/ repair,
                   !.pe.glitchTrigger  = IF repair THEN @ - 1 ELSE @,
                   !.pe.confirmedEpoch = IF p.epoch > @ THEN p.epoch ELSE @,
                   !.pe.cells[pos]     = ResetCell(p)]

\* Predictions that have waited for long set it.
Await(cull, pace) ==
  [cull EXCEPT !.pe.glitchTrigger = CASE pace = "stuck" -> RepairCount * 2
                                      [] pace = "late" /\ @ < RepairCount -> RepairCount
                                      [] OTHER -> @]

\* A wrong prediction takes those of its epoch with it, or all predictions if
\* its epoch was confirmed; then the cull ends.
Refute(cull, pos, emu) ==
  LET p == cull.pe.cells[pos]
  IN  IF cull.pe.preference = "Experimental" THEN [cull EXCEPT !.pe.cells[pos] = ResetCell(p)]
      ELSE IF p.epoch > cull.pe.confirmedEpoch
      THEN [cull EXCEPT !.pe = KillEpoch(@, p.epoch, emu)]
      ELSE [cull EXCEPT !.pe = Reset(@), !.end = TRUE]

CullCell(cull, pos, emu, pace) ==
  LET v == CellValidity(cull.pe.cells[pos], pos, emu, cull.pe.localFrameLateAcked)
  IN  IF cull.end THEN cull
      ELSE CASE v = "IncorrectOrExpired" -> Refute(cull, pos, emu)
             [] v = "Correct"            -> Confirm(cull, pos, pace)
             [] v = "CorrectNoCredit"    -> [cull EXCEPT !.pe.cells[pos] = ResetCell(@)]
             [] v = "Pending"            -> Await(cull, pace)
             [] v = "Inactive"           -> cull

\* The k-th cell that is looked at: row by row, as the rows were made.
CullOrder(pe, emu, k) == <<pe.rows[(k - 1) \div emu.w + 1], (k - 1) % emu.w>>

CullCells(pe, emu, pace) ==
  LET n == Len(pe.rows) * emu.w
      cull[k \in 0..n] == IF k = 0 THEN [pe |-> pe, end |-> FALSE, repaired |-> FALSE]
                          ELSE CullCell(cull[k - 1], CullOrder(pe, emu, k), emu, pace)
  IN  cull[n]

\* Mutated: only cursors that have come true go.
MCullCursors(pe, emu) ==
  [pe EXCEPT !.cursors =
     Kept(@, {i \in DOMAIN @ : CursorValidity(@[i], emu, pe.localFrameLateAcked) # "Correct"})]

\* The last cursor decides; of the others those stay that are pending.
CullCursors(pe, emu) ==
  LET validity(i) == CursorValidity(pe.cursors[i], emu, pe.localFrameLateAcked)
  IN  IF pe.cursors = <<>> \/ validity(Len(pe.cursors)) # "IncorrectOrExpired"
      THEN [pe EXCEPT !.cursors = Kept(@, {i \in DOMAIN @ : validity(i) = "Pending"})]
      ELSE IF pe.preference = "Experimental" THEN [pe EXCEPT !.cursors = <<>>]
      ELSE Reset(pe)

Cull(pe, emu, pace) ==
  IF pe.preference = "Never" THEN pe
  ELSE LET sized == Resized(pe, emu)
           after == CullCells([sized EXCEPT !.srttTrigger = SrttTrigger(sized)], emu, pace)
       IN  IF after.end THEN after.pe ELSE CullCursors(after.pe, emu)

-----------------------------------------------------------------------------
(* apply.                                                                  *)

Displayed(pe) ==
  /\ ~pe.applied
  /\ \/ pe.preference \in {"Always", "Experimental"}
     \/ pe.preference = "Adaptive" /\ (pe.srttTrigger \/ pe.glitchTrigger > 0)

\* The cells and the cursors of confirmed epochs.
ShownCells(pe, emu) ==
  IF ~Displayed(pe) THEN {}
  ELSE {pos \in Pos : /\ pe.cells[pos].active /\ ~Outside(pos[1], pos[2], emu)
                      /\ pe.cells[pos].epoch <= pe.confirmedEpoch /\ ~pe.cells[pos].unknown}
ShownCursors(pe) ==
  IF Displayed(pe)
  THEN Kept(pe.cursors, {i \in DOMAIN pe.cursors : pe.cursors[i].epoch <= pe.confirmedEpoch})
  ELSE <<>>

Apply(pe, emu) ==
  LET cells == ShownCells(pe, emu)
      cs    == ShownCursors(pe)
  IN  [emu EXCEPT !.cells = [pos \in Pos |-> IF pos \in cells THEN pe.cells[pos].repl ELSE @[pos]],
                  !.row   = IF cs = <<>> THEN @ ELSE Last(cs).row,
                  !.col   = IF cs = <<>> THEN @ ELSE Last(cs).col]

-----------------------------------------------------------------------------
(* NewUserInput.  A key is what the parser makes of it: a glyph, a carriage *)
(* return, an arrow, a backspace, another control function, or nothing yet. *)

\* In the last row a newline predicts that the row will be blank.
NewlineCarriageReturn(pe0, emu) ==
  LET pe  == InitCursor(pe0, emu)
      row == Cursor(pe).row
      newRow(p) == [p EXCEPT !.active = TRUE, !.epoch = pe.predictionEpoch,
                             !.frame = pe.localFrameSent + 1, !.repl.ch = ""]
  IN  IF row # emu.h - 1 THEN MoveCursor(pe, row + 1, 0)
      ELSE [MoveCursor(GetOrMakeRow(pe, row), row, 0) EXCEPT
              !.cells = [pos \in Pos |-> IF pos[1] = row /\ pos[2] < emu.w THEN newRow(@[pos])
                                         ELSE @[pos]]]

\* The cell in column i when w columns are inserted at the cursor: what is w
\* columns to its left comes here, as predicted or else as it is.
Shifted(pe, emu, row, col, w, i) ==
  LET left == <<row, i - w>>
      p    == Predict(pe, pe.cells[<<row, i>>], emu.cells[<<row, i>>].ch)
  IN  IF i - w < col THEN p
      ELSE IF i = emu.w - 1 \/ (pe.cells[left].active /\ pe.cells[left].unknown)
      THEN [p EXCEPT !.unknown = TRUE]
      ELSE [p EXCEPT !.repl = IF pe.cells[left].active THEN pe.cells[left].repl
                              ELSE emu.cells[left]]

\* The glyph at the cursor, the rest of the row moved to the right.
InsertGlyph(pe, emu, key, row, col) ==
  LET here  == <<row, col>>
      glyph == [Predict(pe, pe.cells[here], emu.cells[here].ch) EXCEPT
                  !.repl.ch = key.ch, !.repl.wide = @ \/ key.w = 2]
      rest  == IF pe.overwrite THEN {} ELSE {row} \X (col + 1..emu.w - 1)
      moved(pos) == IF pos = here THEN glyph
                    ELSE IF pos \in rest THEN Shifted(pe, emu, row, col, key.w, pos[2])
                    ELSE pe.cells[pos]
  IN  [pos \in Pos |-> IF key.w = 2 /\ pos = <<row, col + 1>>
                       THEN [moved(pos) EXCEPT !.repl.cont = TRUE] ELSE moved(pos)]

\* Prediction in the last column is tricky, and a wide glyph does not fit there.
AtMargin(pe, emu, key) ==
  LET tentative == BecomeTentative(pe)
  IN  IF Cursor(pe).col + key.w < emu.w THEN pe
      ELSE IF key.w = 2 /\ Cursor(pe).col = emu.w - 1
      THEN NewlineCarriageReturn(tentative, emu) ELSE tentative

HandleUserGrapheme(pe0, emu, key) ==
  LET pe   == AtMargin(InitCursor(pe0, emu), emu, key)
      row  == Cursor(pe).row
      col  == Cursor(pe).col
      made == GetOrMakeRow(pe, row)
      next == ExpireCursor([made EXCEPT !.cells = InsertGlyph(made, emu, key, row, col)])
  IN  IF col < emu.w - key.w THEN MoveCursor(next, row, col + key.w)
      ELSE NewlineCarriageReturn(BecomeTentative(next), emu)

\* The arrows step over the second cell of a wide glyph, seen or predicted.
IsCont(pe, emu, pos) == emu.cells[pos].cont \/ pe.cells[pos].repl.cont

CursorForward(pe0, emu) ==
  LET pe  == InitCursor(pe0, emu)
      row == Cursor(pe).row
      col == Cursor(pe).col
      made == GetOrMakeRow(pe, row)
  IN  IF col >= emu.w - 1 THEN pe
      ELSE IF ~IsCont(pe, emu, <<row, col + 1>>) THEN ExpireCursor(MoveCursor(made, row, col + 1))
      ELSE IF col + 2 >= emu.w THEN made
      ELSE ExpireCursor(MoveCursor(made, row, col + 2))

CursorBack(pe0, emu) ==
  LET pe  == InitCursor(pe0, emu)
      row == Cursor(pe).row
      col == Cursor(pe).col
      made == GetOrMakeRow(pe, row)
  IN  IF col <= 0 THEN pe
      ELSE IF ~IsCont(pe, emu, <<row, col - 1>>) THEN ExpireCursor(MoveCursor(made, row, col - 1))
      ELSE IF col - 2 <= 0 THEN MoveCursor(made, row, 0)
      ELSE ExpireCursor(MoveCursor(made, row, col - 2))

NewUserInput(pe0, emu, key, pace) ==
  IF pe0.preference = "Never" THEN pe0
  ELSE LET epoch == IF pe0.preference = "Experimental" THEN pe0.confirmedEpoch
                    ELSE pe0.predictionEpoch
           pe    == Cull([pe0 EXCEPT !.predictionEpoch = epoch], emu, pace)
           Done(p) == [p EXCEPT !.applied = FALSE]
       IN  CASE key.kind = "glyph"     -> Done(HandleUserGrapheme(pe, emu, key))
             [] key.kind = "backspace" -> Done(BecomeTentative(InitCursor(pe, emu)))
             [] key.kind = "CR"        -> Done(NewlineCarriageReturn(BecomeTentative(pe), emu))
             [] key.kind = "CUF"       -> Done(CursorForward(pe, emu))
             [] key.kind = "CUB"       -> Done(CursorBack(pe, emu))
             [] key.kind = "control"   -> Done(BecomeTentative(pe))
             [] key.kind = "partial"   -> pe
=============================================================================
