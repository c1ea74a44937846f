--------------------------- MODULE Terminal_proofs ---------------------------
(***************************************************************************)
(* What is written is handled in order, and the client's emulator becomes  *)
(* that of the server, for every size of the terminal, whatever the        *)
(* application writes and however long.                                    *)
(*                                                                         *)
(* The second rests on one fact about each handler: it treats alike two    *)
(* emulators that differ only in what the client does not have (Like).     *)
(***************************************************************************)
EXTENDS Terminal, SequenceTheorems, TLAPS

ParserState == [pending: ControlSequence \cup {Nothing, Escaped}, lastChs: [g: STRING, w: Nat] \cup {NoGrapheme},
                compatLevel: {"VT52", "VT100", "VT400"}]

FrameFields == {"nCols", "nRows", "saveLines", "cells", "scrollHead", "marginTop", "marginBottom", "margin",
                "historyRows", "kittyKbd", "showStyle"}
EmulatorFields ==
  {"parser", "frame_pri", "frame_alt", "alt", "nCols", "nRows", "marginTop", "marginBottom", "hMargin", "nColsEff",
   "posX", "posY", "lastCol", "rend", "modes", "compatLevel", "charset", "savedSCO", "savedDEC_pri", "savedDEC_alt",
   "mouse", "tabStops", "links", "colMode", "bell", "titles", "titleStack", "modifyOtherKeys", "selectionData",
   "selectionStore", "toHost", "lastRows", "caps"}

\* What need not be the same.
Loose == {"selectionStore", "toHost", "lastRows", "caps"}
Own   == {"parser", "frame_pri", "frame_alt", "selectionStore", "toHost", "lastRows", "caps"}
\* What is the same and may have any value.
Free  == {"hMargin", "nColsEff", "posX", "lastCol", "rend", "modes", "compatLevel", "charset", "mouse", "tabStops",
          "links", "colMode", "bell", "titles", "titleStack", "modifyOtherKeys", "selectionData"}

\* Two frame buffers that are the same but for the flags of the keyboard.
LikeFrame(a, b) ==
  /\ DOMAIN a = FrameFields /\ DOMAIN b = FrameFields
  /\ \A f \in FrameFields \ {"kittyKbd"} : a[f] = b[f]
  /\ a.historyRows \in Int /\ a.saveLines \in Int

\* Two emulators of the size z that are the same but for what is their own.
Like(z, e, x) ==
  /\ DOMAIN e = EmulatorFields /\ DOMAIN x = EmulatorFields
  /\ \A f \in EmulatorFields \ Own : e[f] = x[f]
  /\ LikeFrame(e.frame_pri, x.frame_pri) /\ (e.alt => LikeFrame(e.frame_alt, x.frame_alt))
  /\ e.parser \in ParserState /\ x.parser \in ParserState
  /\ <<e.nCols, e.nRows>> = z
  /\ e.alt \in BOOLEAN
  /\ e.posY \in Int /\ e.nRows \in Int /\ e.marginTop \in Int /\ e.marginBottom \in Int
  /\ (e.savedSCO.set => e.savedSCO.posY \in Int)
  /\ (e.savedDEC_pri.set => e.savedDEC_pri.posY \in Int)
  /\ (e.savedDEC_alt.set => e.savedDEC_alt.posY \in Int)

-----------------------------------------------------------------------------
(* Frame buffers.                                                          *)

LEMMA SameFrame == ASSUME NEW a, NEW b, LikeFrame(a, b)
  PROVE /\ a.nCols = b.nCols /\ a.nRows = b.nRows /\ a.saveLines = b.saveLines /\ a.cells = b.cells
        /\ a.scrollHead = b.scrollHead /\ a.marginTop = b.marginTop /\ a.marginBottom = b.marginBottom
        /\ a.margin = b.margin /\ a.historyRows = b.historyRows /\ a.showStyle = b.showStyle
        /\ a.historyRows \in Int /\ a.saveLines \in Int
BY DEF LikeFrame, FrameFields

\* A field of its own, set to the same.
LEMMA PutFrame == ASSUME NEW a, NEW b, LikeFrame(a, b), NEW f \in FrameFields \ {"historyRows", "saveLines"}, NEW v
  PROVE LikeFrame([a EXCEPT ![f] = v], [b EXCEPT ![f] = v])
BY DEF LikeFrame, FrameFields
LEMMA KbdFrame == ASSUME NEW a, NEW b, LikeFrame(a, b), NEW v
  PROVE LikeFrame([a EXCEPT !.kittyKbd = v], b) /\ LikeFrame(a, [b EXCEPT !.kittyKbd = v])
BY DEF LikeFrame, FrameFields

LEMMA SameRow == ASSUME NEW a, NEW b, LikeFrame(a, b), NEW y
  PROVE GetPhysicalRow(a, y) = GetPhysicalRow(b, y)
BY SameFrame DEF GetPhysicalRow, Rows
LEMMA SameIdx == ASSUME NEW a, NEW b, LikeFrame(a, b), NEW y, NEW x
  PROVE GetIdx(a, y, x) = GetIdx(b, y, x) /\ GetCell(a, y, x) = GetCell(b, y, x)
BY SameFrame, SameRow DEF GetIdx, GetCell
LEMMA CellsFrame == ASSUME NEW a, NEW b, LikeFrame(a, b), NEW v
  PROVE LikeFrame([a EXCEPT !.cells = v], [b EXCEPT !.cells = v])
BY PutFrame DEF FrameFields

LEMMA SetCellFrame == ASSUME NEW a, NEW b, LikeFrame(a, b), NEW y, NEW x, NEW c
  PROVE LikeFrame(SetCell(a, y, x, c), SetCell(b, y, x, c))
<1> DEFINE V(s, i) == [s EXCEPT ![i] = c]
<1>1. ASSUME NEW s PROVE SetCell(s, y, x, c) = [s EXCEPT !.cells = V(s.cells, GetIdx(s, y, x))]
  BY DEF SetCell
<1> HIDE DEF V
<1>8. LikeFrame([a EXCEPT !.cells = V(a.cells, GetIdx(a, y, x))], [b EXCEPT !.cells = V(a.cells, GetIdx(a, y, x))])
  BY CellsFrame
<1>9. V(a.cells, GetIdx(a, y, x)) = V(b.cells, GetIdx(b, y, x))
  BY SameFrame, SameIdx
<1> QED  BY <1>1, <1>8, <1>9

LEMMA EraseInRowFrame == ASSUME NEW a, NEW b, LikeFrame(a, b), NEW y, NEW x, NEW n, NEW attr
  PROVE LikeFrame(EraseInRow(a, y, x, n, attr), EraseInRow(b, y, x, n, attr))
<1> DEFINE V(s, idx) == [i \in idx..idx + n - 1 |-> Reset2(s[i], attr)] @@ s
<1>1. ASSUME NEW s PROVE EraseInRow(s, y, x, n, attr) = [s EXCEPT !.cells = V(s.cells, GetIdx(s, y, x))]
  BY DEF EraseInRow
<1> HIDE DEF V
<1>8. LikeFrame([a EXCEPT !.cells = V(a.cells, GetIdx(a, y, x))], [b EXCEPT !.cells = V(a.cells, GetIdx(a, y, x))])
  BY CellsFrame
<1>9. V(a.cells, GetIdx(a, y, x)) = V(b.cells, GetIdx(b, y, x))
  BY SameFrame, SameIdx
<1> QED  BY <1>1, <1>8, <1>9

LEMMA CopyCellsFrame == ASSUME NEW a, NEW b, LikeFrame(a, b), NEW d, NEW f, NEW n
  PROVE LikeFrame(CopyCells(a, d, f, n), CopyCells(b, d, f, n))
<1> DEFINE V(s) == [i \in d..d + n - 1 |-> s[f + i - d]] @@ s
<1>1. ASSUME NEW s PROVE CopyCells(s, d, f, n) = [s EXCEPT !.cells = V(s.cells)]
  BY DEF CopyCells
<1> HIDE DEF V
<1>8. LikeFrame([a EXCEPT !.cells = V(a.cells)], [b EXCEPT !.cells = V(a.cells)])
  BY CellsFrame
<1>9. V(a.cells) = V(b.cells)
  BY SameFrame
<1> QED  BY <1>1, <1>8, <1>9

LEMMA MoveInRowFrame == ASSUME NEW a, NEW b, LikeFrame(a, b), NEW y, NEW d, NEW f, NEW n
  PROVE LikeFrame(MoveInRow(a, y, d, f, n), MoveInRow(b, y, d, f, n))
BY SameIdx, CopyCellsFrame DEF MoveInRow
LEMMA CopyRowFrame == ASSUME NEW a, NEW b, LikeFrame(a, b), NEW d, NEW f, NEW x, NEW n
  PROVE LikeFrame(CopyRow(a, d, f, x, n), CopyRow(b, d, f, x, n))
BY SameIdx, CopyCellsFrame DEF CopyRow

LEMMA FillCellsFrame == ASSUME NEW a, NEW b, LikeFrame(a, b), NEW c
  PROVE LikeFrame(FillCells(a, c), FillCells(b, c))
<1> DEFINE V(s, nc, screen) == [i \in {k \in DOMAIN s : k \div nc \in screen} |-> c] @@ s
           S(s, n) == {GetPhysicalRow(s, y) : y \in 0..n - 1}
<1>1. ASSUME NEW s PROVE FillCells(s, c) = [s EXCEPT !.cells = V(s.cells, s.nCols, S(s, s.nRows))]
  BY DEF FillCells
<1>2. S(a, a.nRows) = S(b, b.nRows)
  BY SameFrame, SameRow
<1> HIDE DEF V, S
<1>8. LikeFrame([a EXCEPT !.cells = V(a.cells, a.nCols, S(a, a.nRows))], [b EXCEPT !.cells = V(a.cells, a.nCols, S(a, a.nRows))])
  BY CellsFrame
<1>9. V(a.cells, a.nCols, S(a, a.nRows)) = V(b.cells, b.nCols, S(b, b.nRows))
  BY <1>2, SameFrame
<1> QED  BY <1>1, <1>8, <1>9

LEMMA ScrollFrame == ASSUME NEW a, NEW b, LikeFrame(a, b), NEW n \in Int
  PROVE LikeFrame(ScrollUp(a, n), ScrollUp(b, n)) /\ LikeFrame(ScrollDown(a, n), ScrollDown(b, n))
<1>1. Turned(a, n) = Turned(b, n) /\ Turned(a, 0 - n) = Turned(b, 0 - n)
  BY SameFrame DEF Turned
<1>2. ASSUME NEW v, NEW h \in Int
      PROVE  LikeFrame([a EXCEPT !.scrollHead = v, !.historyRows = h], [b EXCEPT !.scrollHead = v, !.historyRows = h])
  BY DEF LikeFrame, FrameFields
<1>3. Least(a.historyRows + n, a.saveLines) \in Int /\ Greatest(a.historyRows - n, 0) \in Int
  BY SameFrame DEF Least, Greatest
<1>4. LikeFrame(ScrollUp(a, n), ScrollUp(b, n))
  BY <1>1, <1>2, <1>3, SameFrame, Zenon DEF ScrollUp
<1>5. LikeFrame(ScrollDown(a, n), ScrollDown(b, n))
  BY <1>1, <1>2, <1>3, SameFrame, Zenon DEF ScrollDown
<1> QED  BY <1>4, <1>5

LEMMA SameRearranged == ASSUME NEW a, NEW b, LikeFrame(a, b), NEW nCols, NEW nRows
  PROVE Rearranged(a, nCols, nRows) = Rearranged(b, nCols, nRows)
<1> DEFINE G(s, sl, h, fc, fr) ==
     LET total == nRows + sl
         from(row) == IF row >= total - h THEN row - total ELSE row
         kept == {i \in 0..nCols * total - 1 : i % nCols < fc /\ from(i \div nCols) < Least(nRows, fr)}
     IN  [i \in kept |-> GetCell(s, from(i \div nCols), i % nCols)] @@ [i \in 0..nCols * total - 1 |-> Cell]
<1>1. ASSUME NEW s PROVE Rearranged(s, nCols, nRows) = G(s, s.saveLines, s.historyRows, s.nCols, s.nRows)
  BY DEF Rearranged
<1>2. ASSUME NEW sl, NEW h, NEW fc, NEW fr PROVE G(a, sl, h, fc, fr) = G(b, sl, h, fc, fr)
  <2>1. \A y, x : GetCell(a, y, x) = GetCell(b, y, x)
    BY SameIdx
  <2> QED  BY <2>1
<1> HIDE DEF G
<1> QED  BY <1>1, <1>2, SameFrame

LEMMA MarginsFrame == ASSUME NEW a, NEW b, LikeFrame(a, b), NEW t, NEW m
  PROVE /\ LikeFrame(SetMargins(a, t, m), SetMargins(b, t, m)) /\ LikeFrame(ResetMargins(a), ResetMargins(b))
<1>1. LikeFrame(UnwrapCellStorage(a), UnwrapCellStorage(b))
  <2>1. Rearranged(a, a.nCols, a.nRows) = Rearranged(b, b.nCols, b.nRows)
    BY SameFrame, SameRearranged
  <2>2. LikeFrame([a EXCEPT !.cells = Rearranged(a, a.nCols, a.nRows), !.scrollHead = a.marginTop],
                  [b EXCEPT !.cells = Rearranged(a, a.nCols, a.nRows), !.scrollHead = a.marginTop])
    BY DEF LikeFrame, FrameFields
  <2> QED  BY <2>1, <2>2, SameFrame DEF UnwrapCellStorage
<1>2. Rows(a) = Rows(b)
  BY SameFrame DEF Rows
<1> QED  BY <1>1, <1>2 DEF SetMargins, ResetMargins, LikeFrame, FrameFields

LEMMA ResizeFrame == ASSUME NEW a, NEW b, LikeFrame(a, b), NEW t, NEW m
  PROVE LikeFrame(Resize(a, t, m), Resize(b, t, m))
<1>1. Rearranged(a, t, m) = Rearranged(b, t, m)
  BY SameRearranged
<1>2. a.saveLines = b.saveLines
  BY SameFrame
<1> QED  BY <1>1, <1>2 DEF Resize, LikeFrame, FrameFields

LEMMA DropFrame == ASSUME NEW a, NEW b, LikeFrame(a, b)
  PROVE LikeFrame(DropScrollbackHistory(a), DropScrollbackHistory(b))
BY DEF DropScrollbackHistory, LikeFrame, FrameFields
LEMMA NewFrame == ASSUME NEW c, NEW r, NEW n \in Int
  PROVE LikeFrame(NewFramebuffer3(c, r, n), NewFramebuffer3(c, r, n))
BY DEF NewFramebuffer3, LikeFrame, FrameFields

-----------------------------------------------------------------------------
(* Emulators.                                                              *)

LEMMA Same ==
  ASSUME NEW z, NEW e, NEW x, Like(z, e, x)
  PROVE  /\ e.alt = x.alt /\ e.nCols = x.nCols /\ e.nRows = x.nRows /\ e.marginTop = x.marginTop
         /\ e.marginBottom = x.marginBottom /\ e.hMargin = x.hMargin /\ e.nColsEff = x.nColsEff /\ e.posX = x.posX
         /\ e.posY = x.posY /\ e.lastCol = x.lastCol /\ e.rend = x.rend /\ e.modes = x.modes
         /\ e.compatLevel = x.compatLevel /\ e.charset = x.charset /\ e.savedSCO = x.savedSCO
         /\ e.savedDEC_pri = x.savedDEC_pri /\ e.savedDEC_alt = x.savedDEC_alt /\ e.mouse = x.mouse
         /\ e.tabStops = x.tabStops /\ e.links = x.links /\ e.colMode = x.colMode /\ e.bell = x.bell
         /\ e.titles = x.titles /\ e.titleStack = x.titleStack /\ e.modifyOtherKeys = x.modifyOtherKeys
         /\ e.selectionData = x.selectionData
BY DEF Like, EmulatorFields, Own

LEMMA Numbers ==
  ASSUME NEW z, NEW e, NEW x, Like(z, e, x)
  PROVE  /\ e.posY \in Int /\ e.nRows \in Int /\ e.marginTop \in Int /\ e.marginBottom \in Int /\ e.alt \in BOOLEAN
         /\ z = <<e.nCols, e.nRows>>
BY DEF Like

LEMMA SymLike == ASSUME NEW z, NEW e, NEW x, Like(z, e, x) PROVE Like(z, x, e)
BY DEF Like, LikeFrame, FrameFields, EmulatorFields, Own

LEMMA TransLike == ASSUME NEW z, NEW e, NEW x, NEW y, Like(z, e, x), Like(z, x, y) PROVE Like(z, e, y)
BY DEF Like, LikeFrame, FrameFields, EmulatorFields, Own

\* A field set to the same in both.
LEMMA PutLike ==
  ASSUME NEW z, NEW e, NEW x, Like(z, e, x), NEW f \in Free, NEW v
  PROVE  Like(z, [e EXCEPT ![f] = v], [x EXCEPT ![f] = v])
BY DEF Like, Free, EmulatorFields, Own

\* A field set that is its own.
LEMMA LooseLike ==
  ASSUME NEW z, NEW e, NEW x, Like(z, e, x), NEW f \in Loose, NEW v
  PROVE  Like(z, [e EXCEPT ![f] = v], x) /\ Like(z, e, [x EXCEPT ![f] = v])
BY DEF Like, Loose, EmulatorFields, Own

LEMMA ParserLike ==
  ASSUME NEW z, NEW e, NEW x, Like(z, e, x), NEW v \in ParserState
  PROVE  Like(z, [e EXCEPT !.parser = v], x) /\ Like(z, e, [x EXCEPT !.parser = v])
BY DEF Like, EmulatorFields, Own

\* The rows of the cursor, of a region and of cursors to come back to are numbers.
LEMMA RowsLike ==
  ASSUME NEW z, NEW e, NEW x, Like(z, e, x), NEW n \in Int
  PROVE  /\ Like(z, [e EXCEPT !.posY = n], [x EXCEPT !.posY = n])
         /\ Like(z, [e EXCEPT !.marginTop = n], [x EXCEPT !.marginTop = n])
         /\ Like(z, [e EXCEPT !.marginBottom = n], [x EXCEPT !.marginBottom = n])
<1>1. Like(z, [e EXCEPT !.posY = n], [x EXCEPT !.posY = n])
  BY DEF Like, EmulatorFields, Own
<1>2. Like(z, [e EXCEPT !.marginTop = n], [x EXCEPT !.marginTop = n])
  BY DEF Like, EmulatorFields, Own
<1>3. Like(z, [e EXCEPT !.marginBottom = n], [x EXCEPT !.marginBottom = n])
  BY DEF Like, EmulatorFields, Own
<1> QED  BY <1>1, <1>2, <1>3

LEMMA CfLike == ASSUME NEW z, NEW e, NEW x, Like(z, e, x) PROVE LikeFrame(Cf(e), Cf(x))
BY DEF Like, Cf, EmulatorFields, Own

LEMMA WithCfLike ==
  ASSUME NEW z, NEW e, NEW x, Like(z, e, x), NEW a, NEW b, LikeFrame(a, b)
  PROVE  Like(z, WithCf(e, a), WithCf(x, b))
BY DEF Like, WithCf, EmulatorFields, Own

LEMMA SetLike ==
  ASSUME NEW z, NEW e, NEW x, Like(z, e, x), NEW m
  PROVE  Like(z, Set(e, m), Set(x, m)) /\ Like(z, Clear(e, m), Clear(x, m)) /\ On(e, m) = On(x, m)
BY Same DEF Like, Set, Clear, On, EmulatorFields, Own

\* The same by name; a record with several fields set has them set one by one.
LEMMA Puts ==
  ASSUME NEW z, NEW e, NEW x, Like(z, e, x), NEW v
  PROVE  /\ Like(z, [e EXCEPT !.hMargin = v], [x EXCEPT !.hMargin = v])
         /\ Like(z, [e EXCEPT !.nColsEff = v], [x EXCEPT !.nColsEff = v])
         /\ Like(z, [e EXCEPT !.posX = v], [x EXCEPT !.posX = v])
         /\ Like(z, [e EXCEPT !.lastCol = v], [x EXCEPT !.lastCol = v])
         /\ Like(z, [e EXCEPT !.rend = v], [x EXCEPT !.rend = v])
         /\ Like(z, [e EXCEPT !.modes = v], [x EXCEPT !.modes = v])
         /\ Like(z, [e EXCEPT !.compatLevel = v], [x EXCEPT !.compatLevel = v])
         /\ Like(z, [e EXCEPT !.charset = v], [x EXCEPT !.charset = v])
         /\ Like(z, [e EXCEPT !.mouse = v], [x EXCEPT !.mouse = v])
         /\ Like(z, [e EXCEPT !.tabStops = v], [x EXCEPT !.tabStops = v])
         /\ Like(z, [e EXCEPT !.links = v], [x EXCEPT !.links = v])
         /\ Like(z, [e EXCEPT !.colMode = v], [x EXCEPT !.colMode = v])
         /\ Like(z, [e EXCEPT !.bell = v], [x EXCEPT !.bell = v])
         /\ Like(z, [e EXCEPT !.titles = v], [x EXCEPT !.titles = v])
         /\ Like(z, [e EXCEPT !.titleStack = v], [x EXCEPT !.titleStack = v])
         /\ Like(z, [e EXCEPT !.modifyOtherKeys = v], [x EXCEPT !.modifyOtherKeys = v])
         /\ Like(z, [e EXCEPT !.selectionData = v], [x EXCEPT !.selectionData = v])
BY PutLike DEF Free

LEMMA MoveToLike ==
  ASSUME NEW z, NEW e, NEW x, Like(z, e, x), NEW n \in Int, NEW m
  PROVE  Like(z, MoveTo(e, n, m), MoveTo(x, n, m))
BY DEF Like, MoveTo, EmulatorFields, Own

LEMMA SavedLike ==
  ASSUME NEW z, NEW e, NEW x, Like(z, e, x), NEW s, s.set => s.posY \in Int
  PROVE  /\ Like(z, [e EXCEPT !.savedSCO = s], [x EXCEPT !.savedSCO = s])
         /\ Like(z, [e EXCEPT !.savedDEC_pri = s], [x EXCEPT !.savedDEC_pri = s])
         /\ Like(z, [e EXCEPT !.savedDEC_alt = s], [x EXCEPT !.savedDEC_alt = s])
<1>1. Like(z, [e EXCEPT !.savedDEC_pri = s], [x EXCEPT !.savedDEC_pri = s])
  BY DEF Like, EmulatorFields, Own
<1>2. Like(z, [e EXCEPT !.savedDEC_alt = s], [x EXCEPT !.savedDEC_alt = s])
  BY DEF Like, EmulatorFields, Own
<1>3. Like(z, [e EXCEPT !.savedSCO = s], [x EXCEPT !.savedSCO = s])
  BY DEF Like, EmulatorFields, Own
<1> QED  BY <1>1, <1>2, <1>3

LEMMA WithSavedLike ==
  ASSUME NEW z, NEW e, NEW x, Like(z, e, x), NEW s, s.set => s.posY \in Int
  PROVE  /\ Like(z, WithSavedDEC(e, s), WithSavedDEC(x, s))
         /\ SavedDEC(e) = SavedDEC(x) /\ (SavedDEC(e).set => SavedDEC(e).posY \in Int)
<1>1. Like(z, WithSavedDEC(e, s), WithSavedDEC(x, s))
  <2>1. e.alt = x.alt /\ e.alt \in BOOLEAN
    BY Same, Numbers
  <2>2. CASE e.alt = TRUE
    BY <2>1, <2>2, SavedLike DEF WithSavedDEC
  <2>3. CASE e.alt = FALSE
    BY <2>1, <2>3, SavedLike DEF WithSavedDEC
  <2> QED  BY <2>1, <2>2, <2>3
<1>2. (e.savedDEC_pri.set => e.savedDEC_pri.posY \in Int) /\ (e.savedDEC_alt.set => e.savedDEC_alt.posY \in Int)
  BY DEF Like
<1>3. SavedDEC(e) = SavedDEC(x) /\ (SavedDEC(e).set => SavedDEC(e).posY \in Int)
  BY <1>2, Same DEF SavedDEC
<1> QED  BY <1>1, <1>3

LEMMA CursorLike ==
  ASSUME NEW z, NEW e, NEW x, Like(z, e, x), NEW n \in Int, NEW m, NEW l
  PROVE  Like(z, [e EXCEPT !.posX = m, !.posY = n, !.lastCol = l], [x EXCEPT !.posX = m, !.posY = n, !.lastCol = l])
BY Puts, RowsLike

LEMMA NormalizeLike ==
  ASSUME NEW z, NEW e, NEW x, Like(z, e, x)
  PROVE  Like(z, NormalizeCursorPos(e), NormalizeCursorPos(x))
<1> DEFINE p == Least(e.posX, e.nColsEff - 1)
           q == Least(e.posY, e.nRows - 1)
<1>1. p = Least(x.posX, x.nColsEff - 1) /\ q = Least(x.posY, x.nRows - 1)
  BY Same
<1>2. q \in Int
  BY Numbers DEF Least
<1>3. /\ NormalizeCursorPos(e) = [e EXCEPT !.posX = p, !.posY = q, !.lastCol = FALSE]
      /\ NormalizeCursorPos(x) = [x EXCEPT !.posX = p, !.posY = q, !.lastCol = FALSE]
  BY <1>1 DEF NormalizeCursorPos
<1> HIDE DEF p, q
<1>4. Like(z, [e EXCEPT !.posX = p, !.posY = q, !.lastCol = FALSE], [x EXCEPT !.posX = p, !.posY = q, !.lastCol = FALSE])
  BY <1>2, CursorLike, Zenon
<1> QED  BY <1>3, <1>4

LEMMA SameAttrs == ASSUME NEW z, NEW e, NEW x, Like(z, e, x) PROVE EAttrs(e) = EAttrs(x) /\ At(e) = At(x)
BY Same, CfLike, SameIdx DEF EAttrs, At

\* Neither size nor margins depend on what is its own.
LEMMA SameRegion ==
  ASSUME NEW z, NEW e, NEW x, Like(z, e, x)
  PROVE  /\ IsCursorInsideMargins(e) = IsCursorInsideMargins(x) /\ GetWidth(e) = GetWidth(x)
         /\ GetHeight(e) = GetHeight(x) /\ GetHeight(e) \in Int
BY Same, Numbers DEF IsCursorInsideMargins, GetWidth, GetHeight, On

LEMMA ReplyLike ==
  ASSUME NEW z, NEW e, NEW x, Like(z, e, x), NEW m, NEW n
  PROVE  Like(z, Reply(e, m), Reply(x, n)) /\ Like(z, Reply(e, m), x)
BY LooseLike DEF Reply, Loose

LEMMA EraseLike ==
  ASSUME NEW z, NEW e, NEW x, Like(z, e, x), NEW y, NEW s, NEW n
  PROVE  Like(z, EErase(e, y, s, n), EErase(x, y, s, n))
BY SameAttrs, CfLike, WithCfLike, EraseInRowFrame DEF EErase

-----------------------------------------------------------------------------
(* Resets, and the two screens.                                            *)

LEMMA ClearScreenLike ==
  ASSUME NEW z, NEW e, NEW x, Like(z, e, x)
  PROVE  Like(z, ClearScreen(e), ClearScreen(x))
<1> DEFINE d(s) == WithCf(s, FillCells(Cf(s), EAttrs(s)))
<1>1. Like(z, d(e), d(x))
  BY SameAttrs, CfLike, WithCfLike, FillCellsFrame
<1>2. \A s : ClearScreen(s) = [d(s) EXCEPT !.posX = 0, !.posY = 0, !.lastCol = FALSE]
  BY DEF ClearScreen
<1> HIDE DEF d
<1>3. Like(z, [d(e) EXCEPT !.posX = 0, !.posY = 0, !.lastCol = FALSE], [d(x) EXCEPT !.posX = 0, !.posY = 0, !.lastCol = FALSE])
  <2>1. 0 \in Int
    OBVIOUS
  <2> QED  BY <1>1, <2>1, CursorLike, Zenon
<1> QED  BY <1>2, <1>3, Zenon

LEMMA ResetScreenLike ==
  ASSUME NEW z, NEW e, NEW x, Like(z, e, x)
  PROVE  Like(z, ResetScreen(e), ResetScreen(x))
<1> DEFINE d(s) == WithSavedDEC(s, NoCursor)
<1>1. Like(z, d(e), d(x))
  BY WithSavedLike DEF NoCursor
<1>2. d(e).modes = d(x).modes
  BY <1>1, Same
<1>3. \A s : ResetScreen(s) =
              [d(s) EXCEPT !.modes = (@ \ ScreenModes) \cup DefaultModes, !.compatLevel = "VT400", !.charset = Utf8,
                           !.savedSCO = NoCursor, !.mouse = <<0, 0>>, !.tabStops = <<>>]
  BY DEF ResetScreen
<1> HIDE DEF d
<1>4. ASSUME NEW m
      PROVE  Like(z, [d(e) EXCEPT !.modes = m, !.compatLevel = "VT400", !.charset = Utf8,
                                  !.savedSCO = NoCursor, !.mouse = <<0, 0>>, !.tabStops = <<>>],
                     [d(x) EXCEPT !.modes = m, !.compatLevel = "VT400", !.charset = Utf8,
                                  !.savedSCO = NoCursor, !.mouse = <<0, 0>>, !.tabStops = <<>>])
  <2> DEFINE c(s) == [s EXCEPT !.modes = m, !.compatLevel = "VT400", !.charset = Utf8]
  <2>1. Like(z, c(d(e)), c(d(x)))
    BY <1>1, Puts
  <2> HIDE DEF c
  <2>2. Like(z, [c(d(e)) EXCEPT !.savedSCO = NoCursor], [c(d(x)) EXCEPT !.savedSCO = NoCursor])
    BY <2>1, SavedLike DEF NoCursor
  <2>3. Like(z, [c(d(e)) EXCEPT !.savedSCO = NoCursor, !.mouse = <<0, 0>>, !.tabStops = <<>>],
                [c(d(x)) EXCEPT !.savedSCO = NoCursor, !.mouse = <<0, 0>>, !.tabStops = <<>>])
    BY <2>2, Puts
  <2> QED  BY <2>3 DEF c
<1> QED  BY <1>2, <1>3, <1>4, Zenon

LEMMA ResetAttrsLike ==
  ASSUME NEW z, NEW e, NEW x, Like(z, e, x)
  PROVE  Like(z, ResetAttrs(e), ResetAttrs(x))
<1>1. Like(z, Clear(e, "reverseVideo"), Clear(x, "reverseVideo"))
  BY SetLike
<1>2. Like(z, [Clear(e, "reverseVideo") EXCEPT !.rend = Plain, !.links = <<>>],
              [Clear(x, "reverseVideo") EXCEPT !.rend = Plain, !.links = <<>>])
  BY <1>1, Puts
<1> QED  BY <1>2 DEF ResetAttrs

LEMMA ColModeLike ==
  ASSUME NEW z, NEW e, NEW x, Like(z, e, x), NEW m
  PROVE  Like(z, SwitchColMode(e, m), SwitchColMode(x, m))
<1>1. Like(z, ClearScreen(ResetScreen(e)), ClearScreen(ResetScreen(x)))
  BY ResetScreenLike, ClearScreenLike
<1>2. Like(z, [ClearScreen(ResetScreen(e)) EXCEPT !.colMode = m], [ClearScreen(ResetScreen(x)) EXCEPT !.colMode = m])
  BY <1>1, PutLike DEF Free
<1> QED  BY <1>2, Same DEF SwitchColMode

LEMMA ToAlternateLike ==
  ASSUME NEW z, NEW e, NEW x, Like(z, e, x), NEW f, LikeFrame(f, f)
  PROVE  Like(z, [e EXCEPT !.alt = TRUE, !.frame_alt = f], [x EXCEPT !.alt = TRUE, !.frame_alt = f])
BY DEF Like, EmulatorFields, Own

LEMMA ToPrimaryLike ==
  ASSUME NEW z, NEW e, NEW x, Like(z, e, x), NEW f, NEW g, LikeFrame(f, g)
  PROVE  Like(z, [e EXCEPT !.alt = FALSE, !.frame_pri = f, !.frame_alt = NoFrame],
                 [x EXCEPT !.alt = FALSE, !.frame_pri = g, !.frame_alt = NoFrame])
BY DEF Like, EmulatorFields, Own

LEMMA SwitchScreenLike ==
  ASSUME NEW z, NEW e, NEW x, Like(z, e, x), NEW alt \in BOOLEAN
  PROVE  Like(z, SwitchScreenBufferMode(e, alt), SwitchScreenBufferMode(x, alt))
<1>1. CASE e.alt = alt
  BY <1>1, Same DEF SwitchScreenBufferMode
<1>2. CASE e.alt # alt /\ alt = TRUE
  <2> DEFINE f == NewFramebuffer3(e.nCols, e.nRows, 0)
             d(s) == [s EXCEPT !.alt = TRUE, !.frame_alt = f, !.marginTop = 0, !.marginBottom = e.nRows]
  <2>1. LikeFrame(f, f)
    BY NewFrame
  <2>2. /\ SwitchScreenBufferMode(e, alt) = [ClearScreen(d(e)) EXCEPT !.links = <<>>]
        /\ SwitchScreenBufferMode(x, alt) = [ClearScreen(d(x)) EXCEPT !.links = <<>>]
    <3>1. e.alt = x.alt /\ e.nCols = x.nCols /\ e.nRows = x.nRows
      BY Same
    <3> QED  BY <1>2, <3>1 DEF SwitchScreenBufferMode
  <2> HIDE DEF f
  <2>3. Like(z, [e EXCEPT !.alt = TRUE, !.frame_alt = f], [x EXCEPT !.alt = TRUE, !.frame_alt = f])
    BY <2>1, ToAlternateLike, Zenon
  <2>4. Like(z, d(e), d(x))
    <3>1. 0 \in Int /\ e.nRows \in Int
      BY Numbers
    <3> QED  BY <2>3, <3>1, RowsLike
  <2> HIDE DEF d
  <2>5. Like(z, ClearScreen(d(e)), ClearScreen(d(x)))
    BY <2>4, ClearScreenLike
  <2>6. Like(z, [ClearScreen(d(e)) EXCEPT !.links = <<>>], [ClearScreen(d(x)) EXCEPT !.links = <<>>])
    BY <2>5, Puts
  <2> QED  BY <2>2, <2>6
<1>3. CASE e.alt # alt /\ alt = FALSE
  <2> DEFINE f(s) == Resize(s.frame_pri, s.nCols, s.nRows)
             d(s) == [s EXCEPT !.alt = FALSE, !.frame_pri = f(s), !.frame_alt = NoFrame]
             c(s) == [d(s) EXCEPT !.marginTop = 0, !.marginBottom = e.nRows]
  <2>1. LikeFrame(f(e), f(x))
    <3>1. LikeFrame(e.frame_pri, x.frame_pri)
      BY DEF Like
    <3> QED  BY <3>1, ResizeFrame, Same
  <2>2. /\ SwitchScreenBufferMode(e, alt) = [c(e) EXCEPT !.savedDEC_alt = NoCursor, !.links = <<>>]
        /\ SwitchScreenBufferMode(x, alt) = [c(x) EXCEPT !.savedDEC_alt = NoCursor, !.links = <<>>]
    <3>1. e.alt = x.alt /\ e.nRows = x.nRows
      BY Same
    <3> QED  BY <1>3, <3>1 DEF SwitchScreenBufferMode
  <2> HIDE DEF f
  <2>3. Like(z, d(e), d(x))
    BY <2>1, ToPrimaryLike, Zenon
  <2> HIDE DEF d
  <2>4. Like(z, c(e), c(x))
    <3>1. 0 \in Int /\ e.nRows \in Int
      BY Numbers
    <3> QED  BY <2>3, <3>1, RowsLike
  <2> HIDE DEF c
  <2>5. Like(z, [c(e) EXCEPT !.savedDEC_alt = NoCursor], [c(x) EXCEPT !.savedDEC_alt = NoCursor])
    BY <2>4, SavedLike DEF NoCursor
  <2>6. Like(z, [c(e) EXCEPT !.savedDEC_alt = NoCursor, !.links = <<>>], [c(x) EXCEPT !.savedDEC_alt = NoCursor, !.links = <<>>])
    BY <2>5, Puts
  <2> QED  BY <2>2, <2>6
<1> QED  BY <1>1, <1>2, <1>3

LEMMA FreshParser == NewParser \in ParserState
BY DEF NewParser, ParserState

LEMMA ResetTerminalLike ==
  ASSUME NEW z, NEW e, NEW x, Like(z, e, x)
  PROVE  Like(z, ResetTerminal(e), ResetTerminal(x))
<1> DEFINE e1(s) == SwitchColMode(ResetAttrs(ResetScreen([s EXCEPT !.parser = NewParser])), 80)
           fb(s) == ResetMargins(DropScrollbackHistory(Cf(e1(s))))
           w(s)  == WithCf(e1(s), fb(s))
           t     == [icon |-> "", window |-> "", init |-> FALSE]
           d(s)  == [w(s) EXCEPT !.bell = 0, !.titles = t, !.titleStack = <<>>]
           e2(s) == ClearScreen([d(s) EXCEPT !.marginTop = 0, !.marginBottom = s.nRows])
           e3(s) == SwitchScreenBufferMode(e2(s), FALSE)
           m(s)  == (e3(s).modes \ {"altScroll", "lrMargin"}) \cup {"altSendsEscape"}
<1>0. \A s \in {e, x} : ResetTerminal(s) =
        [e3(s) EXCEPT !.modes = m(s), !.modifyOtherKeys = 1, !.hMargin = 0, !.nColsEff = s.nCols]
  BY DEF ResetTerminal
<1>1. Like(z, [e EXCEPT !.parser = NewParser], [x EXCEPT !.parser = NewParser])
  BY FreshParser, ParserLike
<1>2. Like(z, e1(e), e1(x))
  BY <1>1, ResetScreenLike, ResetAttrsLike, ColModeLike
<1> HIDE DEF e1
<1>3. LikeFrame(fb(e), fb(x))
  BY <1>2, CfLike, DropFrame, MarginsFrame
<1> HIDE DEF fb
<1>4. Like(z, w(e), w(x))
  BY <1>2, <1>3, WithCfLike
<1> HIDE DEF w, t
<1>5. Like(z, d(e), d(x))
  BY <1>4, Puts
<1> HIDE DEF d
<1>6. Like(z, e2(e), e2(x))
  <2>1. Like(z, [d(e) EXCEPT !.marginTop = 0, !.marginBottom = e.nRows], [d(x) EXCEPT !.marginTop = 0, !.marginBottom = e.nRows])
    <3>1. 0 \in Int /\ e.nRows \in Int
      BY Numbers
    <3> QED  BY <1>5, <3>1, RowsLike
  <2>2. e.nRows = x.nRows
    BY Same
  <2> QED  BY <2>1, <2>2, ClearScreenLike
<1> HIDE DEF e2
<1>7. Like(z, e3(e), e3(x))
  BY <1>6, SwitchScreenLike
<1> HIDE DEF e3
<1>8. m(e) = m(x) /\ e.nCols = x.nCols
  BY <1>7, Same
<1> HIDE DEF m
<1>9. Like(z, [e3(e) EXCEPT !.modes = m(e), !.modifyOtherKeys = 1], [e3(x) EXCEPT !.modes = m(e), !.modifyOtherKeys = 1])
  BY <1>7, Puts
<1>10. Like(z, [e3(e) EXCEPT !.modes = m(e), !.modifyOtherKeys = 1, !.hMargin = 0, !.nColsEff = e.nCols],
               [e3(x) EXCEPT !.modes = m(e), !.modifyOtherKeys = 1, !.hMargin = 0, !.nColsEff = e.nCols])
  BY <1>9, Puts
<1> QED  BY <1>0, <1>8, <1>10

\* EmuResize: an emulator that has the size is left as it is; what is its own
\* does not matter.
LEMMA SizedLike ==
  ASSUME NEW z, NEW e, NEW x, Like(z, e, x), NEW c, NEW r \in Int
  PROVE  Like(<<c, r>>, [e EXCEPT !.nCols = c, !.nRows = r], [x EXCEPT !.nCols = c, !.nRows = r])
BY DEF Like, EmulatorFields, Own

LEMMA PrimaryLike ==
  ASSUME NEW z, NEW e, NEW x, Like(z, e, x), NEW f, NEW g, LikeFrame(f, g)
  PROVE  Like(z, [e EXCEPT !.frame_pri = f], [x EXCEPT !.frame_pri = g])
BY DEF Like, EmulatorFields, Own

LEMMA AlternateLike ==
  ASSUME NEW z, NEW e, NEW x, Like(z, e, x), NEW f, NEW g, LikeFrame(f, g)
  PROVE  Like(z, [e EXCEPT !.frame_alt = f], [x EXCEPT !.frame_alt = g])
BY DEF Like, EmulatorFields, Own

LEMMA ResizeLike ==
  ASSUME NEW z, NEW e, NEW x, Like(z, e, x), NEW c, NEW r \in Int
  PROVE  Like(<<c, r>>, EmuResize(e, c, r), EmuResize(x, c, r))
<1> DEFINE Scrolled(s) == [s EXCEPT !.frame_pri = ScrollUp(@, s.nRows - r), !.posY = @ - (s.nRows - r)]
           scrolled(s) == IF r < s.posY + 1 THEN Scrolled(s) ELSE s
           reshaped(s)  == [scrolled(s) EXCEPT !.frame_pri = Resize(@, c, r)]
           n(s)  == IF s.nRows < r THEN Least(r - s.nRows, reshaped(s).frame_pri.historyRows) ELSE 0
           pri(s) == [reshaped(s) EXCEPT !.frame_pri = IF n(s) > 0 THEN ScrollDown(@, n(s)) ELSE @, !.posY = @ + n(s)]
           alt(s) == [s EXCEPT !.frame_alt = NewFramebuffer3(c, r, 0)]
           e0(s) == IF s.alt THEN alt(s) ELSE pri(s)
           e1(s) == [e0(s) EXCEPT !.nCols = c, !.nRows = r, !.marginTop = 0, !.marginBottom = r]
           right(s) == IF On(s, "lrMargin") THEN Least(s.nColsEff, c) ELSE c
           left(s)  == IF On(s, "lrMargin") THEN Greatest(0, Least(s.hMargin, right(s) - 2)) ELSE 0
           e2(s) == NormalizeCursorPos([e1(s) EXCEPT !.nColsEff = right(s), !.hMargin = left(s)])
<1>1. \A s \in {e, x} : EmuResize(s, c, r) = IF s.nCols = c /\ s.nRows = r THEN s ELSE [e2(s) EXCEPT !.links = <<>>]
  BY Zenon DEF EmuResize
<1>2. Like(z, Scrolled(e), Scrolled(x))
  <2>1. e.nRows - r \in Int /\ e.posY - (e.nRows - r) \in Int /\ e.nRows - r = x.nRows - r
    BY Numbers, Same
  <2>2. LikeFrame(e.frame_pri, x.frame_pri)
    BY DEF Like
  <2>3. LikeFrame(ScrollUp(e.frame_pri, e.nRows - r), ScrollUp(x.frame_pri, x.nRows - r))
    BY <2>1, <2>2, ScrollFrame
  <2> DEFINE d(s) == [s EXCEPT !.frame_pri = ScrollUp(s.frame_pri, s.nRows - r)]
             p == e.posY - (e.nRows - r)
  <2>4. Like(z, d(e), d(x))
    BY <2>3, PrimaryLike
  <2>5. Scrolled(e) = [d(e) EXCEPT !.posY = p] /\ Scrolled(x) = [d(x) EXCEPT !.posY = p]
    <3>1. x.posY - (x.nRows - r) = p
      BY Same
    <3>2. "posY" \in DOMAIN e /\ "posY" \in DOMAIN x
      BY DEF Like, EmulatorFields
    <3>3. Scrolled(e) = [d(e) EXCEPT !.posY = p]
      BY <3>2
    <3>4. Scrolled(x) = [d(x) EXCEPT !.posY = p]
      BY <3>1, <3>2
    <3> QED  BY <3>3, <3>4
  <2> HIDE DEF d, p
  <2>6. p \in Int
    BY <2>1 DEF p
  <2>7. Like(z, [d(e) EXCEPT !.posY = p], [d(x) EXCEPT !.posY = p])
    BY <2>4, <2>6, RowsLike
  <2> QED  BY <2>5, <2>7
<1> HIDE DEF Scrolled
<1>3. Like(z, scrolled(e), scrolled(x))
  BY <1>2, Same
<1> HIDE DEF scrolled
<1>4. Like(z, reshaped(e), reshaped(x))
  <2>1. LikeFrame(scrolled(e).frame_pri, scrolled(x).frame_pri)
    BY <1>3 DEF Like
  <2> QED  BY <1>3, <2>1, ResizeFrame, PrimaryLike
<1> HIDE DEF reshaped
<1>5. n(e) = n(x) /\ n(e) \in Int
  <2>1. LikeFrame(reshaped(e).frame_pri, reshaped(x).frame_pri)
    BY <1>4 DEF Like
  <2>2. reshaped(e).frame_pri.historyRows = reshaped(x).frame_pri.historyRows /\ reshaped(e).frame_pri.historyRows \in Int
    BY <2>1, SameFrame
  <2> QED  BY <2>2, Same, Numbers DEF Least
<1> HIDE DEF n
<1>6. Like(z, pri(e), pri(x))
  <2> DEFINE f(s) == IF n(s) > 0 THEN ScrollDown(reshaped(s).frame_pri, n(s)) ELSE reshaped(s).frame_pri
             d(s) == [reshaped(s) EXCEPT !.frame_pri = f(s)]
             p == reshaped(e).posY + n(e)
  <2>1. LikeFrame(reshaped(e).frame_pri, reshaped(x).frame_pri)
    BY <1>4 DEF Like
  <2>2. LikeFrame(f(e), f(x))
    BY <1>5, <2>1, ScrollFrame
  <2>3. pri(e) = [d(e) EXCEPT !.posY = p] /\ pri(x) = [d(x) EXCEPT !.posY = p]
    <3>1. reshaped(e).posY = reshaped(x).posY /\ n(e) = n(x)
      BY <1>4, <1>5, Same
    <3>2. "posY" \in DOMAIN reshaped(e) /\ "posY" \in DOMAIN reshaped(x)
      BY <1>4 DEF Like, EmulatorFields
    <3>3. pri(e) = [d(e) EXCEPT !.posY = p]
      BY <3>1, <3>2
    <3>4. pri(x) = [d(x) EXCEPT !.posY = p]
      BY <3>1, <3>2
    <3> QED  BY <3>3, <3>4
  <2> HIDE DEF f
  <2>4. Like(z, d(e), d(x))
    BY <1>4, <2>2, PrimaryLike
  <2>5. p \in Int
    BY <1>4, <1>5, Numbers
  <2> HIDE DEF d, p
  <2>6. Like(z, [d(e) EXCEPT !.posY = p], [d(x) EXCEPT !.posY = p])
    BY <2>4, <2>5, RowsLike
  <2> QED  BY <2>3, <2>6
<1>7. Like(z, alt(e), alt(x))
  <2>1. LikeFrame(NewFramebuffer3(c, r, 0), NewFramebuffer3(c, r, 0))
    BY NewFrame
  <2> QED  BY <2>1, AlternateLike
<1> HIDE DEF pri, alt
<1>8. Like(z, e0(e), e0(x))
  BY <1>6, <1>7, Same
<1> HIDE DEF e0
<1>9. Like(<<c, r>>, e1(e), e1(x))
  <2>1. Like(<<c, r>>, [e0(e) EXCEPT !.nCols = c, !.nRows = r], [e0(x) EXCEPT !.nCols = c, !.nRows = r])
    BY <1>8, SizedLike, Zenon
  <2>2. 0 \in Int
    OBVIOUS
  <2> QED  BY <2>1, <2>2, RowsLike
<1> HIDE DEF e1
<1>10. right(e) = right(x) /\ left(e) = left(x)
  BY Same DEF On
<1> HIDE DEF right, left
<1>11. Like(<<c, r>>, [e1(e) EXCEPT !.nColsEff = right(e), !.hMargin = left(e)], [e1(x) EXCEPT !.nColsEff = right(e), !.hMargin = left(e)])
  BY <1>9, Puts
<1>12. Like(<<c, r>>, e2(e), e2(x))
  BY <1>10, <1>11, NormalizeLike
<1> HIDE DEF e2
<1>13. Like(<<c, r>>, [e2(e) EXCEPT !.links = <<>>], [e2(x) EXCEPT !.links = <<>>])
  BY <1>12, Puts
<1>14. e.nCols = x.nCols /\ e.nRows = x.nRows /\ z = <<e.nCols, e.nRows>>
  BY Same, Numbers
<1> QED  BY <1>1, <1>13, <1>14

-----------------------------------------------------------------------------
(* Counting.                                                               *)

LEMMA CountTo == ASSUME NEW n \in Int PROVE \E m \in Nat : DOMAIN [k \in 1..n |-> k] = 1..m
<1>1. CASE n \in Nat
  BY <1>1
<1>2. CASE n \notin Nat
  <2>1. 1..n = 1..0 /\ 0 \in Nat
    BY <1>2
  <2> QED  BY <2>1
<1> QED  BY <1>1, <1>2

-----------------------------------------------------------------------------
(* Rows and columns between the margins.                                   *)

LikeFrames(p, a, b) == LikeFrame(a, b)

Erasing(p, fb, k) == EraseInRow(fb, p[1] + k - 1, p[2], p[3], p[4])
ErasingRows == INSTANCE Folding WITH op <- Erasing, Rel <- LikeFrames

LEMMA EraseRowsLike ==
  ASSUME NEW z, NEW e, NEW x, Like(z, e, x), NEW y, NEW n \in Int
  PROVE  Like(z, EraseRows(e, y, n), EraseRows(x, y, n))
<1> DEFINE p == <<y, e.hMargin, e.nColsEff - e.hMargin, EAttrs(e)>>
           seq == [k \in 1..n |-> k]
           f(s) == FoldLeft(LAMBDA fb, k : EraseInRow(fb, y + k - 1, s.hMargin, s.nColsEff - s.hMargin, EAttrs(s)), Cf(s), seq)
<1>1. \A s : EraseRows(s, y, n) = WithCf(s, f(s))
  BY DEF EraseRows
<1>2. e.hMargin = x.hMargin /\ e.nColsEff = x.nColsEff /\ EAttrs(e) = EAttrs(x)
  BY Same, SameAttrs
<1>3. f(e) = ErasingRows!Folded(p, Cf(e), seq)
  BY DEF FoldLeft, MapThenFoldSet, Max, ErasingRows!Newest, ErasingRows!FoldedBy, ErasingRows!Folded, Erasing
<1>4. f(x) = ErasingRows!Folded(p, Cf(x), seq)
  BY <1>2 DEF FoldLeft, MapThenFoldSet, Max, ErasingRows!Newest, ErasingRows!FoldedBy, ErasingRows!Folded, Erasing
<1>5. LikeFrame(ErasingRows!Folded(p, Cf(e), seq), ErasingRows!Folded(p, Cf(x), seq))
  <2>1. PICK m \in Nat : DOMAIN seq = 1..m
    BY CountTo
  <2>2. LikeFrames(p, Cf(e), Cf(x))
    BY CfLike DEF LikeFrames
  <2>3. \A i \in 1..m : \A a, b : LikeFrames(p, a, b) => LikeFrames(p, Erasing(p, a, seq[i]), Erasing(p, b, seq[i]))
    BY EraseInRowFrame DEF LikeFrames, Erasing
  <2> HIDE DEF p, seq
  <2> QED  BY <2>1, <2>2, <2>3, ErasingRows!Keeps DEF LikeFrames
<1> QED  BY <1>1, <1>3, <1>4, <1>5, WithCfLike, Zenon

MovingInsert(p, fb, k) == CopyRow(fb, p[1] + p[5] - k + p[2], p[1] + p[5] - k, p[3], p[4])
InsertingRows == INSTANCE Folding WITH op <- MovingInsert, Rel <- LikeFrames

LEMMA InsertRowsLike ==
  ASSUME NEW z, NEW e, NEW x, Like(z, e, x), NEW y \in Int, NEW c \in Int
  PROVE  Like(z, InsertRows(e, y, c), InsertRows(x, y, c))
<1> DEFINE n(s) == Greatest(0, s.marginBottom - c - y)
           q == n(e)
           p == <<y, c, e.hMargin, e.nColsEff - e.hMargin, q>>
           seq == [k \in 1..q |-> k]
           f(s) == FoldLeft(LAMBDA fb, k : ECopyRow(s, fb, y + n(s) - k + c, y + n(s) - k), Cf(s), [k \in 1..n(s) |-> k])
<1>1. \A s : InsertRows(s, y, c) = EraseRows(WithCf(s, f(s)), y, c)
  BY DEF InsertRows
<1>2. e.hMargin = x.hMargin /\ e.nColsEff = x.nColsEff /\ e.marginBottom = x.marginBottom /\ n(x) = q
  BY Same
<1>3. f(e) = InsertingRows!Folded(p, Cf(e), seq)
  BY DEF FoldLeft, MapThenFoldSet, Max, InsertingRows!Newest, InsertingRows!FoldedBy, InsertingRows!Folded, MovingInsert, ECopyRow
<1>4. f(x) = InsertingRows!Folded(p, Cf(x), seq)
  BY <1>2 DEF FoldLeft, MapThenFoldSet, Max, InsertingRows!Newest, InsertingRows!FoldedBy, InsertingRows!Folded, MovingInsert, ECopyRow
<1>5. LikeFrame(InsertingRows!Folded(p, Cf(e), seq), InsertingRows!Folded(p, Cf(x), seq))
  <2>1. PICK m \in Nat : DOMAIN seq = 1..m
    <3>1. q \in Int
      BY Numbers DEF Greatest
    <3> HIDE DEF q
    <3> QED  BY <3>1, CountTo
  <2>2. LikeFrames(p, Cf(e), Cf(x))
    BY CfLike DEF LikeFrames
  <2>3. \A i \in 1..m : \A a, b : LikeFrames(p, a, b) => LikeFrames(p, MovingInsert(p, a, seq[i]), MovingInsert(p, b, seq[i]))
    BY CopyRowFrame DEF LikeFrames, MovingInsert
  <2> HIDE DEF p, seq
  <2> QED  BY <2>1, <2>2, <2>3, InsertingRows!Keeps DEF LikeFrames
<1> HIDE DEF f
<1>6. Like(z, WithCf(e, f(e)), WithCf(x, f(x)))
  BY <1>3, <1>4, <1>5, WithCfLike
<1> QED  BY <1>1, <1>2, <1>6, EraseRowsLike

MovingDelete(p, fb, k) == CopyRow(fb, p[1] + k - 1, p[1] + k - 1 + p[2], p[3], p[4])
DeletingRows == INSTANCE Folding WITH op <- MovingDelete, Rel <- LikeFrames

LEMMA DeleteRowsLike ==
  ASSUME NEW z, NEW e, NEW x, Like(z, e, x), NEW y \in Int, NEW c \in Int
  PROVE  Like(z, DeleteRows(e, y, c), DeleteRows(x, y, c))
<1> DEFINE n(s) == Greatest(0, s.marginBottom - c - y)
           q == n(e)
           p == <<y, c, e.hMargin, e.nColsEff - e.hMargin>>
           seq == [k \in 1..q |-> k]
           f(s) == FoldLeft(LAMBDA fb, k : ECopyRow(s, fb, y + k - 1, y + k - 1 + c), Cf(s), [k \in 1..n(s) |-> k])
<1>1. \A s : DeleteRows(s, y, c) = EraseRows(WithCf(s, f(s)), s.marginBottom - c, c)
  BY DEF DeleteRows
<1>2. e.hMargin = x.hMargin /\ e.nColsEff = x.nColsEff /\ e.marginBottom = x.marginBottom /\ n(x) = q
  BY Same
<1>3. f(e) = DeletingRows!Folded(p, Cf(e), seq)
  BY DEF FoldLeft, MapThenFoldSet, Max, DeletingRows!Newest, DeletingRows!FoldedBy, DeletingRows!Folded, MovingDelete, ECopyRow
<1>4. f(x) = DeletingRows!Folded(p, Cf(x), seq)
  BY <1>2 DEF FoldLeft, MapThenFoldSet, Max, DeletingRows!Newest, DeletingRows!FoldedBy, DeletingRows!Folded, MovingDelete, ECopyRow
<1>5. LikeFrame(DeletingRows!Folded(p, Cf(e), seq), DeletingRows!Folded(p, Cf(x), seq))
  <2>1. PICK m \in Nat : DOMAIN seq = 1..m
    <3>1. q \in Int
      BY Numbers DEF Greatest
    <3> HIDE DEF q
    <3> QED  BY <3>1, CountTo
  <2>2. LikeFrames(p, Cf(e), Cf(x))
    BY CfLike DEF LikeFrames
  <2>3. \A i \in 1..m : \A a, b : LikeFrames(p, a, b) => LikeFrames(p, MovingDelete(p, a, seq[i]), MovingDelete(p, b, seq[i]))
    BY CopyRowFrame DEF LikeFrames, MovingDelete
  <2> HIDE DEF p, seq
  <2> QED  BY <2>1, <2>2, <2>3, DeletingRows!Keeps DEF LikeFrames
<1> HIDE DEF f
<1>6. Like(z, WithCf(e, f(e)), WithCf(x, f(x)))
  BY <1>3, <1>4, <1>5, WithCfLike
<1> QED  BY <1>1, <1>2, <1>6, EraseRowsLike

Shifting(p, fb, k) ==
  LET r == p[1] + k - 1
  IN  EraseInRow(MoveInRow(fb, r, p[2], p[3], p[6]), r, p[4], p[5], p[7])
ShiftingCols == INSTANCE Folding WITH op <- Shifting, Rel <- LikeFrames

LEMMA ShiftColsLike ==
  ASSUME NEW z, NEW e, NEW x, Like(z, e, x), NEW d, NEW f, NEW t, NEW c, NEW l
  PROVE  Like(z, ShiftCols(e, d, f, t, c, l), ShiftCols(x, d, f, t, c, l))
<1> DEFINE q == e.marginBottom - e.marginTop
           p == <<e.marginTop, d, f, t, c, l, EAttrs(e)>>
           seq == [k \in 1..q |-> k]
           g(s) == FoldLeft(LAMBDA fb, k : LET r == s.marginTop + k - 1
                                           IN  EraseInRow(MoveInRow(fb, r, d, f, l), r, t, c, EAttrs(s)),
                            Cf(s), [k \in 1..s.marginBottom - s.marginTop |-> k])
<1>1. \A s : ShiftCols(s, d, f, t, c, l) = WithCf(s, g(s))
  BY DEF ShiftCols
<1>2. e.marginTop = x.marginTop /\ e.marginBottom = x.marginBottom /\ EAttrs(e) = EAttrs(x)
  BY Same, SameAttrs
<1>3. g(e) = ShiftingCols!Folded(p, Cf(e), seq)
  BY DEF FoldLeft, MapThenFoldSet, Max, ShiftingCols!Newest, ShiftingCols!FoldedBy, ShiftingCols!Folded, Shifting
<1>4. g(x) = ShiftingCols!Folded(p, Cf(x), seq)
  BY <1>2 DEF FoldLeft, MapThenFoldSet, Max, ShiftingCols!Newest, ShiftingCols!FoldedBy, ShiftingCols!Folded, Shifting
<1>5. LikeFrame(ShiftingCols!Folded(p, Cf(e), seq), ShiftingCols!Folded(p, Cf(x), seq))
  <2>1. PICK m \in Nat : DOMAIN seq = 1..m
    <3>1. q \in Int
      BY Numbers
    <3> HIDE DEF q
    <3> QED  BY <3>1, CountTo
  <2>2. LikeFrames(p, Cf(e), Cf(x))
    BY CfLike DEF LikeFrames
  <2>3. \A i \in 1..m : \A a, b : LikeFrames(p, a, b) => LikeFrames(p, Shifting(p, a, seq[i]), Shifting(p, b, seq[i]))
    BY EraseInRowFrame, MoveInRowFrame DEF LikeFrames, Shifting
  <2> HIDE DEF p, seq
  <2> QED  BY <2>1, <2>2, <2>3, ShiftingCols!Keeps DEF LikeFrames
<1> HIDE DEF g
<1> QED  BY <1>1, <1>3, <1>4, <1>5, WithCfLike

LEMMA ColsLike ==
  ASSUME NEW z, NEW e, NEW x, Like(z, e, x), NEW s, NEW c
  PROVE  Like(z, InsertCols(e, s, c), InsertCols(x, s, c)) /\ Like(z, DeleteCols(e, s, c), DeleteCols(x, s, c))
BY ShiftColsLike, Same DEF InsertCols, DeleteCols

-----------------------------------------------------------------------------
(* Moving the cursor.                                                      *)

LEMMA ClampInt == ASSUME NEW n \in Int, NEW m \in Int PROVE Clamp(n, m) \in Int /\ Least(n, m) \in Int
BY DEF Clamp, Least, Greatest

LEMMA VerticalLike ==
  ASSUME NEW z, NEW e, NEW x, Like(z, e, x), NEW n \in Int
  PROVE  /\ Like(z, hdl_csi_vpa(e, n), hdl_csi_vpa(x, n)) /\ Like(z, hdl_csi_vpr(e, n), hdl_csi_vpr(x, n))
         /\ Like(z, hdl_csi_cuu(e, n), hdl_csi_cuu(x, n)) /\ Like(z, hdl_csi_cud(e, n), hdl_csi_cud(x, n))
<1>1. ASSUME NEW m \in Int PROVE Like(z, hdl_csi_vpa(e, m), hdl_csi_vpa(x, m))
  <2>1. Clamp(m, e.nRows) - 1 \in Int
    <3>1. e.nRows \in Int
      BY Numbers
    <3>2. Clamp(m, e.nRows) \in Int
      BY <3>1, ClampInt
    <3> QED  BY <3>2
  <2>2. Like(z, MoveTo(e, Clamp(m, e.nRows) - 1, e.posX), MoveTo(x, Clamp(m, e.nRows) - 1, e.posX))
    BY <2>1, MoveToLike
  <2> QED  BY <2>2, Same DEF hdl_csi_vpa
<1>2. Like(z, hdl_csi_vpr(e, n), hdl_csi_vpr(x, n))
  <2>1. n + e.posY + 1 \in Int /\ e.posY = x.posY
    BY Numbers, Same
  <2> QED  BY <1>1, <2>1 DEF hdl_csi_vpr
<1>3. Like(z, hdl_csi_cuu(e, n), hdl_csi_cuu(x, n))
  <2> DEFINE up(s) == s.posY - Least(n, IF s.posY >= s.marginTop THEN s.posY - s.marginTop ELSE s.posY)
  <2>1. up(e) \in Int /\ up(e) = up(x)
    BY Numbers, Same DEF Least
  <2>2. \A s : hdl_csi_cuu(s, n) = MoveTo(s, up(s), s.posX)
    BY DEF hdl_csi_cuu
  <2> HIDE DEF up
  <2> QED  BY <2>1, <2>2, MoveToLike, Same
<1>4. Like(z, hdl_csi_cud(e, n), hdl_csi_cud(x, n))
  <2> DEFINE down(s) == s.posY + Least(n, (IF s.posY < s.marginBottom THEN s.marginBottom ELSE s.nRows) - s.posY - 1)
  <2>1. down(e) \in Int /\ down(e) = down(x)
    BY Numbers, Same DEF Least
  <2>2. \A s : hdl_csi_cud(s, n) = MoveTo(s, down(s), s.posX)
    BY DEF hdl_csi_cud
  <2> HIDE DEF down
  <2> QED  BY <2>1, <2>2, MoveToLike, Same
<1> QED  BY <1>1, <1>2, <1>3, <1>4

\* The column may be anything, the row is one of an emulator.
LEMMA HorizontalLike ==
  ASSUME NEW z, NEW e, NEW x, Like(z, e, x), NEW n
  PROVE  /\ Like(z, hdl_csi_cha(e, n), hdl_csi_cha(x, n)) /\ Like(z, hdl_csi_hpa(e, n), hdl_csi_hpa(x, n))
         /\ Like(z, hdl_csi_hpr(e, n), hdl_csi_hpr(x, n)) /\ Like(z, hdl_csi_cuf(e, n), hdl_csi_cuf(x, n))
         /\ Like(z, hdl_csi_cub(e, n), hdl_csi_cub(x, n)) /\ Like(z, hdl_c0_cr(e), hdl_c0_cr(x))
<1>1. ASSUME NEW m PROVE Like(z, MoveTo(e, e.posY, m), MoveTo(x, x.posY, m))
  BY MoveToLike, Numbers, Same
<1>2. ASSUME NEW m PROVE Like(z, hdl_csi_cha(e, m), hdl_csi_cha(x, m))
  BY <1>1, Same DEF hdl_csi_cha
<1>3. Like(z, hdl_csi_hpa(e, n), hdl_csi_hpa(x, n))
  BY <1>2 DEF hdl_csi_hpa
<1>4. Like(z, hdl_csi_hpr(e, n), hdl_csi_hpr(x, n))
  BY <1>2, Same DEF hdl_csi_hpr
<1>5. Like(z, hdl_csi_cuf(e, n), hdl_csi_cuf(x, n))
  BY <1>1, Same DEF hdl_csi_cuf
<1>6. Like(z, hdl_csi_cub(e, n), hdl_csi_cub(x, n))
  <2> DEFINE left(s) == LET m == Least(n, IF s.posX >= s.hMargin THEN s.posX - s.hMargin ELSE s.posX)
                        IN  s.posX - IF s.posX = s.nColsEff THEN Least(m + 1, s.posX) ELSE m
  <2>1. left(e) = left(x)
    BY Same
  <2>2. \A s : hdl_csi_cub(s, n) = MoveTo(s, s.posY, left(s))
    BY DEF hdl_csi_cub
  <2> HIDE DEF left
  <2> QED  BY <1>1, <2>1, <2>2
<1>7. Like(z, hdl_c0_cr(e), hdl_c0_cr(x))
  <2> DEFINE col(s) == IF ~On(s, "origin") /\ s.posX < s.hMargin THEN 0 ELSE s.hMargin
  <2>1. col(e) = col(x)
    BY Same, SetLike
  <2>2. \A s : hdl_c0_cr(s) = MoveTo(s, s.posY, col(s))
    BY DEF hdl_c0_cr
  <2> HIDE DEF col
  <2> QED  BY <1>1, <2>1, <2>2
<1> QED  BY <1>2, <1>3, <1>4, <1>5, <1>6, <1>7

LEMMA CupLike ==
  ASSUME NEW z, NEW e, NEW x, Like(z, e, x), NEW n \in Int, NEW m
  PROVE  Like(z, hdl_csi_cup(e, n, m), hdl_csi_cup(x, n, m))
<1> DEFINE row(s) == IF On(s, "origin") THEN Clamp(n, s.marginBottom) - 1 + s.marginTop ELSE Clamp(n, s.nRows) - 1
<1>1. row(e) = row(x)
  BY Same, SetLike
<1>2. row(e) \in Int
  <2>1. e.nRows \in Int /\ e.marginBottom \in Int /\ e.marginTop \in Int
    BY Numbers
  <2>2. Clamp(n, e.nRows) \in Int /\ Clamp(n, e.marginBottom) \in Int
    BY <2>1, ClampInt
  <2> QED  BY <2>1, <2>2
<1>3. \A s : hdl_csi_cup(s, n, m) = MoveTo(s, row(s), Clamp(m, s.nCols) - 1)
  BY DEF hdl_csi_cup
<1> HIDE DEF row
<1> QED  BY <1>1, <1>2, <1>3, MoveToLike, Same

LEMMA LinesLike ==
  ASSUME NEW z, NEW e, NEW x, Like(z, e, x), NEW n \in Int
  PROVE  Like(z, hdl_csi_cnl(e, n), hdl_csi_cnl(x, n)) /\ Like(z, hdl_csi_cpl(e, n), hdl_csi_cpl(x, n))
<1>1. Like(z, hdl_csi_cud(e, n), hdl_csi_cud(x, n)) /\ Like(z, hdl_csi_cuu(e, n), hdl_csi_cuu(x, n))
  BY VerticalLike
<1> QED  BY <1>1, HorizontalLike DEF hdl_csi_cnl, hdl_csi_cpl

LEMMA HomeLike == ASSUME NEW z, NEW e, NEW x, Like(z, e, x) PROVE Like(z, Home(e), Home(x))
<1>1. Like(z, MoveTo(e, e.marginTop, e.hMargin), MoveTo(x, x.marginTop, x.hMargin))
  BY MoveToLike, Numbers, Same
<1>2. Like(z, MoveTo(e, 0, 0), MoveTo(x, 0, 0))
  <2>1. 0 \in Int
    OBVIOUS
  <2> QED  BY <2>1, MoveToLike
<1>3. On(e, "origin") = On(x, "origin")
  BY SetLike
<1> QED  BY <1>1, <1>2, <1>3 DEF Home

-----------------------------------------------------------------------------
(* Tabs.                                                                   *)

LEMMA SameTabs == ASSUME NEW z, NEW e, NEW x, Like(z, e, x) PROVE TabsBefore(e) = TabsBefore(x)
<1> DEFINE G(t, p) == Len(SelectSeq(t, LAMBDA q : q < p))
<1>1. \A s : TabsBefore(s) = G(s.tabStops, s.posX)
  BY DEF TabsBefore
<1> HIDE DEF G
<1> QED  BY <1>1, Same

LEMMA NextTabLike == ASSUME NEW z, NEW e, NEW x, Like(z, e, x) PROVE Like(z, JumpToNextTabStop(e), JumpToNextTabStop(x))
<1> DEFINE col(s) == LET next  == ((s.posX \div 8) + 1) * 8
                         stops == TabsBefore(s)
                     IN  IF s.tabStops = <<>> THEN Least(next, s.nColsEff - 1)
                         ELSE IF stops >= Len(s.tabStops) THEN s.nCols - 1 ELSE s.tabStops[stops + 1]
<1>1. col(e) = col(x)
  BY Same, SameTabs
<1>2. \A s : JumpToNextTabStop(s) = [s EXCEPT !.lastCol = FALSE, !.posX = col(s)]
  BY DEF JumpToNextTabStop
<1> HIDE DEF col
<1>3. Like(z, [e EXCEPT !.lastCol = FALSE, !.posX = col(e)], [x EXCEPT !.lastCol = FALSE, !.posX = col(e)])
  BY Puts
<1> QED  BY <1>1, <1>2, <1>3, Zenon

LEMMA HtLike == ASSUME NEW z, NEW e, NEW x, Like(z, e, x) PROVE Like(z, hdl_c0_ht(e), hdl_c0_ht(x))
BY NextTabLike, Same DEF hdl_c0_ht

LEMMA PreviousTabLike == ASSUME NEW z, NEW e, NEW x, Like(z, e, x) PROVE Like(z, PreviousTab(e), PreviousTab(x))
<1> DEFINE col(s) == IF s.posX > 0 /\ s.posX % 8 = 0 THEN s.posX - 8 ELSE (s.posX \div 8) * 8
           stop(s) == IF TabsBefore(s) > 0 THEN s.tabStops[TabsBefore(s)] ELSE 0
<1>1. col(e) = col(x) /\ stop(e) = stop(x)
  BY Same, SameTabs
<1>2. \A s : PreviousTab(s) = IF s.tabStops = <<>> THEN [s EXCEPT !.posX = col(s)] ELSE MoveTo(s, s.posY, stop(s))
  BY DEF PreviousTab
<1> HIDE DEF col, stop
<1>3. Like(z, [e EXCEPT !.posX = col(e)], [x EXCEPT !.posX = col(e)])
  BY Puts
<1>4. Like(z, MoveTo(e, e.posY, stop(e)), MoveTo(x, e.posY, stop(e)))
  BY MoveToLike, Numbers
<1> QED  BY <1>1, <1>2, <1>3, <1>4, Same

\* p is the size.
LikeAt(p, a, b) == Like(p, a, b)

JumpingOnce(p, s, k) == JumpToNextTabStop(s)
Jumping == INSTANCE Folding WITH op <- JumpingOnce, Rel <- LikeAt

BackOnce(p, s, k) == PreviousTab(s)
Back == INSTANCE Folding WITH op <- BackOnce, Rel <- LikeAt

LEMMA ChtLike ==
  ASSUME NEW z, NEW e, NEW x, Like(z, e, x), NEW n \in Int
  PROVE  Like(z, hdl_csi_cht(e, n), hdl_csi_cht(x, n)) /\ Like(z, hdl_csi_cbt(e, n), hdl_csi_cbt(x, n))
<1> DEFINE seq == [k \in 1..n |-> k]
           f(s) == Fold(LAMBDA t, k : JumpToNextTabStop(t), s, n)
<1>1. \A s : f(s) = Jumping!Folded(z, s, seq)
  BY DEF Fold, FoldLeft, MapThenFoldSet, Max, Jumping!Newest, Jumping!FoldedBy, Jumping!Folded, JumpingOnce
<1>2. \A s : hdl_csi_cbt(s, n) = Back!Folded(z, s, seq)
  BY DEF hdl_csi_cbt, Fold, FoldLeft, MapThenFoldSet, Max, Back!Newest, Back!FoldedBy, Back!Folded, BackOnce
<1>3. PICK m \in Nat : DOMAIN seq = 1..m
  BY CountTo
<1>4. \A s : hdl_csi_cht(s, n) = IF n = 1 THEN hdl_c0_ht(s) ELSE f(s)
  BY DEF hdl_csi_cht
<1> HIDE DEF seq
<1>5. LikeAt(z, e, x)
  BY DEF LikeAt
<1>6. Like(z, Jumping!Folded(z, e, seq), Jumping!Folded(z, x, seq))
  <2>1. \A i \in 1..m : \A a, b : LikeAt(z, a, b) => LikeAt(z, JumpingOnce(z, a, seq[i]), JumpingOnce(z, b, seq[i]))
    BY NextTabLike DEF LikeAt, JumpingOnce
  <2> QED  BY <1>3, <1>5, <2>1, Jumping!Keeps DEF LikeAt
<1>7. Like(z, Back!Folded(z, e, seq), Back!Folded(z, x, seq))
  <2>1. \A i \in 1..m : \A a, b : LikeAt(z, a, b) => LikeAt(z, BackOnce(z, a, seq[i]), BackOnce(z, b, seq[i]))
    BY PreviousTabLike DEF LikeAt, BackOnce
  <2> QED  BY <1>3, <1>5, <2>1, Back!Keeps DEF LikeAt
<1> HIDE DEF f
<1> QED  BY <1>1, <1>2, <1>4, <1>6, <1>7, HtLike

LEMMA TabStopsLike ==
  ASSUME NEW z, NEW e, NEW x, Like(z, e, x), NEW n
  PROVE  Like(z, hdl_esc_hts(e), hdl_esc_hts(x)) /\ Like(z, hdl_csi_tbc(e, n), hdl_csi_tbc(x, n))
<1> DEFINE G(r, p) == SortSeq(Append(r, p), <)
           H(r, k) == RemoveAt(r, k)
<1>1. \A s : hdl_esc_hts(s) = [s EXCEPT !.tabStops = G(s.tabStops, s.posX)]
  BY DEF hdl_esc_hts
<1>2. \A s : hdl_csi_tbc(s, n) = CASE n = 0 /\ s.posX \in Range(s.tabStops) -> [s EXCEPT !.tabStops = H(s.tabStops, TabsBefore(s) + 1)]
                                   [] n = 3 -> [s EXCEPT !.tabStops = <<>>]
                                   [] OTHER -> s
  BY DEF hdl_csi_tbc
<1> HIDE DEF G, H
<1>3. ASSUME NEW v PROVE Like(z, [e EXCEPT !.tabStops = v], [x EXCEPT !.tabStops = v])
  BY Puts
<1>4. G(e.tabStops, e.posX) = G(x.tabStops, x.posX) /\ H(e.tabStops, TabsBefore(e) + 1) = H(x.tabStops, TabsBefore(x) + 1)
  BY Same, SameTabs
<1>5. Range(e.tabStops) = Range(x.tabStops) /\ e.posX = x.posX
  BY Same
<1>6. Like(z, hdl_esc_hts(e), hdl_esc_hts(x))
  BY <1>1, <1>3, <1>4
<1>7. Like(z, hdl_csi_tbc(e, n), hdl_csi_tbc(x, n))
  <2>1. CASE n = 0 /\ e.posX \in Range(e.tabStops)
    <3>1. hdl_csi_tbc(e, n) = [e EXCEPT !.tabStops = H(e.tabStops, TabsBefore(e) + 1)]
      BY <1>2, <2>1
    <3>2. hdl_csi_tbc(x, n) = [x EXCEPT !.tabStops = H(e.tabStops, TabsBefore(e) + 1)]
      BY <1>2, <1>4, <1>5, <2>1
    <3> QED  BY <1>3, <3>1, <3>2
  <2>2. CASE n = 3
    <3>1. hdl_csi_tbc(e, n) = [e EXCEPT !.tabStops = <<>>] /\ hdl_csi_tbc(x, n) = [x EXCEPT !.tabStops = <<>>]
      BY <1>2, <2>2
    <3> QED  BY <1>3, <3>1
  <2>3. CASE ~(n = 0 /\ e.posX \in Range(e.tabStops)) /\ n # 3
    <3>1. hdl_csi_tbc(e, n) = e /\ hdl_csi_tbc(x, n) = x
      BY <1>2, <1>5, <2>3
    <3> QED  BY <3>1
  <2> QED  BY <2>1, <2>2, <2>3
<1> QED  BY <1>6, <1>7

-----------------------------------------------------------------------------
(* Scrolling, and rows and columns put in and taken out.                   *)

LEMMA LeastInt == ASSUME NEW n \in Int, NEW m \in Int PROVE Least(n, m) \in Int /\ Greatest(n, m) \in Int
BY DEF Least, Greatest

LEMMA UnlastLike ==
  ASSUME NEW z, NEW e, NEW x, Like(z, e, x)
  PROVE  Like(z, [e EXCEPT !.lastCol = FALSE], [x EXCEPT !.lastCol = FALSE])
BY Puts

LEMMA ScreenScrollLike ==
  ASSUME NEW z, NEW e, NEW x, Like(z, e, x), NEW n \in Int
  PROVE  /\ Like(z, WithCf(e, ScrollUp(Cf(e), n)), WithCf(x, ScrollUp(Cf(x), n)))
         /\ Like(z, WithCf(e, ScrollDown(Cf(e), n)), WithCf(x, ScrollDown(Cf(x), n)))
<1>1. LikeFrame(Cf(e), Cf(x))
  BY CfLike
<1>2. LikeFrame(ScrollUp(Cf(e), n), ScrollUp(Cf(x), n)) /\ LikeFrame(ScrollDown(Cf(e), n), ScrollDown(Cf(x), n))
  BY <1>1, ScrollFrame
<1> QED  BY <1>2, WithCfLike

LEMMA SuSdLike ==
  ASSUME NEW z, NEW e, NEW x, Like(z, e, x), NEW n \in Int
  PROVE  Like(z, hdl_csi_su(e, n), hdl_csi_su(x, n)) /\ Like(z, hdl_csi_sd(e, n), hdl_csi_sd(x, n))
<1>1. /\ e.marginTop \in Int /\ e.marginBottom \in Int /\ e.marginTop = x.marginTop /\ e.marginBottom = x.marginBottom
      /\ On(e, "lrMargin") = On(x, "lrMargin")
  BY Numbers, Same, SetLike
<1> DEFINE rows == e.marginBottom - e.marginTop
           count == Least(n, rows)
           bottom == e.marginBottom - n
           up(s) == WithCf(s, ScrollUp(Cf(s), n))
           down(s) == WithCf(s, ScrollDown(Cf(s), n))
<1>2. count \in Int /\ bottom \in Int
  <2>1. rows \in Int /\ bottom \in Int
    BY <1>1
  <2> HIDE DEF rows
  <2> QED  BY <2>1, LeastInt
<1>3. /\ hdl_csi_su(e, n) = IF On(e, "lrMargin") THEN DeleteRows(e, e.marginTop, count)
                            ELSE [EraseRows(up(e), bottom, n) EXCEPT !.lastCol = FALSE]
      /\ hdl_csi_su(x, n) = IF On(e, "lrMargin") THEN DeleteRows(x, e.marginTop, count)
                            ELSE [EraseRows(up(x), bottom, n) EXCEPT !.lastCol = FALSE]
  BY <1>1 DEF hdl_csi_su
<1>4. /\ hdl_csi_sd(e, n) = IF On(e, "lrMargin") THEN InsertRows(e, e.marginTop, count)
                            ELSE [EraseRows(down(e), e.marginTop, n) EXCEPT !.lastCol = FALSE]
      /\ hdl_csi_sd(x, n) = IF On(e, "lrMargin") THEN InsertRows(x, e.marginTop, count)
                            ELSE [EraseRows(down(x), e.marginTop, n) EXCEPT !.lastCol = FALSE]
  BY <1>1 DEF hdl_csi_sd
<1>5. Like(z, up(e), up(x)) /\ Like(z, down(e), down(x))
  BY ScreenScrollLike
<1> HIDE DEF count, bottom, up, down
<1>6. Like(z, EraseRows(up(e), bottom, n), EraseRows(up(x), bottom, n))
  BY <1>5, EraseRowsLike
<1>7. Like(z, EraseRows(down(e), e.marginTop, n), EraseRows(down(x), e.marginTop, n))
  BY <1>5, EraseRowsLike
<1>8. Like(z, DeleteRows(e, e.marginTop, count), DeleteRows(x, e.marginTop, count))
  BY <1>1, <1>2, DeleteRowsLike
<1>9. Like(z, InsertRows(e, e.marginTop, count), InsertRows(x, e.marginTop, count))
  BY <1>1, <1>2, InsertRowsLike
<1>10. /\ Like(z, [EraseRows(up(e), bottom, n) EXCEPT !.lastCol = FALSE], [EraseRows(up(x), bottom, n) EXCEPT !.lastCol = FALSE])
       /\ Like(z, [EraseRows(down(e), e.marginTop, n) EXCEPT !.lastCol = FALSE],
                  [EraseRows(down(x), e.marginTop, n) EXCEPT !.lastCol = FALSE])
  BY <1>6, <1>7, UnlastLike
<1>11. Like(z, hdl_csi_su(e, n), hdl_csi_su(x, n))
  BY <1>3, <1>8, <1>10
<1>12. Like(z, hdl_csi_sd(e, n), hdl_csi_sd(x, n))
  BY <1>4, <1>9, <1>10
<1> QED  BY <1>11, <1>12

LEMMA IndLike ==
  ASSUME NEW z, NEW e, NEW x, Like(z, e, x)
  PROVE  /\ Like(z, hdl_esc_ind(e), hdl_esc_ind(x)) /\ Like(z, hdl_esc_ri(e), hdl_esc_ri(x))
         /\ AtBottom(e) = AtBottom(x)
<1>1. /\ e.posY \in Int /\ e.posY = x.posY /\ e.posX = x.posX /\ e.nRows = x.nRows /\ e.marginTop = x.marginTop
      /\ e.marginBottom = x.marginBottom
  BY Numbers, Same
<1>2. AtBottom(e) = AtBottom(x)
  BY <1>1 DEF AtBottom
<1>3. Like(z, hdl_csi_su(e, 1), hdl_csi_su(x, 1)) /\ Like(z, hdl_csi_sd(e, 1), hdl_csi_sd(x, 1))
  <2>1. 1 \in Int
    OBVIOUS
  <2> QED  BY <2>1, SuSdLike
<1>4. Like(z, MoveTo(e, e.posY + 1, e.posX), MoveTo(x, x.posY + 1, x.posX))
  <2>1. e.posY + 1 \in Int /\ e.posY + 1 = x.posY + 1
    BY <1>1
  <2> QED  BY <1>1, <2>1, MoveToLike
<1>5. Like(z, MoveTo(e, e.posY - 1, e.posX), MoveTo(x, x.posY - 1, x.posX))
  <2>1. e.posY - 1 \in Int /\ e.posY - 1 = x.posY - 1
    BY <1>1
  <2> QED  BY <1>1, <2>1, MoveToLike
<1>6. Like(z, hdl_esc_ind(e), hdl_esc_ind(x))
  <2>1. CASE AtBottom(e)
    BY <1>2, <1>3, <2>1 DEF hdl_esc_ind
  <2>2. CASE ~AtBottom(e) /\ e.posY < e.nRows - 1
    <3>1. hdl_esc_ind(e) = MoveTo(e, e.posY + 1, e.posX)
      BY <2>2 DEF hdl_esc_ind
    <3>2. hdl_esc_ind(x) = MoveTo(x, x.posY + 1, x.posX)
      BY <1>1, <1>2, <2>2 DEF hdl_esc_ind
    <3> QED  BY <1>4, <3>1, <3>2
  <2>3. CASE ~AtBottom(e) /\ ~(e.posY < e.nRows - 1)
    <3>1. hdl_esc_ind(e) = e
      BY <2>3 DEF hdl_esc_ind
    <3>2. hdl_esc_ind(x) = x
      BY <1>1, <1>2, <2>3 DEF hdl_esc_ind
    <3> QED  BY <3>1, <3>2
  <2> QED  BY <2>1, <2>2, <2>3
<1>7. Like(z, hdl_esc_ri(e), hdl_esc_ri(x))
  <2>1. CASE e.posY = e.marginTop
    BY <1>1, <1>3, <2>1 DEF hdl_esc_ri
  <2>2. CASE e.posY # e.marginTop /\ e.posY > 0
    <3>1. hdl_esc_ri(e) = MoveTo(e, e.posY - 1, e.posX)
      BY <2>2 DEF hdl_esc_ri
    <3>2. hdl_esc_ri(x) = MoveTo(x, x.posY - 1, x.posX)
      BY <1>1, <2>2 DEF hdl_esc_ri
    <3> QED  BY <1>5, <3>1, <3>2
  <2>3. CASE e.posY # e.marginTop /\ ~(e.posY > 0)
    <3>1. hdl_esc_ri(e) = e
      BY <2>3 DEF hdl_esc_ri
    <3>2. hdl_esc_ri(x) = x
      BY <1>1, <2>3 DEF hdl_esc_ri
    <3> QED  BY <3>1, <3>2
  <2> QED  BY <2>1, <2>2, <2>3
<1> QED  BY <1>2, <1>6, <1>7

LEMMA LfLike ==
  ASSUME NEW z, NEW e, NEW x, Like(z, e, x)
  PROVE  Like(z, hdl_c0_lf(e), hdl_c0_lf(x)) /\ Like(z, hdl_esc_nel(e), hdl_esc_nel(x))
<1>1. Like(z, hdl_esc_ind(e), hdl_esc_ind(x)) /\ AtBottom(e) = AtBottom(x)
  BY IndLike
<1>2. Like(z, hdl_esc_nel(e), hdl_esc_nel(x))
  BY <1>1, HorizontalLike DEF hdl_esc_nel
<1> DEFINE d(s) == EErase(s, s.posY, s.posX, s.nColsEff - s.posX)
<1>3. ASSUME NEW a, NEW b, Like(z, a, b) PROVE Like(z, d(a), d(b))
  <2>1. a.posY = b.posY /\ a.posX = b.posX /\ a.nColsEff = b.nColsEff
    BY <1>3, Same
  <2> QED  BY <1>3, <2>1, EraseLike
<1>4. \A s : hdl_c0_lf(s) = IF AtBottom(s) THEN d(hdl_esc_ind(s)) ELSE hdl_esc_ind(s)
  BY DEF hdl_c0_lf
<1> HIDE DEF d
<1>5. Like(z, hdl_c0_lf(e), hdl_c0_lf(x))
  BY <1>1, <1>3, <1>4
<1> QED  BY <1>2, <1>5

LEMMA LineEditLike ==
  ASSUME NEW z, NEW e, NEW x, Like(z, e, x), NEW n \in Int
  PROVE  Like(z, hdl_csi_il(e, n), hdl_csi_il(x, n)) /\ Like(z, hdl_csi_dl(e, n), hdl_csi_dl(x, n))
<1>1. /\ e.posY \in Int /\ e.marginBottom \in Int /\ e.posY = x.posY /\ e.marginBottom = x.marginBottom
      /\ IsCursorInsideMargins(e) = IsCursorInsideMargins(x)
  BY Numbers, Same, SameRegion
<1>2. PICK c \in Int : c = Least(n, e.marginBottom - e.posY)
  BY <1>1 DEF Least
<1>3. Like(z, InsertRows(e, e.posY, c), InsertRows(x, e.posY, c)) /\ Like(z, DeleteRows(e, e.posY, c), DeleteRows(x, e.posY, c))
  BY <1>1, InsertRowsLike, DeleteRowsLike
<1>4. /\ Like(z, hdl_c0_cr(InsertRows(e, e.posY, c)), hdl_c0_cr(InsertRows(x, e.posY, c)))
      /\ Like(z, hdl_c0_cr(DeleteRows(e, e.posY, c)), hdl_c0_cr(DeleteRows(x, e.posY, c)))
  BY <1>3, HorizontalLike
<1>5. Like(z, hdl_csi_il(e, n), hdl_csi_il(x, n))
  BY <1>1, <1>2, <1>4 DEF hdl_csi_il
<1>6. Like(z, hdl_csi_dl(e, n), hdl_csi_dl(x, n))
  BY <1>1, <1>2, <1>4 DEF hdl_csi_dl
<1> QED  BY <1>5, <1>6

LEMMA ColEditLike ==
  ASSUME NEW z, NEW e, NEW x, Like(z, e, x), NEW n
  PROVE  /\ Like(z, hdl_csi_decic(e, n), hdl_csi_decic(x, n)) /\ Like(z, hdl_csi_decdc(e, n), hdl_csi_decdc(x, n))
         /\ Like(z, hdl_csi_ecma48_SL(e, n), hdl_csi_ecma48_SL(x, n))
         /\ Like(z, hdl_csi_ecma48_SR(e, n), hdl_csi_ecma48_SR(x, n))
<1>1. /\ e.posX = x.posX /\ e.nColsEff = x.nColsEff /\ e.hMargin = x.hMargin
      /\ IsCursorInsideMargins(e) = IsCursorInsideMargins(x)
  BY Same, SameRegion
<1>2. Like(z, hdl_csi_decic(e, n), hdl_csi_decic(x, n))
  BY <1>1, ColsLike DEF hdl_csi_decic
<1>3. Like(z, hdl_csi_decdc(e, n), hdl_csi_decdc(x, n))
  BY <1>1, ColsLike DEF hdl_csi_decdc
<1>4. Like(z, hdl_csi_ecma48_SL(e, n), hdl_csi_ecma48_SL(x, n))
  BY <1>1, ColsLike DEF hdl_csi_ecma48_SL
<1>5. Like(z, hdl_csi_ecma48_SR(e, n), hdl_csi_ecma48_SR(x, n))
  BY <1>1, ColsLike DEF hdl_csi_ecma48_SR
<1> QED  BY <1>2, <1>3, <1>4, <1>5

LEMMA IndexColsLike ==
  ASSUME NEW z, NEW e, NEW x, Like(z, e, x)
  PROVE  Like(z, hdl_esc_fi(e), hdl_esc_fi(x)) /\ Like(z, hdl_esc_bi(e), hdl_esc_bi(x))
<1>1. e.posX = x.posX /\ e.nColsEff = x.nColsEff /\ e.hMargin = x.hMargin
  BY Same
<1>2. Like(z, hdl_csi_cuf(e, 1), hdl_csi_cuf(x, 1)) /\ Like(z, hdl_csi_cub(e, 1), hdl_csi_cub(x, 1))
  BY HorizontalLike
<1>3. Like(z, hdl_csi_ecma48_SL(e, 1), hdl_csi_ecma48_SL(x, 1)) /\ Like(z, hdl_csi_ecma48_SR(e, 1), hdl_csi_ecma48_SR(x, 1))
  BY ColEditLike
<1> QED  BY <1>1, <1>2, <1>3 DEF hdl_esc_fi, hdl_esc_bi

-----------------------------------------------------------------------------
(* Erasing, and characters put in and taken out.                           *)

LEMMA WrapLike ==
  ASSUME NEW z, NEW e, NEW x, Like(z, e, x), NEW n, NEW w
  PROVE  Like(z, Wrap(e, n, w), Wrap(x, n, w))
<1> DEFINE V(s, i) == [s EXCEPT ![i].wrap = w]
           F(fb, y) == [fb EXCEPT !.cells = V(fb.cells, GetIdx(fb, y, n))]
<1>1. \A s : Wrap(s, n, w) = WithCf(s, F(Cf(s), s.posY))
  BY DEF Wrap
<1>2. LikeFrame(Cf(e), Cf(x)) /\ e.posY = x.posY
  BY CfLike, Same
<1>3. GetIdx(Cf(e), e.posY, n) = GetIdx(Cf(x), e.posY, n) /\ Cf(e).cells = Cf(x).cells
  BY <1>2, SameIdx, SameFrame
<1> HIDE DEF V
<1>4. LikeFrame(F(Cf(e), e.posY), F(Cf(x), e.posY))
  BY <1>2, <1>3, CellsFrame
<1> HIDE DEF F
<1> QED  BY <1>1, <1>2, <1>4, WithCfLike

LEMMA MovedLike ==
  ASSUME NEW z, NEW e, NEW x, Like(z, e, x), NEW y, NEW d, NEW f, NEW n
  PROVE  Like(z, WithCf(e, MoveInRow(Cf(e), y, d, f, n)), WithCf(x, MoveInRow(Cf(x), y, d, f, n)))
BY CfLike, MoveInRowFrame, WithCfLike

LEMMA IchLike ==
  ASSUME NEW z, NEW e, NEW x, Like(z, e, x), NEW arg
  PROVE  Like(z, hdl_csi_ich(e, arg), hdl_csi_ich(x, arg))
<1> DEFINE n == Least(arg, e.nColsEff - e.posX)
           length == e.nColsEff - e.posX - n
           unwrap(s) == Wrap(s, e.nColsEff - 1, FALSE)
           kept == ~GetCell(Cf(e), e.posY, e.nColsEff - 1).wrap
           marked(s) == IF kept THEN s
                        ELSE IF length # 0 THEN Wrap(unwrap(s), e.posX + length - 1, TRUE) ELSE unwrap(s)
           moved(s) == WithCf(marked(s), MoveInRow(Cf(marked(s)), e.posY, e.posX + n, e.posX, length))
           done(s) == IF IsCursorInsideMargins(e) THEN EErase(moved(s), e.posY, e.posX, n) ELSE s
<1>1. /\ e.posX = x.posX /\ e.posY = x.posY /\ e.nColsEff = x.nColsEff /\ IsCursorInsideMargins(e) = IsCursorInsideMargins(x)
      /\ GetCell(Cf(e), e.posY, e.nColsEff - 1) = GetCell(Cf(x), e.posY, e.nColsEff - 1)
  BY Same, SameRegion, CfLike, SameIdx
<1>2. hdl_csi_ich(e, arg) = [done(e) EXCEPT !.lastCol = FALSE]
  BY DEF hdl_csi_ich
<1>3. hdl_csi_ich(x, arg) = [done(x) EXCEPT !.lastCol = FALSE]
  BY <1>1, Zenon DEF hdl_csi_ich
<1>4. Like(z, unwrap(e), unwrap(x))
  BY WrapLike
<1> HIDE DEF n, unwrap, kept
<1>5. Like(z, marked(e), marked(x))
  BY <1>4, WrapLike
<1> HIDE DEF length, marked
<1>6. Like(z, moved(e), moved(x))
  BY <1>5, MovedLike
<1> HIDE DEF moved
<1>7. Like(z, done(e), done(x))
  BY <1>6, EraseLike
<1> HIDE DEF done
<1> QED  BY <1>2, <1>3, <1>7, UnlastLike

LEMMA DchLike ==
  ASSUME NEW z, NEW e, NEW x, Like(z, e, x), NEW arg
  PROVE  Like(z, hdl_csi_dch(e, arg), hdl_csi_dch(x, arg)) /\ Like(z, hdl_csi_ech(e, arg), hdl_csi_ech(x, arg))
<1> DEFINE n == Least(arg, e.nColsEff - e.posX)
           length == e.nColsEff - e.posX - n
           moved(s) == WithCf(s, MoveInRow(Cf(s), e.posY, e.posX, e.posX + n, length))
           done(s) == IF IsCursorInsideMargins(e) THEN EErase(moved(s), e.posY, e.posX + length, n) ELSE s
           erased(s) == EErase(s, e.posY, e.posX, n)
<1>1. /\ e.posX = x.posX /\ e.posY = x.posY /\ e.nColsEff = x.nColsEff
      /\ IsCursorInsideMargins(e) = IsCursorInsideMargins(x)
  BY Same, SameRegion
<1>2. hdl_csi_dch(e, arg) = [done(e) EXCEPT !.lastCol = FALSE] /\ hdl_csi_ech(e, arg) = [erased(e) EXCEPT !.lastCol = FALSE]
  BY DEF hdl_csi_dch, hdl_csi_ech
<1>3. hdl_csi_dch(x, arg) = [done(x) EXCEPT !.lastCol = FALSE] /\ hdl_csi_ech(x, arg) = [erased(x) EXCEPT !.lastCol = FALSE]
  BY <1>1 DEF hdl_csi_dch, hdl_csi_ech
<1> HIDE DEF n, length
<1>4. Like(z, moved(e), moved(x)) /\ Like(z, erased(e), erased(x))
  BY MovedLike, EraseLike
<1> HIDE DEF moved, erased
<1>5. Like(z, done(e), done(x))
  BY <1>4, EraseLike
<1> HIDE DEF done
<1> QED  BY <1>2, <1>3, <1>4, <1>5, UnlastLike

LEMMA ElLike ==
  ASSUME NEW z, NEW e, NEW x, Like(z, e, x), NEW cmd
  PROVE  Like(z, hdl_csi_el(e, cmd), hdl_csi_el(x, cmd))
<1> DEFINE a == NormalizeCursorPos(e)
           b == NormalizeCursorPos(x)
<1>1. Like(z, a, b)
  BY NormalizeLike
<1>2. \A s : hdl_csi_el(s, cmd) =
        LET t == NormalizeCursorPos(s)
        IN  CASE cmd = 0 -> EErase(t, t.posY, t.posX, t.nCols - t.posX)
              [] cmd = 1 -> EErase(t, t.posY, 0, t.posX + 1)
              [] cmd = 2 -> EErase(t, t.posY, 0, t.nCols)
              [] OTHER -> t
  BY DEF hdl_csi_el
<1> HIDE DEF a, b
<1>3. a.posY = b.posY /\ a.posX = b.posX /\ a.nCols = b.nCols
  BY <1>1, Same
<1>4. ASSUME NEW y, NEW p, NEW n PROVE Like(z, EErase(a, y, p, n), EErase(b, y, p, n))
  BY <1>1, EraseLike
<1> USE DEF a, b
<1>5. CASE cmd = 0
  <2>1. hdl_csi_el(e, cmd) = EErase(a, a.posY, a.posX, a.nCols - a.posX) /\ hdl_csi_el(x, cmd) = EErase(b, b.posY, b.posX, b.nCols - b.posX)
    BY <1>2, <1>5
  <2> QED  BY <1>3, <1>4, <2>1
<1>6. CASE cmd = 1
  <2>1. hdl_csi_el(e, cmd) = EErase(a, a.posY, 0, a.posX + 1) /\ hdl_csi_el(x, cmd) = EErase(b, b.posY, 0, b.posX + 1)
    BY <1>2, <1>6
  <2> QED  BY <1>3, <1>4, <2>1
<1>7. CASE cmd = 2
  <2>1. hdl_csi_el(e, cmd) = EErase(a, a.posY, 0, a.nCols) /\ hdl_csi_el(x, cmd) = EErase(b, b.posY, 0, b.nCols)
    BY <1>2, <1>7
  <2> QED  BY <1>3, <1>4, <2>1
<1>8. CASE cmd \notin {0, 1, 2}
  <2>1. hdl_csi_el(e, cmd) = a /\ hdl_csi_el(x, cmd) = b
    BY <1>2, <1>8
  <2> QED  BY <1>1, <2>1
<1> QED  BY <1>5, <1>6, <1>7, <1>8

LEMMA EdLike ==
  ASSUME NEW z, NEW e, NEW x, Like(z, e, x), NEW cmd
  PROVE  Like(z, hdl_csi_ed(e, cmd), hdl_csi_ed(x, cmd))
<1> DEFINE a == NormalizeCursorPos(e)
           b == NormalizeCursorPos(x)
           d(s) == WithCf(s, DropScrollbackHistory(Cf(s)))
<1>1. Like(z, a, b)
  BY NormalizeLike
<1>2. \A s : hdl_csi_ed(s, cmd) =
        LET t == NormalizeCursorPos(s)
        IN  CASE cmd = 0 -> EraseRows(hdl_csi_el(t, 0), t.posY + 1, t.nRows - t.posY - 1)
              [] cmd = 1 -> hdl_csi_el(EraseRows(t, 0, t.posY), 1)
              [] cmd = 2 -> EraseRows(t, 0, t.nRows)
              [] cmd = 3 -> EraseRows(d(t), 0, t.nRows)
              [] OTHER -> t
  BY DEF hdl_csi_ed
<1> HIDE DEF a, b
<1>3. a.posY = b.posY /\ a.nRows = b.nRows /\ a.posY \in Int /\ a.nRows \in Int /\ a.nRows - a.posY - 1 \in Int
  BY <1>1, Same, Numbers
<1>4. Like(z, d(a), d(b))
  BY <1>1, CfLike, DropFrame, WithCfLike
<1> HIDE DEF d
<1> USE DEF a, b
<1>5. CASE cmd = 0
  <2>1. /\ hdl_csi_ed(e, cmd) = EraseRows(hdl_csi_el(a, 0), a.posY + 1, a.nRows - a.posY - 1)
        /\ hdl_csi_ed(x, cmd) = EraseRows(hdl_csi_el(b, 0), b.posY + 1, b.nRows - b.posY - 1)
    BY <1>2, <1>5
  <2> HIDE DEF a, b
  <2>2. Like(z, hdl_csi_el(a, 0), hdl_csi_el(b, 0))
    BY <1>1, ElLike
  <2> QED  BY <1>3, <2>1, <2>2, EraseRowsLike
<1>6. CASE cmd = 1
  <2>1. hdl_csi_ed(e, cmd) = hdl_csi_el(EraseRows(a, 0, a.posY), 1) /\ hdl_csi_ed(x, cmd) = hdl_csi_el(EraseRows(b, 0, b.posY), 1)
    BY <1>2, <1>6
  <2> HIDE DEF a, b
  <2>2. Like(z, EraseRows(a, 0, a.posY), EraseRows(b, 0, a.posY))
    BY <1>1, <1>3, EraseRowsLike
  <2> QED  BY <1>3, <2>1, <2>2, ElLike
<1>7. CASE cmd = 2
  <2>1. hdl_csi_ed(e, cmd) = EraseRows(a, 0, a.nRows) /\ hdl_csi_ed(x, cmd) = EraseRows(b, 0, b.nRows)
    BY <1>2, <1>7
  <2> HIDE DEF a, b
  <2> QED  BY <1>1, <1>3, <2>1, EraseRowsLike
<1>8. CASE cmd = 3
  <2>1. hdl_csi_ed(e, cmd) = EraseRows(d(a), 0, a.nRows) /\ hdl_csi_ed(x, cmd) = EraseRows(d(b), 0, b.nRows)
    BY <1>2, <1>8
  <2> HIDE DEF a, b
  <2> QED  BY <1>3, <1>4, <2>1, EraseRowsLike
<1>9. CASE cmd \notin {0, 1, 2, 3}
  <2>1. hdl_csi_ed(e, cmd) = a /\ hdl_csi_ed(x, cmd) = b
    BY <1>2, <1>9
  <2> QED  BY <1>1, <2>1
<1> QED  BY <1>5, <1>6, <1>7, <1>8, <1>9

LEMMA DecalnLike ==
  ASSUME NEW z, NEW e, NEW x, Like(z, e, x)
  PROVE  Like(z, hdl_esc_decaln(e), hdl_esc_decaln(x))
<1> DEFINE c(s) == [EAttrs(s) EXCEPT !.ch = <<"", "E">>]
           f(s) == WithCf(s, FillCells(Cf(s), c(s)))
<1>1. \A s : hdl_esc_decaln(s) = [f(ResetAttrs(s)) EXCEPT !.rend = s.rend]
  BY DEF hdl_esc_decaln
<1>2. ASSUME NEW a, NEW b, Like(z, a, b) PROVE Like(z, f(a), f(b))
  <2>1. c(a) = c(b) /\ LikeFrame(Cf(a), Cf(b))
    BY <1>2, SameAttrs, CfLike, Zenon
  <2> HIDE DEF c
  <2> QED  BY <1>2, <2>1, FillCellsFrame, WithCfLike
<1> HIDE DEF f
<1>3. Like(z, f(ResetAttrs(e)), f(ResetAttrs(x)))
  BY <1>2, ResetAttrsLike
<1>4. Like(z, [f(ResetAttrs(e)) EXCEPT !.rend = e.rend], [f(ResetAttrs(x)) EXCEPT !.rend = e.rend])
  BY <1>3, Puts
<1> QED  BY <1>1, <1>4, Same

-----------------------------------------------------------------------------
(* Text.                                                                   *)

LEMMA WrapLineLike ==
  ASSUME NEW z, NEW e, NEW x, Like(z, e, x), NEW chs
  PROVE  Like(z, WrapLine(e, chs), WrapLine(x, chs))
<1> DEFINE early(s) == chs.w = 2 /\ s.posX = s.nColsEff - 1
           V(c, i, v) == [c EXCEPT ![i] = [@ EXCEPT !.early = @ \/ v, !.wrap = TRUE]]
           ended(s) == [Cf(s) EXCEPT !.cells = V(Cf(s).cells, At(s), early(s))]
           next(s) == hdl_c0_lf(hdl_c0_cr(WithCf(s, ended(s))))
<1>1. \A s : WrapLine(s, chs) = IF early(s) \/ (On(s, "autoWrap") /\ s.lastCol) THEN next(s) ELSE s
  BY DEF WrapLine
<1>2. LikeFrame(Cf(e), Cf(x)) /\ At(e) = At(x) /\ early(e) = early(x)
  BY CfLike, SameAttrs, Same
<1>3. Cf(e).cells = Cf(x).cells
  BY <1>2, SameFrame
<1> HIDE DEF early, V
<1>4. LikeFrame(ended(e), ended(x))
  BY <1>2, <1>3, CellsFrame
<1> HIDE DEF ended
<1>5. Like(z, WithCf(e, ended(e)), WithCf(x, ended(x)))
  BY <1>4, WithCfLike
<1>6. Like(z, next(e), next(x))
  BY <1>5, HorizontalLike, LfLike
<1> HIDE DEF next
<1>7. On(e, "autoWrap") = On(x, "autoWrap") /\ e.lastCol = x.lastCol
  BY SetLike, Same
<1> QED  BY <1>1, <1>2, <1>6, <1>7

LEMMA InsertBlankLike ==
  ASSUME NEW z, NEW e, NEW x, Like(z, e, x)
  PROVE  Like(z, InsertBlank(e), InsertBlank(x))
BY IchLike, SetLike DEF InsertBlank

LEMMA PutGlyphLike ==
  ASSUME NEW z, NEW e, NEW x, Like(z, e, x), NEW chs
  PROVE  Like(z, PutGlyph(e, chs), PutGlyph(x, chs))
<1> DEFINE wide(s) == chs.w = 2 /\ s.posX < s.nColsEff - 1
           cell(s) == [EAttrs(s) EXCEPT !.ch = LookupCharset(s, chs), !.wide = wide(s)]
           fb(s) == SetCell(Cf(s), s.posY, s.posX, cell(s))
           V(c, i) == [c EXCEPT ![i].cont = TRUE]
           marked(s) == IF wide(s) THEN [fb(s) EXCEPT !.cells = V(fb(s).cells, At(s) + 1)] ELSE fb(s)
           col(s) == IF wide(s) THEN s.posX + 1 ELSE s.posX
           sets(s) == [s.charset EXCEPT !.ss = IF s.charset.vtMode /\ chs.g # "" THEN 0 ELSE @]
           put(s) == WithCf(s, marked(s))
<1>1. ASSUME NEW a, NEW b, Like(z, a, b) PROVE PutGlyph(a, chs) = [put(a) EXCEPT !.posX = col(a), !.charset = sets(a)]
  <2>1. DOMAIN put(a) = DOMAIN a /\ put(a).posX = a.posX /\ put(a).charset = a.charset
    <3> DEFINE m == marked(a)
    <3>1. a.alt \in BOOLEAN /\ put(a) = WithCf(a, m)
      BY <1>1, Numbers
    <3> HIDE DEF m, put
    <3>2. CASE a.alt = TRUE
      BY <3>1, <3>2 DEF WithCf
    <3>3. CASE a.alt = FALSE
      BY <3>1, <3>3 DEF WithCf
    <3> QED  BY <3>1, <3>2, <3>3
  <2>2. "charset" \in DOMAIN put(a) /\ "posX" \in DOMAIN put(a)
    BY <1>1, <2>1 DEF Like, EmulatorFields
  <2>3. PutGlyph(a, chs) = [put(a) EXCEPT !.posX = IF wide(a) THEN @ + 1 ELSE @,
                                          !.charset.ss = IF a.charset.vtMode /\ chs.g # "" THEN 0 ELSE @]
    BY DEF PutGlyph
  <2> HIDE DEF put, wide
  <2> QED  BY <2>1, <2>2, <2>3
<1>2. /\ LikeFrame(Cf(e), Cf(x)) /\ At(e) = At(x) /\ EAttrs(e) = EAttrs(x) /\ wide(e) = wide(x)
      /\ e.posY = x.posY /\ e.posX = x.posX /\ e.charset = x.charset
  BY CfLike, SameAttrs, Same
<1>3. cell(e) = cell(x) /\ col(e) = col(x) /\ sets(e) = sets(x)
  BY <1>2 DEF LookupCharset
<1> HIDE DEF cell, wide
<1>4. LikeFrame(fb(e), fb(x))
  BY <1>2, <1>3, SetCellFrame
<1> HIDE DEF fb
<1>5. fb(e).cells = fb(x).cells
  BY <1>4, SameFrame
<1> HIDE DEF V
<1>6. LikeFrame(marked(e), marked(x))
  BY <1>2, <1>4, <1>5, CellsFrame
<1> HIDE DEF marked
<1>7. Like(z, put(e), put(x))
  BY <1>6, WithCfLike
<1> HIDE DEF put, col, sets
<1>8. Like(z, [put(e) EXCEPT !.posX = col(e), !.charset = sets(e)], [put(x) EXCEPT !.posX = col(e), !.charset = sets(e)])
  BY <1>7, Puts
<1>9. Like(z, x, e)
  BY SymLike
<1> QED  BY <1>1, <1>3, <1>8, <1>9, Zenon

LEMMA NextColumnLike ==
  ASSUME NEW z, NEW e, NEW x, Like(z, e, x)
  PROVE  Like(z, NextColumn(e), NextColumn(x))
<1>1. e.posX = x.posX /\ e.nColsEff = x.nColsEff
  BY Same
<1>2. Like(z, [e EXCEPT !.lastCol = TRUE], [x EXCEPT !.lastCol = TRUE])
  BY Puts
<1>3. Like(z, [e EXCEPT !.posX = e.posX + 1], [x EXCEPT !.posX = e.posX + 1])
  BY Puts
<1> QED  BY <1>1, <1>2, <1>3 DEF NextColumn

LEMMA GraphemesLike ==
  ASSUME NEW z, NEW e, NEW x, Like(z, e, x), NEW chs
  PROVE  Like(z, hdl_graphemes(e, chs), hdl_graphemes(x, chs))
BY WrapLineLike, InsertBlankLike, PutGlyphLike, NextColumnLike DEF hdl_graphemes

\* p is the size, the grapheme, and the grapheme that follows it.
Again(p, s, k) == hdl_graphemes(s, IF k = 1 THEN p[2] ELSE p[3])
LikeFor(p, a, b) == Like(p[1], a, b)
Repeating == INSTANCE Folding WITH op <- Again, Rel <- LikeFor

LEMMA RepLike ==
  ASSUME NEW z, NEW e, NEW x, Like(z, e, x), NEW n \in Int, NEW chs
  PROVE  Like(z, hdl_csi_rep(e, n, chs), hdl_csi_rep(x, n, chs))
<1> DEFINE mapped(s) == s.charset.vtMode /\ chs.g # "" /\ LookupCharset(s, chs)[1] # ""
           p(s) == <<z, chs, IF mapped(s) THEN [chs EXCEPT !.g = "garbled"] ELSE chs>>
           seq == [k \in 1..n |-> k]
<1>1. ASSUME NEW s PROVE hdl_csi_rep(s, n, chs) = Repeating!Folded(p(s), s, seq)
  <2> DEFINE g == IF mapped(s) THEN [chs EXCEPT !.g = "garbled"] ELSE chs
  <2>1. hdl_csi_rep(s, n, chs) = FoldLeft(LAMBDA t, k : hdl_graphemes(t, IF k = 1 THEN chs ELSE g), s, seq)
    BY DEF hdl_csi_rep, Fold
  <2>2. p(s) = <<z, chs, g>>
    OBVIOUS
  <2> HIDE DEF g, p, seq
  <2>3. FoldLeft(LAMBDA t, k : hdl_graphemes(t, IF k = 1 THEN chs ELSE g), s, seq) = Repeating!Folded(<<z, chs, g>>, s, seq)
    BY DEF FoldLeft, MapThenFoldSet, Max, Repeating!Newest, Repeating!FoldedBy, Repeating!Folded, Again
  <2> QED  BY <2>1, <2>2, <2>3, Zenon
<1>2. p(e) = p(x)
  <2>1. LookupCharset(e, chs) = LookupCharset(x, chs) /\ e.charset = x.charset
    BY Same DEF LookupCharset
  <2>2. mapped(e) = mapped(x)
    BY <2>1
  <2> HIDE DEF mapped
  <2> QED  BY <2>2
<1>3. p(e)[1] = z
  OBVIOUS
<1>4. PICK m \in Nat : DOMAIN seq = 1..m
  BY CountTo
<1> HIDE DEF p, seq
<1>5. LikeFor(p(e), e, x)
  BY <1>3 DEF LikeFor
<1>6. \A i \in 1..m : \A a, b : LikeFor(p(e), a, b) => LikeFor(p(e), Again(p(e), a, seq[i]), Again(p(e), b, seq[i]))
  BY <1>3, GraphemesLike DEF LikeFor, Again
<1>7. LikeFor(p(e), Repeating!Folded(p(e), e, seq), Repeating!Folded(p(e), x, seq))
  BY <1>4, <1>5, <1>6, Repeating!Keeps
<1> QED  BY <1>1, <1>2, <1>3, <1>7 DEF LikeFor

LEMMA SgrLike ==
  ASSUME NEW z, NEW e, NEW x, Like(z, e, x), NEW ps, NEW seps
  PROVE  Like(z, hdl_csi_sgr(e, ps, seps), hdl_csi_sgr(x, ps, seps))
<1> DEFINE G(r) == FoldLeft(LAMBDA acc, k : IF acc.skip > 0 THEN [acc EXCEPT !.skip = @ - 1] ELSE SgrAt(ps, seps, acc.rend, k),
                            [rend |-> r, skip |-> 0], [k \in DOMAIN ps |-> k]).rend
<1>1. \A s : hdl_csi_sgr(s, ps, seps) = [s EXCEPT !.rend = G(s.rend)]
  BY DEF hdl_csi_sgr
<1> HIDE DEF G
<1>2. Like(z, [e EXCEPT !.rend = G(e.rend)], [x EXCEPT !.rend = G(e.rend)])
  BY Puts
<1>3. G(e.rend) = G(x.rend)
  BY Same
<1> QED  BY <1>1, <1>2, <1>3

-----------------------------------------------------------------------------
(* Character sets, saved cursors and resets.                               *)

LEMMA ShiftLike ==
  ASSUME NEW z, NEW e, NEW x, Like(z, e, x), NEW n
  PROVE  /\ Like(z, [e EXCEPT !.charset.gl = n], [x EXCEPT !.charset.gl = n])
         /\ Like(z, [e EXCEPT !.charset.gr = n], [x EXCEPT !.charset.gr = n])
         /\ Like(z, [e EXCEPT !.charset.ss = n], [x EXCEPT !.charset.ss = n])
         /\ Like(z, [e EXCEPT !.charset = n], [x EXCEPT !.charset = n])
<1>1. ASSUME NEW v PROVE Like(z, [e EXCEPT !.charset = v], [x EXCEPT !.charset = v])
  BY Puts
<1>2. e.charset = x.charset
  BY Same
<1>3. Like(z, [e EXCEPT !.charset.gl = n], [x EXCEPT !.charset.gl = n])
  BY <1>1, <1>2
<1>4. Like(z, [e EXCEPT !.charset.gr = n], [x EXCEPT !.charset.gr = n])
  BY <1>1, <1>2
<1>5. Like(z, [e EXCEPT !.charset.ss = n], [x EXCEPT !.charset.ss = n])
  BY <1>1, <1>2
<1> QED  BY <1>1, <1>3, <1>4, <1>5

LEMMA DesignateLike ==
  ASSUME NEW z, NEW e, NEW x, Like(z, e, x), NEW n, NEW c
  PROVE  Like(z, hdl_esc_dcs(e, n, c), hdl_esc_dcs(x, n, c))
<1>1. \A s : hdl_esc_dcs(s, n, c) = [s EXCEPT !.charset = Designated(s.charset, n, c)]
  BY DEF hdl_esc_dcs
<1>2. e.charset = x.charset
  BY Same
<1>3. Like(z, [e EXCEPT !.charset = Designated(e.charset, n, c)], [x EXCEPT !.charset = Designated(e.charset, n, c)])
  BY Puts
<1> QED  BY <1>1, <1>2, <1>3

LEMMA CharsetLike ==
  ASSUME NEW z, NEW e, NEW x, Like(z, e, x), NEW k \in ShiftKeys \cup {"SI", "SO", "ESC_DCS", "EGM"}, NEW n, NEW arg
  PROVE  Like(z, HandleCharset(e, k, n, arg), HandleCharset(x, k, n, arg))
<1>1. CASE k = "ESC_DCS"
  BY <1>1, DesignateLike DEF HandleCharset
<1>2. CASE k \in {"SI", "SO", "LS2", "LS3"}
  BY <1>2, ShiftLike DEF HandleCharset, hdl_c0_si, hdl_c0_so, hdl_esc_ls2, hdl_esc_ls3
<1>3. CASE k \in {"SS2", "SS3", "LS1R", "LS2R", "LS3R"}
  BY <1>3, ShiftLike DEF HandleCharset, hdl_esc_ss2, hdl_esc_ss3, hdl_esc_ls1r, hdl_esc_ls2r, hdl_esc_ls3r
<1>4. CASE k \in {"DOCS_UTF8", "DOCS_ISO8859_1", "EGM"}
  BY <1>4, ShiftLike DEF HandleCharset, hdl_esc_docs_utf8, hdl_esc_docs_iso8859_1, hdl_vt52_egm
<1> QED  BY <1>1, <1>2, <1>3, <1>4 DEF ShiftKeys

\* A cursor is saved in the same way, and what is saved is a row.
LEMMA SaveLike ==
  ASSUME NEW z, NEW e, NEW x, Like(z, e, x)
  PROVE  Like(z, hdl_esc_decsc(e), hdl_esc_decsc(x)) /\ Like(z, hdl_csi_scosc(e), hdl_csi_scosc(x))
<1> DEFINE c(s) == [set |-> TRUE, posX |-> s.posX, posY |-> s.posY, lastCol |-> s.lastCol, rend |-> s.rend,
                    origin |-> On(s, "origin"), charset |-> s.charset]
           d(s) == [set |-> TRUE, posX |-> s.posX, posY |-> s.posY]
<1>1. \A s : hdl_esc_decsc(s) = WithSavedDEC(s, c(s)) /\ hdl_csi_scosc(s) = [s EXCEPT !.savedSCO = d(s)]
  BY DEF hdl_esc_decsc, hdl_csi_scosc
<1>2. e.posY \in Int
  BY Numbers
<1>3. c(e).posY \in Int /\ d(e).posY \in Int
  BY <1>2
<1>4. c(e) = c(x) /\ d(e) = d(x)
  <2>1. On(e, "origin") = On(x, "origin")
    BY SetLike
  <2>2. /\ e.posX = x.posX /\ e.posY = x.posY /\ e.lastCol = x.lastCol /\ e.rend = x.rend /\ e.charset = x.charset
    BY Same
  <2> QED  BY <2>1, <2>2
<1> HIDE DEF c, d
<1>5. Like(z, WithSavedDEC(e, c(e)), WithSavedDEC(x, c(e)))
  BY <1>3, WithSavedLike
<1>6. Like(z, [e EXCEPT !.savedSCO = d(e)], [x EXCEPT !.savedSCO = d(e)])
  BY <1>3, SavedLike
<1> QED  BY <1>1, <1>4, <1>5, <1>6

LEMMA RestoreLike ==
  ASSUME NEW z, NEW e, NEW x, Like(z, e, x)
  PROVE  Like(z, hdl_esc_decrc(e), hdl_esc_decrc(x))
<1> DEFINE s == SavedDEC(e)
           m(t) == IF s.origin THEN Set(t, "origin") ELSE Clear(t, "origin")
           w(t) == WithSavedDEC(m(t), NoCursor)
           p(t) == [w(t) EXCEPT !.posX = s.posX, !.posY = s.posY]
           n(t) == NormalizeCursorPos(p(t))
<1>1. SavedDEC(x) = s /\ (s.set => s.posY \in Int)
  <2>1. (e.savedDEC_pri.set => e.savedDEC_pri.posY \in Int) /\ (e.savedDEC_alt.set => e.savedDEC_alt.posY \in Int)
    BY DEF Like
  <2> QED  BY <2>1, Same DEF SavedDEC
<1>2. hdl_esc_decrc(e) = IF ~s.set THEN e ELSE [n(e) EXCEPT !.lastCol = s.lastCol, !.rend = s.rend, !.charset = s.charset]
  BY DEF hdl_esc_decrc
<1>3. hdl_esc_decrc(x) = IF ~s.set THEN x ELSE [n(x) EXCEPT !.lastCol = s.lastCol, !.rend = s.rend, !.charset = s.charset]
  BY <1>1 DEF hdl_esc_decrc
<1>4. CASE s.set
  <2> HIDE DEF s
  <2>1. Like(z, m(e), m(x))
    BY SetLike
  <2> HIDE DEF m
  <2>2. Like(z, w(e), w(x))
    BY <2>1, WithSavedLike DEF NoCursor
  <2> HIDE DEF w
  <2>3. Like(z, p(e), p(x))
    <3>1. Like(z, [w(e) EXCEPT !.posX = s.posX], [w(x) EXCEPT !.posX = s.posX])
      BY <2>2, Puts
    <3> QED  BY <1>1, <1>4, <3>1, RowsLike
  <2> HIDE DEF p
  <2>4. Like(z, n(e), n(x))
    BY <2>3, NormalizeLike
  <2> HIDE DEF n
  <2>5. Like(z, [n(e) EXCEPT !.lastCol = s.lastCol, !.rend = s.rend, !.charset = s.charset],
                [n(x) EXCEPT !.lastCol = s.lastCol, !.rend = s.rend, !.charset = s.charset])
    BY <2>4, Puts
  <2> QED  BY <1>2, <1>3, <1>4, <2>5
<1>5. CASE ~s.set
  BY <1>2, <1>3, <1>5
<1> QED  BY <1>4, <1>5

LEMMA RestoreScoLike ==
  ASSUME NEW z, NEW e, NEW x, Like(z, e, x)
  PROVE  Like(z, hdl_csi_scorc(e), hdl_csi_scorc(x))
<1> DEFINE s == e.savedSCO
           p(t) == [t EXCEPT !.posX = s.posX, !.posY = s.posY]
           d(t) == [p(t) EXCEPT !.savedSCO = NoCursor]
<1>1. x.savedSCO = s
  BY Same
<1>2. s.set => s.posY \in Int
  BY DEF Like
<1>3. hdl_csi_scorc(e) = IF ~s.set THEN e ELSE NormalizeCursorPos(d(e))
  BY DEF hdl_csi_scorc
<1>4. hdl_csi_scorc(x) = IF ~s.set THEN x ELSE NormalizeCursorPos(d(x))
  BY <1>1 DEF hdl_csi_scorc
<1>5. CASE s.set
  <2> HIDE DEF s
  <2>1. Like(z, [e EXCEPT !.posX = s.posX], [x EXCEPT !.posX = s.posX])
    BY Puts
  <2>2. Like(z, p(e), p(x))
    BY <1>2, <1>5, <2>1, RowsLike
  <2> HIDE DEF p
  <2>3. Like(z, d(e), d(x))
    BY <2>2, SavedLike DEF NoCursor
  <2> HIDE DEF d
  <2> QED  BY <1>3, <1>4, <1>5, <2>3, NormalizeLike
<1>6. CASE ~s.set
  BY <1>3, <1>4, <1>6
<1> QED  BY <1>5, <1>6

LEMMA CursorStyleLike ==
  ASSUME NEW z, NEW e, NEW x, Like(z, e, x), NEW n
  PROVE  Like(z, hdl_csi_decscusr(e, n), hdl_csi_decscusr(x, n))
<1> DEFINE v == IF n = 1 THEN 0 ELSE n
<1>1. \A s : hdl_csi_decscusr(s, n) = IF n \in 0..6 THEN WithCf(s, [Cf(s) EXCEPT !.showStyle = v]) ELSE s
  BY DEF hdl_csi_decscusr
<1> HIDE DEF v
<1>2. LikeFrame([Cf(e) EXCEPT !.showStyle = v], [Cf(x) EXCEPT !.showStyle = v])
  BY CfLike, PutFrame DEF FrameFields
<1> QED  BY <1>1, <1>2, WithCfLike

LEMMA SettingLike ==
  ASSUME NEW z, NEW e, NEW x, Like(z, e, x), NEW n, NEW t
  PROVE  /\ Like(z, hdl_c0_bel(e), hdl_c0_bel(x)) /\ Like(z, hdl_esc_decanm(e, n), hdl_esc_decanm(x, n))
         /\ Like(z, hdl_csi_decscl(e, t), hdl_csi_decscl(x, t)) /\ Like(z, hdl_csi_decstr(e), hdl_csi_decstr(x))
         /\ Like(z, hdl_csi_focus(e, n), hdl_csi_focus(x, n))
         /\ Like(z, hdl_csi_xtmodkeys(e, n), hdl_csi_xtmodkeys(x, n))
<1>1. Like(z, hdl_c0_bel(e), hdl_c0_bel(x))
  <2>1. Like(z, [e EXCEPT !.bell = e.bell + 1], [x EXCEPT !.bell = e.bell + 1])
    BY Puts
  <2>2. e.bell = x.bell
    BY Same
  <2> QED  BY <2>1, <2>2 DEF hdl_c0_bel
<1>2. ASSUME NEW v PROVE Like(z, [e EXCEPT !.compatLevel = v], [x EXCEPT !.compatLevel = v])
  BY Puts
<1>3. Like(z, hdl_esc_decanm(e, n), hdl_esc_decanm(x, n))
  BY <1>2 DEF hdl_esc_decanm
<1>4. Like(z, hdl_csi_decscl(e, t), hdl_csi_decscl(x, t))
  <2> DEFINE cl(s) == IF SclCompatLevel(t) = {} THEN s.compatLevel ELSE CHOOSE c \in SclCompatLevel(t) : TRUE
  <2>1. \A s : hdl_csi_decscl(s, t) = [s EXCEPT !.compatLevel = cl(s)]
    BY DEF hdl_csi_decscl
  <2>2. cl(e) = cl(x)
    BY Same
  <2> HIDE DEF cl
  <2> QED  BY <1>2, <2>1, <2>2
<1>5. Like(z, hdl_csi_decstr(e), hdl_csi_decstr(x))
  BY ResetScreenLike, ResetAttrsLike DEF hdl_csi_decstr
<1>6. Like(z, hdl_csi_focus(e, n), hdl_csi_focus(x, n))
  BY SetLike DEF hdl_csi_focus
<1>7. Like(z, hdl_csi_xtmodkeys(e, n), hdl_csi_xtmodkeys(x, n))
  <2> DEFINE v == IF Len(n) = 1 THEN 0 ELSE n[2]
  <2>1. \A s : hdl_csi_xtmodkeys(s, n) = IF Len(n) \in 1..2 /\ n[1] = 4 /\ v <= 2 THEN [s EXCEPT !.modifyOtherKeys = v] ELSE s
    BY DEF hdl_csi_xtmodkeys
  <2> HIDE DEF v
  <2>2. Like(z, [e EXCEPT !.modifyOtherKeys = v], [x EXCEPT !.modifyOtherKeys = v])
    BY Puts
  <2> QED  BY <2>1, <2>2
<1> QED  BY <1>1, <1>3, <1>4, <1>5, <1>6, <1>7

LEMMA TrackLike ==
  ASSUME NEW z, NEW e, NEW x, Like(z, e, x), NEW r, NEW ps \in Seq(Nat)
  PROVE  Like(z, hdl_csi_mousetrack(e, r, ps), hdl_csi_mousetrack(x, r, ps))
<1>1. e.mouse = x.mouse
  BY Same
<1>2. CASE e.mouse[2] = 1006 /\ r /\ Len(ps) = 3
  <2>1. ps[3] \in Int
    <3>1. Len(ps) = 3
      BY <1>2, Zenon
    <3>2. 3 \in 1..Len(ps)
      BY <3>1
    <3>3. \A n \in 1..Len(ps) : ps[n] \in Nat
      OBVIOUS
    <3> QED  BY <3>2, <3>3
  <2>2. Like(z, hdl_csi_cup(e, ps[3], ps[2]), hdl_csi_cup(x, ps[3], ps[2]))
    BY <2>1, CupLike
  <2>3. hdl_csi_mousetrack(e, r, ps) = hdl_csi_cup(e, ps[3], ps[2]) /\ hdl_csi_mousetrack(x, r, ps) = hdl_csi_cup(x, ps[3], ps[2])
    BY <1>1, <1>2 DEF hdl_csi_mousetrack
  <2> QED  BY <2>2, <2>3
<1>3. CASE ~(e.mouse[2] = 1006 /\ r /\ Len(ps) = 3)
  <2>1. hdl_csi_mousetrack(e, r, ps) = e /\ hdl_csi_mousetrack(x, r, ps) = x
    BY <1>1, <1>3 DEF hdl_csi_mousetrack
  <2> QED  BY <2>1
<1> QED  BY <1>2, <1>3

-----------------------------------------------------------------------------
(* Margins.                                                                *)

LEMMA RegionLike ==
  ASSUME NEW z, NEW e, NEW x, Like(z, e, x), NEW top \in Int, NEW bottom \in Int
  PROVE  Like(z, SetRegion(e, top, bottom), SetRegion(x, top, bottom))
<1>1. e.marginTop = x.marginTop /\ e.marginBottom = x.marginBottom /\ e.nRows = x.nRows
  BY Same
<1> DEFINE a(s) == WithCf(s, ResetMargins(Cf(s)))
           b(s) == WithCf(s, SetMargins(Cf(s), top, bottom))
<1>2. Like(z, a(e), a(x)) /\ Like(z, b(e), b(x))
  BY CfLike, MarginsFrame, WithCfLike
<1>3. \A s : ResetRegion(s) = [a(s) EXCEPT !.marginTop = 0, !.marginBottom = s.nRows]
  BY DEF ResetRegion
<1> DEFINE c(s) == [b(s) EXCEPT !.marginTop = top, !.marginBottom = bottom]
           same == <<top, bottom>> = <<e.marginTop, e.marginBottom>>
           whole == <<top, bottom>> = <<0, e.nRows>>
<1>4. /\ SetRegion(e, top, bottom) = CASE same -> e [] ~same /\ whole -> ResetRegion(e) [] OTHER -> c(e)
      /\ SetRegion(x, top, bottom) = CASE same -> x [] ~same /\ whole -> ResetRegion(x) [] OTHER -> c(x)
  BY <1>1 DEF SetRegion
<1> HIDE DEF a, b, same, whole
<1>5. Like(z, ResetRegion(e), ResetRegion(x))
  <2>1. 0 \in Int /\ e.nRows \in Int
    BY Numbers
  <2>2. Like(z, [a(e) EXCEPT !.marginTop = 0, !.marginBottom = e.nRows], [a(x) EXCEPT !.marginTop = 0, !.marginBottom = e.nRows])
    BY <1>2, <2>1, RowsLike
  <2> QED  BY <1>1, <1>3, <2>2, Zenon
<1>6. Like(z, c(e), c(x))
  BY <1>2, RowsLike
<1> HIDE DEF c
<1>7. CASE same
  BY <1>4, <1>7
<1>8. CASE ~same /\ whole
  BY <1>4, <1>5, <1>8
<1>9. CASE ~same /\ ~whole
  BY <1>4, <1>6, <1>9
<1> QED  BY <1>7, <1>8, <1>9

LEMMA StbmLike ==
  ASSUME NEW z, NEW e, NEW x, Like(z, e, x), NEW ps \in Seq(Nat)
  PROVE  Like(z, hdl_csi_decstbm(e, ps), hdl_csi_decstbm(x, ps))
<1> DEFINE ok(s) == Len(ps) = 2 /\ IsRegion(ZeroBased(ps[1]), ps[2], s.nRows)
           r(s) == CASE ps = <<>> -> SetRegion(s, 0, s.nRows)
                     [] ok(s) -> SetRegion(s, ZeroBased(ps[1]), ps[2])
                     [] OTHER -> s
<1>1. \A s : hdl_csi_decstbm(s, ps) = Home(r(s))
  BY DEF hdl_csi_decstbm
<1>2. e.nRows = x.nRows /\ e.nRows \in Int /\ 0 \in Int
  BY Same, Numbers
<1>3. ok(e) = ok(x)
  BY <1>2
<1>4. Like(z, r(e), r(x))
  <2>1. CASE ps = <<>>
    <3>1. r(e) = SetRegion(e, 0, e.nRows) /\ r(x) = SetRegion(x, 0, e.nRows)
      BY <1>2, <2>1
    <3> HIDE DEF r
    <3> QED  BY <1>2, <3>1, RegionLike
  <2>2. CASE ps # <<>> /\ ok(e)
    <3>1. r(e) = SetRegion(e, ZeroBased(ps[1]), ps[2]) /\ r(x) = SetRegion(x, ZeroBased(ps[1]), ps[2])
      <4> HIDE DEF ok
      <4> QED  BY <1>3, <2>2
    <3>2. ZeroBased(ps[1]) \in Int /\ ps[2] \in Int
      <4>1. ps[1] \in Nat /\ ps[2] \in Nat
        BY <2>2
      <4> QED  BY <4>1 DEF ZeroBased
    <3> HIDE DEF r
    <3> QED  BY <3>1, <3>2, RegionLike
  <2>3. CASE ps # <<>> /\ ~ok(e)
    <3> HIDE DEF ok
    <3>1. r(e) = e /\ r(x) = x
      BY <1>3, <2>3
    <3> HIDE DEF r
    <3> QED  BY <3>1
  <2> QED  BY <2>1, <2>2, <2>3
<1> HIDE DEF r
<1> QED  BY <1>1, <1>4, HomeLike

LEMMA SlrmLike ==
  ASSUME NEW z, NEW e, NEW x, Like(z, e, x), NEW ps
  PROVE  Like(z, hdl_csi_slrm_scosc(e, ps), hdl_csi_slrm_scosc(x, ps))
<1> DEFINE ok(s) == Len(ps) = 2 /\ IsRegion(ZeroBased(ps[1]), ps[2], s.nCols)
           r(s) == CASE ps = <<>> -> [s EXCEPT !.hMargin = 0, !.nColsEff = s.nCols]
                     [] ok(s) -> [s EXCEPT !.hMargin = ZeroBased(ps[1]), !.nColsEff = ps[2]]
                     [] OTHER -> s
<1>1. \A s : hdl_csi_decslrm(s, ps) = Home(r(s))
  BY DEF hdl_csi_decslrm
<1>2. e.nCols = x.nCols
  BY Same
<1>3. ok(e) = ok(x)
  BY <1>2
<1>5. Like(z, r(e), r(x))
  <2>1. CASE ps = <<>>
    <3>1. ~ok(e)
      BY <2>1
    <3>2. r(e) = [e EXCEPT !.hMargin = 0, !.nColsEff = e.nCols] /\ r(x) = [x EXCEPT !.hMargin = 0, !.nColsEff = e.nCols]
      <4> HIDE DEF ok
      <4> QED  BY <1>2, <1>3, <2>1, <3>1
    <3>3. Like(z, [e EXCEPT !.hMargin = 0, !.nColsEff = e.nCols], [x EXCEPT !.hMargin = 0, !.nColsEff = e.nCols])
      BY Puts
    <3> HIDE DEF r
    <3> QED  BY <3>2, <3>3
  <2>2. CASE ps # <<>> /\ ok(e)
    <3>1. r(e) = [e EXCEPT !.hMargin = ZeroBased(ps[1]), !.nColsEff = ps[2]] /\ r(x) = [x EXCEPT !.hMargin = ZeroBased(ps[1]), !.nColsEff = ps[2]]
      <4> HIDE DEF ok
      <4> QED  BY <1>3, <2>2
    <3> DEFINE a == ZeroBased(ps[1])
               b == ps[2]
    <3> HIDE DEF a, b
    <3>2. Like(z, [e EXCEPT !.hMargin = a, !.nColsEff = b], [x EXCEPT !.hMargin = a, !.nColsEff = b])
      BY Puts
    <3> HIDE DEF r
    <3> QED  BY <3>1, <3>2 DEF a, b
  <2>3. CASE ps # <<>> /\ ~ok(e)
    <3> HIDE DEF ok
    <3>1. r(e) = e /\ r(x) = x
      BY <1>3, <2>3
    <3> HIDE DEF r
    <3> QED  BY <3>1
  <2> QED  BY <2>1, <2>2, <2>3
<1> HIDE DEF r
<1>6. Like(z, hdl_csi_decslrm(e, ps), hdl_csi_decslrm(x, ps))
  BY <1>1, <1>5, HomeLike
<1> QED  BY <1>6, SaveLike, SetLike DEF hdl_csi_slrm_scosc

-----------------------------------------------------------------------------
(* Modes.                                                                  *)

LEMMA AnsiLike ==
  ASSUME NEW z, NEW e, NEW x, Like(z, e, x), NEW n
  PROVE  Like(z, SetAnsi(e, n), SetAnsi(x, n)) /\ Like(z, ResetAnsi(e, n), ResetAnsi(x, n))
BY SetLike DEF SetAnsi, ResetAnsi

LEMMA MouseLike ==
  ASSUME NEW z, NEW e, NEW x, Like(z, e, x), NEW i, NEW n
  PROVE  Like(z, [e EXCEPT !.mouse[i] = n], [x EXCEPT !.mouse[i] = n])
<1>1. e.mouse = x.mouse
  BY Same
<1>2. ASSUME NEW v PROVE Like(z, [e EXCEPT !.mouse = v], [x EXCEPT !.mouse = v])
  BY Puts
<1> QED  BY <1>1, <1>2

LEMMA LrMarginsLike ==
  ASSUME NEW z, NEW e, NEW x, Like(z, e, x)
  PROVE  Like(z, ResetLrMargins(e), ResetLrMargins(x))
<1>1. Like(z, [e EXCEPT !.hMargin = 0, !.nColsEff = e.nCols], [x EXCEPT !.hMargin = 0, !.nColsEff = e.nCols])
  BY Puts
<1>2. e.nCols = x.nCols
  BY Same
<1> QED  BY <1>1, <1>2 DEF ResetLrMargins

LEMMA LevelLike ==
  ASSUME NEW z, NEW e, NEW x, Like(z, e, x), NEW cl
  PROVE  Like(z, [e EXCEPT !.charset = Utf8, !.compatLevel = cl], [x EXCEPT !.charset = Utf8, !.compatLevel = cl])
BY Puts

LEMMA SetPrivateLike ==
  ASSUME NEW z, NEW e, NEW x, Like(z, e, x), NEW n \in Nat
  PROVE  Like(z, SetPrivate(e, n), SetPrivate(x, n))
<1> DEFINE K == {2, 3, 9, 1000, 1001, 1002, 1003, 12, 47, 1047, 67, 69, 1005, 1006, 1015, 1048, 1049}
<1>1. CASE n \notin K
  <2>0. /\ n # 2 /\ n # 3 /\ n \notin MouseModes /\ n # 12 /\ n \notin {47, 1047} /\ n # 67 /\ n # 69 /\ n \notin MouseEncs
        /\ n # 1048 /\ n # 1049
    BY <1>1 DEF MouseModes, MouseEncs
  <2>1. ASSUME NEW s PROVE SetPrivate(s, n) = IF n \in DOMAIN PrivateModes THEN Set(s, PrivateModes[n]) ELSE s
    BY <2>0 DEF SetPrivate
  <2> QED  BY <2>1, SetLike
<1>2. CASE n = 2
  <2>1. ASSUME NEW s PROVE SetPrivate(s, n) = [s EXCEPT !.charset = Utf8, !.compatLevel = "VT400"]
    BY <1>2 DEF SetPrivate, MouseModes, MouseEncs
  <2>2. Like(z, [e EXCEPT !.charset = Utf8, !.compatLevel = "VT400"], [x EXCEPT !.charset = Utf8, !.compatLevel = "VT400"])
    BY LevelLike, Zenon
  <2> QED  BY <2>1, <2>2, Zenon
<1>3. CASE n = 3
  <2>1. ASSUME NEW s PROVE SetPrivate(s, n) = SwitchColMode(s, 132)
    BY <1>3 DEF SetPrivate, MouseModes, MouseEncs
  <2> QED  BY <2>1, ColModeLike
<1>4. CASE n \in MouseModes
  <2>0. /\ n # 2 /\ n # 3 /\ n \in MouseModes /\ n # 12 /\ n \notin {47, 1047} /\ n # 67 /\ n # 69 /\ n \notin MouseEncs
        /\ n # 1048 /\ n # 1049
    BY <1>4 DEF MouseModes, MouseEncs
  <2>1. ASSUME NEW s PROVE SetPrivate(s, n) = [s EXCEPT !.mouse[1] = n]
    BY <2>0 DEF SetPrivate
  <2>2. Like(z, [e EXCEPT !.mouse[1] = n], [x EXCEPT !.mouse[1] = n])
    BY MouseLike
  <2> QED  BY <2>1, <2>2
<1>5. CASE n = 12
  <2>1. ASSUME NEW s PROVE SetPrivate(s, n) = hdl_csi_decscusr(s, 0)
    BY <1>5 DEF SetPrivate, MouseModes, MouseEncs
  <2> QED  BY <2>1, CursorStyleLike
<1>6. CASE n \in {47, 1047}
  <2>0. /\ n # 2 /\ n # 3 /\ n \notin MouseModes /\ n # 12 /\ n \in {47, 1047} /\ n # 67 /\ n # 69 /\ n \notin MouseEncs
        /\ n # 1048 /\ n # 1049
    BY <1>6 DEF MouseModes, MouseEncs
  <2>1. ASSUME NEW s PROVE SetPrivate(s, n) = SwitchScreenBufferMode(s, TRUE)
    BY <2>0 DEF SetPrivate
  <2> QED  BY <2>1, SwitchScreenLike
<1>7. CASE n = 67
  <2>1. ASSUME NEW s PROVE SetPrivate(s, n) = Clear(s, "bkspSendsDel")
    BY <1>7 DEF SetPrivate, MouseModes, MouseEncs
  <2> QED  BY <2>1, SetLike
<1>8. CASE n = 69
  <2>1. ASSUME NEW s PROVE SetPrivate(s, n) = ResetLrMargins(Set(s, "lrMargin"))
    BY <1>8 DEF SetPrivate, MouseModes, MouseEncs
  <2>2. Like(z, Set(e, "lrMargin"), Set(x, "lrMargin"))
    BY SetLike
  <2> QED  BY <2>1, <2>2, LrMarginsLike
<1>9. CASE n \in MouseEncs
  <2>0. /\ n # 2 /\ n # 3 /\ n \notin MouseModes /\ n # 12 /\ n \notin {47, 1047} /\ n # 67 /\ n # 69 /\ n \in MouseEncs
        /\ n # 1048 /\ n # 1049
    BY <1>9 DEF MouseModes, MouseEncs
  <2>1. ASSUME NEW s PROVE SetPrivate(s, n) = [s EXCEPT !.mouse[2] = n]
    BY <2>0 DEF SetPrivate
  <2>2. Like(z, [e EXCEPT !.mouse[2] = n], [x EXCEPT !.mouse[2] = n])
    BY MouseLike
  <2> QED  BY <2>1, <2>2
<1>10. CASE n = 1048
  <2>1. ASSUME NEW s PROVE SetPrivate(s, n) = hdl_esc_decsc(s)
    BY <1>10 DEF SetPrivate, MouseModes, MouseEncs
  <2> QED  BY <2>1, SaveLike
<1>11. CASE n = 1049
  <2>1. ASSUME NEW s PROVE SetPrivate(s, n) = Set(SwitchScreenBufferMode(hdl_esc_decsc(s), TRUE), "altScreen1049")
    BY <1>11 DEF SetPrivate, MouseModes, MouseEncs
  <2>2. Like(z, hdl_esc_decsc(e), hdl_esc_decsc(x))
    BY SaveLike
  <2>3. Like(z, SwitchScreenBufferMode(hdl_esc_decsc(e), TRUE), SwitchScreenBufferMode(hdl_esc_decsc(x), TRUE))
    BY <2>2, SwitchScreenLike
  <2> QED  BY <2>1, <2>3, SetLike
<1> QED  BY <1>1, <1>2, <1>3, <1>4, <1>5, <1>6, <1>7, <1>8, <1>9, <1>10, <1>11 DEF MouseModes, MouseEncs

LEMMA ResetPrivateLike ==
  ASSUME NEW z, NEW e, NEW x, Like(z, e, x), NEW n \in Nat
  PROVE  Like(z, ResetPrivate(e, n), ResetPrivate(x, n))
<1> DEFINE K == {2, 3, 9, 1000, 1001, 1002, 1003, 12, 47, 1047, 67, 69, 1005, 1006, 1015, 1048, 1049}
<1>1. CASE n \notin K
  <2>0. /\ n # 2 /\ n # 3 /\ n \notin MouseModes /\ n # 12 /\ n \notin {47, 1047} /\ n # 67 /\ n # 69 /\ n \notin MouseEncs
        /\ n # 1048 /\ n # 1049
    BY <1>1 DEF MouseModes, MouseEncs
  <2>1. ASSUME NEW s PROVE ResetPrivate(s, n) = IF n \in DOMAIN PrivateModes THEN Clear(s, PrivateModes[n]) ELSE s
    BY <2>0 DEF ResetPrivate
  <2> QED  BY <2>1, SetLike
<1>2. CASE n = 2
  <2>1. ASSUME NEW s PROVE ResetPrivate(s, n) = [s EXCEPT !.charset = Utf8, !.compatLevel = "VT52"]
    BY <1>2 DEF ResetPrivate, MouseModes, MouseEncs
  <2>2. Like(z, [e EXCEPT !.charset = Utf8, !.compatLevel = "VT52"], [x EXCEPT !.charset = Utf8, !.compatLevel = "VT52"])
    BY LevelLike, Zenon
  <2> QED  BY <2>1, <2>2, Zenon
<1>3. CASE n = 3
  <2>1. ASSUME NEW s PROVE ResetPrivate(s, n) = SwitchColMode(s, 80)
    BY <1>3 DEF ResetPrivate, MouseModes, MouseEncs
  <2> QED  BY <2>1, ColModeLike
<1>4. CASE n \in MouseModes
  <2>0. /\ n # 2 /\ n # 3 /\ n \in MouseModes /\ n # 12 /\ n \notin {47, 1047} /\ n # 67 /\ n # 69 /\ n \notin MouseEncs
        /\ n # 1048 /\ n # 1049
    BY <1>4 DEF MouseModes, MouseEncs
  <2>1. ASSUME NEW s PROVE ResetPrivate(s, n) = [s EXCEPT !.mouse[1] = 0]
    BY <2>0 DEF ResetPrivate
  <2>2. Like(z, [e EXCEPT !.mouse[1] = 0], [x EXCEPT !.mouse[1] = 0])
    BY MouseLike
  <2> QED  BY <2>1, <2>2
<1>5. CASE n = 12
  <2>1. ASSUME NEW s PROVE ResetPrivate(s, n) = hdl_csi_decscusr(s, 2)
    BY <1>5 DEF ResetPrivate, MouseModes, MouseEncs
  <2> QED  BY <2>1, CursorStyleLike
<1>6. CASE n \in {47, 1047}
  <2>0. /\ n # 2 /\ n # 3 /\ n \notin MouseModes /\ n # 12 /\ n \in {47, 1047} /\ n # 67 /\ n # 69 /\ n \notin MouseEncs
        /\ n # 1048 /\ n # 1049
    BY <1>6 DEF MouseModes, MouseEncs
  <2>1. ASSUME NEW s PROVE ResetPrivate(s, n) = SwitchScreenBufferMode(s, FALSE)
    BY <2>0 DEF ResetPrivate
  <2> QED  BY <2>1, SwitchScreenLike
<1>7. CASE n = 67
  <2>1. ASSUME NEW s PROVE ResetPrivate(s, n) = Set(s, "bkspSendsDel")
    BY <1>7 DEF ResetPrivate, MouseModes, MouseEncs
  <2> QED  BY <2>1, SetLike
<1>8. CASE n = 69
  <2>1. ASSUME NEW s PROVE ResetPrivate(s, n) = ResetLrMargins(Clear(s, "lrMargin"))
    BY <1>8 DEF ResetPrivate, MouseModes, MouseEncs
  <2>2. Like(z, Clear(e, "lrMargin"), Clear(x, "lrMargin"))
    BY SetLike
  <2> QED  BY <2>1, <2>2, LrMarginsLike
<1>9. CASE n \in MouseEncs
  <2>0. /\ n # 2 /\ n # 3 /\ n \notin MouseModes /\ n # 12 /\ n \notin {47, 1047} /\ n # 67 /\ n # 69 /\ n \in MouseEncs
        /\ n # 1048 /\ n # 1049
    BY <1>9 DEF MouseModes, MouseEncs
  <2>1. ASSUME NEW s PROVE ResetPrivate(s, n) = [s EXCEPT !.mouse[2] = 0]
    BY <2>0 DEF ResetPrivate
  <2>2. Like(z, [e EXCEPT !.mouse[2] = 0], [x EXCEPT !.mouse[2] = 0])
    BY MouseLike
  <2> QED  BY <2>1, <2>2
<1>10. CASE n = 1048
  <2>1. ASSUME NEW s PROVE ResetPrivate(s, n) = hdl_esc_decrc(s)
    BY <1>10 DEF ResetPrivate, MouseModes, MouseEncs
  <2> QED  BY <2>1, RestoreLike
<1>11. CASE n = 1049
  <2>1. ASSUME NEW s PROVE ResetPrivate(s, n) = Clear(hdl_esc_decrc(SwitchScreenBufferMode(s, FALSE)), "altScreen1049")
    BY <1>11 DEF ResetPrivate, MouseModes, MouseEncs
  <2>2. Like(z, SwitchScreenBufferMode(e, FALSE), SwitchScreenBufferMode(x, FALSE))
    BY SwitchScreenLike
  <2>3. Like(z, hdl_esc_decrc(SwitchScreenBufferMode(e, FALSE)), hdl_esc_decrc(SwitchScreenBufferMode(x, FALSE)))
    BY <2>2, RestoreLike
  <2> QED  BY <2>1, <2>3, SetLike
<1> QED  BY <1>1, <1>2, <1>3, <1>4, <1>5, <1>6, <1>7, <1>8, <1>9, <1>10, <1>11 DEF MouseModes, MouseEncs

OpSetAnsi(p, s, n) == SetAnsi(s, n)
SettingAnsi == INSTANCE Folding WITH op <- OpSetAnsi, Rel <- LikeAt
OpResetAnsi(p, s, n) == ResetAnsi(s, n)
ResettingAnsi == INSTANCE Folding WITH op <- OpResetAnsi, Rel <- LikeAt
OpSetPrivate(p, s, n) == SetPrivate(s, n)
SettingPrivate == INSTANCE Folding WITH op <- OpSetPrivate, Rel <- LikeAt
OpResetPrivate(p, s, n) == ResetPrivate(s, n)
ResettingPrivate == INSTANCE Folding WITH op <- OpResetPrivate, Rel <- LikeAt

LEMMA ModesLike ==
  ASSUME NEW z, NEW e, NEW x, Like(z, e, x), NEW ps \in Seq(Nat)
  PROVE  /\ Like(z, hdl_csi_sm(e, ps), hdl_csi_sm(x, ps)) /\ Like(z, hdl_csi_rm(e, ps), hdl_csi_rm(x, ps))
         /\ Like(z, hdl_csi_privSM(e, ps), hdl_csi_privSM(x, ps)) /\ Like(z, hdl_csi_privRM(e, ps), hdl_csi_privRM(x, ps))
<1>1. LikeAt(z, e, x)
  BY DEF LikeAt
<1>2. PICK m \in Nat : DOMAIN ps = 1..m /\ \A i \in 1..m : ps[i] \in Nat
  <2>1. DOMAIN ps = 1..Len(ps) /\ Len(ps) \in Nat /\ \A i \in 1..Len(ps) : ps[i] \in Nat
    OBVIOUS
  <2> QED  BY <2>1, Zenon
<1>3. Like(z, hdl_csi_sm(e, ps), hdl_csi_sm(x, ps))
  <2>1. \A s : hdl_csi_sm(s, ps) = SettingAnsi!Folded(z, s, ps)
    BY DEF hdl_csi_sm, FoldLeft, MapThenFoldSet, Max, SettingAnsi!Newest, SettingAnsi!FoldedBy, SettingAnsi!Folded, OpSetAnsi
  <2>2. \A i \in 1..m : \A a, b : LikeAt(z, a, b) => LikeAt(z, OpSetAnsi(z, a, ps[i]), OpSetAnsi(z, b, ps[i]))
    BY AnsiLike DEF LikeAt, OpSetAnsi
  <2>3. LikeAt(z, SettingAnsi!Folded(z, e, ps), SettingAnsi!Folded(z, x, ps))
    BY <1>1, <1>2, <2>2, SettingAnsi!Keeps
  <2> QED  BY <2>1, <2>3 DEF LikeAt
<1>4. Like(z, hdl_csi_rm(e, ps), hdl_csi_rm(x, ps))
  <2>1. \A s : hdl_csi_rm(s, ps) = ResettingAnsi!Folded(z, s, ps)
    BY DEF hdl_csi_rm, FoldLeft, MapThenFoldSet, Max, ResettingAnsi!Newest, ResettingAnsi!FoldedBy, ResettingAnsi!Folded, OpResetAnsi
  <2>2. \A i \in 1..m : \A a, b : LikeAt(z, a, b) => LikeAt(z, OpResetAnsi(z, a, ps[i]), OpResetAnsi(z, b, ps[i]))
    BY AnsiLike DEF LikeAt, OpResetAnsi
  <2>3. LikeAt(z, ResettingAnsi!Folded(z, e, ps), ResettingAnsi!Folded(z, x, ps))
    BY <1>1, <1>2, <2>2, ResettingAnsi!Keeps
  <2> QED  BY <2>1, <2>3 DEF LikeAt
<1>5. Like(z, hdl_csi_privSM(e, ps), hdl_csi_privSM(x, ps))
  <2>1. \A s : hdl_csi_privSM(s, ps) = SettingPrivate!Folded(z, s, ps)
    BY DEF hdl_csi_privSM, FoldLeft, MapThenFoldSet, Max, SettingPrivate!Newest, SettingPrivate!FoldedBy, SettingPrivate!Folded, OpSetPrivate
  <2>2. \A i \in 1..m : \A a, b : LikeAt(z, a, b) => LikeAt(z, OpSetPrivate(z, a, ps[i]), OpSetPrivate(z, b, ps[i]))
    BY <1>2, SetPrivateLike DEF LikeAt, OpSetPrivate
  <2>3. LikeAt(z, SettingPrivate!Folded(z, e, ps), SettingPrivate!Folded(z, x, ps))
    BY <1>1, <1>2, <2>2, SettingPrivate!Keeps
  <2> QED  BY <2>1, <2>3 DEF LikeAt
<1>6. Like(z, hdl_csi_privRM(e, ps), hdl_csi_privRM(x, ps))
  <2>1. \A s : hdl_csi_privRM(s, ps) = ResettingPrivate!Folded(z, s, ps)
    BY DEF hdl_csi_privRM, FoldLeft, MapThenFoldSet, Max, ResettingPrivate!Newest, ResettingPrivate!FoldedBy, ResettingPrivate!Folded, OpResetPrivate
  <2>2. \A i \in 1..m : \A a, b : LikeAt(z, a, b) => LikeAt(z, OpResetPrivate(z, a, ps[i]), OpResetPrivate(z, b, ps[i]))
    BY <1>2, ResetPrivateLike DEF LikeAt, OpResetPrivate
  <2>3. LikeAt(z, ResettingPrivate!Folded(z, e, ps), ResettingPrivate!Folded(z, x, ps))
    BY <1>1, <1>2, <2>2, ResettingPrivate!Keeps
  <2> QED  BY <2>1, <2>3 DEF LikeAt
<1> QED  BY <1>3, <1>4, <1>5, <1>6

-----------------------------------------------------------------------------
(* What only the one that supports it keeps, and what is only answered: an *)
(* emulator stays like another that handles nothing.                       *)

\* Like at p, whatever the second one has become.
LEMMA BothLike ==
  ASSUME NEW z, NEW e, NEW x, NEW f, NEW y, Like(z, e, x), Like(z, f, x), Like(z, y, e)
  PROVE  Like(z, f, y)
<1>1. Like(z, f, x) /\ Like(z, x, e) /\ Like(z, e, y)
  BY SymLike
<1>2. Like(z, f, e)
  BY <1>1, TransLike
<1> QED  BY <1>1, <1>2, TransLike

LEMMA KeyboardLike ==
  ASSUME NEW z, NEW e, NEW x, Like(z, e, x), NEW stack
  PROVE  Like(z, WithKbd(e, stack), x)
<1> DEFINE f == [Cf(e) EXCEPT !.kittyKbd = stack]
<1>1. LikeFrame(f, Cf(x))
  BY CfLike, KbdFrame
<1>2. e.alt \in BOOLEAN /\ e.alt = x.alt
  BY Numbers, Same
<1>3. WithKbd(e, stack) = WithCf(e, f)
  BY DEF WithKbd
<1> HIDE DEF f
<1>4. CASE e.alt = TRUE
  <2>1. LikeFrame(f, x.frame_alt) /\ WithKbd(e, stack) = [e EXCEPT !.frame_alt = f]
    BY <1>1, <1>2, <1>3, <1>4 DEF Cf, WithCf
  <2> QED  BY <2>1 DEF Like, EmulatorFields, Own
<1>5. CASE e.alt = FALSE
  <2>1. LikeFrame(f, x.frame_pri) /\ WithKbd(e, stack) = [e EXCEPT !.frame_pri = f]
    BY <1>1, <1>2, <1>3, <1>5 DEF Cf, WithCf
  <2> QED  BY <2>1 DEF Like, EmulatorFields, Own
<1> QED  BY <1>2, <1>4, <1>5

LEMMA KittyLike ==
  ASSUME NEW z, NEW e, NEW x, Like(z, e, x), NEW flags, NEW n
  PROVE  /\ Like(z, hdl_csi_u_set(e, flags, n), x) /\ Like(z, hdl_csi_u_push(e, flags), x)
         /\ Like(z, hdl_csi_u_pop(e, n), x) /\ Like(z, hdl_csi_u_query(e), x)
<1>1. \E v : hdl_csi_u_set(e, flags, n) = IF Support(e) THEN WithKbd(e, v) ELSE e
  BY DEF hdl_csi_u_set
<1>2. \E v : hdl_csi_u_push(e, flags) = IF Support(e) THEN WithKbd(e, v) ELSE e
  BY DEF hdl_csi_u_push
<1>3. \E v : hdl_csi_u_pop(e, n) = IF ~Support(e) THEN e ELSE WithKbd(e, v)
  BY DEF hdl_csi_u_pop
<1>4. \E v : hdl_csi_u_query(e) = IF Support(e) THEN Reply(e, v) ELSE e
  BY DEF hdl_csi_u_query
<1>5. Like(z, hdl_csi_u_set(e, flags, n), x)
  BY <1>1, KeyboardLike
<1>6. Like(z, hdl_csi_u_push(e, flags), x)
  BY <1>2, KeyboardLike
<1>7. Like(z, hdl_csi_u_pop(e, n), x)
  BY <1>3, KeyboardLike
<1>8. Like(z, hdl_csi_u_query(e), x)
  BY <1>4, ReplyLike
<1> QED  BY <1>5, <1>6, <1>7, <1>8

LEMMA ReportLike ==
  ASSUME NEW z, NEW e, NEW x, Like(z, e, x), NEW n
  PROVE  /\ Like(z, hdl_csi_priDA(e), x) /\ Like(z, hdl_csi_secDA(e), x) /\ Like(z, hdl_vt52_id(e), x)
         /\ Like(z, hdl_csi_decrqm(e), x) /\ Like(z, hdl_csi_dsr(e, n), x)
<1>1. Like(z, hdl_csi_priDA(e), x) /\ Like(z, hdl_csi_secDA(e), x) /\ Like(z, hdl_vt52_id(e), x) /\ Like(z, hdl_csi_decrqm(e), x)
  BY ReplyLike DEF hdl_csi_priDA, hdl_csi_secDA, hdl_vt52_id, hdl_csi_decrqm
<1>2. Like(z, hdl_csi_dsr(e, n), x)
  <2> DEFINE v == <<"CPR", e.posY + 1 - (IF On(e, "origin") THEN e.marginTop ELSE 0), e.posX + 1>>
  <2>1. hdl_csi_dsr(e, n) = CASE n = 5 -> Reply(e, <<"DSR">>) [] n = 6 -> Reply(e, v) [] OTHER -> e
    BY DEF hdl_csi_dsr
  <2> HIDE DEF v
  <2>2. CASE n = 5
    BY <2>1, <2>2, ReplyLike
  <2>3. CASE n = 6
    BY <2>1, <2>3, ReplyLike
  <2>4. CASE n # 5 /\ n # 6
    BY <2>1, <2>4
  <2> QED  BY <2>2, <2>3, <2>4
<1> QED  BY <1>1, <1>2

\* A request that changes the emulator, too.
LEMMA RequestLike ==
  ASSUME NEW z, NEW e, NEW x, Like(z, e, x), NEW arg
  PROVE  /\ Like(z, hdl_dcs_decrqss(e, arg), hdl_dcs_decrqss(x, arg))
         /\ hdl_dcs_decrqss(e, arg).compatLevel = e.compatLevel => Like(z, hdl_dcs_decrqss(e, arg), x)
<1> DEFINE d(s) == [s EXCEPT !.compatLevel = "VT400"]
<1>1. Like(z, d(e), d(x))
  BY Puts
<1>2. \A s : hdl_dcs_decrqss(s, arg) =
               IF arg = <<"\"p">> THEN Reply(d(s), <<"DECRPSS", TRUE>>) ELSE Reply(s, <<"DECRPSS", FALSE>>)
  BY DEF hdl_dcs_decrqss
<1> HIDE DEF d
<1>3. Like(z, hdl_dcs_decrqss(e, arg), hdl_dcs_decrqss(x, arg))
  <2> DEFINE yes == <<"DECRPSS", TRUE>>
             no == <<"DECRPSS", FALSE>>
  <2>1. Like(z, Reply(d(e), yes), Reply(d(x), yes)) /\ Like(z, Reply(e, no), Reply(x, no))
    BY <1>1, ReplyLike
  <2>2. \A s : hdl_dcs_decrqss(s, arg) = IF arg = <<"\"p">> THEN Reply(d(s), yes) ELSE Reply(s, no)
    BY <1>2, Zenon
  <2> HIDE DEF yes, no
  <2>3. CASE arg = <<"\"p">>
    <3>1. hdl_dcs_decrqss(e, arg) = Reply(d(e), yes)
      BY <2>2, <2>3, Zenon
    <3>2. hdl_dcs_decrqss(x, arg) = Reply(d(x), yes)
      BY <2>2, <2>3, Zenon
    <3> QED  BY <2>1, <3>1, <3>2
  <2>4. CASE arg # <<"\"p">>
    <3>1. hdl_dcs_decrqss(e, arg) = Reply(e, no)
      BY <2>2, <2>4, Zenon
    <3>2. hdl_dcs_decrqss(x, arg) = Reply(x, no)
      BY <2>2, <2>4, Zenon
    <3> QED  BY <2>1, <3>1, <3>2
  <2> QED  BY <2>3, <2>4, Zenon
<1>4. ASSUME hdl_dcs_decrqss(e, arg).compatLevel = e.compatLevel PROVE Like(z, hdl_dcs_decrqss(e, arg), x)
  <2>1. CASE arg = <<"\"p">>
    <3>1. hdl_dcs_decrqss(e, arg) = Reply(d(e), <<"DECRPSS", TRUE>>)
      BY <1>2, <2>1, Zenon
    <3>2. Like(z, hdl_dcs_decrqss(e, arg), d(e)) /\ Like(z, d(e), hdl_dcs_decrqss(e, arg))
      <4>1. Like(z, d(e), d(e))
        BY <1>1, SymLike, TransLike
      <4> QED  BY <3>1, <4>1, ReplyLike, SymLike
    <3>3. d(e).compatLevel = e.compatLevel
      BY <1>4, <3>2, Same
    <3>4. Like(z, d(e), x)
      BY <3>3 DEF d, Like, EmulatorFields, Own
    <3> QED  BY <3>1, <3>4, ReplyLike
  <2>2. CASE arg # <<"\"p">>
    BY <1>2, <2>2, ReplyLike, Zenon
  <2> QED  BY <2>1, <2>2, Zenon
<1> QED  BY <1>3, <1>4

\* p is the size, and the emulator that handles nothing.
AnswerCap(p, s, name) == IF name = "not hex" THEN s ELSE Reply(s, <<"XTGETTCAP", name>>)
LikeThat(p, a, b) == Like(p[1], a, p[2])
Answering == INSTANCE Folding WITH op <- AnswerCap, Rel <- LikeThat

LEMMA CapsLike ==
  ASSUME NEW z, NEW e, NEW x, Like(z, e, x), NEW S, NEW names \in Seq(S)
  PROVE  Like(z, hdl_dcs_xtgettcap(e, names), x)
<1> DEFINE p == <<z, x>>
<1>1. PICK m \in Nat : DOMAIN names = 1..m
  OBVIOUS
<1>2. hdl_dcs_xtgettcap(e, names) = Answering!Folded(p, e, names)
  BY DEF hdl_dcs_xtgettcap, FoldLeft, MapThenFoldSet, Max, Answering!Newest, Answering!FoldedBy, Answering!Folded, AnswerCap
<1>3. LikeThat(p, e, e)
  BY DEF LikeThat
<1>4. \A i \in 1..m : \A a, b : LikeThat(p, a, b) => LikeThat(p, AnswerCap(p, a, names[i]), AnswerCap(p, b, names[i]))
  BY ReplyLike, Zenon DEF LikeThat, AnswerCap
<1> HIDE DEF p
<1>5. LikeThat(p, Answering!Folded(p, e, names), Answering!Folded(p, e, names))
  BY <1>1, <1>3, <1>4, Answering!Keeps
<1> QED  BY <1>2, <1>5 DEF LikeThat, p

\* p is the size, the emulator that handles nothing, and the arguments.
AnswerQuery(p, acc, k) ==
  IF acc.stop \/ ~(p[3][2 * k] = "?") THEN acc
  ELSE IF p[3][2 * k - 1] = "no number" THEN [acc EXCEPT !.stop = TRUE]
  ELSE [acc EXCEPT !.e = Reply(@, <<"color", p[3][2 * k - 1]>>)]
AnswersLike(p, a, b) == DOMAIN a = {"e", "stop"} /\ Like(p[1], a.e, p[2])
Asking == INSTANCE Folding WITH op <- AnswerQuery, Rel <- AnswersLike

LEMMA QueriesLike ==
  ASSUME NEW z, NEW e, NEW x, Like(z, e, x), NEW S, NEW args \in Seq(S), NEW limit \in Int
  PROVE  Like(z, Queries(e, args, limit), x)
<1> DEFINE pairs == IF Len(args) % 2 = 1 THEN 0 ELSE Least(Len(args) \div 2, limit)
           p == <<z, x, args>>
           seq == [k \in 1..pairs |-> k]
           base == [e |-> e, stop |-> FALSE]
<1>1. Queries(e, args, limit) = Asking!Folded(p, base, seq).e
  BY DEF Queries, FoldLeft, MapThenFoldSet, Max, Asking!Newest, Asking!FoldedBy, Asking!Folded, AnswerQuery
<1>2. PICK m \in Nat : DOMAIN seq = 1..m
  <2>1. pairs \in Int
    BY DEF Least
  <2> HIDE DEF pairs
  <2> QED  BY <2>1, CountTo
<1>3. AnswersLike(p, base, base)
  BY DEF AnswersLike
<1>4. ASSUME NEW k, NEW a, NEW b, AnswersLike(p, a, b) PROVE AnswersLike(p, AnswerQuery(p, a, k), AnswerQuery(p, b, k))
  <2>1. DOMAIN a = {"e", "stop"} /\ Like(z, a.e, x)
    BY <1>4 DEF AnswersLike
  <2>2. ASSUME NEW v PROVE Like(z, Reply(a.e, v), x)
    BY <2>1, ReplyLike
  <2> HIDE DEF p
  <2>3. /\ DOMAIN AnswerQuery(p, a, k) = {"e", "stop"}
        /\ AnswerQuery(p, a, k).e = a.e \/ \E v : AnswerQuery(p, a, k).e = Reply(a.e, v)
    BY <2>1, Zenon DEF AnswerQuery
  <2>4. Like(z, AnswerQuery(p, a, k).e, x)
    BY <2>1, <2>2, <2>3
  <2> QED  BY <2>3, <2>4 DEF AnswersLike, p
<1> HIDE DEF p, seq, base
<1>5. AnswersLike(p, Asking!Folded(p, base, seq), Asking!Folded(p, base, seq))
  BY <1>2, <1>3, <1>4, Asking!Keeps
<1> QED  BY <1>1, <1>5 DEF AnswersLike, p

LEMMA ColorsLike ==
  ASSUME NEW z, NEW e, NEW x, Like(z, e, x), NEW S, NEW arg \in Seq(S)
  PROVE  Like(z, hdl_osc_4(e, arg), x) /\ Like(z, hdl_osc_10x(e, arg), x)
<1>1. 8 \in Int /\ 5 \in Int
  OBVIOUS
<1>2. Like(z, hdl_osc_4(e, arg), x)
  BY <1>1, QueriesLike DEF hdl_osc_4
<1>3. PICK a : a = <<"cmd">> \o arg /\ a \in Seq(S \cup {"cmd"})
  <2>1. <<"cmd">> \in Seq(S \cup {"cmd"}) /\ arg \in Seq(S \cup {"cmd"})
    OBVIOUS
  <2> QED  BY <2>1, ConcatProperties
<1>4. Like(z, hdl_osc_10x(e, arg), x)
  BY <1>1, <1>3, QueriesLike DEF hdl_osc_10x
<1> QED  BY <1>2, <1>4

-----------------------------------------------------------------------------
(* Operating system commands, titles and sizes.                            *)

LEMMA LinksLike ==
  ASSUME NEW z, NEW e, NEW x, Like(z, e, x), NEW arg
  PROVE  Like(z, hdl_osc_8(e, arg), hdl_osc_8(x, arg))
<1> DEFINE L(r, i) == [r EXCEPT !.link = i]
           linked(s, i) == [s EXCEPT !.rend = L(s.rend, i)]
           old(s) == CHOOSE i \in DOMAIN s.links : s.links[i] = arg
           added(s) == [s EXCEPT !.links = Append(s.links, arg)]
           second(s) == [added(s) EXCEPT !.rend = L(s.rend, Len(s.links) + 1)]
<1>1. e.rend = x.rend /\ e.links = x.links
  BY Same
<1>3. \A s : AddLink(s, arg) = IF arg \in Range(s.links) THEN linked(s, old(s)) ELSE second(s)
  BY DEF AddLink
<1>4. old(e) = old(x)
  BY <1>1
<1> HIDE DEF L, old
<1>5. ASSUME NEW i PROVE Like(z, linked(e, i), linked(x, i))
  BY <1>1, Puts
<1>6. Like(z, second(e), second(x))
  <2>1. Like(z, added(e), added(x))
    BY <1>1, Puts
  <2> HIDE DEF added
  <2> QED  BY <1>1, <2>1, Puts
<1> HIDE DEF linked, second
<1>7. Like(z, AddLink(e, arg), AddLink(x, arg))
  BY <1>1, <1>3, <1>4, <1>5, <1>6
<1>8. CASE Len(arg) # 2
  BY <1>8 DEF hdl_osc_8
<1>9. CASE Len(arg) = 2 /\ arg[2] = ""
  <2>1. \A s : hdl_osc_8(s, arg) = linked(s, 0)
    BY <1>9, Zenon DEF hdl_osc_8, linked, L
  <2> QED  BY <1>5, <2>1
<1>10. CASE Len(arg) = 2 /\ arg[2] # ""
  <2>1. CASE arg[1] \in {"", "id"}
    <3>1. \A s : hdl_osc_8(s, arg) = AddLink(s, arg)
      BY <1>10, <2>1, Zenon DEF hdl_osc_8
    <3> QED  BY <1>7, <3>1
  <2>2. CASE arg[1] \notin {"", "id"}
    <3>1. \A s : hdl_osc_8(s, arg) = s
      BY <1>10, <2>2, Zenon DEF hdl_osc_8
    <3> QED  BY <3>1
  <2> QED  BY <2>1, <2>2, Zenon
<1> QED  BY <1>8, <1>9, <1>10, Zenon

LEMMA TitlesLike ==
  ASSUME NEW z, NEW e, NEW x, Like(z, e, x), NEW cmd, NEW arg
  PROVE  Like(z, hdl_osc_0_1_2(e, cmd, arg), hdl_osc_0_1_2(x, cmd, arg))
<1> DEFINE v(s) == [init |-> TRUE, icon |-> IF cmd # 2 THEN arg[1] ELSE s.titles.icon,
                    window |-> IF cmd # 1 THEN arg[1] ELSE s.titles.window]
<1>1. \A s : hdl_osc_0_1_2(s, cmd, arg) = [s EXCEPT !.titles = v(s)]
  BY DEF hdl_osc_0_1_2
<1>2. v(e) = v(x)
  <2>1. e.titles = x.titles
    BY Same
  <2> QED  BY <2>1
<1> HIDE DEF v
<1>3. Like(z, [e EXCEPT !.titles = v(e)], [x EXCEPT !.titles = v(e)])
  BY Puts
<1> QED  BY <1>1, <1>2, <1>3

\* What is selected is the same; whether a host that asks is answered need not be.
LEMMA SelectionLike ==
  ASSUME NEW z, NEW e, NEW x, Like(z, e, x), NEW S, NEW arg \in Seq(S)
  PROVE  /\ Like(z, hdl_osc_52(e, arg), hdl_osc_52(x, arg))
         /\ hdl_osc_52(e, arg).toHost # e.toHost => Like(z, hdl_osc_52(e, arg), x)
<1> DEFINE chosen == Selections(arg[1])
           asks == Len(arg) < 2 \/ chosen = <<>> \/ arg[2] = "?"
           store(s) == IF arg[2] = "base64" THEN s.selectionStore \cup Range(chosen) ELSE s.selectionStore \ Range(chosen)
           kept(s) == [s EXCEPT !.selectionStore = store(s)]
<1>1. CASE asks
  <2>1. \A s : hdl_osc_52(s, arg) = s \/ \E v : hdl_osc_52(s, arg) = Reply(s, v)
    <3>1. CASE Len(arg) < 2 \/ chosen = <<>>
      <4>0. ~(Len(arg) >= 2 /\ chosen # <<>>)
        BY <3>1
      <4>1. \A s : hdl_osc_52(s, arg) = s
        BY <3>1, <4>0, Zenon DEF hdl_osc_52
      <4> QED  BY <4>1
    <3>2. CASE ~(Len(arg) < 2 \/ chosen = <<>>) /\ arg[2] = "?"
      <4> DEFINE held(s) == SelectSeq(chosen, LAMBDA c : c \in s.selectionStore)
      <4>0. Len(arg) >= 2 <=> ~(Len(arg) < 2)
        OBVIOUS
      <4>1. \A s : hdl_osc_52(s, arg) = IF held(s) = <<>> THEN s ELSE Reply(s, <<"OSC 52", held(s)[1]>>)
        BY <3>2, <4>0, Zenon DEF hdl_osc_52
      <4> HIDE DEF held
      <4> QED  BY <4>1, Zenon
    <3> QED  BY <1>1, <3>1, <3>2
  <2>2. Like(z, hdl_osc_52(e, arg), x)
    BY <2>1, ReplyLike
  <2>3. Like(z, hdl_osc_52(x, arg), e)
    BY <2>1, SymLike, ReplyLike
  <2> QED  BY <2>2, <2>3, BothLike
<1>2. CASE ~asks
  <2>1. ASSUME NEW s PROVE hdl_osc_52(s, arg) = [kept(s) EXCEPT !.selectionData = arg]
    <3>1. ~(Len(arg) < 2 \/ chosen = <<>>) /\ ~(arg[2] = "?")
      BY <1>2
    <3> QED  BY <3>1 DEF hdl_osc_52
  <2> HIDE DEF store
  <2>2. Like(z, kept(e), kept(x))
    <3>1. Like(z, kept(e), x)
      BY LooseLike DEF Loose
    <3> QED  BY <3>1, LooseLike DEF Loose
  <2>3. hdl_osc_52(e, arg).toHost = e.toHost
    BY <2>1, Zenon DEF Like, EmulatorFields
  <2> HIDE DEF kept
  <2>4. Like(z, [kept(e) EXCEPT !.selectionData = arg], [kept(x) EXCEPT !.selectionData = arg])
    BY <2>2, Puts
  <2> QED  BY <2>1, <2>3, <2>4
<1> QED  BY <1>1, <1>2

\* What is only answered.
Asked == {4, 10, 11, 12, 17, 19}

LEMMA OscLike ==
  ASSUME NEW z, NEW e, NEW x, Like(z, e, x), NEW cmd \in OscCommands, NEW S, NEW arg \in Seq(S)
  PROVE  /\ Like(z, hdl_osc(e, cmd, arg), hdl_osc(x, cmd, arg))
         /\ cmd \in Asked => Like(z, hdl_osc(e, cmd, arg), x)
         /\ cmd = 52 /\ hdl_osc(e, cmd, arg).toHost # e.toHost => Like(z, hdl_osc(e, cmd, arg), x)
<1>1. CASE cmd \in {0, 1, 2}
  <2>1. \A s : hdl_osc(s, cmd, arg) = hdl_osc_0_1_2(s, cmd, arg)
    BY <1>1 DEF hdl_osc
  <2> QED  BY <1>1, <2>1, TitlesLike DEF Asked
<1>2. CASE cmd = 8
  <2>1. \A s : hdl_osc(s, cmd, arg) = hdl_osc_8(s, arg)
    BY <1>2 DEF hdl_osc
  <2> QED  BY <1>2, <2>1, LinksLike DEF Asked
<1>3. CASE cmd = 52
  <2>1. \A s : hdl_osc(s, cmd, arg) = hdl_osc_52(s, arg)
    BY <1>3 DEF hdl_osc
  <2> QED  BY <1>3, <2>1, SelectionLike DEF Asked
<1>4. CASE cmd = 112
  <2>1. \A s : hdl_osc(s, cmd, arg) = s
    BY <1>4 DEF hdl_osc, hdl_osc_112
  <2> QED  BY <1>4, <2>1 DEF Asked
<1>5. CASE cmd \in Asked
  <2>1. \A s : hdl_osc(s, cmd, arg) = hdl_osc_4(s, arg) \/ hdl_osc(s, cmd, arg) = hdl_osc_10x(s, arg)
    <3>1. CASE cmd = 4
      BY <3>1 DEF hdl_osc
    <3>2. CASE cmd \in {10, 11, 12, 17, 19}
      BY <3>2 DEF hdl_osc
    <3> QED  BY <1>5, <3>1, <3>2 DEF Asked
  <2>2. Like(z, hdl_osc(e, cmd, arg), x)
    BY <2>1, ColorsLike
  <2>3. Like(z, x, e)
    BY SymLike
  <2>4. Like(z, hdl_osc_4(x, arg), e) /\ Like(z, hdl_osc_10x(x, arg), e)
    BY <2>3, ColorsLike
  <2>5. Like(z, hdl_osc(x, cmd, arg), e)
    BY <2>1, <2>4
  <2>6. Like(z, hdl_osc(e, cmd, arg), hdl_osc(x, cmd, arg))
    BY <2>2, <2>5, BothLike
  <2> QED  BY <1>5, <2>2, <2>6 DEF Asked
<1> QED  BY <1>1, <1>2, <1>3, <1>4, <1>5 DEF OscCommands, Asked

LEMMA TitleStackLike ==
  ASSUME NEW z, NEW e, NEW x, Like(z, e, x)
  PROVE  /\ Like(z, SaveWindowTitleOnStack(e), SaveWindowTitleOnStack(x))
         /\ Like(z, RestoreWindowTitleOnStack(e), RestoreWindowTitleOnStack(x))
<1>1. e.titles = x.titles /\ e.titleStack = x.titleStack
  BY Same
<1>2. Like(z, SaveWindowTitleOnStack(e), SaveWindowTitleOnStack(x))
  <2> DEFINE stack(s) == Append(s.titleStack, s.titles.window)
             v(s) == IF Len(stack(s)) > MaxTitles THEN Tail(stack(s)) ELSE stack(s)
  <2>1. \A s : SaveWindowTitleOnStack(s) = IF s.titles.window = "" THEN s ELSE [s EXCEPT !.titleStack = v(s)]
    BY DEF SaveWindowTitleOnStack
  <2>2. v(e) = v(x)
    BY <1>1
  <2> HIDE DEF v
  <2>3. Like(z, [e EXCEPT !.titleStack = v(e)], [x EXCEPT !.titleStack = v(e)])
    BY Puts
  <2> QED  BY <1>1, <2>1, <2>2, <2>3, Zenon
<1>3. Like(z, RestoreWindowTitleOnStack(e), RestoreWindowTitleOnStack(x))
  <2> DEFINE T(t, w) == [t EXCEPT !.window = w]
             titled(s) == [s EXCEPT !.titles = T(s.titles, Last(s.titleStack))]
             v(s) == Front(s.titleStack)
  <2>1. ASSUME NEW s, DOMAIN s = EmulatorFields
        PROVE  RestoreWindowTitleOnStack(s) = IF s.titleStack = <<>> THEN s ELSE [titled(s) EXCEPT !.titleStack = v(s)]
    BY <2>1 DEF RestoreWindowTitleOnStack, EmulatorFields
  <2> HIDE DEF T, v
  <2>2. Like(z, titled(e), titled(x))
    BY <1>1, Puts
  <2>3. v(e) = v(x) /\ DOMAIN e = EmulatorFields /\ DOMAIN x = EmulatorFields
    BY <1>1 DEF v, Like
  <2> HIDE DEF titled
  <2>4. Like(z, [titled(e) EXCEPT !.titleStack = v(e)], [titled(x) EXCEPT !.titleStack = v(e)])
    BY <2>2, Puts
  <2> QED  BY <1>1, <2>1, <2>3, <2>4
<1> QED  BY <1>2, <1>3

\* The size that an application asks for.
AskedCols(ps, e) == IF Len(ps) = 3 /\ ps[3] # 0 THEN ps[3] ELSE GetWidth(e)
AskedRows(ps, e) == IF Len(ps) = 3 /\ ps[2] # 0 THEN ps[2] ELSE GetHeight(e)
Sizing(ps) == ps # <<>> /\ ps[1] = 8

LEMMA WindowLike ==
  ASSUME NEW z, NEW e, NEW x, Like(z, e, x), NEW ps \in Seq(Nat)
  PROVE  /\ ~Sizing(ps) => Like(z, hdl_csi_xtwinops(e, ps), hdl_csi_xtwinops(x, ps))
         /\ Sizing(ps) => /\ AskedCols(ps, e) = AskedCols(ps, x) /\ AskedRows(ps, e) = AskedRows(ps, x) /\ AskedRows(ps, e) \in Int
                          /\ hdl_csi_xtwinops(e, ps) = EmuResize(e, AskedCols(ps, e), AskedRows(ps, e))
                          /\ hdl_csi_xtwinops(x, ps) = EmuResize(x, AskedCols(ps, x), AskedRows(ps, x))
<1>1. CASE ps = <<>>
  BY <1>1 DEF Sizing, hdl_csi_xtwinops
<1>2. CASE ps # <<>> /\ ps[1] # 8
  <2>2. CASE ps[1] = 22
    <3>1. \A s : hdl_csi_xtwinops(s, ps) = IF ps[2] \in {0, 2} THEN SaveWindowTitleOnStack(s) ELSE s
      BY <1>2, <2>2 DEF hdl_csi_xtwinops
    <3> QED  BY <1>2, <3>1, TitleStackLike DEF Sizing
  <2>3. CASE ps[1] = 23
    <3>1. \A s : hdl_csi_xtwinops(s, ps) = IF ps[2] \in {0, 2} THEN RestoreWindowTitleOnStack(s) ELSE s
      BY <1>2, <2>3 DEF hdl_csi_xtwinops
    <3> QED  BY <1>2, <3>1, TitleStackLike DEF Sizing
  <2>4. CASE ps[1] # 22 /\ ps[1] # 23
    <3>1. \A s : hdl_csi_xtwinops(s, ps) = s
      BY <1>2, <2>4 DEF hdl_csi_xtwinops
    <3> QED  BY <1>2, <3>1 DEF Sizing
  <2> QED  BY <2>2, <2>3, <2>4
<1>3. CASE ps # <<>> /\ ps[1] = 8
  <2>1. \A s : hdl_csi_xtwinops(s, ps) = EmuResize(s, AskedCols(ps, s), AskedRows(ps, s))
    BY <1>3 DEF hdl_csi_xtwinops, AskedCols, AskedRows
  <2>2. AskedCols(ps, e) = AskedCols(ps, x) /\ AskedRows(ps, e) = AskedRows(ps, x)
    BY SameRegion DEF AskedCols, AskedRows
  <2>3. AskedRows(ps, e) \in Int
    <3>1. GetHeight(e) \in Int
      BY SameRegion
    <3>2. Len(ps) = 3 => 2 \in 1..Len(ps)
      OBVIOUS
    <3>3. \A n \in 1..Len(ps) : ps[n] \in Nat
      OBVIOUS
    <3> QED  BY <3>1, <3>2, <3>3 DEF AskedRows
  <2> QED  BY <1>3, <2>1, <2>2, <2>3 DEF Sizing
<1> QED  BY <1>1, <1>2, <1>3

-----------------------------------------------------------------------------
(* What a parser makes.                                                    *)

\* Handlers whose first parameter is a number, and those with any number of them.
Counted == {"VPA", "VPR", "CUU", "CUD", "CUP", "CNL", "CPL", "CHT", "CBT", "SU", "SD", "IL", "DL", "REP"}
Listed  == {"SM", "RM", "privSM", "privRM", "DECSTBM", "MouseTrack", "XTWINOPS"}
MoveKinds == MoveKeys \cup TabKeys \cup {"VPA", "VPR", "CHA", "HPA", "HPR", "CNL", "CPL", "CR", "HT", "CHT"}
EditKinds == {"IND", "RI", "NEL", "DECIC", "DECDC", "ecma48_SL", "ecma48_SR", "FI", "BI", "DECALN", "SU", "SD",
              "IL", "DL", "ICH", "DCH", "ECH", "EL", "ED"}
CharsetKinds == ShiftKeys \cup {"SI", "SO", "ESC_DCS", "EGM"}
ReplyKinds == {"priDA", "secDA", "ID", "DSR", "DECRQM", "U_query", "DECRQSS", "XTGETTCAP"}
ModeKinds == {"SM", "RM", "privSM", "privRM", "DECSTBM", "SLRM_SCOSC", "SCORC", "DECSC", "DECRC", "DECSTR", "RIS",
              "DECANM", "DECKPAM", "DECKPNM", "DECSCL", "DECSCUSR", "XTMODKEYS", "MouseTrack", "FocusIn", "FocusOut",
              "U_set", "U_push", "U_pop", "SGR", "XTWINOPS"}
Kinds == MoveKinds \cup EditKinds \cup CharsetKinds \cup ReplyKinds \cup ModeKinds \cup {"Graphemes", "REP", "BEL", "OSC"}

\* A handler as a parser makes them.
IsHandler(hd) ==
  /\ hd.k \in Kinds
  /\ hd.k \in Counted => hd.ps[1] \in Int
  /\ hd.k \in Listed => hd.ps \in Seq(Nat)
  /\ hd.k = "OSC" => hd.ps[1] \in OscCommands
  /\ hd.k \in {"OSC", "XTGETTCAP"} => hd.arg \in Seq(STRING)

LEMMA PsInt == ASSUME NEW t \in ControlSequence, NEW n \in Nat \ {0}, NEW d \in Int PROVE GetPs(t, n, d) \in Int
<1>1. t.ps \in Seq(Nat)
  BY DEF ControlSequence
<1>2. \A i \in 1..Len(t.ps) : t.ps[i] \in Nat
  BY <1>1
<1>3. n <= Len(t.ps) => n \in 1..Len(t.ps)
  BY <1>1
<1> QED  BY <1>2, <1>3 DEF GetPs

LEMMA ArgsList == ASSUME NEW t \in ControlSequence PROVE CopyArgs(t) \in Seq(Nat) /\ t.ps \in Seq(Nat) /\ t.arg \in Seq(STRING)
BY DEF CopyArgs, ControlSequence

LEMMA HandlerKeeps == ASSUME NEW t \in ControlSequence, NEW v
  PROVE /\ [t EXCEPT !.ps = v].k = t.k /\ [t EXCEPT !.ps = v].ps = v /\ [t EXCEPT !.ps = v].arg = t.arg
BY DEF ControlSequence

LEMMA MadeHandler ==
  ASSUME NEW p, NEW t \in ControlSequence, HandlerOf(p, t) # Nothing
  PROVE  IsHandler(HandlerOf(p, t))
<1> DEFINE Rest == {"Graphemes", "DECRQSS", "XTGETTCAP"} \cup C0Keys \cup ShiftKeys \cup EscKeys
<1>0. 1 \in Int /\ 0 \in Int /\ 1 \in Nat \ {0} /\ 2 \in Nat \ {0}
  OBVIOUS
<1>1. CASE t.k \in MoveKeys
  <2>1. t.k # "CHT_Focus" /\ t.k \notin TabKeys /\ t.k \notin EditKeys /\ t.k \notin ScrollKeys /\ t.k # "SGR" /\ t.k # "DSR" /\ t.k # "ESC_DCS" /\ t.k # "DECRQM" /\ t.k \notin ModeKeys /\ t.k \notin OtherKeys /\ t.k # "REP" /\ t.k # "OSC" /\ t.k \notin Rest
    BY <1>1 DEF MoveKeys, TabKeys, EditKeys, ScrollKeys, ModeKeys, OtherKeys, C0Keys, ShiftKeys, EscKeys
  <2>2. HandlerOf(p, t) = [t EXCEPT !.ps = Moves(t)]
    BY <1>1, <2>1 DEF HandlerOf
  <2>3. HandlerOf(p, t).k = t.k /\ HandlerOf(p, t).ps = Moves(t) /\ HandlerOf(p, t).arg = t.arg
    BY <2>2, HandlerKeeps
  <2>4. t.k \in Kinds /\ t.k # "OSC" /\ t.k # "XTGETTCAP"
    BY <1>1 DEF Kinds, MoveKinds, EditKinds, CharsetKinds, ReplyKinds, ModeKinds, MoveKeys, TabKeys, EditKeys, ScrollKeys, ModeKeys, OtherKeys, C0Keys, ShiftKeys, EscKeys
  <2>5. (t.k \in Counted => Moves(t)[1] \in Int) /\ (t.k \in Listed => Moves(t) \in Seq(Nat))
    BY <1>0, <1>1, PsInt, ArgsList DEF Moves, MoveKeys, Counted, Listed
  <2> QED  BY <2>3, <2>4, <2>5 DEF IsHandler
<1>2. CASE t.k = "CHT_Focus"
  <2>1. t.k \notin MoveKeys /\ t.k \notin TabKeys /\ t.k \notin EditKeys /\ t.k \notin ScrollKeys /\ t.k # "SGR" /\ t.k # "DSR" /\ t.k # "ESC_DCS" /\ t.k # "DECRQM" /\ t.k \notin ModeKeys /\ t.k \notin OtherKeys /\ t.k # "REP" /\ t.k # "OSC" /\ t.k \notin Rest
    BY <1>2 DEF MoveKeys, TabKeys, EditKeys, ScrollKeys, ModeKeys, OtherKeys, C0Keys, ShiftKeys, EscKeys
  <2>2. HandlerOf(p, t) = CHT_Focus(t)
    BY <1>2, <2>1 DEF HandlerOf
  <2>3. CASE t.ps = <<>>
    <3>1. HandlerOf(p, t).k = "FocusIn"
      BY <2>2, <2>3 DEF CHT_Focus, ControlSequence
    <3> QED  BY <3>1 DEF IsHandler, Counted, Listed, Kinds, MoveKinds, EditKinds, CharsetKinds, ReplyKinds, ModeKinds
  <2>4. CASE t.ps # <<>>
    <3>1. HandlerOf(p, t).k = "CHT" /\ HandlerOf(p, t).ps[1] = GetPs(t, 1, 1)
      BY <2>2, <2>4 DEF CHT_Focus, ControlSequence
    <3> QED  BY <1>0, <3>1, PsInt DEF IsHandler, Counted, Listed, Kinds, MoveKinds, EditKinds, CharsetKinds, ReplyKinds, ModeKinds
  <2> QED  BY <2>3, <2>4
<1>3. CASE t.k \in TabKeys
  <2>1. t.k \notin MoveKeys /\ t.k # "CHT_Focus" /\ t.k \notin EditKeys /\ t.k \notin ScrollKeys /\ t.k # "SGR" /\ t.k # "DSR" /\ t.k # "ESC_DCS" /\ t.k # "DECRQM" /\ t.k \notin ModeKeys /\ t.k \notin OtherKeys /\ t.k # "REP" /\ t.k # "OSC" /\ t.k \notin Rest
    BY <1>3 DEF MoveKeys, TabKeys, EditKeys, ScrollKeys, ModeKeys, OtherKeys, C0Keys, ShiftKeys, EscKeys
  <2>2. HandlerOf(p, t) = [t EXCEPT !.ps = Tabs(t)]
    BY <1>3, <2>1 DEF HandlerOf
  <2>3. HandlerOf(p, t).k = t.k /\ HandlerOf(p, t).ps = Tabs(t) /\ HandlerOf(p, t).arg = t.arg
    BY <2>2, HandlerKeeps
  <2>4. t.k \in Kinds /\ t.k # "OSC" /\ t.k # "XTGETTCAP"
    BY <1>3 DEF Kinds, MoveKinds, EditKinds, CharsetKinds, ReplyKinds, ModeKinds, MoveKeys, TabKeys, EditKeys, ScrollKeys, ModeKeys, OtherKeys, C0Keys, ShiftKeys, EscKeys
  <2>5. (t.k \in Counted => Tabs(t)[1] \in Int) /\ (t.k \in Listed => Tabs(t) \in Seq(Nat))
    BY <1>0, <1>3, PsInt, ArgsList DEF Tabs, TabKeys, Counted, Listed
  <2> QED  BY <2>3, <2>4, <2>5 DEF IsHandler
<1>4. CASE t.k \in EditKeys
  <2>1. t.k \notin MoveKeys /\ t.k # "CHT_Focus" /\ t.k \notin TabKeys /\ t.k \notin ScrollKeys /\ t.k # "SGR" /\ t.k # "DSR" /\ t.k # "ESC_DCS" /\ t.k # "DECRQM" /\ t.k \notin ModeKeys /\ t.k \notin OtherKeys /\ t.k # "REP" /\ t.k # "OSC" /\ t.k \notin Rest
    BY <1>4 DEF MoveKeys, TabKeys, EditKeys, ScrollKeys, ModeKeys, OtherKeys, C0Keys, ShiftKeys, EscKeys
  <2>2. HandlerOf(p, t) = [t EXCEPT !.ps = Edits(t)]
    BY <1>4, <2>1 DEF HandlerOf
  <2>3. HandlerOf(p, t).k = t.k /\ HandlerOf(p, t).ps = Edits(t) /\ HandlerOf(p, t).arg = t.arg
    BY <2>2, HandlerKeeps
  <2>4. t.k \in Kinds /\ t.k # "OSC" /\ t.k # "XTGETTCAP"
    BY <1>4 DEF Kinds, MoveKinds, EditKinds, CharsetKinds, ReplyKinds, ModeKinds, MoveKeys, TabKeys, EditKeys, ScrollKeys, ModeKeys, OtherKeys, C0Keys, ShiftKeys, EscKeys
  <2>5. (t.k \in Counted => Edits(t)[1] \in Int) /\ (t.k \in Listed => Edits(t) \in Seq(Nat))
    BY <1>0, <1>4, PsInt, ArgsList DEF Edits, EditKeys, Counted, Listed
  <2> QED  BY <2>3, <2>4, <2>5 DEF IsHandler
<1>5. CASE t.k \in ScrollKeys
  <2>1. t.k \notin MoveKeys /\ t.k # "CHT_Focus" /\ t.k \notin TabKeys /\ t.k \notin EditKeys /\ t.k # "SGR" /\ t.k # "DSR" /\ t.k # "ESC_DCS" /\ t.k # "DECRQM" /\ t.k \notin ModeKeys /\ t.k \notin OtherKeys /\ t.k # "REP" /\ t.k # "OSC" /\ t.k \notin Rest
    BY <1>5 DEF MoveKeys, TabKeys, EditKeys, ScrollKeys, ModeKeys, OtherKeys, C0Keys, ShiftKeys, EscKeys
  <2>2. HandlerOf(p, t) = [t EXCEPT !.ps = Scrolls(t)]
    BY <1>5, <2>1 DEF HandlerOf
  <2>3. HandlerOf(p, t).k = t.k /\ HandlerOf(p, t).ps = Scrolls(t) /\ HandlerOf(p, t).arg = t.arg
    BY <2>2, HandlerKeeps
  <2>4. t.k \in Kinds /\ t.k # "OSC" /\ t.k # "XTGETTCAP"
    BY <1>5 DEF Kinds, MoveKinds, EditKinds, CharsetKinds, ReplyKinds, ModeKinds, MoveKeys, TabKeys, EditKeys, ScrollKeys, ModeKeys, OtherKeys, C0Keys, ShiftKeys, EscKeys
  <2>5. (t.k \in Counted => Scrolls(t)[1] \in Int) /\ (t.k \in Listed => Scrolls(t) \in Seq(Nat))
    BY <1>0, <1>5, PsInt, ArgsList DEF Scrolls, ScrollKeys, Counted, Listed
  <2> QED  BY <2>3, <2>4, <2>5 DEF IsHandler
<1>6. CASE t.k = "SGR"
  <2>1. t.k \notin MoveKeys /\ t.k # "CHT_Focus" /\ t.k \notin TabKeys /\ t.k \notin EditKeys /\ t.k \notin ScrollKeys /\ t.k # "DSR" /\ t.k # "ESC_DCS" /\ t.k # "DECRQM" /\ t.k \notin ModeKeys /\ t.k \notin OtherKeys /\ t.k # "REP" /\ t.k # "OSC" /\ t.k \notin Rest
    BY <1>6 DEF MoveKeys, TabKeys, EditKeys, ScrollKeys, ModeKeys, OtherKeys, C0Keys, ShiftKeys, EscKeys
  <2>2. HandlerOf(p, t) = [t EXCEPT !.ps = SGR(t)]
    BY <1>6, <2>1 DEF HandlerOf
  <2>3. HandlerOf(p, t).k = t.k /\ HandlerOf(p, t).ps = SGR(t) /\ HandlerOf(p, t).arg = t.arg
    BY <2>2, HandlerKeeps
  <2>4. t.k \in Kinds /\ t.k # "OSC" /\ t.k # "XTGETTCAP"
    BY <1>6 DEF Kinds, MoveKinds, EditKinds, CharsetKinds, ReplyKinds, ModeKinds, MoveKeys, TabKeys, EditKeys, ScrollKeys, ModeKeys, OtherKeys, C0Keys, ShiftKeys, EscKeys
  <2>5. (t.k \in Counted => SGR(t)[1] \in Int) /\ (t.k \in Listed => SGR(t) \in Seq(Nat))
    BY <1>0, <1>6, PsInt, ArgsList DEF SGR, Counted, Listed
  <2> QED  BY <2>3, <2>4, <2>5 DEF IsHandler
<1>7. CASE t.k = "DSR"
  <2>1. t.k \notin MoveKeys /\ t.k # "CHT_Focus" /\ t.k \notin TabKeys /\ t.k \notin EditKeys /\ t.k \notin ScrollKeys /\ t.k # "SGR" /\ t.k # "ESC_DCS" /\ t.k # "DECRQM" /\ t.k \notin ModeKeys /\ t.k \notin OtherKeys /\ t.k # "REP" /\ t.k # "OSC" /\ t.k \notin Rest
    BY <1>7 DEF MoveKeys, TabKeys, EditKeys, ScrollKeys, ModeKeys, OtherKeys, C0Keys, ShiftKeys, EscKeys
  <2>2. HandlerOf(p, t) = [t EXCEPT !.ps = DSR(t)]
    BY <1>7, <2>1 DEF HandlerOf
  <2>3. HandlerOf(p, t).k = t.k /\ HandlerOf(p, t).ps = DSR(t) /\ HandlerOf(p, t).arg = t.arg
    BY <2>2, HandlerKeeps
  <2>4. t.k \in Kinds /\ t.k # "OSC" /\ t.k # "XTGETTCAP"
    BY <1>7 DEF Kinds, MoveKinds, EditKinds, CharsetKinds, ReplyKinds, ModeKinds, MoveKeys, TabKeys, EditKeys, ScrollKeys, ModeKeys, OtherKeys, C0Keys, ShiftKeys, EscKeys
  <2>5. (t.k \in Counted => DSR(t)[1] \in Int) /\ (t.k \in Listed => DSR(t) \in Seq(Nat))
    BY <1>0, <1>7, PsInt, ArgsList DEF DSR, Counted, Listed
  <2> QED  BY <2>3, <2>4, <2>5 DEF IsHandler
<1>8. CASE t.k = "ESC_DCS"
  <2>1. t.k \notin MoveKeys /\ t.k # "CHT_Focus" /\ t.k \notin TabKeys /\ t.k \notin EditKeys /\ t.k \notin ScrollKeys /\ t.k # "SGR" /\ t.k # "DSR" /\ t.k # "DECRQM" /\ t.k \notin ModeKeys /\ t.k \notin OtherKeys /\ t.k # "REP" /\ t.k # "OSC" /\ t.k \notin Rest
    BY <1>8 DEF MoveKeys, TabKeys, EditKeys, ScrollKeys, ModeKeys, OtherKeys, C0Keys, ShiftKeys, EscKeys
  <2>2. HandlerOf(p, t) = ESC_DCS(t)
    BY <1>8, <2>1 DEF HandlerOf
  <2>3. HandlerOf(p, t).k = "ESC_DCS"
    BY <1>8, <2>2 DEF ESC_DCS, ControlSequence
  <2> QED  BY <2>3 DEF IsHandler, Counted, Listed, Kinds, MoveKinds, EditKinds, CharsetKinds, ReplyKinds, ModeKinds
<1>9. CASE t.k = "DECRQM"
  <2>1. t.k \notin MoveKeys /\ t.k # "CHT_Focus" /\ t.k \notin TabKeys /\ t.k \notin EditKeys /\ t.k \notin ScrollKeys /\ t.k # "SGR" /\ t.k # "DSR" /\ t.k # "ESC_DCS" /\ t.k \notin ModeKeys /\ t.k \notin OtherKeys /\ t.k # "REP" /\ t.k # "OSC" /\ t.k \notin Rest
    BY <1>9 DEF MoveKeys, TabKeys, EditKeys, ScrollKeys, ModeKeys, OtherKeys, C0Keys, ShiftKeys, EscKeys
  <2>2. HandlerOf(p, t) = IF t.ps = <<>> \/ t.ps[1] # 2026 THEN Nothing ELSE [t EXCEPT !.ps = CopyArgs(t)]
    BY <1>9, <2>1 DEF HandlerOf
  <2>3. HandlerOf(p, t).k = "DECRQM"
    BY <1>9, <2>2, HandlerKeeps
  <2> QED  BY <2>3 DEF IsHandler, Counted, Listed, Kinds, MoveKinds, EditKinds, CharsetKinds, ReplyKinds, ModeKinds
<1>10. CASE t.k \in ModeKeys
  <2>1. t.k \notin MoveKeys /\ t.k # "CHT_Focus" /\ t.k \notin TabKeys /\ t.k \notin EditKeys /\ t.k \notin ScrollKeys /\ t.k # "SGR" /\ t.k # "DSR" /\ t.k # "ESC_DCS" /\ t.k # "DECRQM" /\ t.k \notin OtherKeys /\ t.k # "REP" /\ t.k # "OSC" /\ t.k \notin Rest
    BY <1>10 DEF MoveKeys, TabKeys, EditKeys, ScrollKeys, ModeKeys, OtherKeys, C0Keys, ShiftKeys, EscKeys
  <2>2. HandlerOf(p, t) = [t EXCEPT !.ps = Modes(t)]
    BY <1>10, <2>1 DEF HandlerOf
  <2>3. HandlerOf(p, t).k = t.k /\ HandlerOf(p, t).ps = Modes(t) /\ HandlerOf(p, t).arg = t.arg
    BY <2>2, HandlerKeeps
  <2>4. t.k \in Kinds /\ t.k # "OSC" /\ t.k # "XTGETTCAP"
    BY <1>10 DEF Kinds, MoveKinds, EditKinds, CharsetKinds, ReplyKinds, ModeKinds, MoveKeys, TabKeys, EditKeys, ScrollKeys, ModeKeys, OtherKeys, C0Keys, ShiftKeys, EscKeys
  <2>5. (t.k \in Counted => Modes(t)[1] \in Int) /\ (t.k \in Listed => Modes(t) \in Seq(Nat))
    BY <1>0, <1>10, PsInt, ArgsList DEF Modes, ModeKeys, Counted, Listed
  <2> QED  BY <2>3, <2>4, <2>5 DEF IsHandler
<1>11. CASE t.k \in OtherKeys
  <2>1. t.k \notin MoveKeys /\ t.k # "CHT_Focus" /\ t.k \notin TabKeys /\ t.k \notin EditKeys /\ t.k \notin ScrollKeys /\ t.k # "SGR" /\ t.k # "DSR" /\ t.k # "ESC_DCS" /\ t.k # "DECRQM" /\ t.k \notin ModeKeys /\ t.k # "REP" /\ t.k # "OSC" /\ t.k \notin Rest
    BY <1>11 DEF MoveKeys, TabKeys, EditKeys, ScrollKeys, ModeKeys, OtherKeys, C0Keys, ShiftKeys, EscKeys
  <2>2. HandlerOf(p, t) = [t EXCEPT !.ps = Others(t)]
    BY <1>11, <2>1 DEF HandlerOf
  <2>3. HandlerOf(p, t).k = t.k /\ HandlerOf(p, t).ps = Others(t) /\ HandlerOf(p, t).arg = t.arg
    BY <2>2, HandlerKeeps
  <2>4. t.k \in Kinds /\ t.k # "OSC" /\ t.k # "XTGETTCAP"
    BY <1>11 DEF Kinds, MoveKinds, EditKinds, CharsetKinds, ReplyKinds, ModeKinds, MoveKeys, TabKeys, EditKeys, ScrollKeys, ModeKeys, OtherKeys, C0Keys, ShiftKeys, EscKeys
  <2>5. (t.k \in Counted => Others(t)[1] \in Int) /\ (t.k \in Listed => Others(t) \in Seq(Nat))
    BY <1>0, <1>11, PsInt, ArgsList DEF Others, OtherKeys, Counted, Listed
  <2> QED  BY <2>3, <2>4, <2>5 DEF IsHandler
<1>12. CASE t.k = "REP"
  <2>1. t.k \notin MoveKeys /\ t.k # "CHT_Focus" /\ t.k \notin TabKeys /\ t.k \notin EditKeys /\ t.k \notin ScrollKeys /\ t.k # "SGR" /\ t.k # "DSR" /\ t.k # "ESC_DCS" /\ t.k # "DECRQM" /\ t.k \notin ModeKeys /\ t.k \notin OtherKeys /\ t.k # "OSC" /\ t.k \notin Rest
    BY <1>12 DEF MoveKeys, TabKeys, EditKeys, ScrollKeys, ModeKeys, OtherKeys, C0Keys, ShiftKeys, EscKeys
  <2>2. HandlerOf(p, t) = [t EXCEPT !.ps = <<GetPs(t, 1, 1)>>, !.chs = p.lastChs]
    BY <1>12, <2>1 DEF HandlerOf
  <2>3. HandlerOf(p, t).k = "REP" /\ HandlerOf(p, t).ps[1] = GetPs(t, 1, 1)
    BY <1>12, <2>2 DEF ControlSequence
  <2> QED  BY <1>0, <2>3, PsInt DEF IsHandler, Counted, Listed, Kinds, MoveKinds, EditKinds, CharsetKinds, ReplyKinds, ModeKinds
<1>13. CASE t.k = "OSC"
  <2>1. t.k \notin MoveKeys /\ t.k # "CHT_Focus" /\ t.k \notin TabKeys /\ t.k \notin EditKeys /\ t.k \notin ScrollKeys /\ t.k # "SGR" /\ t.k # "DSR" /\ t.k # "ESC_DCS" /\ t.k # "DECRQM" /\ t.k \notin ModeKeys /\ t.k \notin OtherKeys /\ t.k # "REP" /\ t.k \notin Rest
    BY <1>13 DEF MoveKeys, TabKeys, EditKeys, ScrollKeys, ModeKeys, OtherKeys, C0Keys, ShiftKeys, EscKeys
  <2>2. HandlerOf(p, t) = IF t.ps[1] \in OscCommands THEN t ELSE Nothing
    BY <1>13, <2>1 DEF HandlerOf
  <2>3. HandlerOf(p, t) = t /\ t.ps[1] \in OscCommands
    BY <2>2
  <2> QED  BY <1>13, <2>3, ArgsList DEF IsHandler, Counted, Listed, Kinds, MoveKinds, EditKinds, CharsetKinds, ReplyKinds, ModeKinds
<1>14. CASE t.k \in Rest
  <2>1. t.k \notin MoveKeys /\ t.k # "CHT_Focus" /\ t.k \notin TabKeys /\ t.k \notin EditKeys /\ t.k \notin ScrollKeys /\ t.k # "SGR" /\ t.k # "DSR" /\ t.k # "ESC_DCS" /\ t.k # "DECRQM" /\ t.k \notin ModeKeys /\ t.k \notin OtherKeys /\ t.k # "REP" /\ t.k # "OSC"
    BY <1>14 DEF MoveKeys, TabKeys, EditKeys, ScrollKeys, ModeKeys, OtherKeys, C0Keys, ShiftKeys, EscKeys
  <2>2. HandlerOf(p, t) = t
    BY <1>14, <2>1 DEF HandlerOf
  <2>3. t.k \in Kinds /\ t.k \notin Counted /\ t.k \notin Listed /\ t.k # "OSC"
    BY <1>14 DEF Rest, Counted, Listed, Kinds, MoveKinds, EditKinds, CharsetKinds, ReplyKinds, ModeKinds, MoveKeys, TabKeys, C0Keys, ShiftKeys, EscKeys
  <2> QED  BY <2>2, <2>3, ArgsList DEF IsHandler
<1>15. CASE t.k \notin MoveKeys /\ t.k # "CHT_Focus" /\ t.k \notin TabKeys /\ t.k \notin EditKeys /\ t.k \notin ScrollKeys /\ t.k # "SGR" /\ t.k # "DSR" /\ t.k # "ESC_DCS" /\ t.k # "DECRQM" /\ t.k \notin ModeKeys /\ t.k \notin OtherKeys /\ t.k # "REP" /\ t.k # "OSC" /\ t.k \notin Rest
  BY <1>15 DEF HandlerOf
<1> QED  BY <1>1, <1>2, <1>3, <1>4, <1>5, <1>6, <1>7, <1>8, <1>9, <1>10, <1>11, <1>12, <1>13, <1>14, <1>15

-----------------------------------------------------------------------------
(* Every handler.                                                          *)

LEMMA MoveLike ==
  ASSUME NEW z, NEW e, NEW x, Like(z, e, x), NEW k \in MoveKinds, NEW n, k \in Counted => n[1] \in Int
  PROVE  Like(z, HandleMove(e, k, n), HandleMove(x, k, n))
<1>1. CASE k = "CUU"
  <2>1. \A s : HandleMove(s, k, n) = hdl_csi_cuu(s, n[1])
    BY <1>1 DEF HandleMove
  <2> QED  BY <1>1, <2>1, VerticalLike DEF Counted
<1>2. CASE k = "CUD"
  <2>1. \A s : HandleMove(s, k, n) = hdl_csi_cud(s, n[1])
    BY <1>2 DEF HandleMove
  <2> QED  BY <1>2, <2>1, VerticalLike DEF Counted
<1>3. CASE k = "CUF"
  <2>1. \A s : HandleMove(s, k, n) = hdl_csi_cuf(s, n[1])
    BY <1>3 DEF HandleMove
  <2> QED  BY <1>3, <2>1, HorizontalLike
<1>4. CASE k = "CUB"
  <2>1. \A s : HandleMove(s, k, n) = hdl_csi_cub(s, n[1])
    BY <1>4 DEF HandleMove
  <2> QED  BY <1>4, <2>1, HorizontalLike
<1>5. CASE k = "CUP"
  <2>1. \A s : HandleMove(s, k, n) = hdl_csi_cup(s, n[1], n[2])
    BY <1>5 DEF HandleMove
  <2> QED  BY <1>5, <2>1, CupLike DEF Counted
<1>6. CASE k = "VPA"
  <2>1. \A s : HandleMove(s, k, n) = hdl_csi_vpa(s, n[1])
    BY <1>6 DEF HandleMove
  <2> QED  BY <1>6, <2>1, VerticalLike DEF Counted
<1>7. CASE k = "VPR"
  <2>1. \A s : HandleMove(s, k, n) = hdl_csi_vpr(s, n[1])
    BY <1>7 DEF HandleMove
  <2> QED  BY <1>7, <2>1, VerticalLike DEF Counted
<1>8. CASE k = "CHA"
  <2>1. \A s : HandleMove(s, k, n) = hdl_csi_cha(s, n[1])
    BY <1>8 DEF HandleMove
  <2> QED  BY <1>8, <2>1, HorizontalLike
<1>9. CASE k = "HPA"
  <2>1. \A s : HandleMove(s, k, n) = hdl_csi_hpa(s, n[1])
    BY <1>9 DEF HandleMove
  <2> QED  BY <1>9, <2>1, HorizontalLike
<1>10. CASE k = "HPR"
  <2>1. \A s : HandleMove(s, k, n) = hdl_csi_hpr(s, n[1])
    BY <1>10 DEF HandleMove
  <2> QED  BY <1>10, <2>1, HorizontalLike
<1>11. CASE k = "CNL"
  <2>1. \A s : HandleMove(s, k, n) = hdl_csi_cnl(s, n[1])
    BY <1>11 DEF HandleMove
  <2> QED  BY <1>11, <2>1, LinesLike DEF Counted
<1>12. CASE k = "CPL"
  <2>1. \A s : HandleMove(s, k, n) = hdl_csi_cpl(s, n[1])
    BY <1>12 DEF HandleMove
  <2> QED  BY <1>12, <2>1, LinesLike DEF Counted
<1>13. CASE k = "CR"
  <2>1. \A s : HandleMove(s, k, n) = hdl_c0_cr(s)
    BY <1>13 DEF HandleMove
  <2> QED  BY <1>13, <2>1, HorizontalLike
<1>14. CASE k = "HT"
  <2>1. \A s : HandleMove(s, k, n) = hdl_c0_ht(s)
    BY <1>14 DEF HandleMove
  <2> QED  BY <1>14, <2>1, HtLike
<1>15. CASE k = "HTS"
  <2>1. \A s : HandleMove(s, k, n) = hdl_esc_hts(s)
    BY <1>15 DEF HandleMove
  <2> QED  BY <1>15, <2>1, TabStopsLike
<1>16. CASE k = "TBC"
  <2>1. \A s : HandleMove(s, k, n) = hdl_csi_tbc(s, n[1])
    BY <1>16 DEF HandleMove
  <2> QED  BY <1>16, <2>1, TabStopsLike
<1>17. CASE k = "CHT"
  <2>1. \A s : HandleMove(s, k, n) = hdl_csi_cht(s, n[1])
    BY <1>17 DEF HandleMove
  <2> QED  BY <1>17, <2>1, ChtLike DEF Counted
<1>18. CASE k = "CBT"
  <2>1. \A s : HandleMove(s, k, n) = hdl_csi_cbt(s, n[1])
    BY <1>18 DEF HandleMove
  <2> QED  BY <1>18, <2>1, ChtLike DEF Counted
<1> QED  BY <1>1, <1>2, <1>3, <1>4, <1>5, <1>6, <1>7, <1>8, <1>9, <1>10, <1>11, <1>12, <1>13, <1>14, <1>15, <1>16, <1>17, <1>18 DEF MoveKinds, MoveKeys, TabKeys

LEMMA EditLike ==
  ASSUME NEW z, NEW e, NEW x, Like(z, e, x), NEW k \in EditKinds, NEW n, k \in Counted => n[1] \in Int
  PROVE  Like(z, HandleEdit(e, k, n), HandleEdit(x, k, n))
<1>1. CASE k = "IND"
  <2>1. \A s : HandleEdit(s, k, n) = hdl_esc_ind(s)
    BY <1>1 DEF HandleEdit
  <2> QED  BY <1>1, <2>1, IndLike
<1>2. CASE k = "RI"
  <2>1. \A s : HandleEdit(s, k, n) = hdl_esc_ri(s)
    BY <1>2 DEF HandleEdit
  <2> QED  BY <1>2, <2>1, IndLike
<1>3. CASE k = "NEL"
  <2>1. \A s : HandleEdit(s, k, n) = hdl_esc_nel(s)
    BY <1>3 DEF HandleEdit
  <2> QED  BY <1>3, <2>1, LfLike
<1>4. CASE k = "SU"
  <2>1. \A s : HandleEdit(s, k, n) = hdl_csi_su(s, n[1])
    BY <1>4 DEF HandleEdit
  <2> QED  BY <1>4, <2>1, SuSdLike DEF Counted
<1>5. CASE k = "SD"
  <2>1. \A s : HandleEdit(s, k, n) = hdl_csi_sd(s, n[1])
    BY <1>5 DEF HandleEdit
  <2> QED  BY <1>5, <2>1, SuSdLike DEF Counted
<1>6. CASE k = "IL"
  <2>1. \A s : HandleEdit(s, k, n) = hdl_csi_il(s, n[1])
    BY <1>6 DEF HandleEdit
  <2> QED  BY <1>6, <2>1, LineEditLike DEF Counted
<1>7. CASE k = "DL"
  <2>1. \A s : HandleEdit(s, k, n) = hdl_csi_dl(s, n[1])
    BY <1>7 DEF HandleEdit
  <2> QED  BY <1>7, <2>1, LineEditLike DEF Counted
<1>8. CASE k = "DECIC"
  <2>1. \A s : HandleEdit(s, k, n) = hdl_csi_decic(s, n[1])
    BY <1>8 DEF HandleEdit
  <2> QED  BY <1>8, <2>1, ColEditLike
<1>9. CASE k = "DECDC"
  <2>1. \A s : HandleEdit(s, k, n) = hdl_csi_decdc(s, n[1])
    BY <1>9 DEF HandleEdit
  <2> QED  BY <1>9, <2>1, ColEditLike
<1>10. CASE k = "ecma48_SL"
  <2>1. \A s : HandleEdit(s, k, n) = hdl_csi_ecma48_SL(s, n[1])
    BY <1>10 DEF HandleEdit
  <2> QED  BY <1>10, <2>1, ColEditLike
<1>11. CASE k = "ecma48_SR"
  <2>1. \A s : HandleEdit(s, k, n) = hdl_csi_ecma48_SR(s, n[1])
    BY <1>11 DEF HandleEdit
  <2> QED  BY <1>11, <2>1, ColEditLike
<1>12. CASE k = "FI"
  <2>1. \A s : HandleEdit(s, k, n) = hdl_esc_fi(s)
    BY <1>12 DEF HandleEdit
  <2> QED  BY <1>12, <2>1, IndexColsLike
<1>13. CASE k = "BI"
  <2>1. \A s : HandleEdit(s, k, n) = hdl_esc_bi(s)
    BY <1>13 DEF HandleEdit
  <2> QED  BY <1>13, <2>1, IndexColsLike
<1>14. CASE k = "ICH"
  <2>1. \A s : HandleEdit(s, k, n) = hdl_csi_ich(s, n[1])
    BY <1>14 DEF HandleEdit
  <2> QED  BY <1>14, <2>1, IchLike
<1>15. CASE k = "DCH"
  <2>1. \A s : HandleEdit(s, k, n) = hdl_csi_dch(s, n[1])
    BY <1>15 DEF HandleEdit
  <2> QED  BY <1>15, <2>1, DchLike
<1>16. CASE k = "ECH"
  <2>1. \A s : HandleEdit(s, k, n) = hdl_csi_ech(s, n[1])
    BY <1>16 DEF HandleEdit
  <2> QED  BY <1>16, <2>1, DchLike
<1>17. CASE k = "EL"
  <2>1. \A s : HandleEdit(s, k, n) = hdl_csi_el(s, n[1])
    BY <1>17 DEF HandleEdit
  <2> QED  BY <1>17, <2>1, ElLike
<1>18. CASE k = "ED"
  <2>1. \A s : HandleEdit(s, k, n) = hdl_csi_ed(s, n[1])
    BY <1>18 DEF HandleEdit
  <2> QED  BY <1>18, <2>1, EdLike
<1>19. CASE k = "DECALN"
  <2>1. \A s : HandleEdit(s, k, n) = hdl_esc_decaln(s)
    BY <1>19 DEF HandleEdit
  <2> QED  BY <1>19, <2>1, DecalnLike
<1> QED  BY <1>1, <1>2, <1>3, <1>4, <1>5, <1>6, <1>7, <1>8, <1>9, <1>10, <1>11, <1>12, <1>13, <1>14, <1>15, <1>16, <1>17, <1>18, <1>19 DEF EditKinds

LEMMA ModeLike ==
  ASSUME NEW z, NEW e, NEW x, Like(z, e, x), NEW hd, IsHandler(hd), hd.k \in ModeKinds \ {"XTWINOPS"}
  PROVE  Like(z, HandleMode(e, hd), HandleMode(x, hd))
<1>1. CASE hd.k = "SM"
  <2>1. \A s : HandleMode(s, hd) = hdl_csi_sm(s, hd.ps)
    BY <1>1 DEF HandleMode
  <2> QED  BY <1>1, <2>1, ModesLike DEF IsHandler, Listed
<1>2. CASE hd.k = "RM"
  <2>1. \A s : HandleMode(s, hd) = hdl_csi_rm(s, hd.ps)
    BY <1>2 DEF HandleMode
  <2> QED  BY <1>2, <2>1, ModesLike DEF IsHandler, Listed
<1>3. CASE hd.k = "privSM"
  <2>1. \A s : HandleMode(s, hd) = hdl_csi_privSM(s, hd.ps)
    BY <1>3 DEF HandleMode
  <2> QED  BY <1>3, <2>1, ModesLike DEF IsHandler, Listed
<1>4. CASE hd.k = "privRM"
  <2>1. \A s : HandleMode(s, hd) = hdl_csi_privRM(s, hd.ps)
    BY <1>4 DEF HandleMode
  <2> QED  BY <1>4, <2>1, ModesLike DEF IsHandler, Listed
<1>5. CASE hd.k = "DECSTBM"
  <2>1. \A s : HandleMode(s, hd) = hdl_csi_decstbm(s, hd.ps)
    BY <1>5 DEF HandleMode
  <2> QED  BY <1>5, <2>1, StbmLike DEF IsHandler, Listed
<1>6. CASE hd.k = "SLRM_SCOSC"
  <2>1. \A s : HandleMode(s, hd) = hdl_csi_slrm_scosc(s, hd.ps)
    BY <1>6 DEF HandleMode
  <2> QED  BY <1>6, <2>1, SlrmLike
<1>7. CASE hd.k = "SCORC"
  <2>1. \A s : HandleMode(s, hd) = hdl_csi_scorc(s)
    BY <1>7 DEF HandleMode
  <2> QED  BY <1>7, <2>1, RestoreScoLike
<1>8. CASE hd.k = "DECSC"
  <2>1. \A s : HandleMode(s, hd) = hdl_esc_decsc(s)
    BY <1>8 DEF HandleMode
  <2> QED  BY <1>8, <2>1, SaveLike
<1>9. CASE hd.k = "DECRC"
  <2>1. \A s : HandleMode(s, hd) = hdl_esc_decrc(s)
    BY <1>9 DEF HandleMode
  <2> QED  BY <1>9, <2>1, RestoreLike
<1>10. CASE hd.k = "DECSTR"
  <2>1. \A s : HandleMode(s, hd) = hdl_csi_decstr(s)
    BY <1>10 DEF HandleMode
  <2> QED  BY <1>10, <2>1, SettingLike
<1>11. CASE hd.k = "RIS"
  <2>1. \A s : HandleMode(s, hd) = hdl_esc_ris(s)
    BY <1>11 DEF HandleMode
  <2> QED  BY <1>11, <2>1, ResetTerminalLike DEF hdl_esc_ris
<1>12. CASE hd.k = "DECANM"
  <2>1. \A s : HandleMode(s, hd) = hdl_esc_decanm(s, CHOOSE cl \in Levels(hd) : TRUE)
    BY <1>12 DEF HandleMode
  <2> QED  BY <1>12, <2>1, SettingLike
<1>13. CASE hd.k = "DECKPAM"
  <2>1. \A s : HandleMode(s, hd) = hdl_esc_deckpam(s)
    BY <1>13 DEF HandleMode
  <2> QED  BY <1>13, <2>1, SetLike DEF hdl_esc_deckpam
<1>14. CASE hd.k = "DECKPNM"
  <2>1. \A s : HandleMode(s, hd) = hdl_esc_deckpnm(s)
    BY <1>14 DEF HandleMode
  <2> QED  BY <1>14, <2>1, SetLike DEF hdl_esc_deckpnm
<1>15. CASE hd.k = "DECSCL"
  <2>1. \A s : HandleMode(s, hd) = hdl_csi_decscl(s, hd)
    BY <1>15 DEF HandleMode
  <2> QED  BY <1>15, <2>1, SettingLike
<1>16. CASE hd.k = "DECSCUSR"
  <2>1. \A s : HandleMode(s, hd) = hdl_csi_decscusr(s, hd.ps[1])
    BY <1>16 DEF HandleMode
  <2> QED  BY <1>16, <2>1, CursorStyleLike
<1>17. CASE hd.k = "XTMODKEYS"
  <2>1. \A s : HandleMode(s, hd) = hdl_csi_xtmodkeys(s, hd.ps)
    BY <1>17 DEF HandleMode
  <2> QED  BY <1>17, <2>1, SettingLike
<1>18. CASE hd.k = "MouseTrack"
  <2>1. \A s : HandleMode(s, hd) = hdl_csi_mousetrack(s, hd.arg = <<"m">>, hd.ps)
    BY <1>18 DEF HandleMode
  <2> QED  BY <1>18, <2>1, TrackLike DEF IsHandler, Listed
<1>19. CASE hd.k = "FocusIn"
  <2>1. \A s : HandleMode(s, hd) = hdl_csi_focus(s, TRUE)
    BY <1>19 DEF HandleMode
  <2> QED  BY <1>19, <2>1, SettingLike
<1>20. CASE hd.k = "FocusOut"
  <2>1. \A s : HandleMode(s, hd) = hdl_csi_focus(s, FALSE)
    BY <1>20 DEF HandleMode
  <2> QED  BY <1>20, <2>1, SettingLike
<1>21. CASE hd.k = "U_set"
  <2>1. \A s : HandleMode(s, hd) = hdl_csi_u_set(s, Range(hd.arg), hd.ps[1])
    BY <1>21 DEF HandleMode
  <2> QED  BY <1>21, <2>1, SymLike, KittyLike, BothLike
<1>22. CASE hd.k = "U_push"
  <2>1. \A s : HandleMode(s, hd) = hdl_csi_u_push(s, Range(hd.arg))
    BY <1>22 DEF HandleMode
  <2> QED  BY <1>22, <2>1, SymLike, KittyLike, BothLike
<1>23. CASE hd.k = "U_pop"
  <2>1. \A s : HandleMode(s, hd) = hdl_csi_u_pop(s, hd.ps[1])
    BY <1>23 DEF HandleMode
  <2> QED  BY <1>23, <2>1, SymLike, KittyLike, BothLike
<1>24. CASE hd.k = "SGR"
  <2>1. \A s : HandleMode(s, hd) = hdl_csi_sgr(s, hd.ps, hd.arg)
    BY <1>24 DEF HandleMode
  <2> QED  BY <1>24, <2>1, SgrLike
<1> QED  BY <1>1, <1>2, <1>3, <1>4, <1>5, <1>6, <1>7, <1>8, <1>9, <1>10, <1>11, <1>12, <1>13, <1>14, <1>15, <1>16, <1>17, <1>18, <1>19, <1>20, <1>21, <1>22, <1>23, <1>24 DEF ModeKinds

LEMMA AnswerLike ==
  ASSUME NEW z, NEW e, NEW x, Like(z, e, x), NEW hd, IsHandler(hd), hd.k \in ReplyKinds
  PROVE  /\ Like(z, HandleReply(e, hd), HandleReply(x, hd))
         /\ hd.k # "DECRQSS" \/ HandleReply(e, hd).compatLevel = e.compatLevel => Like(z, HandleReply(e, hd), x)
<1>1. CASE hd.k = "DECRQSS"
  <2>1. \A s : HandleReply(s, hd) = hdl_dcs_decrqss(s, hd.arg)
    BY <1>1 DEF HandleReply
  <2> QED  BY <1>1, <2>1, RequestLike
<1>2. CASE hd.k # "DECRQSS"
  <2>1. ASSUME NEW s, NEW y, Like(z, s, y) PROVE Like(z, HandleReply(s, hd), y)
    <3>1. CASE hd.k \in {"priDA", "secDA", "ID", "DECRQM"}
      BY <2>1, <3>1, ReportLike DEF HandleReply
    <3>2. CASE hd.k \in {"DSR", "U_query"}
      BY <2>1, <3>2, ReportLike, KittyLike DEF HandleReply
    <3>3. CASE hd.k = "XTGETTCAP"
      <4>1. HandleReply(s, hd) = hdl_dcs_xtgettcap(s, hd.arg) /\ hd.arg \in Seq(STRING)
        BY <3>3 DEF HandleReply, IsHandler
      <4> QED  BY <2>1, <4>1, CapsLike
    <3> QED  BY <1>2, <3>1, <3>2, <3>3 DEF ReplyKinds
  <2>2. Like(z, HandleReply(e, hd), x) /\ Like(z, HandleReply(x, hd), e)
    BY <2>1, SymLike
  <2> QED  BY <2>2, BothLike
<1> QED  BY <1>1, <1>2

\* A handler that sets no size treats alike what is alike.
LEMMA HandleLikeAt ==
  ASSUME NEW z, NEW e, NEW x, Like(z, e, x), NEW hd, IsHandler(hd), hd.k # "XTWINOPS"
  PROVE  Like(z, Handle(e, hd), Handle(x, hd))
<1> DEFINE M == MoveKeys \cup TabKeys \cup {"VPA", "VPR", "CHA", "HPA", "HPR", "CNL", "CPL", "CR", "HT", "CHT"}
           E == {"IND", "RI", "NEL", "DECIC", "DECDC", "ecma48_SL", "ecma48_SR", "FI", "BI", "DECALN", "SU", "SD",
                 "IL", "DL", "ICH", "DCH", "ECH", "EL", "ED"}
           C == ShiftKeys \cup {"SI", "SO", "ESC_DCS", "EGM"}
           R == {"priDA", "secDA", "ID", "DSR", "DECRQM", "U_query", "DECRQSS", "XTGETTCAP"}
           G == {"Graphemes", "REP", "BEL", "OSC"}
<1>1. M = MoveKinds /\ E = EditKinds /\ C = CharsetKinds /\ R = ReplyKinds
  BY DEF MoveKinds, EditKinds, CharsetKinds, ReplyKinds
<1>2. /\ hd.k \in M => hd.k \notin E /\ hd.k \notin C /\ hd.k \notin R /\ hd.k \notin G
      /\ hd.k \in E => hd.k \notin C /\ hd.k \notin R /\ hd.k \notin G
      /\ hd.k \in C => hd.k \notin R /\ hd.k \notin G
      /\ hd.k \in R => hd.k \notin G
      /\ hd.k \in ModeKinds => hd.k \notin M /\ hd.k \notin E /\ hd.k \notin C /\ hd.k \notin R /\ hd.k \notin G
  BY DEF ModeKinds, MoveKeys, TabKeys, ShiftKeys
<1>3. \A s : Handle(s, hd) =
        CASE hd.k = "Graphemes" -> hdl_graphemes(s, hd.chs)
          [] hd.k = "REP" -> hdl_csi_rep(s, hd.ps[1], hd.chs)
          [] hd.k = "BEL" -> hdl_c0_bel(s)
          [] hd.k = "OSC" -> hdl_osc(s, hd.ps[1], hd.arg)
          [] hd.k \in M -> HandleMove(s, hd.k, hd.ps)
          [] hd.k \in E -> HandleEdit(s, hd.k, hd.ps)
          [] hd.k \in C -> HandleCharset(s, hd.k, hd.ps, hd.arg)
          [] hd.k \in R -> HandleReply(s, hd)
          [] OTHER -> HandleMode(s, hd)
  BY DEF Handle
<1> HIDE DEF M, E, C, R
<1>4. CASE hd.k \in M
  <2>1. \A s : Handle(s, hd) = HandleMove(s, hd.k, hd.ps)
    BY <1>2, <1>3, <1>4
  <2> QED  BY <1>1, <1>4, <2>1, MoveLike DEF IsHandler
<1>5. CASE hd.k \in E
  <2>1. \A s : Handle(s, hd) = HandleEdit(s, hd.k, hd.ps)
    BY <1>2, <1>3, <1>5
  <2> QED  BY <1>1, <1>5, <2>1, EditLike DEF IsHandler
<1>6. CASE hd.k \in C
  <2>1. \A s : Handle(s, hd) = HandleCharset(s, hd.k, hd.ps, hd.arg)
    BY <1>2, <1>3, <1>6
  <2> QED  BY <1>1, <1>6, <2>1, CharsetLike DEF CharsetKinds
<1>7. CASE hd.k \in R
  <2>1. \A s : Handle(s, hd) = HandleReply(s, hd)
    BY <1>2, <1>3, <1>7
  <2> QED  BY <1>1, <1>7, <2>1, AnswerLike
<1>8. CASE hd.k \in ModeKinds
  <2>1. \A s : Handle(s, hd) = HandleMode(s, hd)
    BY <1>2, <1>3, <1>8
  <2> QED  BY <1>8, <2>1, ModeLike
<1>9. CASE hd.k = "Graphemes"
  <2>1. \A s : Handle(s, hd) = hdl_graphemes(s, hd.chs)
    BY <1>2, <1>3, <1>9
  <2> QED  BY <2>1, GraphemesLike
<1>10. CASE hd.k = "REP"
  <2>1. \A s : Handle(s, hd) = hdl_csi_rep(s, hd.ps[1], hd.chs)
    BY <1>2, <1>3, <1>10
  <2>2. hd.ps[1] \in Int
    BY <1>10 DEF IsHandler, Counted
  <2> QED  BY <2>1, <2>2, RepLike
<1>11. CASE hd.k = "BEL"
  <2>1. \A s : Handle(s, hd) = hdl_c0_bel(s)
    BY <1>2, <1>3, <1>11
  <2> QED  BY <2>1, SettingLike
<1>12. CASE hd.k = "OSC"
  <2>1. \A s : Handle(s, hd) = hdl_osc(s, hd.ps[1], hd.arg)
    BY <1>2, <1>3, <1>12
  <2>2. hd.ps[1] \in OscCommands /\ hd.arg \in Seq(STRING)
    BY <1>12 DEF IsHandler
  <2> QED  BY <2>1, <2>2, OscLike
<1>13. hd.k \in M \cup E \cup C \cup R \cup ModeKinds \cup {"Graphemes", "REP", "BEL", "OSC"}
  BY <1>1 DEF IsHandler, Kinds
<1> QED  BY <1>4, <1>5, <1>6, <1>7, <1>8, <1>9, <1>10, <1>11, <1>12, <1>13

LEMMA WindowHandler == ASSUME NEW hd, hd.k = "XTWINOPS" PROVE \A s : Handle(s, hd) = hdl_csi_xtwinops(s, hd.ps)
<1>1. \A s : Handle(s, hd) = HandleMode(s, hd)
  BY DEF Handle, MoveKeys, TabKeys, ShiftKeys
<1>2. \A s : HandleMode(s, hd) = hdl_csi_xtwinops(s, hd.ps)
  BY DEF HandleMode
<1> QED  BY <1>1, <1>2

\* Every handler treats alike what is alike: the two have one size afterwards, too.
THEOREM HandleLike ==
  ASSUME NEW z, NEW e, NEW x, Like(z, e, x), NEW hd, IsHandler(hd)
  PROVE  Like(RealSize(Handle(e, hd)), Handle(e, hd), Handle(x, hd))
<1>1. CASE hd.k # "XTWINOPS"
  <2>1. Like(z, Handle(e, hd), Handle(x, hd))
    BY <1>1, HandleLikeAt
  <2> QED  BY <2>1, Numbers DEF RealSize
<1>2. CASE hd.k = "XTWINOPS"
  <2>1. \A s : Handle(s, hd) = hdl_csi_xtwinops(s, hd.ps)
    BY <1>2, WindowHandler
  <2>2. hd.ps \in Seq(Nat)
    BY <1>2 DEF IsHandler, Listed
  <2>3. CASE ~Sizing(hd.ps)
    <3>1. Like(z, Handle(e, hd), Handle(x, hd))
      BY <2>1, <2>2, <2>3, WindowLike
    <3> QED  BY <3>1, Numbers DEF RealSize
  <2>4. CASE Sizing(hd.ps)
    <3>1. PICK c, r : r \in Int /\ Handle(e, hd) = EmuResize(e, c, r) /\ Handle(x, hd) = EmuResize(x, c, r)
      BY <2>1, <2>2, <2>4, WindowLike
    <3>2. Like(<<c, r>>, Handle(e, hd), Handle(x, hd))
      BY <3>1, ResizeLike
    <3> QED  BY <3>2, Numbers DEF RealSize
  <2> QED  BY <2>3, <2>4
<1> QED  BY <1>1, <1>2

\* What is not recorded leaves the emulator like one that has not handled it.
LEMMA ExcludedLike ==
  ASSUME NEW z, NEW e, NEW x, Like(z, e, x), NEW hd, IsHandler(hd), NEW f, f = Handle(e, hd),
         ExcludeHandler(f, hd, f.toHost # e.toHost), ~(hd.k = "DECRQSS" /\ f.compatLevel # e.compatLevel)
  PROVE  Like(z, f, x)
<1>1. CASE hd.k \in ReplyKinds
  <2>1. \A s : Handle(s, hd) = HandleReply(s, hd)
    BY <1>1 DEF Handle, ReplyKinds, MoveKeys, TabKeys, ShiftKeys
  <2> QED  BY <1>1, <2>1, AnswerLike
<1>2. CASE hd.k = "OSC"
  <2>1. \A s : Handle(s, hd) = hdl_osc(s, hd.ps[1], hd.arg)
    BY <1>2 DEF Handle, MoveKeys, TabKeys, ShiftKeys
  <2>2. hd.ps[1] \in OscCommands /\ hd.arg \in Seq(STRING)
    BY <1>2 DEF IsHandler
  <2>3. hd.ps[1] \in Asked \/ (hd.ps[1] = 52 /\ f.toHost # e.toHost)
    BY <1>2 DEF ExcludeHandler, Asked
  <2> QED  BY <2>1, <2>2, <2>3, OscLike
<1>3. CASE hd.k \in {"U_push", "U_pop", "U_set"}
  <2>1. \A s : Handle(s, hd) = HandleMode(s, hd)
    BY <1>3 DEF Handle, MoveKeys, TabKeys, ShiftKeys
  <2>2. CASE hd.k = "U_push"
    BY <2>1, <2>2, KittyLike DEF HandleMode
  <2>3. CASE hd.k = "U_pop"
    BY <2>1, <2>3, KittyLike DEF HandleMode
  <2>4. CASE hd.k = "U_set"
    <3>1. HandleMode(e, hd) = hdl_csi_u_set(e, Range(hd.arg), hd.ps[1])
      BY <2>4 DEF HandleMode
    <3> QED  BY <2>1, <3>1, KittyLike
  <2> QED  BY <1>3, <2>2, <2>3, <2>4
<1>4. hd.k \in ReplyKinds \/ hd.k = "OSC" \/ hd.k \in {"U_push", "U_pop", "U_set"}
  BY DEF ExcludeHandler, ReplyKinds
<1> QED  BY <1>1, <1>2, <1>3, <1>4

\* Setting the size that an emulator has changes nothing.
LEMMA SameSize == ASSUME NEW e PROVE EmuResize(e, e.nCols, e.nRows) = e
BY DEF EmuResize

\* A handler that changes the size is a request for one.
LEMMA SizeChanged ==
  ASSUME NEW z, NEW e, Like(z, e, e), NEW hd, IsHandler(hd), RealSize(Handle(e, hd)) # RealSize(e)
  PROVE  hd.k = "XTWINOPS" /\ hd.ps \in Seq(Nat) /\ Sizing(hd.ps)
<1>1. z = RealSize(e)
  BY Numbers DEF RealSize
<1>2. hd.k = "XTWINOPS"
  <2>1. CASE hd.k # "XTWINOPS"
    <3>1. Like(z, Handle(e, hd), Handle(e, hd))
      BY <2>1, HandleLikeAt
    <3> QED  BY <1>1, <3>1, Numbers DEF RealSize
  <2> QED  BY <2>1
<1>3. hd.ps \in Seq(Nat)
  BY <1>2 DEF IsHandler, Listed
<1>4. Sizing(hd.ps)
  <2>1. CASE ~Sizing(hd.ps)
    <3>1. Like(z, Handle(e, hd), Handle(e, hd))
      BY <1>2, <1>3, <2>1, WindowHandler, WindowLike
    <3> QED  BY <1>1, <3>1, Numbers DEF RealSize
  <2> QED  BY <2>1
<1> QED  BY <1>2, <1>3, <1>4

\* The parser is not changed with the size.
LEMMA KeepsParser ==
  ASSUME NEW s, DOMAIN s = EmulatorFields, NEW f \in EmulatorFields \ {"parser"}, NEW v
  PROVE  DOMAIN [s EXCEPT ![f] = v] = EmulatorFields /\ [s EXCEPT ![f] = v].parser = s.parser
BY DEF EmulatorFields

LEMMA ResizeParser ==
  ASSUME NEW e, DOMAIN e = EmulatorFields, NEW c, NEW r
  PROVE  EmuResize(e, c, r).parser = e.parser
<1> DEFINE Kept(s) == DOMAIN s = EmulatorFields /\ s.parser = e.parser
           scrolled == IF r < e.posY + 1
                       THEN [e EXCEPT !.frame_pri = ScrollUp(@, e.nRows - r), !.posY = @ - (e.nRows - r)]
                       ELSE e
           reshaped  == [scrolled EXCEPT !.frame_pri = Resize(@, c, r)]
           n        == IF e.nRows < r THEN Least(r - e.nRows, reshaped.frame_pri.historyRows) ELSE 0
           e0 == IF e.alt THEN [e EXCEPT !.frame_alt = NewFramebuffer3(c, r, 0)]
                 ELSE [reshaped EXCEPT !.frame_pri = IF n > 0 THEN ScrollDown(@, n) ELSE @, !.posY = @ + n]
           e1 == [e0 EXCEPT !.nCols = c, !.nRows = r, !.marginTop = 0, !.marginBottom = r]
           right == IF On(e, "lrMargin") THEN Least(e.nColsEff, c) ELSE c
           left  == IF On(e, "lrMargin") THEN Greatest(0, Least(e.hMargin, right - 2)) ELSE 0
           e2 == [e1 EXCEPT !.nColsEff = right, !.hMargin = left]
           e3 == NormalizeCursorPos(e2)
<1>1. EmuResize(e, c, r) = IF e.nCols = c /\ e.nRows = r THEN e ELSE [e3 EXCEPT !.links = <<>>]
  BY Zenon DEF EmuResize
<1>2. Kept(scrolled)
  BY DEF EmulatorFields
<1> HIDE DEF scrolled
<1>3. Kept(reshaped)
  BY <1>2 DEF EmulatorFields
<1> HIDE DEF reshaped, n
<1>4. Kept(e0)
  BY <1>3 DEF EmulatorFields
<1> HIDE DEF e0
<1>5. Kept(e1)
  BY <1>4 DEF EmulatorFields
<1> HIDE DEF e1, right, left
<1>6. Kept(e2)
  BY <1>5 DEF EmulatorFields
<1> HIDE DEF e2
<1>7. Kept(e3)
  BY <1>6 DEF NormalizeCursorPos, EmulatorFields
<1> HIDE DEF e3
<1> QED  BY <1>1, <1>7 DEF EmulatorFields

-----------------------------------------------------------------------------
(* Reading.                                                                *)

\* A sequence with the handler that some parser makes of it.
Item == {x \in {[seq |-> t, hd |-> HandlerOf(p, t)] : t \in ControlSequence, p \in ParserState} : x.hd # Nothing}

LEMMA ItemIs == ASSUME NEW x \in Item PROVE x.seq \in ControlSequence /\ IsHandler(x.hd)
<1>1. PICK t \in ControlSequence, p \in ParserState : x = [seq |-> t, hd |-> HandlerOf(p, t)]
  BY DEF Item
<1>2. x.hd # Nothing
  BY DEF Item
<1> QED  BY <1>1, <1>2, MadeHandler

LEMMA LevelsAre == ASSUME NEW t \in ControlSequence PROVE Levels(t) \subseteq {"VT52", "VT100", "VT400"}
<1>1. SclCompatLevel(t) \subseteq {"VT100", "VT400"}
  <2>1. CASE CopyArgs(t) = <<>> \/ t.ps[1] \notin 61..65
    BY <2>1 DEF SclCompatLevel
  <2>2. CASE ~(CopyArgs(t) = <<>> \/ t.ps[1] \notin 61..65)
    BY <2>2 DEF SclCompatLevel
  <2> QED  BY <2>1, <2>2
<1>2. CASE t.k = "privSM"
  BY <1>2 DEF Levels
<1>3. CASE t.k = "privRM"
  BY <1>3 DEF Levels
<1>4. CASE t.k = "DECRQSS"
  BY <1>4, Zenon DEF Levels
<1>5. CASE t.k \in {"RIS", "DECANM"}
  BY <1>5, Zenon DEF Levels
<1>6. CASE t.k = "DECSCL"
  BY <1>1, <1>6 DEF Levels
<1>7. CASE t.k \notin {"RIS", "DECANM", "privSM", "privRM", "DECRQSS", "DECSCL"}
  BY <1>7, Zenon DEF Levels
<1> QED  BY <1>2, <1>3, <1>4, <1>5, <1>6, <1>7

LEMMA AfterIs == ASSUME NEW p \in ParserState, NEW t \in ControlSequence PROVE AfterHandle(p, t) \in ParserState
<1> DEFINE cl == IF Levels(t) = {} THEN p.compatLevel ELSE CHOOSE l \in Levels(t) : TRUE
<1>1. cl \in {"VT52", "VT100", "VT400"}
  BY LevelsAre DEF ParserState
<1>2. AfterHandle(p, t) = [p EXCEPT !.pending = IF t.k = "ID" THEN Escaped ELSE Nothing, !.compatLevel = cl,
                                    !.lastChs = IF t.k = "Graphemes" THEN t.chs ELSE @]
  BY DEF AfterHandle, ParserState
<1> HIDE DEF cl
<1>3. t.chs \in [g: STRING, w: Nat]
  BY DEF ControlSequence
<1> QED  BY <1>1, <1>2, <1>3 DEF ParserState

\* What a parser has read so far, after the sequences that are before it.
Reading(before, acc) ==
  /\ DOMAIN acc = {"parser", "hds", "broken"}
  /\ acc.parser \in ParserState /\ acc.hds \in Seq(Item) /\ acc.broken \in BOOLEAN

\* Two parsers that go on in the same way, one of which has read the sequences p before.
ReadAfter(p, a, b) ==
  /\ Reading(p, a) /\ Reading(p, b)
  /\ a.parser = b.parser /\ a.broken = b.broken /\ a.hds = p \o b.hds
Read(p, acc, piece) == ProcessPiece(acc, piece)
ReadingOn == INSTANCE Folding WITH op <- Read, Rel <- ReadAfter
BothBroken(p, a, b) == a.broken /\ DOMAIN a = {"parser", "hds", "broken"}
ReadingBroken == INSTANCE Folding WITH op <- Read, Rel <- BothBroken

LEMMA PieceRead ==
  ASSUME NEW p \in Seq(Item), NEW a, NEW b, ReadAfter(p, a, b), NEW piece \in PieceSet
  PROVE  ReadAfter(p, ProcessPiece(a, piece), ProcessPiece(b, piece))
<1> DEFINE t == piece.t
           hd == HandlerOf(a.parser, t)
           x == [seq |-> t, hd |-> hd]
           Head1(s) == [s EXCEPT !.parser.pending = t]
           Add(h) == IF hd = Nothing THEN h ELSE Append(h, x)
           Next1(s) == [s EXCEPT !.parser = AfterHandle(a.parser, t), !.hds = Add(@)]
           Broken(s) == [s EXCEPT !.broken = TRUE]
<1>1. t \in ControlSequence
  BY DEF PieceSet
<1>2. a.parser \in ParserState /\ b.parser = a.parser /\ a.hds \in Seq(Item) /\ b.hds \in Seq(Item) /\ a.hds = p \o b.hds
  BY DEF ReadAfter, Reading
<1>3. \A s \in {a, b} : ProcessPiece(s, piece) =
        IF s.broken \/ ~Fits(a.parser, piece) THEN Broken(s) ELSE IF piece.part = "head" THEN Head1(s) ELSE Next1(s)
  BY <1>2 DEF ProcessPiece
<1>4. a.broken = b.broken
  BY DEF ReadAfter
<1>5. hd # Nothing => x \in Item
  BY <1>1, <1>2 DEF Item
<1>6. AfterHandle(a.parser, t) \in ParserState /\ [a.parser EXCEPT !.pending = t] \in ParserState
  BY <1>1, <1>2, AfterIs DEF ParserState
<1>7. ReadAfter(p, Broken(a), Broken(b))
  BY DEF ReadAfter, Reading
<1>8. ReadAfter(p, Head1(a), Head1(b))
  <2> HIDE DEF t
  <2> QED  BY <1>6 DEF ReadAfter, Reading
<1>9. ReadAfter(p, Next1(a), Next1(b))
  <2> HIDE DEF x, hd, t
  <2>1. Add(a.hds) \in Seq(Item) /\ Add(b.hds) \in Seq(Item)
    BY <1>2, <1>5
  <2>2. Add(a.hds) = p \o Add(b.hds)
    <3>1. CASE hd = Nothing
      BY <1>2, <3>1
    <3>2. CASE hd # Nothing
      <4>1. ASSUME NEW u \in Seq(Item), NEW y \in Item PROVE Append(p \o u, y) = p \o Append(u, y)
        OBVIOUS
      <4>2. Append(p \o b.hds, x) = p \o Append(b.hds, x)
        BY <1>2, <1>5, <3>2, <4>1
      <4> QED  BY <1>2, <3>2, <4>2
    <3> QED  BY <3>1, <3>2
  <2> HIDE DEF Add
  <2> QED  BY <1>6, <2>1, <2>2 DEF ReadAfter, Reading
<1> HIDE DEF Broken, Head1, Next1
<1>10. ProcessPiece(a, piece) = IF a.broken \/ ~Fits(a.parser, piece) THEN Broken(a) ELSE IF piece.part = "head" THEN Head1(a) ELSE Next1(a)
  BY <1>3
<1>11. ProcessPiece(b, piece) = IF b.broken \/ ~Fits(a.parser, piece) THEN Broken(b) ELSE IF piece.part = "head" THEN Head1(b) ELSE Next1(b)
  BY <1>3
<1> QED  BY <1>4, <1>7, <1>8, <1>9, <1>10, <1>11

Unread(p) == [parser |-> p, hds |-> <<>>, broken |-> FALSE]

LEMMA StreamIs ==
  ASSUME NEW p \in ParserState, NEW pieces \in Seq(PieceSet)
  PROVE  /\ Reading(<<>>, ProcessStream(p, pieces))
         /\ \A q : ProcessStream(p, pieces) = ReadingOn!Folded(q, Unread(p), pieces)
         /\ \A q : ProcessStream(p, pieces) = ReadingBroken!Folded(q, Unread(p), pieces)
<1>1. \A q : ProcessStream(p, pieces) = ReadingOn!Folded(q, Unread(p), pieces)
  BY DEF ProcessStream, FoldLeft, MapThenFoldSet, Max, ReadingOn!Newest, ReadingOn!FoldedBy, ReadingOn!Folded, Read, Unread
<1>2. \A q : ProcessStream(p, pieces) = ReadingBroken!Folded(q, Unread(p), pieces)
  BY DEF ProcessStream, FoldLeft, MapThenFoldSet, Max, ReadingBroken!Newest, ReadingBroken!FoldedBy, ReadingBroken!Folded, Read, Unread
<1>3. PICK m \in Nat : DOMAIN pieces = 1..m /\ \A i \in 1..m : pieces[i] \in PieceSet
  <2>1. DOMAIN pieces = 1..Len(pieces) /\ Len(pieces) \in Nat /\ \A i \in 1..Len(pieces) : pieces[i] \in PieceSet
    OBVIOUS
  <2> QED  BY <2>1, Zenon
<1>4. <<>> \in Seq(Item) /\ ReadAfter(<<>>, Unread(p), Unread(p))
  BY DEF ReadAfter, Reading, Unread
<1>5. \A i \in 1..m : \A a, b : ReadAfter(<<>>, a, b) => ReadAfter(<<>>, Read(<<>>, a, pieces[i]), Read(<<>>, b, pieces[i]))
  BY <1>3, <1>4, PieceRead DEF Read
<1>6. ReadAfter(<<>>, ReadingOn!Folded(<<>>, Unread(p), pieces), ReadingOn!Folded(<<>>, Unread(p), pieces))
  BY <1>3, <1>4, <1>5, ReadingOn!Keeps
<1>7. Reading(<<>>, ProcessStream(p, pieces))
  BY <1>1, <1>6 DEF ReadAfter
<1> QED  BY <1>1, <1>2, <1>7

\* Reading one stream after another.
LEMMA StreamsInARow ==
  ASSUME NEW p \in ParserState, NEW s \in Seq(PieceSet), NEW t \in Seq(PieceSet), ~ProcessStream(p, s).broken
  PROVE  LET first == ProcessStream(p, s)
             second == ProcessStream(first.parser, t)
             both == ProcessStream(p, s \o t)
         IN  both.parser = second.parser /\ both.broken = second.broken /\ both.hds = first.hds \o second.hds
<1> DEFINE first == ProcessStream(p, s)
           second == ProcessStream(first.parser, t)
           both == ProcessStream(p, s \o t)
           q == first.hds
<1>1. Reading(<<>>, first) /\ first.parser \in ParserState /\ q \in Seq(Item)
  BY StreamIs DEF Reading
<1>2. s \o t \in Seq(PieceSet)
  BY ConcatProperties
<1>3. both = ReadingOn!Folded(q, ReadingOn!Folded(q, Unread(p), s), t)
  <2>1. both = ReadingOn!Folded(q, Unread(p), s \o t)
    BY <1>2, StreamIs
  <2> HIDE DEF both, q
  <2> QED  BY <2>1, ReadingOn!InARow
<1>4. ReadingOn!Folded(q, Unread(p), s) = first
  BY StreamIs
<1>5. second = ReadingOn!Folded(q, Unread(first.parser), t)
  BY <1>1, StreamIs
<1> HIDE DEF first, second, both
<1>6. ReadAfter(q, first, Unread(first.parser))
  <2>1. first.broken = FALSE
    <3>1. first.broken \in BOOLEAN
      BY <1>1 DEF Reading
    <3> QED  BY <3>1 DEF first
  <2>2. <<>> \in Seq(Item) /\ q = q \o <<>>
    BY <1>1, ConcatEmptySeq
  <2>3. Reading(q, first)
    BY <1>1 DEF Reading
  <2>4. Reading(q, Unread(first.parser))
    BY <1>1, <2>2 DEF Reading, Unread
  <2> QED  BY <2>1, <2>2, <2>3, <2>4 DEF ReadAfter, Unread
<1>7. PICK m \in Nat : DOMAIN t = 1..m /\ \A i \in 1..m : t[i] \in PieceSet
  <2>1. DOMAIN t = 1..Len(t) /\ Len(t) \in Nat /\ \A i \in 1..Len(t) : t[i] \in PieceSet
    OBVIOUS
  <2> QED  BY <2>1, Zenon
<1> HIDE DEF q
<1>8. \A i \in 1..m : \A a, b : ReadAfter(q, a, b) => ReadAfter(q, Read(q, a, t[i]), Read(q, b, t[i]))
  BY <1>1, <1>7, PieceRead DEF Read
<1>9. ReadAfter(q, ReadingOn!Folded(q, first, t), ReadingOn!Folded(q, Unread(first.parser), t))
  BY <1>6, <1>7, <1>8, ReadingOn!Keeps
<1>10. ReadAfter(q, both, second)
  BY <1>3, <1>4, <1>5, <1>9
<1> QED  BY <1>10 DEF ReadAfter, q, first, second, both

LEMMA NothingRead == ASSUME NEW p PROVE ProcessStream(p, <<>>) = Unread(p)
<1>1. ProcessStream(p, <<>>) = ReadingOn!Folded(0, Unread(p), <<>>)
  BY DEF ProcessStream, FoldLeft, MapThenFoldSet, Max, ReadingOn!Newest, ReadingOn!FoldedBy, ReadingOn!Folded, Read, Unread
<1> QED  BY <1>1, ReadingOn!OfNothing

-----------------------------------------------------------------------------
(* Handling one after another.                                             *)

Replay(e, hds) == FoldLeft(LAMBDA s, x : Handle(s, x.hd), e, hds)
OpHandle(p, s, x) == Handle(s, x.hd)
LikeSized(p, a, b) == Like(RealSize(a), a, b)
Replaying == INSTANCE Folding WITH op <- OpHandle, Rel <- LikeSized

LEMMA ReplayIs == ASSUME NEW e, NEW hds PROVE Replay(e, hds) = Replaying!Folded(0, e, hds)
BY DEF Replay, FoldLeft, MapThenFoldSet, Max, Replaying!Newest, Replaying!FoldedBy, Replaying!Folded, OpHandle

LEMMA ReplayLike ==
  ASSUME NEW z, NEW e, NEW x, Like(z, e, x), NEW hds \in Seq(Item)
  PROVE  Like(RealSize(Replay(e, hds)), Replay(e, hds), Replay(x, hds))
<1>1. PICK m \in Nat : DOMAIN hds = 1..m /\ \A i \in 1..m : hds[i] \in Item
  <2>1. DOMAIN hds = 1..Len(hds) /\ Len(hds) \in Nat /\ \A i \in 1..Len(hds) : hds[i] \in Item
    OBVIOUS
  <2> QED  BY <2>1, Zenon
<1>2. LikeSized(0, e, x)
  BY Numbers DEF LikeSized, RealSize
<1>3. \A i \in 1..m : \A a, b : LikeSized(0, a, b) => LikeSized(0, OpHandle(0, a, hds[i]), OpHandle(0, b, hds[i]))
  BY <1>1, ItemIs, HandleLike DEF LikeSized, OpHandle
<1>4. LikeSized(0, Replaying!Folded(0, e, hds), Replaying!Folded(0, x, hds))
  BY <1>1, <1>2, <1>3, Replaying!Keeps
<1> QED  BY <1>4, ReplayIs DEF LikeSized

LEMMA ReplayMore ==
  ASSUME NEW e, NEW hds \in Seq(Item), NEW x \in Item
  PROVE  Replay(e, Append(hds, x)) = Handle(Replay(e, hds), x.hd)
<1>1. Append(hds, x) = hds \o <<x>> /\ <<x>> \in Seq(Item)
  BY AppendIsConcat
<1>2. ASSUME NEW one \in Seq(Item)
      PROVE  Replaying!Folded(0, e, hds \o one) = Replaying!Folded(0, Replaying!Folded(0, e, hds), one)
  BY Replaying!InARow
<1>3. \A s : Replaying!Folded(0, s, <<x>>) = OpHandle(0, s, x)
  BY Replaying!OfOne
<1> QED  BY <1>1, <1>2, <1>3, ReplayIs DEF OpHandle

LEMMA ReplayNothing == ASSUME NEW e PROVE Replay(e, <<>>) = e
BY ReplayIs, Replaying!OfNothing

LEMMA PiecesOf ==
  ASSUME NEW hds \in Seq(Item)
  PROVE  RestoreSequence(hds) \in Seq(PieceSet) /\ SeqsOf(hds) = RestoreSequence(hds)
<1>1. \A i \in DOMAIN hds : hds[i] \in Item /\ Whole(hds[i].seq) \in PieceSet
  BY ItemIs DEF Whole, Piece, PieceSet
<1>2. RestoreSequence(hds) \in Seq(PieceSet)
  <2>1. DOMAIN hds = 1..Len(hds) /\ Len(hds) \in Nat
    OBVIOUS
  <2> QED  BY <1>1, <2>1, IsASeq DEF RestoreSequence
<1> QED  BY <1>2 DEF SeqsOf, RestoreSequence

LEMMA StreamLike ==
  ASSUME NEW z, NEW e, NEW x, Like(z, e, x), NEW pieces \in Seq(PieceSet)
  PROVE  /\ Like(RealSize(HandleStream(e, pieces)), HandleStream(e, pieces), HandleStream(e, pieces))
         /\ HandleStream(e, pieces) = Replay([e EXCEPT !.parser = ProcessStream(e.parser, pieces).parser],
                                             ProcessStream(e.parser, pieces).hds)
<1> DEFINE read == ProcessStream(e.parser, pieces)
           f == [e EXCEPT !.parser = read.parser]
<1>1. HandleStream(e, pieces) = Replay(f, read.hds)
  BY DEF HandleStream, Replay
<1>2. e.parser \in ParserState /\ Like(z, e, e)
  <2>1. Like(z, e, e)
    BY SymLike, TransLike
  <2> QED  BY <2>1 DEF Like
<1>3. read.parser \in ParserState /\ read.hds \in Seq(Item)
  BY <1>2, StreamIs DEF Reading
<1> HIDE DEF read
<1>4. Like(z, f, f)
  <2>1. Like(z, f, e)
    BY <1>2, <1>3, ParserLike
  <2> QED  BY <2>1, SymLike, TransLike
<1> HIDE DEF f
<1>5. Like(RealSize(Replay(f, read.hds)), Replay(f, read.hds), Replay(f, read.hds))
  BY <1>3, <1>4, ReplayLike
<1> QED  BY <1>1, <1>5 DEF f, read

LEMMA NewLike ==
  ASSUME NEW caps
  PROVE  LET e == NewEmulator3(NCols, NRows, SaveLines, caps) IN Like(<<NCols, NRows>>, e, e)
<1> DEFINE s == [parser |-> NewParser, frame_pri |-> NewFramebuffer3(NCols, NRows, SaveLines), frame_alt |-> NoFrame,
     alt |-> FALSE, nCols |-> NCols, nRows |-> NRows, marginTop |-> 0, marginBottom |-> NRows,
     hMargin |-> 0, nColsEff |-> NCols, posX |-> 0, posY |-> 0, lastCol |-> FALSE, rend |-> Plain,
     modes |-> {"hasFocus"}, compatLevel |-> "VT400", charset |-> Utf8, savedSCO |-> NoCursor,
     savedDEC_pri |-> NoCursor, savedDEC_alt |-> NoCursor, mouse |-> <<0, 0>>, tabStops |-> <<>>,
     links |-> <<>>, colMode |-> 80, bell |-> 0, titles |-> [icon |-> "", window |-> "", init |-> FALSE],
     titleStack |-> <<>>, modifyOtherKeys |-> 1, selectionData |-> <<>>, selectionStore |-> {},
     toHost |-> <<>>, lastRows |-> 0, caps |-> caps]
<1>1. SaveLines \in Int /\ NRows \in Int
  BY TerminalAssumption
<1>2. LikeFrame(s.frame_pri, s.frame_pri)
  BY <1>1, NewFrame
<1>3. Like(<<NCols, NRows>>, s, s)
  <2>1. DOMAIN s = EmulatorFields
    BY DEF EmulatorFields
  <2>2. /\ s.parser \in ParserState /\ s.nCols = NCols /\ s.nRows = NRows /\ s.alt = FALSE
        /\ s.posY = 0 /\ s.marginTop = 0 /\ s.marginBottom = NRows
        /\ s.savedSCO.set = FALSE /\ s.savedDEC_pri.set = FALSE /\ s.savedDEC_alt.set = FALSE
    BY FreshParser DEF NoCursor
  <2> HIDE DEF s
  <2>3. s.posY \in Int /\ s.nRows \in Int /\ s.marginTop \in Int /\ s.marginBottom \in Int /\ s.alt \in BOOLEAN
    <3>1. 0 \in Int
      OBVIOUS
    <3> QED  BY <1>1, <2>2, <3>1
  <2>4. s.alt => LikeFrame(s.frame_alt, s.frame_alt)
    BY <2>2
  <2>5. /\ s.savedSCO.set => s.savedSCO.posY \in Int
        /\ s.savedDEC_pri.set => s.savedDEC_pri.posY \in Int
        /\ s.savedDEC_alt.set => s.savedDEC_alt.posY \in Int
    BY <2>2
  <2>6. <<s.nCols, s.nRows>> = <<NCols, NRows>>
    BY <2>2
  <2> QED  BY <1>2, <2>1, <2>2, <2>3, <2>4, <2>5, <2>6 DEF Like
<1>4. NewEmulator3(NCols, NRows, SaveLines, caps) = ResetTerminal(s)
  BY DEF NewEmulator3
<1> HIDE DEF s
<1> QED  BY <1>3, <1>4, ResetTerminalLike

-----------------------------------------------------------------------------
(* What is in the variables.                                               *)

Typed ==
  /\ Like(RealSize(srv), srv, srv)
  /\ todo \in Seq(Item) /\ diffBuf \in Seq(Item) /\ remainsBuf \in Seq(PieceSet)
  /\ todo # <<>> => remainsBuf = <<>>
  /\ written \in Nat

LEMMA TypedInit == ASSUME Init PROVE Typed
<1>1. PICK prologue \in Prologues :
        srv = [HandleStream(NewEmulator3(NCols, NRows, SaveLines, {"kitty"}), [i \in DOMAIN prologue |-> Whole(prologue[i])])
                 EXCEPT !.toHost = <<>>]
  BY DEF Init
<1> DEFINE e == NewEmulator3(NCols, NRows, SaveLines, {"kitty"})
           pieces == [i \in DOMAIN prologue |-> Whole(prologue[i])]
           h == HandleStream(e, pieces)
<1>2. pieces \in Seq(PieceSet)
  <2>1. prologue \in Seq(ControlSequence)
    BY TerminalAssumption
  <2>2. DOMAIN prologue = 1..Len(prologue) /\ Len(prologue) \in Nat /\ \A i \in 1..Len(prologue) : prologue[i] \in ControlSequence
    BY <2>1
  <2>3. \A i \in 1..Len(prologue) : Whole(prologue[i]) \in PieceSet
    BY <2>2 DEF Whole, Piece, PieceSet
  <2> QED  BY <2>2, <2>3, IsASeq
<1>3. Like(<<NCols, NRows>>, e, e)
  BY NewLike
<1> HIDE DEF e, pieces
<1>4. Like(RealSize(h), h, h)
  BY <1>2, <1>3, StreamLike
<1>5. srv = [h EXCEPT !.toHost = <<>>]
  BY <1>1 DEF e, pieces
<1> HIDE DEF h
<1>6. Like(RealSize(h), srv, srv)
  <2>1. Like(RealSize(h), srv, h)
    BY <1>4, <1>5, LooseLike DEF Loose
  <2> QED  BY <2>1, SymLike, TransLike
<1>7. RealSize(h) = RealSize(srv)
  BY <1>6, Numbers DEF RealSize
<1> QED  BY <1>6, <1>7 DEF Init, Typed

LEMMA OwnSize == ASSUME NEW z, NEW e, NEW x, Like(z, e, x) PROVE Like(RealSize(e), e, e) /\ z = RealSize(e)
<1>1. z = RealSize(e)
  BY Numbers DEF RealSize
<1> QED  BY <1>1, SymLike, TransLike

\* The end of a stream, and of a frame.
LEMMA UncountedLike ==
  ASSUME NEW z, NEW e, NEW x, Like(z, e, x), NEW v
  PROVE  Like(z, [e EXCEPT !.lastRows = v], x) /\ [e EXCEPT !.lastRows = v].parser = e.parser
<1>1. DOMAIN e = EmulatorFields
  BY DEF Like
<1>2. [e EXCEPT !.lastRows = v].parser = e.parser
  BY <1>1, KeepsParser DEF EmulatorFields
<1> QED  BY <1>2, LooseLike DEF Loose

LEMMA UnansweredLike ==
  ASSUME NEW z, NEW e, NEW x, Like(z, e, x), NEW v
  PROVE  Like(z, [e EXCEPT !.toHost = v], x) /\ [e EXCEPT !.toHost = v].parser = e.parser
<1>1. DOMAIN e = EmulatorFields
  BY DEF Like
<1>2. [e EXCEPT !.toHost = v].parser = e.parser
  BY <1>1, KeepsParser DEF EmulatorFields
<1> QED  BY <1>2, LooseLike DEF Loose

LEMMA FinishedLike ==
  ASSUME NEW z, NEW e, NEW x, Like(z, e, x)
  PROVE  Like(z, Finished(e), x) /\ Finished(e).parser = e.parser
<1> DEFINE v == IF e.alt THEN e.lastRows ELSE e.lastRows + GetRowsGap(Cf(e), at.pos, CursorRow(e))
<1>1. Finished(e) = [e EXCEPT !.lastRows = v, !.toHost = <<>>]
  <2>1. DOMAIN e = EmulatorFields
    BY DEF Like
  <2> QED  BY <2>1 DEF Finished, EmulatorFields
<1> DEFINE f == [e EXCEPT !.lastRows = v]
<1>2. [e EXCEPT !.lastRows = v, !.toHost = <<>>] = [f EXCEPT !.toHost = <<>>]
  OBVIOUS
<1>3. Like(z, f, x) /\ f.parser = e.parser
  <2> HIDE DEF v
  <2> QED  BY UncountedLike
<1> HIDE DEF f
<1>4. Like(z, [f EXCEPT !.toHost = <<>>], x) /\ [f EXCEPT !.toHost = <<>>].parser = f.parser
  BY <1>3, UnansweredLike
<1> QED  BY <1>1, <1>2, <1>3, <1>4

LEMMA Chunk ==
  ASSUME Typed, written < Len(Writes), NEW chunk \in Writes[written + 1]
  PROVE  chunk \in Seq(PieceSet)
<1>1. \A i \in 1..Len(Writes) : Writes[i] \in SUBSET Seq(PieceSet)
  BY TerminalAssumption
<1>2. written + 1 \in 1..Len(Writes)
  <2>1. written \in Nat /\ Len(Writes) \in Nat
    BY TerminalAssumption DEF Typed
  <2> QED  BY <2>1
<1> QED  BY <1>1, <1>2

LEMMA NextHandled ==
  ASSUME Typed, todo # <<>>
  PROVE  /\ Head(todo) \in Item /\ Tail(todo) \in Seq(Item) /\ remainsBuf = <<>> /\ IsHandler(Head(todo).hd)
         /\ todo = <<Head(todo)>> \o Tail(todo)
         /\ Like(RealSize(Handle(srv, Head(todo).hd)), Handle(srv, Head(todo).hd), Handle(srv, Head(todo).hd))
<1>1. Head(todo) \in Item /\ Tail(todo) \in Seq(Item) /\ remainsBuf = <<>> /\ todo = <<Head(todo)>> \o Tail(todo)
  BY DEF Typed
<1>2. IsHandler(Head(todo).hd)
  BY <1>1, ItemIs
<1> QED  BY <1>1, <1>2, HandleLike DEF Typed

LEMMA ActLargeTyped ==
  ASSUME Typed, todo = <<>>, NEW pieces \in Seq(PieceSet), ActLarge(pieces)
  PROVE  /\ Like(RealSize(srv'), srv', srv') /\ todo' \in Seq(Item) /\ remainsBuf' \in Seq(PieceSet)
         /\ todo' # <<>> => remainsBuf' = <<>>
<1> DEFINE read == ProcessStream(srv.parser, pieces)
<1>1. srv.parser \in ParserState
  BY DEF Typed, Like
<1>2. read.parser \in ParserState /\ read.hds \in Seq(Item)
  BY <1>1, StreamIs DEF Reading
<1>3. CASE srv' = srv /\ todo' = todo /\ remainsBuf' \in {remainsBuf, pieces}
  BY <1>3 DEF Typed
<1>4. CASE srv' = [srv EXCEPT !.parser = read.parser] /\ todo' = read.hds /\ remainsBuf' = <<>>
  <2>1. Like(RealSize(srv), srv', srv)
    <3> HIDE DEF read
    <3> QED  BY <1>2, <1>4, ParserLike DEF Typed
  <2>2. Like(RealSize(srv'), srv', srv')
    BY <2>1, OwnSize
  <2> QED  BY <1>2, <1>4, <2>2
<1> QED  BY <1>3, <1>4 DEF ActLarge

LEMMA TypedNext == ASSUME Typed, [Next]_vars PROVE Typed'
<1>1. ASSUME Write PROVE Typed'
  <2>1. PICK chunk \in Writes[written + 1] : ActLarge(remainsBuf \o chunk)
    BY <1>1 DEF Write
  <2>2. written < Len(Writes) /\ written' = written + 1 /\ diffBuf' = diffBuf /\ todo = <<>>
    BY <1>1 DEF Write, Idle
  <2>3. remainsBuf \o chunk \in Seq(PieceSet)
    BY <2>2, Chunk, ConcatProperties DEF Typed
  <2>4. /\ Like(RealSize(srv'), srv', srv') /\ todo' \in Seq(Item) /\ remainsBuf' \in Seq(PieceSet)
        /\ todo' # <<>> => remainsBuf' = <<>>
    BY <2>1, <2>2, <2>3, ActLargeTyped
  <2>5. written' \in Nat
    BY <2>2 DEF Typed
  <2> QED  BY <2>2, <2>4, <2>5 DEF Typed
<1>2. ASSUME Feed PROVE Typed'
  BY <1>2, ActLargeTyped DEF Feed, Idle, Typed
<1>3. ASSUME Rewind PROVE Typed'
  <2>1. srv' = Finished(srv) /\ remainsBuf' = RestoreSequence(todo) /\ todo' = <<>> /\ diffBuf' = diffBuf /\ written' = written
    BY <1>3 DEF Rewind
  <2>2. remainsBuf' \in Seq(PieceSet) /\ todo' \in Seq(Item)
    BY <2>1, PiecesOf DEF Typed
  <2>3. Like(RealSize(srv), srv', srv)
    BY <2>1, FinishedLike DEF Typed
  <2>4. Like(RealSize(srv'), srv', srv')
    BY <2>3, OwnSize
  <2> QED  BY <2>1, <2>2, <2>4 DEF Typed
<1>4. ASSUME HandleNext PROVE Typed'
  <2> DEFINE e == Handle(srv, Head(todo).hd)
  <2>1. /\ srv' \in {e, Finished(e)} /\ diffBuf' \in {diffBuf, Append(diffBuf, Head(todo))}
        /\ todo # <<>> /\ todo' = Tail(todo) /\ remainsBuf' = remainsBuf /\ written' = written
    BY <1>4 DEF HandleNext
  <2>2. Head(todo) \in Item /\ Tail(todo) \in Seq(Item) /\ remainsBuf = <<>> /\ Like(RealSize(e), e, e)
    BY <2>1, NextHandled
  <2> HIDE DEF e
  <2>3. diffBuf' \in Seq(Item)
    <3> DEFINE x == Head(todo)
    <3>1. x \in Item /\ diffBuf \in Seq(Item) /\ diffBuf' \in {diffBuf, Append(diffBuf, x)}
      BY <2>1, <2>2 DEF Typed
    <3> HIDE DEF x
    <3> QED  BY <3>1
  <2>4. Like(RealSize(e), srv', e)
    BY <2>1, <2>2, FinishedLike
  <2>5. Like(RealSize(srv'), srv', srv')
    BY <2>4, OwnSize
  <2> QED  BY <2>1, <2>2, <2>3, <2>5 DEF Typed
<1>5. ASSUME ServeResize PROVE Typed'
  <2>1. PICK size \in Sizes : srv' = EmuResize(srv, size[1], size[2])
    BY <1>5 DEF ServeResize
  <2>2. size[2] \in Int
    <3>1. size \in Nat \X Nat
      BY <2>1, TerminalAssumption
    <3> QED  BY <3>1
  <2>3. Like(<<size[1], size[2]>>, srv', srv')
    BY <2>1, <2>2, ResizeLike DEF Typed
  <2>4. Like(RealSize(srv'), srv', srv')
    BY <2>3, OwnSize
  <2> QED  BY <1>5, <2>4 DEF ServeResize, Typed
<1>6. ASSUME Reset, UNCHANGED <<todo, remainsBuf, written>> PROVE Typed'
  <2>1. Like(RealSize(srv), srv', srv)
    BY <1>6, UncountedLike DEF Reset, Typed
  <2>2. Like(RealSize(srv'), srv', srv')
    BY <2>1, OwnSize
  <2>3. diffBuf' \in Seq(Item)
    BY <1>6 DEF Reset
  <2> QED  BY <1>6, <2>2, <2>3 DEF Typed
<1>7. ASSUME UNCHANGED vars PROVE Typed'
  BY <1>7 DEF vars, Typed
<1> QED  BY <1>1, <1>2, <1>3, <1>4, <1>5, <1>6, <1>7 DEF Next, Send, Drop

-----------------------------------------------------------------------------
(* Output is handled in order.                                             *)

\* The parser that will have read what was put aside is the one that has read
\* all that was written.
Ordered ==
  jumbled \/ LET rest == ProcessStream(srv.parser, remainsBuf)
             IN  /\ rest.parser = told /\ ~broken /\ ~rest.broken
                 /\ queue = todo \o rest.hds

LEMMA OrderedInit == ASSUME Init PROVE Ordered
<1>1. ProcessStream(srv.parser, remainsBuf) = Unread(srv.parser)
  BY NothingRead DEF Init
<1>2. queue = todo \o <<>>
  BY DEF Init
<1> QED  BY <1>1, <1>2 DEF Init, Ordered, Unread

\* Nothing is put aside while handlers are left.
LEMMA Midway ==
  ASSUME Typed, Ordered, todo # <<>>, ~jumbled
  PROVE  told = srv.parser /\ ~broken /\ queue = todo /\ remainsBuf = <<>>
<1>1. ProcessStream(srv.parser, remainsBuf) = Unread(srv.parser) /\ remainsBuf = <<>>
  BY NothingRead DEF Typed
<1>2. todo = todo \o <<>>
  BY DEF Typed
<1>3. Unread(srv.parser).parser = srv.parser /\ Unread(srv.parser).hds = <<>>
  BY DEF Unread
<1>4. told = srv.parser /\ ~broken /\ queue = todo \o <<>>
  BY <1>1, <1>3 DEF Ordered
<1> QED  BY <1>1, <1>2, <1>4

LEMMA ActLargeOrdered ==
  ASSUME Typed, todo = <<>>, ~broken, NEW pieces \in Seq(PieceSet), ActLarge(pieces), pieces = <<>> => remainsBuf = <<>>,
         NEW read, read = ProcessStream(srv.parser, pieces), ~read.broken, read.parser = told', read.hds = queue'
  PROVE  Ordered'
<1>1. srv.parser \in ParserState /\ DOMAIN srv = EmulatorFields
  BY DEF Typed, Like
<1>2. Reading(<<>>, read)
  BY <1>1, StreamIs
<1>3. read.parser \in ParserState /\ read.hds \in Seq(Item) /\ read.hds = <<>> \o read.hds /\ read.hds = read.hds \o <<>>
  <2>1. read.parser \in ParserState /\ read.hds \in Seq(Item)
    BY <1>2 DEF Reading
  <2> QED  BY <2>1, ConcatEmptySeq
<1>4. CASE srv' = srv /\ todo' = todo /\ remainsBuf' = pieces /\ broken' = broken
  BY <1>3, <1>4 DEF Ordered
<1>5. CASE srv' = [srv EXCEPT !.parser = read.parser] /\ todo' = read.hds /\ broken' = read.broken /\ remainsBuf' = <<>>
  <2>1. srv'.parser = read.parser
    BY <1>1, <1>5 DEF EmulatorFields
  <2>2. ProcessStream(srv'.parser, remainsBuf') = Unread(read.parser)
    BY <1>5, <2>1, NothingRead
  <2> QED  BY <1>3, <1>5, <2>2 DEF Ordered, Unread
<1> QED  BY <1>4, <1>5 DEF ActLarge

LEMMA OrderedNext == ASSUME Typed, Ordered, [Next]_vars PROVE Ordered'
<1> DEFINE rest == ProcessStream(srv.parser, remainsBuf)
<1>1. SUFFICES ASSUME ~jumbled' PROVE Ordered'
  BY DEF Ordered
<1>2. srv.parser \in ParserState /\ DOMAIN srv = EmulatorFields /\ Reading(<<>>, rest)
  <2>1. srv.parser \in ParserState /\ DOMAIN srv = EmulatorFields
    BY DEF Typed, Like
  <2> QED  BY <2>1, StreamIs DEF Typed
<1>3. ASSUME todo = <<>>, ~jumbled PROVE rest.parser = told /\ ~broken /\ ~rest.broken /\ rest.hds = queue
  <2>1. rest.hds \in Seq(Item)
    BY <1>2 DEF Reading
  <2>2. <<>> \o rest.hds = rest.hds
    BY <2>1, ConcatEmptySeq
  <2> QED  BY <1>3, <2>2 DEF Ordered
<1>4. ASSUME Write PROVE Ordered'
  <2>1. PICK chunk \in Writes[written + 1] :
           /\ ~ProcessStream(told, chunk).broken
           /\ told' = ProcessStream(told, chunk).parser
           /\ queue' = queue \o ProcessStream(told, chunk).hds
           /\ ActLarge(remainsBuf \o chunk)
    BY <1>4 DEF Write
  <2>2. written < Len(Writes) /\ todo = <<>> /\ ~jumbled
    BY <1>1, <1>4 DEF Write, Idle
  <2> DEFINE pieces == remainsBuf \o chunk
             read == ProcessStream(srv.parser, pieces)
  <2>3. chunk \in Seq(PieceSet) /\ pieces \in Seq(PieceSet)
    BY <2>2, Chunk, ConcatProperties DEF Typed
  <2>4. /\ read.parser = ProcessStream(told, chunk).parser /\ read.broken = ProcessStream(told, chunk).broken
        /\ read.hds = queue \o ProcessStream(told, chunk).hds
    <3>1. remainsBuf \in Seq(PieceSet) /\ srv.parser \in ParserState /\ ~rest.broken
      BY <1>2, <1>3, <2>2 DEF Typed
    <3>2. /\ read.parser = ProcessStream(rest.parser, chunk).parser
          /\ read.broken = ProcessStream(rest.parser, chunk).broken
          /\ read.hds = rest.hds \o ProcessStream(rest.parser, chunk).hds
      BY <2>3, <3>1, StreamsInARow
    <3> HIDE DEF read, rest
    <3> QED  BY <1>3, <2>2, <3>2
  <2>5. pieces = <<>> => remainsBuf = <<>>
    BY <2>3 DEF Typed
  <2> HIDE DEF read, pieces
  <2>6. ActLarge(pieces) /\ read = ProcessStream(srv.parser, pieces)
    BY <2>1 DEF pieces, read
  <2> QED  BY <1>3, <2>1, <2>2, <2>3, <2>4, <2>5, <2>6, ActLargeOrdered
<1>5. ASSUME Feed PROVE Ordered'
  <2>1. ActLarge(remainsBuf) /\ todo = <<>> /\ ~jumbled /\ told' = told /\ queue' = queue /\ remainsBuf \in Seq(PieceSet)
    BY <1>1, <1>5 DEF Feed, Idle, Typed
  <2> QED  BY <1>3, <2>1, ActLargeOrdered
<1>6. ASSUME Rewind PROVE Ordered'
  <2>1. /\ ReadsAgain /\ todo # <<>> /\ ~jumbled /\ srv' = Finished(srv) /\ remainsBuf' = RestoreSequence(todo)
        /\ todo' = <<>> /\ queue' = queue /\ told' = told /\ broken' = broken
    BY <1>1, <1>6 DEF Rewind
  <2>2. srv'.parser = srv.parser
    BY <2>1, FinishedLike DEF Typed
  <2>3. told = srv.parser /\ ~broken /\ queue = todo
    BY <2>1, Midway
  <2>4. todo = <<>> \o todo
    BY ConcatEmptySeq DEF Typed
  <2>5. ProcessStream(srv'.parser, remainsBuf') = [parser |-> srv.parser, hds |-> todo, broken |-> FALSE]
    BY <2>1, <2>2 DEF ReadsAgain
  <2> QED  BY <2>1, <2>3, <2>4, <2>5 DEF Ordered
<1>7. ASSUME HandleNext PROVE Ordered'
  <2> DEFINE e == Handle(srv, Head(todo).hd)
  <2>1. /\ srv' \in {e, Finished(e)} /\ e.parser = srv.parser /\ ~jumbled
        /\ todo # <<>> /\ todo' = Tail(todo) /\ remainsBuf' = remainsBuf /\ told' = told /\ broken' = broken
        /\ queue' = IF queue = <<>> THEN <<>> ELSE Tail(queue)
    BY <1>1, <1>7 DEF HandleNext
  <2>2. Like(RealSize(e), e, e) /\ Tail(todo) \in Seq(Item)
    BY <2>1, NextHandled
  <2> HIDE DEF e
  <2>3. srv'.parser = srv.parser
    BY <2>1, <2>2, FinishedLike
  <2>4. told = srv.parser /\ ~broken /\ queue = todo /\ remainsBuf = <<>>
    BY <2>1, Midway
  <2>5. ProcessStream(srv'.parser, remainsBuf') = Unread(srv.parser)
    BY <2>1, <2>3, <2>4, NothingRead
  <2>6. Tail(todo) \o <<>> = Tail(todo)
    BY <2>2, ConcatEmptySeq
  <2> QED  BY <2>1, <2>4, <2>5, <2>6 DEF Ordered, Unread
<1>8. ASSUME srv'.parser = srv.parser, UNCHANGED <<todo, remainsBuf, queue, told, jumbled, broken>> PROVE Ordered'
  BY <1>8 DEF Ordered
<1>9. ASSUME ServeResize PROVE srv'.parser = srv.parser
  BY <1>2, <1>9, ResizeParser DEF ServeResize
<1>10. ASSUME Reset PROVE srv'.parser = srv.parser
  BY <1>10, UncountedLike DEF Reset, Typed
<1> QED  BY <1>4, <1>5, <1>6, <1>7, <1>8, <1>9, <1>10 DEF Next, ServeResize, Send, Drop, vars

\* What the application writes is handled in order, each sequence once, however
\* it is cut up and however often a rest is put aside (ActLarge,
\* HandleLargeStream).
THEOREM OutputInOrder == Spec => []HandledInOrder
<1>1. Init => Typed /\ Ordered
  BY TypedInit, OrderedInit
<1>2. Typed /\ Ordered /\ [Next]_vars => (Typed /\ Ordered)'
  BY TypedNext, OrderedNext
<1>3. Ordered => HandledInOrder
  BY DEF Ordered, HandledInOrder
<1> QED  BY <1>1, <1>2, <1>3, PTL DEF Spec

-----------------------------------------------------------------------------
(* The client agrees.                                                      *)

\* What is compared tells emulators apart that are not alike, and only those.
Bare(fb) == [fb EXCEPT !.kittyKbd = <<>>]

LEMMA BareFrame ==
  ASSUME NEW a, NEW b
  PROVE  /\ LikeFrame(a, b) => Bare(a) = Bare(b)
         /\ LikeFrame(a, a) /\ LikeFrame(b, b) /\ Bare(a) = Bare(b) => LikeFrame(a, b)
<1>1. ASSUME LikeFrame(a, b) PROVE Bare(a) = Bare(b)
  <2>1. DOMAIN Bare(a) = FrameFields /\ DOMAIN Bare(b) = FrameFields /\ Bare(a) = [f \in FrameFields |-> Bare(a)[f]]
        /\ Bare(b) = [f \in FrameFields |-> Bare(b)[f]]
    BY <1>1 DEF Bare, LikeFrame
  <2>2. \A f \in FrameFields : Bare(a)[f] = Bare(b)[f]
    BY <1>1 DEF Bare, LikeFrame
  <2> QED  BY <2>1, <2>2, Zenon
<1>2. ASSUME LikeFrame(a, a), LikeFrame(b, b), Bare(a) = Bare(b) PROVE LikeFrame(a, b)
  <2>1. \A f \in FrameFields \ {"kittyKbd"} : Bare(a)[f] = a[f] /\ Bare(b)[f] = b[f]
    BY <1>2 DEF Bare, LikeFrame
  <2> QED  BY <1>2, <2>1 DEF LikeFrame
<1> QED  BY <1>1, <1>2

LEMMA ComparedIs ==
  ASSUME NEW e, DOMAIN e = EmulatorFields
  PROVE  /\ DOMAIN Compared(e) = EmulatorFields /\ Compared(e) = [f \in EmulatorFields |-> Compared(e)[f]]
         /\ \A f \in EmulatorFields \ Own : Compared(e)[f] = e[f]
         /\ Compared(e).parser = NewParser /\ Compared(e).selectionStore = {} /\ Compared(e).toHost = <<>>
         /\ Compared(e).lastRows = 0 /\ Compared(e).caps = {} /\ Compared(e).frame_pri = Bare(e.frame_pri)
         /\ Compared(e).frame_alt = IF e.alt THEN Bare(e.frame_alt) ELSE NoFrame
<1>1. DOMAIN Compared(e) = EmulatorFields /\ Compared(e) = [f \in EmulatorFields |-> Compared(e)[f]]
  BY DEF Compared
<1>2. \A f \in EmulatorFields \ Own : Compared(e)[f] = e[f]
  BY DEF Compared, Own
<1>3. /\ Compared(e).parser = NewParser /\ Compared(e).selectionStore = {} /\ Compared(e).toHost = <<>>
      /\ Compared(e).lastRows = 0 /\ Compared(e).caps = {} /\ Compared(e).frame_pri = Bare(e.frame_pri)
      /\ Compared(e).frame_alt = IF e.alt THEN Bare(e.frame_alt) ELSE NoFrame
  BY DEF Compared, EmulatorFields, Bare
<1> QED  BY <1>1, <1>2, <1>3

LEMMA ComparedLike ==
  ASSUME NEW z, NEW e, NEW x, Like(z, e, e), NEW y, Like(y, x, x)
  PROVE  Compared(e) = Compared(x) => Like(z, e, x)
<1>1. SUFFICES ASSUME Compared(e) = Compared(x) PROVE Like(z, e, x)
  OBVIOUS
<1>2. DOMAIN e = EmulatorFields /\ DOMAIN x = EmulatorFields
  BY DEF Like
<1>3. \A f \in EmulatorFields \ Own : e[f] = x[f]
  BY <1>1, <1>2, ComparedIs
<1>4. e.alt = x.alt
  BY <1>3 DEF EmulatorFields, Own
<1>5. LikeFrame(e.frame_pri, x.frame_pri)
  <2>1. Bare(e.frame_pri) = Bare(x.frame_pri)
    BY <1>1, <1>2, ComparedIs
  <2> QED  BY <2>1, BareFrame DEF Like
<1>6. e.alt => LikeFrame(e.frame_alt, x.frame_alt)
  <2>1. e.alt => Bare(e.frame_alt) = Bare(x.frame_alt)
    <3>1. Compared(e).frame_alt = IF e.alt THEN Bare(e.frame_alt) ELSE NoFrame
      BY <1>2, ComparedIs
    <3>2. Compared(x).frame_alt = IF x.alt THEN Bare(x.frame_alt) ELSE NoFrame
      BY <1>2, ComparedIs
    <3> QED  BY <1>1, <1>4, <3>1, <3>2
  <2> QED  BY <1>4, <2>1, BareFrame DEF Like
<1> QED  BY <1>2, <1>3, <1>5, <1>6 DEF Like

LEMMA LikeCompared == ASSUME NEW z, NEW e, NEW x, Like(z, e, x) PROVE Compared(e) = Compared(x)
<1>1. DOMAIN e = EmulatorFields /\ DOMAIN x = EmulatorFields /\ e.alt = x.alt
  BY Same DEF Like
<1>2. Bare(e.frame_pri) = Bare(x.frame_pri) /\ (e.alt => Bare(e.frame_alt) = Bare(x.frame_alt))
  BY BareFrame DEF Like
<1>3. \A f \in EmulatorFields \ Own : Compared(e)[f] = Compared(x)[f]
  BY <1>1, ComparedIs DEF Like
<1>4. /\ Compared(e).parser = Compared(x).parser /\ Compared(e).selectionStore = Compared(x).selectionStore
      /\ Compared(e).toHost = Compared(x).toHost /\ Compared(e).lastRows = Compared(x).lastRows
      /\ Compared(e).caps = Compared(x).caps /\ Compared(e).frame_pri = Compared(x).frame_pri
  <2>1. \A s \in {e, x} : /\ Compared(s).parser = NewParser /\ Compared(s).selectionStore = {} /\ Compared(s).toHost = <<>>
                         /\ Compared(s).lastRows = 0 /\ Compared(s).caps = {} /\ Compared(s).frame_pri = Bare(s.frame_pri)
    BY <1>1, ComparedIs
  <2> QED  BY <1>2, <2>1
<1>5. Compared(e).frame_alt = Compared(x).frame_alt
  <2>1. Compared(e).frame_alt = IF e.alt THEN Bare(e.frame_alt) ELSE NoFrame
    BY <1>1, ComparedIs
  <2>2. Compared(x).frame_alt = IF x.alt THEN Bare(x.frame_alt) ELSE NoFrame
    BY <1>1, ComparedIs
  <2> QED  BY <1>1, <1>2, <2>1, <2>2
<1>6. \A f \in EmulatorFields : Compared(e)[f] = Compared(x)[f]
  BY <1>3, <1>4, <1>5 DEF Own
<1>7. Compared(e) = [f \in EmulatorFields |-> Compared(e)[f]] /\ Compared(x) = [f \in EmulatorFields |-> Compared(x)[f]]
  BY <1>1, ComparedIs
<1> QED  BY <1>6, <1>7, Zenon

LEMMA CloneLike ==
  ASSUME NEW z, NEW e, Like(z, e, e)
  PROVE  Like(z, Clone(e), e) /\ Clone(e).parser = NewParser
<1> DEFINE f == [e EXCEPT !.parser = NewParser]
<1>1. Like(z, f, e)
  BY FreshParser, ParserLike
<1>2. Clone(e) = [f EXCEPT !.selectionStore = {}]
  BY DEF Clone
<1>3. Clone(e).parser = NewParser
  BY DEF Clone, Like, EmulatorFields
<1> HIDE DEF f
<1>4. Like(z, [f EXCEPT !.selectionStore = {}], e)
  BY <1>1, LooseLike DEF Loose
<1> QED  BY <1>2, <1>3, <1>4

\* e is what c becomes that is given e's size first and handles diff then; the
\* two have one size but when it was changed since the last frame.
Follows(e, c, diff, changed) ==
  /\ Like(RealSize(c), c, c)
  /\ ~changed => RealSize(c) = RealSize(e)
  /\ Like(RealSize(e), e, Replay(EmuResize(c, e.nCols, e.nRows), diff))

LEMMA SizeOf == ASSUME NEW e, NEW x, RealSize(e) = RealSize(x) PROVE e.nCols = x.nCols /\ e.nRows = x.nRows
BY DEF RealSize

LEMMA SizedAlready == ASSUME NEW e, NEW c, RealSize(c) = RealSize(e) PROVE EmuResize(c, e.nCols, e.nRows) = c
<1>1. c.nCols = e.nCols /\ c.nRows = e.nRows
  BY SizeOf
<1> QED  BY <1>1, SameSize

LEMMA CaughtUp ==
  ASSUME NEW e, NEW c, Like(RealSize(e), e, c), NEW changed
  PROVE  Follows(e, c, <<>>, changed)
<1>1. Like(RealSize(c), c, c) /\ RealSize(c) = RealSize(e)
  <2>1. Like(RealSize(e), c, e)
    BY SymLike
  <2> QED  BY <2>1, OwnSize
<1>2. EmuResize(c, e.nCols, e.nRows) = c
  BY <1>1, SizedAlready
<1>3. Replay(c, <<>>) = c
  BY ReplayNothing
<1> QED  BY <1>1, <1>2, <1>3 DEF Follows

\* Nothing is left to handle.
LEMMA HasCaughtUp == ASSUME NEW e, NEW c, Follows(e, c, <<>>, FALSE) PROVE Like(RealSize(e), e, c)
<1>1. RealSize(c) = RealSize(e)
  BY DEF Follows
<1>2. EmuResize(c, e.nCols, e.nRows) = c /\ Replay(c, <<>>) = c
  BY <1>1, SizedAlready, ReplayNothing
<1> QED  BY <1>2 DEF Follows

LEMMA FollowsLike ==
  ASSUME NEW e, NEW c, NEW diff, NEW changed, Follows(e, c, diff, changed), NEW f, Like(RealSize(e), f, e)
  PROVE  Follows(f, c, diff, changed)
<1>1. RealSize(f) = RealSize(e)
  BY OwnSize
<1>2. f.nCols = e.nCols /\ f.nRows = e.nRows
  BY <1>1, SizeOf
<1> DEFINE caught == Replay(EmuResize(c, e.nCols, e.nRows), diff)
<1>3. Like(RealSize(e), e, caught)
  BY DEF Follows
<1> HIDE DEF caught
<1>4. Like(RealSize(f), f, caught)
  BY <1>1, <1>3, TransLike
<1> QED  BY <1>1, <1>2, <1>4 DEF Follows, caught

\* A handler that is recorded.
LEMMA RecordedFollows ==
  ASSUME NEW e, NEW c, NEW diff \in Seq(Item), NEW changed, Follows(e, c, diff, changed), NEW x \in Item,
         RealSize(Handle(e, x.hd)) = RealSize(e)
  PROVE  Follows(Handle(e, x.hd), c, Append(diff, x), changed)
<1> DEFINE base == EmuResize(c, e.nCols, e.nRows)
           f == Handle(e, x.hd)
<1>1. Like(RealSize(e), e, Replay(base, diff)) /\ IsHandler(x.hd)
  BY ItemIs DEF Follows
<1>2. Like(RealSize(f), f, Handle(Replay(base, diff), x.hd))
  BY <1>1, HandleLike
<1>3. Replay(base, Append(diff, x)) = Handle(Replay(base, diff), x.hd)
  BY ReplayMore
<1>4. f.nCols = e.nCols /\ f.nRows = e.nRows
  BY SizeOf
<1> HIDE DEF f
<1>5. EmuResize(c, f.nCols, f.nRows) = base
  BY <1>4
<1> HIDE DEF base
<1>6. Follows(f, c, Append(diff, x), changed)
  BY <1>2, <1>3, <1>5 DEF Follows, f
<1> QED  BY <1>6 DEF f

\* One that is not.
LEMMA ExcludedFollows ==
  ASSUME NEW e, NEW c, NEW diff, NEW changed, Follows(e, c, diff, changed), NEW x \in Item, NEW f, f = Handle(e, x.hd),
         ExcludeHandler(f, x.hd, f.toHost # e.toHost), ~(x.hd.k = "DECRQSS" /\ f.compatLevel # e.compatLevel)
  PROVE  Follows(f, c, diff, changed) /\ RealSize(f) = RealSize(e)
<1> DEFINE caught == Replay(EmuResize(c, e.nCols, e.nRows), diff)
<1>1. Like(RealSize(e), e, caught) /\ IsHandler(x.hd)
  BY ItemIs DEF Follows
<1> HIDE DEF caught
<1>2. Like(RealSize(e), f, caught)
  BY <1>1, ExcludedLike
<1>3. Like(RealSize(e), f, e)
  BY <1>1, <1>2, SymLike, TransLike
<1> QED  BY <1>3, FollowsLike, OwnSize

\* One that sets the size, first and once: the client has the size already when
\* it handles it.
LEMMA SizingFollows ==
  ASSUME NEW e, NEW c, Follows(e, c, <<>>, FALSE), NEW x \in Item, NEW f, f = Handle(e, x.hd),
         RealSize(f) # RealSize(e), RealSize(Handle(f, x.hd)) = RealSize(f), NEW changed, changed = TRUE
  PROVE  Follows(f, c, Append(<<>>, x), changed)
<1>1. Like(RealSize(e), e, c) /\ IsHandler(x.hd) /\ Like(RealSize(c), c, c)
  BY HasCaughtUp, ItemIs DEF Follows
<1>2. Like(RealSize(e), e, e)
  BY <1>1, SymLike, TransLike
<1>3. x.hd.k = "XTWINOPS" /\ x.hd.ps \in Seq(Nat) /\ Sizing(x.hd.ps)
  BY <1>1, <1>2, SizeChanged
<1> DEFINE m == AskedCols(x.hd.ps, e)
           n == AskedRows(x.hd.ps, e)
           d == EmuResize(c, f.nCols, f.nRows)
<1>4. f = EmuResize(e, m, n) /\ n \in Int
  BY <1>2, <1>3, WindowHandler, WindowLike
<1>5. Like(<<m, n>>, f, EmuResize(c, m, n)) /\ Like(<<m, n>>, f, f)
  <2> HIDE DEF m, n
  <2> QED  BY <1>1, <1>2, <1>4, ResizeLike
<1>6. <<m, n>> = RealSize(f) /\ m = f.nCols /\ n = f.nRows
  <2> HIDE DEF m, n
  <2>1. <<m, n>> = RealSize(f)
    BY <1>5, OwnSize
  <2> QED  BY <2>1 DEF RealSize
<1>7. Like(RealSize(f), f, d)
  <2> HIDE DEF m, n
  <2> QED  BY <1>5, <1>6
<1>8. Handle(f, x.hd) = f
  <2> DEFINE i == AskedCols(x.hd.ps, f)
             j == AskedRows(x.hd.ps, f)
  <2>1. Handle(f, x.hd) = EmuResize(f, i, j) /\ j \in Int
    BY <1>3, <1>5, WindowHandler, WindowLike
  <2> HIDE DEF i, j, m, n
  <2>2. Like(<<i, j>>, Handle(f, x.hd), Handle(f, x.hd))
    BY <1>5, <2>1, ResizeLike
  <2>3. <<i, j>> = RealSize(f)
    BY <2>2, OwnSize
  <2>4. i = f.nCols /\ j = f.nRows
    BY <2>3 DEF RealSize
  <2> QED  BY <2>1, <2>4, SameSize
<1> HIDE DEF d
<1>9. Like(RealSize(f), f, Handle(d, x.hd))
  BY <1>1, <1>7, <1>8, HandleLike
<1>10. Replay(d, Append(<<>>, x)) = Handle(d, x.hd)
  <2>1. <<>> \in Seq(Item)
    OBVIOUS
  <2>2. Replay(d, Append(<<>>, x)) = Handle(Replay(d, <<>>), x.hd)
    BY <2>1, ReplayMore
  <2> QED  BY <2>2, ReplayNothing
<1> QED  BY <1>1, <1>9, <1>10 DEF Follows, d

\* A frame: the client's emulator, cloned, is given the size and the output.
LEMMA SentFollows ==
  ASSUME Typed, Follows(srv, cli, diffBuf, resized), Mismatch = {}
  PROVE  Like(RealSize(srv), srv, ApplyString(cli, Size(srv), diffBuf))
<1> DEFINE sizedTo == IF Size(srv) = Size(cli) THEN Clone(cli) ELSE EmuResize(Clone(cli), Size(srv)[1], Size(srv)[2])
           base == EmuResize(cli, srv.nCols, srv.nRows)
           pieces == SeqsOf(diffBuf)
           fresh == ProcessStream(NewParser, pieces)
           f == [sizedTo EXCEPT !.parser = fresh.parser]
<1>1. /\ Like(RealSize(cli), cli, cli) /\ Like(RealSize(srv), srv, srv) /\ Like(RealSize(srv), srv, Replay(base, diffBuf))
      /\ diffBuf \in Seq(Item)
  BY DEF Follows, Typed
<1>2. /\ Size(srv) # Size(cli) => Size(srv) = RealSize(srv)
      /\ Size(srv) = Size(cli) => RealSize(srv) = RealSize(cli)
      /\ fresh.hds = diffBuf
  BY DEF Mismatch
<1>3. Like(RealSize(cli), Clone(cli), cli) /\ Clone(cli).parser = NewParser /\ Like(RealSize(cli), Clone(cli), Clone(cli))
  BY <1>1, CloneLike, SymLike, TransLike
<1>4. RealSize(Clone(cli)) = RealSize(cli)
  BY <1>3, OwnSize
<1>5. sizedTo = EmuResize(Clone(cli), srv.nCols, srv.nRows)
  <2>1. CASE Size(srv) = Size(cli)
    <3>1. RealSize(Clone(cli)) = RealSize(srv)
      BY <1>2, <1>4, <2>1
    <3> QED  BY <2>1, <3>1, SizedAlready
  <2>2. CASE Size(srv) # Size(cli)
    <3>1. Size(srv)[1] = srv.nCols /\ Size(srv)[2] = srv.nRows
      BY <1>2, <2>2 DEF RealSize
    <3> QED  BY <2>2, <3>1
  <2> QED  BY <2>1, <2>2
<1>6. srv.nRows \in Int /\ RealSize(srv) = <<srv.nCols, srv.nRows>>
  BY <1>1, Numbers DEF RealSize
<1> HIDE DEF sizedTo
<1>7. Like(RealSize(srv), sizedTo, base) /\ sizedTo.parser = NewParser
  <2>1. Like(RealSize(srv), sizedTo, base)
    BY <1>3, <1>5, <1>6, ResizeLike
  <2>2. DOMAIN Clone(cli) = EmulatorFields
    BY <1>3 DEF Like
  <2> QED  BY <1>3, <1>5, <2>1, <2>2, ResizeParser
<1>8. pieces \in Seq(PieceSet)
  BY <1>1, PiecesOf
<1>9. fresh.parser \in ParserState
  BY <1>8, FreshParser, StreamIs DEF Reading
<1>10. ApplyString(cli, Size(srv), diffBuf) = HandleStream(sizedTo, pieces)
  BY DEF ApplyString, sizedTo
<1> HIDE DEF pieces, base
<1>11. HandleStream(sizedTo, pieces) = Replay(f, diffBuf)
  <2>1. HandleStream(sizedTo, pieces) = Replay([sizedTo EXCEPT !.parser = ProcessStream(sizedTo.parser, pieces).parser],
                                               ProcessStream(sizedTo.parser, pieces).hds)
    BY <1>7, <1>8, StreamLike
  <2> QED  BY <1>2, <1>7, <2>1
<1> HIDE DEF fresh
<1>12. Like(RealSize(srv), f, base)
  BY <1>7, <1>9, ParserLike
<1> HIDE DEF f
<1>13. Like(RealSize(Replay(f, diffBuf)), Replay(f, diffBuf), Replay(base, diffBuf))
  BY <1>1, <1>12, ReplayLike
<1>14. RealSize(Replay(f, diffBuf)) = RealSize(srv)
  <2>1. RealSize(Replay(base, diffBuf)) = RealSize(srv)
    <3>1. Like(RealSize(srv), Replay(base, diffBuf), srv)
      BY <1>1, SymLike
    <3> QED  BY <3>1, OwnSize
  <2>2. RealSize(Replay(base, diffBuf)) = RealSize(Replay(f, diffBuf))
    <3>1. Like(RealSize(Replay(f, diffBuf)), Replay(base, diffBuf), Replay(f, diffBuf))
      BY <1>13, SymLike
    <3> QED  BY <3>1, OwnSize
  <2> QED  BY <2>1, <2>2
<1> QED  BY <1>1, <1>10, <1>11, <1>13, <1>14, SymLike, TransLike

\* The client follows the server, but for the reasons in apart.
Followed == apart = {} => Follows(srv, cli, diffBuf, resized)

LEMMA FollowedInit == ASSUME Init PROVE Followed
<1>1. Like(RealSize(srv), srv, srv) /\ cli = [Clone(srv) EXCEPT !.caps = {}] /\ diffBuf = <<>>
  BY TypedInit DEF Init, Typed
<1>2. Like(RealSize(srv), srv, Clone(srv))
  BY <1>1, CloneLike, SymLike
<1>3. Like(RealSize(srv), srv, cli)
  BY <1>1, <1>2, LooseLike DEF Loose
<1> QED  BY <1>1, <1>3, CaughtUp DEF Followed

\* What leaves the server's emulator as it was, but for what is its own.
LEMMA FollowedStill ==
  ASSUME Followed, Like(RealSize(srv), srv', srv), UNCHANGED <<cli, diffBuf, resized, apart>>
  PROVE  Followed'
BY FollowsLike DEF Followed

LEMMA FollowedHandle == ASSUME Typed, Followed, HandleNext PROVE Followed'
<1> DEFINE x == Head(todo)
           e == Handle(srv, x.hd)
           excluded == ExcludeHandler(e, x.hd, e.toHost # srv.toHost)
<1>1. SUFFICES ASSUME apart' = {} PROVE Follows(srv', cli', diffBuf', resized')
  BY DEF Followed
<1>2. /\ todo # <<>> /\ srv' \in {e, Finished(e)} /\ cli' = cli
      /\ diffBuf' = IF excluded THEN diffBuf ELSE Append(diffBuf, x)
      /\ resized' = (resized \/ RealSize(e) # RealSize(srv))
  BY DEF HandleNext
<1>3. /\ apart = {} /\ ~(x.hd.k = "DECRQSS" /\ e.compatLevel # srv.compatLevel)
      /\ RealSize(e) # RealSize(srv) => ~resized /\ diffBuf = <<>> /\ RealSize(Handle(e, x.hd)) = RealSize(e)
  BY <1>1 DEF HandleNext
<1>4. x \in Item /\ Like(RealSize(e), e, e) /\ diffBuf \in Seq(Item) /\ Follows(srv, cli, diffBuf, resized)
  BY <1>2, <1>3, NextHandled DEF Typed, Followed
<1> SUFFICES Follows(e, cli, diffBuf', resized')
  <2>1. Like(RealSize(e), srv', e)
    <3> HIDE DEF e
    <3> QED  BY <1>2, <1>4, FinishedLike
  <2> HIDE DEF e
  <2> QED  BY <1>2, <2>1, FollowsLike
<1>5. CASE excluded
  <2>1. Follows(e, cli, diffBuf, resized) /\ RealSize(e) = RealSize(srv)
    <3> HIDE DEF x
    <3> QED  BY <1>3, <1>4, <1>5, ExcludedFollows
  <2>2. Follows(e, cli, diffBuf, resized')
    <3> HIDE DEF e, x
    <3> QED  BY <1>2, <2>1 DEF Follows
  <2> QED  BY <1>2, <1>5, <2>2
<1>6. CASE ~excluded /\ RealSize(e) = RealSize(srv)
  <2>1. Follows(e, cli, Append(diffBuf, x), resized)
    <3> HIDE DEF x
    <3> QED  BY <1>4, <1>6, RecordedFollows
  <2>2. Follows(e, cli, Append(diffBuf, x), resized')
    BY <1>2, <1>6, <2>1 DEF Follows
  <2> QED  BY <1>2, <1>6, <2>2
<1>7. CASE ~excluded /\ RealSize(e) # RealSize(srv)
  <2>1. Follows(srv, cli, <<>>, FALSE)
    BY <1>3, <1>4, <1>7 DEF Follows
  <2>2. resized' = TRUE /\ diffBuf' = Append(<<>>, x)
    BY <1>2, <1>3, <1>7
  <2>3. Follows(e, cli, Append(<<>>, x), TRUE)
    <3> HIDE DEF x
    <3> QED  BY <1>3, <1>4, <1>7, <2>1, SizingFollows
  <2> QED  BY <2>2, <2>3
<1> QED  BY <1>5, <1>6, <1>7

LEMMA FollowedNext == ASSUME Typed, Followed, [Next]_vars PROVE Followed'
<1>1. ASSUME Write \/ Feed PROVE Followed'
  <2>1. PICK pieces \in Seq(PieceSet) : ActLarge(pieces)
    <3>1. CASE Write
      <4>1. PICK chunk \in Writes[written + 1] : ActLarge(remainsBuf \o chunk)
        BY <3>1 DEF Write
      <4>2. remainsBuf \o chunk \in Seq(PieceSet)
        BY <3>1, Chunk, ConcatProperties DEF Write, Typed
      <4> QED  BY <4>1, <4>2
    <3>2. CASE Feed
      BY <3>2 DEF Feed, Typed
    <3> QED  BY <1>1, <3>1, <3>2
  <2>2. ProcessStream(srv.parser, pieces).parser \in ParserState
    <3>1. srv.parser \in ParserState
      BY DEF Typed, Like
    <3> QED  BY <3>1, StreamIs DEF Reading
  <2>3. Like(RealSize(srv), srv', srv)
    <3> DEFINE p == ProcessStream(srv.parser, pieces).parser
    <3>1. srv' = srv \/ srv' = [srv EXCEPT !.parser = p]
      BY <2>1 DEF ActLarge
    <3>2. p \in ParserState /\ Like(RealSize(srv), srv, srv)
      BY <2>2 DEF Typed
    <3> HIDE DEF p
    <3> QED  BY <3>1, <3>2, ParserLike
  <2> QED  BY <1>1, <2>3, FollowedStill DEF Write, Feed
<1>2. ASSUME Rewind PROVE Followed'
  BY <1>2, FinishedLike, FollowedStill DEF Rewind, Typed
<1>3. ASSUME HandleNext PROVE Followed'
  BY <1>3, FollowedHandle
<1>4. ASSUME ServeResize PROVE Followed'
  <2>1. SUFFICES ASSUME apart' = {} PROVE Follows(srv', cli', diffBuf', resized')
    BY DEF Followed
  <2>2. PICK size \in Sizes : srv' = EmuResize(srv, size[1], size[2])
    BY <1>4 DEF ServeResize
  <2>3. apart = {} /\ ~resized /\ diffBuf = <<>> /\ cli' = cli /\ diffBuf' = <<>>
    BY <1>4, <2>1 DEF ServeResize
  <2>4. size[2] \in Int
    <3>1. size \in Nat \X Nat
      BY TerminalAssumption
    <3> QED  BY <3>1
  <2>5. Follows(srv, cli, <<>>, FALSE)
    BY <2>3 DEF Followed, Follows
  <2>6. Like(RealSize(srv), srv, cli) /\ Like(RealSize(cli), cli, cli)
    BY <2>5, HasCaughtUp DEF Follows
  <2> DEFINE m == size[1]
             n == size[2]
             d == EmuResize(cli, m, n)
  <2>7. Like(<<m, n>>, srv', d)
    BY <2>2, <2>4, <2>6, ResizeLike
  <2>8. <<m, n>> = RealSize(srv') /\ m = srv'.nCols /\ n = srv'.nRows
    <3> HIDE DEF m, n, d
    <3>1. <<m, n>> = RealSize(srv')
      BY <2>7, OwnSize
    <3> QED  BY <3>1 DEF RealSize
  <2>9. Like(RealSize(srv'), srv', Replay(EmuResize(cli, srv'.nCols, srv'.nRows), <<>>))
    <3> HIDE DEF m, n
    <3> QED  BY <2>7, <2>8, ReplayNothing
  <2>10. resized' = TRUE
    BY <1>4 DEF ServeResize
  <2> QED  BY <2>3, <2>6, <2>9, <2>10 DEF Follows
<1>5. ASSUME Reset, apart' = {} => Like(RealSize(srv), srv, cli') PROVE Followed'
  <2>1. SUFFICES ASSUME apart' = {} PROVE Follows(srv', cli', <<>>, resized')
    BY <1>5 DEF Followed, Reset
  <2>2. Like(RealSize(srv), srv', srv) /\ Like(RealSize(srv), srv, cli')
    BY <1>5, <2>1, UncountedLike DEF Reset, Typed
  <2>3. Like(RealSize(srv'), srv', cli')
    <3>1. RealSize(srv') = RealSize(srv)
      BY <2>2, OwnSize
    <3> QED  BY <2>2, <3>1, TransLike
  <2> QED  BY <2>3, CaughtUp
<1>6. ASSUME Send PROVE Reset /\ (apart' = {} => Like(RealSize(srv), srv, cli'))
  <2>1. ASSUME apart' = {} PROVE Like(RealSize(srv), srv, cli')
    <3>1. apart = {} /\ Mismatch = {} /\ cli' = ApplyString(cli, Size(srv), diffBuf)
      BY <1>6, <2>1 DEF Send
    <3> QED  BY <3>1, SentFollows DEF Followed
  <2> QED  BY <1>6, <2>1 DEF Send
<1>7. ASSUME Drop PROVE Reset /\ (apart' = {} => Like(RealSize(srv), srv, cli'))
  <2>1. ASSUME apart' = {} PROVE Like(RealSize(srv), srv, cli')
    <3>1. apart = {} /\ Compared(srv) = Compared(cli) /\ cli' = cli
      BY <1>7, <2>1 DEF Drop
    <3>2. Like(RealSize(srv), srv, srv) /\ Like(RealSize(cli), cli, cli)
      BY <3>1 DEF Followed, Follows, Typed
    <3> QED  BY <3>1, <3>2, ComparedLike
  <2> QED  BY <1>7, <2>1 DEF Drop
<1>8. ASSUME UNCHANGED vars PROVE Followed'
  BY <1>8 DEF Followed, vars
<1> QED  BY <1>1, <1>2, <1>3, <1>4, <1>5, <1>6, <1>7, <1>8 DEF Next

\* When all that was written has been sent, the client's emulator is the server's,
\* for every application and every size (diffFrom, ApplyString), but for the
\* reasons in apart.
THEOREM ClientFollows == Spec => []ClientAgrees
<1>1. Init => Typed /\ Followed
  BY TypedInit, FollowedInit
<1>2. Typed /\ Followed /\ [Next]_vars => (Typed /\ Followed)'
  BY TypedNext, FollowedNext
<1>3. Typed /\ Followed => ClientAgrees
  <2>1. SUFFICES ASSUME Followed, apart = {}, diffBuf = <<>>, ~resized PROVE Compared(srv) = Compared(cli)
    BY DEF ClientAgrees
  <2>2. Follows(srv, cli, <<>>, FALSE)
    BY <2>1 DEF Followed, Follows
  <2>3. Like(RealSize(srv), srv, cli)
    BY <2>2, HasCaughtUp
  <2> QED  BY <2>3, LikeCompared
<1> QED  BY <1>1, <1>2, <1>3, PTL DEF Spec
=============================================================================
