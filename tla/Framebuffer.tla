---------------------------- MODULE Framebuffer -----------------------------
(***************************************************************************)
(* terminal/framebuffer.go: a screen and its scrollback in one array of    *)
(* rows that is used as a ring, as pure operators on a record.             *)
(*                                                                         *)
(* Without margins the ring is the whole array: scrollHead is where the    *)
(* screen starts, and the historyRows rows before it, wrapping around, are *)
(* the scrollback.  With margins the ring is the region between them, rows *)
(* above and below it stay where they are, and the scrollback is at the    *)
(* end of the array.                                                       *)
(*                                                                         *)
(* viewOffset is 0 here, as on a server and for a client that never scrolls*)
(* its own view.  Damage and selection are left out: they are about drawing*)
(* on a display.  Of the cursor only the style an application can choose   *)
(* is kept.                                                                *)
(***************************************************************************)
EXTENDS Integers, Sequences, SequencesExt, FiniteSets, TLC

\* terminal/renditions.go
Plain == [attrs |-> {}, fg |-> 0, bg |-> 0, ulColor |-> 0, ulStyle |-> 0, link |-> 0]

\* terminal/cell.go.  Contents are <<>>, or a glyph and the set it is taken from.
Cell    == [ch |-> <<>>, rend |-> Plain, wrap |-> FALSE, early |-> FALSE, wide |-> FALSE, cont |-> FALSE]
Space   == <<"", " ">>
Attrs(rend) == [Cell EXCEPT !.ch = Space, !.rend = rend]

\* Neither wrap nor early is reset.
Reset2(c, attrs) == [c EXCEPT !.ch = attrs.ch, !.rend = attrs.rend, !.wide = FALSE, !.cont = FALSE]

Least(a, b)    == IF a < b THEN a ELSE b
Greatest(a, b) == IF a > b THEN a ELSE b

Rows(fb) == fb.nRows + fb.saveLines

NewFramebuffer3(nCols, nRows, saveLines) ==
  [nCols |-> nCols, nRows |-> nRows, saveLines |-> saveLines,
   cells |-> [i \in 0..nCols * (nRows + saveLines) - 1 |-> Cell],
   scrollHead |-> 0, marginTop |-> 0, marginBottom |-> nRows + saveLines, margin |-> FALSE,
   historyRows |-> 0, kittyKbd |-> <<{}>>, showStyle |-> 0]

-----------------------------------------------------------------------------
(* Where a row is.                                                         *)

GetPhysicalRow(fb, pY) ==
  IF pY < 0
  THEN LET y == IF fb.margin THEN pY ELSE pY + fb.scrollHead
       IN  IF y < 0 THEN y + Rows(fb) ELSE y
  ELSE IF fb.margin /\ (pY < fb.marginTop \/ pY >= fb.marginBottom) THEN pY
  ELSE LET y == pY + fb.scrollHead - fb.marginTop
       IN  IF y >= fb.marginBottom THEN y - (fb.marginBottom - fb.marginTop) ELSE y

GetIdx(fb, pY, pX) == fb.nCols * GetPhysicalRow(fb, pY) + pX
GetCell(fb, pY, pX) == fb.cells[GetIdx(fb, pY, pX)]
SetCell(fb, pY, pX, cell) == [fb EXCEPT !.cells[GetIdx(fb, pY, pX)] = cell]

-----------------------------------------------------------------------------
(* Cells of a row.                                                         *)

\* For a count below zero eraseRange slices past its start and the program stops
\* (framebuffer.go:527): ECH further than one column beyond the right margin, on
\* a terminal of four columns or more.  Only fewer columns are modelled.
EraseInRow(fb, pY, startX, count, attrs) ==
  LET idx == GetIdx(fb, pY, startX)
  IN  [fb EXCEPT !.cells = [i \in idx..idx + count - 1 |-> Reset2(@[i], attrs)] @@ @]

CopyCells(fb, dst, src, count) ==
  [fb EXCEPT !.cells = [i \in dst..dst + count - 1 |-> @[src + i - dst]] @@ @]

MoveInRow(fb, pY, dstX, srcX, count) == CopyCells(fb, GetIdx(fb, pY, dstX), GetIdx(fb, pY, srcX), count)
CopyRow(fb, dstY, srcY, startX, count) == CopyCells(fb, GetIdx(fb, dstY, startX), GetIdx(fb, srcY, startX), count)

\* Every cell of the screen, none of the scrollback.
FillCells(fb, cell) ==
  LET screen == {GetPhysicalRow(fb, y) : y \in 0..fb.nRows - 1}
  IN  [fb EXCEPT !.cells = [i \in {k \in DOMAIN @ : k \div fb.nCols \in screen} |-> cell] @@ @]

-----------------------------------------------------------------------------
(* The ring.                                                               *)

\* Round the region from the head, which is always in it.
Turned(fb, n) == fb.marginTop + ((fb.scrollHead - fb.marginTop + n) % (fb.marginBottom - fb.marginTop))

\* With margins no row is saved, and yet historyRows counts it.
ScrollUp(fb, count) ==
  [fb EXCEPT !.scrollHead = Turned(fb, count),
             !.historyRows = Least(@ + count, fb.saveLines)]

\* Mutated: the rows that come back into the screen stay in the scrollback.
MScrollDown(fb, count) == [fb EXCEPT !.scrollHead = Turned(fb, 0 - count)]

ScrollDown(fb, count) ==
  [fb EXCEPT !.scrollHead = Turned(fb, 0 - count),
             !.historyRows = Greatest(@ - count, 0)]

\* The cells for another size: the screen's rows from the top, the scrollback
\* at the end, and what does not fit cut off.
Rearranged(fb, nCols, nRows) ==
  LET total == nRows + fb.saveLines
      from(row) == IF row >= total - fb.historyRows THEN row - total ELSE row
      kept == {i \in 0..nCols * total - 1 : i % nCols < fb.nCols /\ from(i \div nCols) < Least(nRows, fb.nRows)}
  IN  [i \in kept |-> GetCell(fb, from(i \div nCols), i % nCols)] @@ [i \in 0..nCols * total - 1 |-> Cell]

UnwrapCellStorage(fb) ==
  IF fb.scrollHead = fb.marginTop THEN fb
  ELSE [fb EXCEPT !.cells = Rearranged(fb, fb.nCols, fb.nRows), !.scrollHead = fb.marginTop]

SetMargins(fb, top, bottom) ==
  [UnwrapCellStorage(fb) EXCEPT !.marginTop = top, !.scrollHead = top, !.marginBottom = bottom, !.margin = TRUE]

ResetMargins(fb) ==
  [UnwrapCellStorage(fb) EXCEPT !.marginTop = 0, !.scrollHead = 0, !.marginBottom = Rows(fb), !.margin = FALSE]

Resize(fb, nCols, nRows) ==
  [fb EXCEPT !.cells = Rearranged(fb, nCols, nRows), !.nCols = nCols, !.nRows = nRows,
             !.marginTop = 0, !.scrollHead = 0, !.marginBottom = nRows + fb.saveLines, !.margin = FALSE]

DropScrollbackHistory(fb) == [fb EXCEPT !.historyRows = 0]

-----------------------------------------------------------------------------
(* Counting rows for HandleLargeStream.                                    *)

ReachMaxRows(fb, lastRows) == lastRows >= fb.marginBottom - 1

GetRowsGap(fb, oldR, newR) ==
  IF oldR > newR THEN fb.marginBottom - oldR + newR ELSE newR - oldR

IsFullFrame(fb, lastRows, oldR, newR) == GetRowsGap(fb, oldR, newR) + lastRows = fb.marginBottom - 1

-----------------------------------------------------------------------------
(* What is in the rows, for the properties.                                *)

RowText(fb, pY) == [x \in 1..fb.nCols |-> GetCell(fb, pY, x - 1).ch]
TextOf(fb, from, to) == [k \in 1..to - from + 1 |-> RowText(fb, from + k - 1)]
History(fb) == TextOf(fb, 0 - fb.historyRows, -1)
Screen(fb)  == TextOf(fb, 0, fb.nRows - 1)

\* Two rows of the screen and the scrollback are never kept in one place.
RowsAreApart(fb) ==
  \A p, q \in 0 - fb.historyRows..fb.nRows - 1 : p # q => GetPhysicalRow(fb, p) # GetPhysicalRow(fb, q)
=============================================================================
