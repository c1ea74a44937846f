------------------------------ MODULE Emulator ------------------------------
(***************************************************************************)
(* terminal/emulator.go: the terminal emulator, as pure operators on a     *)
(* record.  What it does with control sequences is in module Handlers.     *)
(*                                                                         *)
(* Modes that are on or off are members of the set `modes'; origin stands  *)
(* for OriginMode_ScrollingRegion and lrMargin for horizMarginMode.  The   *)
(* alternate frame buffer is made anew whenever it is switched to, so it   *)
(* is NoFrame in between; a saved cursor that is not set is NoCursor.      *)
(* What is written back to the host is kept as the kinds of the replies.   *)
(***************************************************************************)
EXTENDS Framebuffer, Parser

MaxTitles == 9        \* windowTitleStackMax
MaxFlags  == 9        \* KITTY_KBD_STACK_MAX

NoFrame  == [nCols |-> 0]
NoCursor == [set |-> FALSE]

-----------------------------------------------------------------------------
(* State.                                                                  *)

Cf(e) == IF e.alt THEN e.frame_alt ELSE e.frame_pri
WithCf(e, fb) == IF e.alt THEN [e EXCEPT !.frame_alt = fb] ELSE [e EXCEPT !.frame_pri = fb]

On(e, mode) == mode \in e.modes
Set(e, mode) == [e EXCEPT !.modes = @ \cup {mode}]
Clear(e, mode) == [e EXCEPT !.modes = @ \ {mode}]

\* resetCharsetState: no table is UTF-8.
Utf8 == [vtMode |-> FALSE, g |-> [i \in 0..3 |-> ""], gl |-> 0, gr |-> 2, ss |-> 0]

EAttrs(e) == Attrs(e.rend)
At(e) == GetIdx(Cf(e), e.posY, e.posX)
Reply(e, what) == [e EXCEPT !.toHost = Append(@, what)]
SavedDEC(e) == IF e.alt THEN e.savedDEC_alt ELSE e.savedDEC_pri
WithSavedDEC(e, s) == IF e.alt THEN [e EXCEPT !.savedDEC_alt = s] ELSE [e EXCEPT !.savedDEC_pri = s]

IsCursorInsideMargins(e) ==
  e.posX \in e.hMargin..e.nColsEff - 1 /\ e.posY \in e.marginTop..e.marginBottom - 1

NormalizeCursorPos(e) ==
  [e EXCEPT !.posX = Least(@, e.nColsEff - 1), !.posY = Least(@, e.nRows - 1), !.lastCol = FALSE]

\* GetWidth and GetHeight are those of the scrolling region.
GetWidth(e)  == IF On(e, "lrMargin") THEN e.nColsEff - e.hMargin ELSE e.nCols
GetHeight(e) == e.marginBottom - e.marginTop

ClearScreen(e) ==
  [WithCf(e, FillCells(Cf(e), EAttrs(e))) EXCEPT !.posX = 0, !.posY = 0, !.lastCol = FALSE]

DefaultModes == {"showCursor", "autoWrap", "bkspSendsDel"}
ScreenModes  == DefaultModes \cup {"autoNewline", "keyboardLocked", "insert", "localEcho", "bracketedPaste",
                                   "cursorKeyApp", "keypadApp", "origin", "focusEvent"}

ResetScreen(e) ==
  [WithSavedDEC(e, NoCursor) EXCEPT
     !.modes = (@ \ ScreenModes) \cup DefaultModes, !.compatLevel = "VT400", !.charset = Utf8,
     !.savedSCO = NoCursor, !.mouse = <<0, 0>>, !.tabStops = <<>>]

ResetAttrs(e) == [Clear(e, "reverseVideo") EXCEPT !.rend = Plain, !.links = <<>>]

SwitchColMode(e, colMode) ==
  IF e.colMode = colMode THEN e ELSE [ClearScreen(ResetScreen(e)) EXCEPT !.colMode = colMode]

SwitchScreenBufferMode(e, alt) ==
  IF e.alt = alt THEN e
  ELSE IF alt
  THEN [ClearScreen([e EXCEPT !.alt = TRUE, !.frame_alt = NewFramebuffer3(e.nCols, e.nRows, 0),
                              !.marginTop = 0, !.marginBottom = e.nRows]) EXCEPT !.links = <<>>]
  ELSE [e EXCEPT !.alt = FALSE, !.frame_pri = Resize(@, e.nCols, e.nRows), !.frame_alt = NoFrame,
                 !.marginTop = 0, !.marginBottom = e.nRows, !.savedDEC_alt = NoCursor, !.links = <<>>]

\* The screen that is cleared is the current one, the scrollback too.
ResetTerminal(e) ==
  LET e1 == SwitchColMode(ResetAttrs(ResetScreen([e EXCEPT !.parser = NewParser])), 80)
      fb == ResetMargins(DropScrollbackHistory(Cf(e1)))
      e2 == ClearScreen([WithCf(e1, fb) EXCEPT !.bell = 0, !.titles = [icon |-> "", window |-> "", init |-> FALSE],
                           !.titleStack = <<>>, !.marginTop = 0, !.marginBottom = e.nRows])
      e3 == SwitchScreenBufferMode(e2, FALSE)
  IN  [e3 EXCEPT !.modes = (@ \ {"altScroll", "lrMargin"}) \cup {"altSendsEscape"},
                 !.modifyOtherKeys = 1, !.hMargin = 0, !.nColsEff = e.nCols]

NewEmulator3(nCols, nRows, saveLines, caps) ==
  ResetTerminal(
    [parser |-> NewParser, frame_pri |-> NewFramebuffer3(nCols, nRows, saveLines), frame_alt |-> NoFrame,
     alt |-> FALSE, nCols |-> nCols, nRows |-> nRows, marginTop |-> 0, marginBottom |-> nRows,
     hMargin |-> 0, nColsEff |-> nCols, posX |-> 0, posY |-> 0, lastCol |-> FALSE, rend |-> Plain,
     modes |-> {"hasFocus"}, compatLevel |-> "VT400", charset |-> Utf8, savedSCO |-> NoCursor,
     savedDEC_pri |-> NoCursor, savedDEC_alt |-> NoCursor, mouse |-> <<0, 0>>, tabStops |-> <<>>,
     links |-> <<>>, colMode |-> 80, bell |-> 0, titles |-> [icon |-> "", window |-> "", init |-> FALSE],
     titleStack |-> <<>>, modifyOtherKeys |-> 1, selectionData |-> <<>>, selectionStore |-> {},
     toHost |-> <<>>, lastRows |-> 0, caps |-> caps])

\* A new parser, and an empty selectionStore.
Clone(e) == [e EXCEPT !.parser = NewParser, !.selectionStore = {}]

\* resize: when the cursor would be below the screen, as many rows are scrolled
\* out as the screen gets shorter; when it gets taller, rows come back.
EmuResize(e, nCols, nRows) ==
  LET scrolled == IF nRows < e.posY + 1
                  THEN [e EXCEPT !.frame_pri = ScrollUp(@, e.nRows - nRows), !.posY = @ - (e.nRows - nRows)]
                  ELSE e
      resized  == [scrolled EXCEPT !.frame_pri = Resize(@, nCols, nRows)]
      n        == IF e.nRows < nRows THEN Least(nRows - e.nRows, resized.frame_pri.historyRows) ELSE 0
      e1 == [IF e.alt THEN [e EXCEPT !.frame_alt = NewFramebuffer3(nCols, nRows, 0)]
             ELSE [resized EXCEPT !.frame_pri = IF n > 0 THEN ScrollDown(@, n) ELSE @, !.posY = @ + n]
             EXCEPT !.nCols = nCols, !.nRows = nRows, !.marginTop = 0, !.marginBottom = nRows]
      right == IF On(e, "lrMargin") THEN Least(e.nColsEff, nCols) ELSE nCols
      left  == IF On(e, "lrMargin") THEN Greatest(0, Least(e.hMargin, right - 2)) ELSE 0
  IN  IF e.nCols = nCols /\ e.nRows = nRows THEN e
      ELSE [NormalizeCursorPos([e1 EXCEPT !.nColsEff = right, !.hMargin = left]) EXCEPT !.links = <<>>]

-----------------------------------------------------------------------------
(* Rows and columns between the margins.                                   *)

EraseRows(e, startY, count) ==
  WithCf(e, FoldLeft(LAMBDA fb, k : EraseInRow(fb, startY + k - 1, e.hMargin, e.nColsEff - e.hMargin, EAttrs(e)),
                     Cf(e), [k \in 1..count |-> k]))

ECopyRow(e, fb, dstY, srcY) == CopyRow(fb, dstY, srcY, e.hMargin, e.nColsEff - e.hMargin)

InsertRows(e, startY, count) ==
  LET n == Greatest(0, e.marginBottom - count - startY)     \* rows that move, the lowest first
      moved == FoldLeft(LAMBDA fb, k : ECopyRow(e, fb, startY + n - k + count, startY + n - k),
                        Cf(e), [k \in 1..n |-> k])
  IN  EraseRows(WithCf(e, moved), startY, count)

DeleteRows(e, startY, count) ==
  LET n == Greatest(0, e.marginBottom - count - startY)
      moved == FoldLeft(LAMBDA fb, k : ECopyRow(e, fb, startY + k - 1, startY + k - 1 + count),
                        Cf(e), [k \in 1..n |-> k])
  IN  EraseRows(WithCf(e, moved), e.marginBottom - count, count)

ShiftCols(e, dstX, srcX, eraseX, count, length) ==
  WithCf(e, FoldLeft(LAMBDA fb, k : LET r == e.marginTop + k - 1
                                    IN  EraseInRow(MoveInRow(fb, r, dstX, srcX, length), r, eraseX, count, EAttrs(e)),
                     Cf(e), [k \in 1..e.marginBottom - e.marginTop |-> k]))

InsertCols(e, startX, count) == ShiftCols(e, startX + count, startX, startX, count, e.nColsEff - startX - count)
DeleteCols(e, startX, count) == ShiftCols(e, startX, startX + count, e.nColsEff - count, count, e.nColsEff - startX - count)

EErase(e, pY, startX, count) == WithCf(e, EraseInRow(Cf(e), pY, startX, count, EAttrs(e)))

\* LowerBound: how many tab stops are before the column.
TabsBefore(e) == Len(SelectSeq(e.tabStops, LAMBDA x : x < e.posX))

JumpToNextTabStop(e) ==
  LET next  == ((e.posX \div 8) + 1) * 8
      stops == TabsBefore(e)
  IN  [e EXCEPT !.lastCol = FALSE,
                !.posX = IF e.tabStops = <<>> THEN Least(next, e.nColsEff - 1)
                         ELSE IF stops >= Len(e.tabStops) THEN e.nCols - 1 ELSE e.tabStops[stops + 1]]
=============================================================================
