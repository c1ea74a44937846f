------------------------------ MODULE Handlers ------------------------------
(***************************************************************************)
(* terminal/handler.go: what the emulator does for each control sequence.  *)
(* An operator hdl_x takes an emulator and gives the emulator after the    *)
(* function of that name; Handle chooses by the handler's sequence.        *)
(*                                                                         *)
(* Colours are their numbers, or the three numbers of an RGB colour added  *)
(* to 1000 as one; one table of glyphs stands for each character set, and  *)
(* every glyph is in it.                                                   *)
(***************************************************************************)
EXTENDS Emulator

Clamp(n, high) == Greatest(1, Least(n, high))
MoveTo(e, y, x) == [e EXCEPT !.posY = y, !.posX = x, !.lastCol = FALSE]
Fold(op(_, _), e, count) == FoldLeft(op, e, [k \in 1..count |-> k])

-----------------------------------------------------------------------------
(* Moving the cursor.                                                      *)

hdl_csi_vpa(e, row) == MoveTo(e, Clamp(row, e.nRows) - 1, e.posX)
hdl_csi_vpr(e, row) == hdl_csi_vpa(e, row + e.posY + 1)
hdl_csi_cha(e, count) == MoveTo(e, e.posY, Clamp(count, e.nCols) - 1)
hdl_csi_hpa(e, count) == hdl_csi_cha(e, count)
hdl_csi_hpr(e, arg) == hdl_csi_cha(e, e.posX + arg + 1)

hdl_csi_cuu(e, num) ==
  MoveTo(e, e.posY - Least(num, IF e.posY >= e.marginTop THEN e.posY - e.marginTop ELSE e.posY), e.posX)

\* Mutated: the cursor is not stopped at the bottom.
Mcud(e, num) == MoveTo(e, e.posY + num, e.posX)

hdl_csi_cud(e, num) ==
  MoveTo(e, e.posY + Least(num, (IF e.posY < e.marginBottom THEN e.marginBottom ELSE e.nRows) - e.posY - 1), e.posX)

hdl_csi_cuf(e, num) == MoveTo(e, e.posY, e.posX + Least(num, e.nColsEff - e.posX - 1))

hdl_csi_cub(e, num) ==
  LET n == Least(num, IF e.posX >= e.hMargin THEN e.posX - e.hMargin ELSE e.posX)
  IN  MoveTo(e, e.posY, e.posX - IF e.posX = e.nColsEff THEN Least(n + 1, e.posX) ELSE n)

hdl_csi_cup(e, row, col) ==
  MoveTo(e, IF On(e, "origin") THEN Clamp(row, e.marginBottom) - 1 + e.marginTop ELSE Clamp(row, e.nRows) - 1,
         Clamp(col, e.nCols) - 1)

hdl_c0_cr(e) == MoveTo(e, e.posY, IF ~On(e, "origin") /\ e.posX < e.hMargin THEN 0 ELSE e.hMargin)
hdl_csi_cnl(e, arg) == hdl_c0_cr(hdl_csi_cud(e, arg))
hdl_csi_cpl(e, arg) == hdl_c0_cr(hdl_csi_cuu(e, arg))

\* Where setting margins leaves the cursor.
Home(e) == IF On(e, "origin") THEN MoveTo(e, e.marginTop, e.hMargin) ELSE MoveTo(e, 0, 0)

-----------------------------------------------------------------------------
(* Tabs.                                                                   *)

hdl_c0_ht(e) == IF e.posX < e.nColsEff - 1 THEN JumpToNextTabStop(e) ELSE e
hdl_csi_cht(e, count) == IF count = 1 THEN hdl_c0_ht(e) ELSE Fold(LAMBDA s, k : JumpToNextTabStop(s), e, count)

\* Without tab stops lastCol is left alone.
PreviousTab(e) ==
  IF e.tabStops = <<>>
  THEN [e EXCEPT !.posX = IF @ > 0 /\ @ % 8 = 0 THEN @ - 8 ELSE (@ \div 8) * 8]
  ELSE MoveTo(e, e.posY, IF TabsBefore(e) > 0 THEN e.tabStops[TabsBefore(e)] ELSE 0)
hdl_csi_cbt(e, count) == Fold(LAMBDA s, k : PreviousTab(s), e, count)

hdl_esc_hts(e) == [e EXCEPT !.tabStops = SortSeq(Append(@, e.posX), <)]

\* Of two stops in one column one is left.
hdl_csi_tbc(e, cmd) ==
  CASE cmd = 0 /\ e.posX \in Range(e.tabStops) -> [e EXCEPT !.tabStops = RemoveAt(@, TabsBefore(e) + 1)]
    [] cmd = 3 -> [e EXCEPT !.tabStops = <<>>]
    [] OTHER -> e

-----------------------------------------------------------------------------
(* Scrolling, and rows and columns put in and taken out.                   *)

\* The count is not limited to the rows there are, but with left and right margins.
hdl_csi_su(e, arg) ==
  IF On(e, "lrMargin") THEN DeleteRows(e, e.marginTop, Least(arg, e.marginBottom - e.marginTop))
  ELSE [EraseRows(WithCf(e, ScrollUp(Cf(e), arg)), e.marginBottom - arg, arg) EXCEPT !.lastCol = FALSE]

hdl_csi_sd(e, arg) ==
  IF On(e, "lrMargin") THEN InsertRows(e, e.marginTop, Least(arg, e.marginBottom - e.marginTop))
  ELSE [EraseRows(WithCf(e, ScrollDown(Cf(e), arg)), e.marginTop, arg) EXCEPT !.lastCol = FALSE]

AtBottom(e) == e.posY = e.marginBottom - 1
hdl_esc_ind(e) ==
  CASE AtBottom(e) -> hdl_csi_su(e, 1)
    [] ~AtBottom(e) /\ e.posY < e.nRows - 1 -> MoveTo(e, e.posY + 1, e.posX)
    [] OTHER -> e

\* Only a line that text wraps to is erased; the LF of the parser is hdl_esc_ind.
hdl_c0_lf(e) ==
  IF AtBottom(e) THEN LET s == hdl_esc_ind(e) IN EErase(s, s.posY, s.posX, s.nColsEff - s.posX) ELSE hdl_esc_ind(e)

hdl_esc_ri(e) ==
  CASE e.posY = e.marginTop -> hdl_csi_sd(e, 1)
    [] e.posY # e.marginTop /\ e.posY > 0 -> MoveTo(e, e.posY - 1, e.posX)
    [] OTHER -> e
hdl_esc_nel(e) == hdl_c0_cr(hdl_esc_ind(e))

hdl_csi_il(e, lines) ==
  IF IsCursorInsideMargins(e) THEN hdl_c0_cr(InsertRows(e, e.posY, Least(lines, e.marginBottom - e.posY))) ELSE e
hdl_csi_dl(e, lines) ==
  IF IsCursorInsideMargins(e) THEN hdl_c0_cr(DeleteRows(e, e.posY, Least(lines, e.marginBottom - e.posY))) ELSE e

hdl_csi_decic(e, num) == IF IsCursorInsideMargins(e) THEN InsertCols(e, e.posX, Least(num, e.nColsEff - e.posX)) ELSE e
hdl_csi_decdc(e, num) == IF IsCursorInsideMargins(e) THEN DeleteCols(e, e.posX, Least(num, e.nColsEff - e.posX)) ELSE e
hdl_csi_ecma48_SL(e, arg) == DeleteCols(e, e.hMargin, Least(arg, e.nColsEff - e.hMargin))
hdl_csi_ecma48_SR(e, arg) == InsertCols(e, e.hMargin, Least(arg, e.nColsEff - e.hMargin))
hdl_esc_fi(e) == IF e.posX < e.nColsEff - 1 THEN hdl_csi_cuf(e, 1) ELSE hdl_csi_ecma48_SL(e, 1)
hdl_esc_bi(e) == IF e.posX > e.hMargin THEN hdl_csi_cub(e, 1) ELSE hdl_csi_ecma48_SR(e, 1)

-----------------------------------------------------------------------------
(* Erasing, and characters put in and taken out.                           *)

Wrap(e, x, wrap) == WithCf(e, [Cf(e) EXCEPT !.cells[GetIdx(Cf(e), e.posY, x)].wrap = wrap])

\* The mark at the end of a line that text went on from moves with the text.
hdl_csi_ich(e, arg) ==
  LET n      == Least(arg, e.nColsEff - e.posX)
      length == e.nColsEff - e.posX - n
      unwrap == Wrap(e, e.nColsEff - 1, FALSE)
      marked == IF ~GetCell(Cf(e), e.posY, e.nColsEff - 1).wrap THEN e
                ELSE IF length # 0 THEN Wrap(unwrap, e.posX + length - 1, TRUE) ELSE unwrap
      moved  == WithCf(marked, MoveInRow(Cf(marked), e.posY, e.posX + n, e.posX, length))
  IN  [IF IsCursorInsideMargins(e) THEN EErase(moved, e.posY, e.posX, n) ELSE e EXCEPT !.lastCol = FALSE]

hdl_csi_dch(e, arg) ==
  LET n      == Least(arg, e.nColsEff - e.posX)
      length == e.nColsEff - e.posX - n
      moved  == WithCf(e, MoveInRow(Cf(e), e.posY, e.posX, e.posX + n, length))
  IN  [IF IsCursorInsideMargins(e) THEN EErase(moved, e.posY, e.posX + length, n) ELSE e EXCEPT !.lastCol = FALSE]

hdl_csi_ech(e, arg) ==
  [EErase(e, e.posY, e.posX, Least(arg, e.nColsEff - e.posX)) EXCEPT !.lastCol = FALSE]

hdl_csi_el(e0, cmd) ==
  LET e == NormalizeCursorPos(e0)
  IN  CASE cmd = 0 -> EErase(e, e.posY, e.posX, e.nCols - e.posX)
        [] cmd = 1 -> EErase(e, e.posY, 0, e.posX + 1)
        [] cmd = 2 -> EErase(e, e.posY, 0, e.nCols)
        [] OTHER -> e

\* Whole rows are erased between the left and the right margin only.
hdl_csi_ed(e0, cmd) ==
  LET e == NormalizeCursorPos(e0)
  IN  CASE cmd = 0 -> EraseRows(hdl_csi_el(e, 0), e.posY + 1, e.nRows - e.posY - 1)
        [] cmd = 1 -> hdl_csi_el(EraseRows(e, 0, e.posY), 1)
        [] cmd = 2 -> EraseRows(e, 0, e.nRows)
        [] cmd = 3 -> EraseRows(WithCf(e, DropScrollbackHistory(Cf(e))), 0, e.nRows)
        [] OTHER -> e

\* The attributes are back afterwards, the links and reverseVideo are not.
hdl_esc_decaln(e) ==
  LET s == ResetAttrs(e)
  IN  [WithCf(s, FillCells(Cf(s), [EAttrs(s) EXCEPT !.ch = <<"", "E">>])) EXCEPT !.rend = e.rend]

-----------------------------------------------------------------------------
(* Text.                                                                   *)

\* lookupCharset; <<>> is no grapheme.
LookupCharset(e, chs) ==
  CASE chs.g = "" -> <<>>
    [] chs.g # "" /\ e.charset.vtMode -> <<e.charset.g[IF e.charset.ss > 0 THEN e.charset.ss ELSE e.charset.gl], chs.g>>
    [] OTHER -> <<"", chs.g>>

\* A glyph that does not fit, or comes after the last column, goes to the next line.
WrapLine(e, chs) ==
  LET early == chs.w = 2 /\ e.posX = e.nColsEff - 1
      ended == [Cf(e) EXCEPT !.cells[At(e)] = [@ EXCEPT !.early = @ \/ early, !.wrap = TRUE]]
  IN  IF early \/ (On(e, "autoWrap") /\ e.lastCol) THEN hdl_c0_lf(hdl_c0_cr(WithCf(e, ended))) ELSE e

InsertBlank(e) == IF On(e, "insert") THEN hdl_csi_ich(e, 1) ELSE e

PutGlyph(e, chs) ==
  LET wide == chs.w = 2 /\ e.posX < e.nColsEff - 1
      cell == [EAttrs(e) EXCEPT !.ch = LookupCharset(e, chs), !.wide = wide]
      fb   == SetCell(Cf(e), e.posY, e.posX, cell)
  IN  [WithCf(e, IF wide THEN [fb EXCEPT !.cells[At(e) + 1].cont = TRUE] ELSE fb) EXCEPT
         !.posX = IF wide THEN @ + 1 ELSE @,
         !.charset.ss = IF e.charset.vtMode /\ chs.g # "" THEN 0 ELSE @]

NextColumn(e) == IF e.posX = e.nColsEff - 1 THEN [e EXCEPT !.lastCol = TRUE] ELSE [e EXCEPT !.posX = @ + 1]

hdl_graphemes(e, chs) == NextColumn(PutGlyph(InsertBlank(WrapLine(e, chs)), chs))

\* The repeated rune is looked up in the table again, and the second time what
\* is looked up is the result of the first, cut to a byte.
hdl_csi_rep(e, arg, chs) ==
  LET mapped == e.charset.vtMode /\ chs.g # "" /\ LookupCharset(e, chs)[1] # ""
      again  == IF mapped THEN [chs EXCEPT !.g = "garbled"] ELSE chs
  IN  Fold(LAMBDA s, k : hdl_graphemes(s, IF k = 1 THEN chs ELSE again), e, arg)

-----------------------------------------------------------------------------
(* Renditions.                                                             *)

BasicAttributes == <<"bold", "faint", "italic", "underline", "blink", "rapidBlink", "inverse", "invisible">>

\* renditions.go: buildRendition.  22 ends bold and not faint.
BuildRendition(r, n) ==
  CASE n = 0 -> Plain
    [] n \in 1..8 -> [r EXCEPT !.attrs = @ \cup {BasicAttributes[n]}, !.ulStyle = IF n = 4 THEN 1 ELSE @]
    [] n = 22 -> [r EXCEPT !.attrs = @ \ {"bold"}]
    [] n = 25 -> [r EXCEPT !.attrs = @ \ {"blink", "rapidBlink"}]
    [] n \in {23, 24, 27, 28} -> [r EXCEPT !.attrs = @ \ {BasicAttributes[n - 20]}]
    [] n \in 30..37 -> [r EXCEPT !.fg = n - 29]
    [] n = 39 -> [r EXCEPT !.fg = 0]
    [] n \in 40..47 -> [r EXCEPT !.bg = n - 39]
    [] n = 49 -> [r EXCEPT !.bg = 0]
    [] n = 59 -> [r EXCEPT !.ulColor = 0]
    [] n \in 90..97 -> [r EXCEPT !.fg = n - 81]
    [] n \in 100..107 -> [r EXCEPT !.bg = n - 91]
    [] OTHER -> r

WithColor(r, n, color) ==
  CASE n = 38 -> [r EXCEPT !.fg = color] [] n = 48 -> [r EXCEPT !.bg = color] [] n = 58 -> [r EXCEPT !.ulColor = color]

\* How many parameters a colour takes: the RGB of an underline has an empty one.
ColorLength(n, kind) == IF kind = 5 THEN 2 ELSE IF n = 58 THEN 5 ELSE 4

\* One parameter: what it makes of the rendition, and how many after it are used.
SgrAt(ps, seps, r, k) ==
  LET n    == ps[k]
      rest == Len(ps) - k
      kind == ps[k + 1]
      used == ColorLength(n, kind)
      color == IF kind = 5 THEN ps[k + 2] + 1 ELSE 1000 + ps[k + used - 2] + ps[k + used - 1] + ps[k + used]
      sub  == n = 4 /\ k < Len(seps) /\ seps[k] = ":"
      style == [r EXCEPT !.attrs = IF kind = 0 THEN @ \ {"underline"} ELSE @ \cup {"underline"}, !.ulStyle = kind]
  IN  CASE n \in {38, 48, 58} /\ rest = 0 -> [rend |-> r, skip |-> 0]
        [] n \in {38, 48, 58} /\ rest > 0 ->
             IF kind \in {2, 5} /\ used <= rest THEN [rend |-> WithColor(r, n, color), skip |-> used]
             ELSE [rend |-> r, skip |-> rest]
        [] sub -> IF kind \in 0..5 THEN [rend |-> style, skip |-> 1] ELSE [rend |-> r, skip |-> rest]
        [] OTHER -> [rend |-> BuildRendition(r, n), skip |-> 0]

hdl_csi_sgr(e, ps, seps) ==
  LET step(acc, k) == IF acc.skip > 0 THEN [acc EXCEPT !.skip = @ - 1] ELSE SgrAt(ps, seps, acc.rend, k)
  IN  [e EXCEPT !.rend = FoldLeft(step, [rend |-> e.rend, skip |-> 0], [k \in DOMAIN ps |-> k]).rend]

-----------------------------------------------------------------------------
(* Character sets, saved cursors and resets.                               *)

hdl_c0_bel(e) == [e EXCEPT !.bell = @ + 1]
hdl_c0_si(e) == [e EXCEPT !.charset.gl = 0]
hdl_c0_so(e) == [e EXCEPT !.charset.gl = 1]
hdl_esc_ss2(e) == [e EXCEPT !.charset.ss = 2]
hdl_esc_ss3(e) == [e EXCEPT !.charset.ss = 3]
hdl_esc_ls1r(e) == [e EXCEPT !.charset.gr = 1]
hdl_esc_ls2(e) == [e EXCEPT !.charset.gl = 2]
hdl_esc_ls2r(e) == [e EXCEPT !.charset.gr = 2]
hdl_esc_ls3(e) == [e EXCEPT !.charset.gl = 3]
hdl_esc_ls3r(e) == [e EXCEPT !.charset.gr = 3]
hdl_esc_docs_utf8(e) == [e EXCEPT !.charset = Utf8]
hdl_esc_docs_iso8859_1(e) == [e EXCEPT !.charset = [Utf8 EXCEPT !.g[2] = "ISO_8859_1", !.vtMode = TRUE]]
\* A character set in place of another.
Designated(sets, index, charset) == [sets EXCEPT !.g[index] = charset, !.vtMode = @ \/ charset # ""]
hdl_esc_dcs(e, index, charset) == [e EXCEPT !.charset = Designated(@, index, charset)]
hdl_vt52_egm(e) == [e EXCEPT !.charset = [Utf8 EXCEPT !.g[0] = "DEC_Special"]]

hdl_esc_decsc(e) ==
  WithSavedDEC(e, [set |-> TRUE, posX |-> e.posX, posY |-> e.posY, lastCol |-> e.lastCol, rend |-> e.rend,
                   origin |-> On(e, "origin"), charset |-> e.charset])

\* A saved cursor is restored once.
hdl_esc_decrc(e) ==
  LET s == SavedDEC(e)
      m == IF s.origin THEN Set(e, "origin") ELSE Clear(e, "origin")
  IN  IF ~s.set THEN e
      ELSE [NormalizeCursorPos([WithSavedDEC(m, NoCursor) EXCEPT !.posX = s.posX, !.posY = s.posY])
              EXCEPT !.lastCol = s.lastCol, !.rend = s.rend, !.charset = s.charset]

hdl_csi_scosc(e) == [e EXCEPT !.savedSCO = [set |-> TRUE, posX |-> e.posX, posY |-> e.posY]]
hdl_csi_scorc(e) ==
  IF ~e.savedSCO.set THEN e
  ELSE NormalizeCursorPos([e EXCEPT !.posX = e.savedSCO.posX, !.posY = e.savedSCO.posY, !.savedSCO = NoCursor])

hdl_esc_ris(e) == ResetTerminal(e)
hdl_csi_decstr(e) == ResetAttrs(ResetScreen(e))
hdl_esc_decanm(e, cl) == [e EXCEPT !.compatLevel = cl]
hdl_esc_deckpam(e) == Set(e, "keypadApp")
hdl_esc_deckpnm(e) == Clear(e, "keypadApp")
hdl_csi_decscl(e, t) == [e EXCEPT !.compatLevel = IF SclCompatLevel(t) = {} THEN @ ELSE CHOOSE cl \in SclCompatLevel(t) : TRUE]
hdl_csi_decscusr(e, arg) == IF arg \in 0..6 THEN WithCf(e, [Cf(e) EXCEPT !.showStyle = IF arg = 1 THEN 0 ELSE arg]) ELSE e
hdl_csi_focus(e, hasFocus) ==
  IF ~On(e, "focusEvent") THEN e ELSE IF hasFocus THEN Set(e, "hasFocus") ELSE Clear(e, "hasFocus")

-----------------------------------------------------------------------------
(* Margins.                                                                *)

\* A region has at least two rows, or columns; what is no region is ignored.
IsRegion(low, high, size) == high >= low + 2 /\ high <= size
ZeroBased(n) == IF n > 0 THEN n - 1 ELSE 0

ResetRegion(e) == [WithCf(e, ResetMargins(Cf(e))) EXCEPT !.marginTop = 0, !.marginBottom = e.nRows]
SetRegion(e, top, bottom) ==
  CASE <<top, bottom>> = <<e.marginTop, e.marginBottom>> -> e
    [] <<top, bottom>> # <<e.marginTop, e.marginBottom>> /\ <<top, bottom>> = <<0, e.nRows>> -> ResetRegion(e)
    [] OTHER -> [WithCf(e, SetMargins(Cf(e), top, bottom)) EXCEPT !.marginTop = top, !.marginBottom = bottom]

hdl_csi_decstbm(e, ps) ==
  Home(CASE ps = <<>> -> SetRegion(e, 0, e.nRows)
         [] Len(ps) = 2 /\ IsRegion(ZeroBased(ps[1]), ps[2], e.nRows) -> SetRegion(e, ZeroBased(ps[1]), ps[2])
         [] OTHER -> e)

hdl_csi_decslrm(e, ps) ==
  Home(CASE ps = <<>> -> [e EXCEPT !.hMargin = 0, !.nColsEff = e.nCols]
         [] Len(ps) = 2 /\ IsRegion(ZeroBased(ps[1]), ps[2], e.nCols) ->
              [e EXCEPT !.hMargin = ZeroBased(ps[1]), !.nColsEff = ps[2]]
         [] OTHER -> e)

hdl_csi_slrm_scosc(e, ps) == IF On(e, "lrMargin") THEN hdl_csi_decslrm(e, ps) ELSE hdl_csi_scosc(e)

-----------------------------------------------------------------------------
(* Modes.                                                                  *)

AnsiModes == (2 :> "keyboardLocked") @@ (4 :> "insert") @@ (20 :> "autoNewline")

\* Of private modes, the ones that are only kept.
PrivateModes ==
  (1 :> "cursorKeyApp") @@ (5 :> "reverseVideo") @@ (6 :> "origin") @@ (7 :> "autoWrap") @@ (25 :> "showCursor")
  @@ (1004 :> "focusEvent") @@ (1007 :> "altScroll") @@ (1036 :> "altSendsEscape") @@ (1039 :> "altSendsEscape")
  @@ (2004 :> "bracketedPaste") @@ (2026 :> "syncOutput")

MouseModes == {9, 1000, 1001, 1002, 1003}
MouseEncs  == {1005, 1006, 1015}
ResetLrMargins(e) == [e EXCEPT !.hMargin = 0, !.nColsEff = e.nCols]

\* Local echo is the one ANSI mode that setting turns off.
SetAnsi(e, n) ==
  IF n = 12 THEN Clear(e, "localEcho") ELSE IF n \in DOMAIN AnsiModes THEN Set(e, AnsiModes[n]) ELSE e
ResetAnsi(e, n) ==
  IF n = 12 THEN Set(e, "localEcho") ELSE IF n \in DOMAIN AnsiModes THEN Clear(e, AnsiModes[n]) ELSE e

SetPrivate(e, n) ==
  CASE n = 2 -> [e EXCEPT !.charset = Utf8, !.compatLevel = "VT400"]
    [] n = 3 -> SwitchColMode(e, 132)
    [] n \in MouseModes -> [e EXCEPT !.mouse[1] = n]
    [] n = 12 -> hdl_csi_decscusr(e, 0)
    [] n \in {47, 1047} -> SwitchScreenBufferMode(e, TRUE)
    [] n = 67 -> Clear(e, "bkspSendsDel")
    [] n = 69 -> ResetLrMargins(Set(e, "lrMargin"))
    [] n \in MouseEncs -> [e EXCEPT !.mouse[2] = n]
    [] n = 1048 -> hdl_esc_decsc(e)
    [] n = 1049 -> Set(SwitchScreenBufferMode(hdl_esc_decsc(e), TRUE), "altScreen1049")
    [] OTHER -> IF n \in DOMAIN PrivateModes THEN Set(e, PrivateModes[n]) ELSE e

ResetPrivate(e, n) ==
  CASE n = 2 -> [e EXCEPT !.charset = Utf8, !.compatLevel = "VT52"]
    [] n = 3 -> SwitchColMode(e, 80)
    [] n \in MouseModes -> [e EXCEPT !.mouse[1] = 0]
    [] n = 12 -> hdl_csi_decscusr(e, 2)
    [] n \in {47, 1047} -> SwitchScreenBufferMode(e, FALSE)
    [] n = 67 -> Set(e, "bkspSendsDel")
    [] n = 69 -> ResetLrMargins(Clear(e, "lrMargin"))
    [] n \in MouseEncs -> [e EXCEPT !.mouse[2] = 0]
    [] n = 1048 -> hdl_esc_decrc(e)
    [] n = 1049 -> Clear(hdl_esc_decrc(SwitchScreenBufferMode(e, FALSE)), "altScreen1049")
    [] OTHER -> IF n \in DOMAIN PrivateModes THEN Clear(e, PrivateModes[n]) ELSE e

hdl_csi_sm(e, ps) == FoldLeft(SetAnsi, e, ps)
hdl_csi_rm(e, ps) == FoldLeft(ResetAnsi, e, ps)
hdl_csi_privSM(e, ps) == FoldLeft(SetPrivate, e, ps)
hdl_csi_privRM(e, ps) == FoldLeft(ResetPrivate, e, ps)

hdl_csi_xtmodkeys(e, ps) ==
  LET value == IF Len(ps) = 1 THEN 0 ELSE ps[2]
  IN  IF Len(ps) \in 1..2 /\ ps[1] = 4 /\ value <= 2 THEN [e EXCEPT !.modifyOtherKeys = value] ELSE e

hdl_csi_mousetrack(e, release, ps) ==
  IF e.mouse[2] = 1006 /\ release /\ Len(ps) = 3 THEN hdl_csi_cup(e, ps[3], ps[2]) ELSE e

-----------------------------------------------------------------------------
(* The kitty keyboard's stack of flags, one in each frame buffer.          *)

Support(e) == "kitty" \in e.caps
Kbd(e) == Cf(e).kittyKbd
WithKbd(e, stack) == WithCf(e, [Cf(e) EXCEPT !.kittyKbd = stack])

\* stack.go: when it is full the oldest goes.
Push(stack, v) == Append(IF Len(stack) >= MaxFlags THEN Tail(stack) ELSE stack, v)

hdl_csi_u_set(e, flags, mode) ==
  LET peek == Last(Kbd(e))
      new  == CASE mode = 1 -> flags [] mode = 2 -> peek \cup flags [] mode = 3 -> peek \ flags [] OTHER -> peek
  IN  IF Support(e) THEN WithKbd(e, Append(Front(Kbd(e)), new)) ELSE e
hdl_csi_u_push(e, flags) == IF Support(e) THEN WithKbd(e, Push(Kbd(e), flags)) ELSE e
hdl_csi_u_pop(e, count) ==
  IF ~Support(e) THEN e
  ELSE WithKbd(e, IF count >= Len(Kbd(e)) THEN <<{}>> ELSE SubSeq(Kbd(e), 1, Len(Kbd(e)) - count))

-----------------------------------------------------------------------------
(* Replies.                                                                *)

hdl_csi_priDA(e) == Reply(e, <<"priDA">>)
hdl_csi_secDA(e) == Reply(e, <<"secDA">>)
hdl_vt52_id(e) == Reply(e, <<"ID">>)
hdl_csi_dsr(e, cmd) ==
  CASE cmd = 5 -> Reply(e, <<"DSR">>)
    [] cmd = 6 -> Reply(e, <<"CPR", e.posY + 1 - (IF On(e, "origin") THEN e.marginTop ELSE 0), e.posX + 1>>)
    [] OTHER -> e
hdl_csi_decrqm(e) == Reply(e, <<"DECRPM", On(e, "syncOutput")>>)
hdl_csi_u_query(e) == IF Support(e) THEN Reply(e, <<"kitty", Last(Kbd(e))>>) ELSE e

\* A request that changes the emulator, too.
hdl_dcs_decrqss(e, arg) ==
  IF arg = <<"\"p">> THEN Reply([e EXCEPT !.compatLevel = "VT400"], <<"DECRPSS", TRUE>>) ELSE Reply(e, <<"DECRPSS", FALSE>>)
hdl_dcs_xtgettcap(e, names) ==
  FoldLeft(LAMBDA s, name : IF name = "not hex" THEN s ELSE Reply(s, <<"XTGETTCAP", name>>), e, names)

-----------------------------------------------------------------------------
(* Operating system commands.                                              *)

\* Pairs of a number and "?"; an odd one makes the whole command ill-formed, a
\* number that is none ends it.
Queries(e, args, limit) ==
  LET asked(k)  == args[2 * k] = "?"
      pairs     == IF Len(args) % 2 = 1 THEN 0 ELSE Least(Len(args) \div 2, limit)
      answer(acc, k) == IF acc.stop \/ ~asked(k) THEN acc
                        ELSE IF args[2 * k - 1] = "no number" THEN [acc EXCEPT !.stop = TRUE]
                        ELSE [acc EXCEPT !.e = Reply(@, <<"color", args[2 * k - 1]>>)]
  IN  FoldLeft(answer, [e |-> e, stop |-> FALSE], [k \in 1..pairs |-> k]).e

hdl_osc_4(e, arg) == Queries(e, arg, 8)
hdl_osc_10x(e, arg) == Queries(e, <<"cmd">> \o arg, 5)

\* arg is Pc, the selections that are meant, and Pd, what to do with them.
Selections(Pc) == CASE Pc = "" -> <<"p", "c">> [] Pc \in {"c", "p", "q", "s"} -> <<Pc>> [] OTHER -> <<>>
hdl_osc_52(e, arg) ==
  LET chosen == Selections(arg[1])
      held   == SelectSeq(chosen, LAMBDA c : c \in e.selectionStore)
  IN  CASE Len(arg) < 2 \/ chosen = <<>> -> e
        [] Len(arg) >= 2 /\ chosen # <<>> /\ arg[2] = "?" -> IF held = <<>> THEN e ELSE Reply(e, <<"OSC 52", held[1]>>)
        [] OTHER -> [e EXCEPT !.selectionStore = IF arg[2] = "base64" THEN @ \cup Range(chosen) ELSE @ \ Range(chosen),
                              !.selectionData = arg]

hdl_osc_0_1_2(e, cmd, arg) ==
  [e EXCEPT !.titles = [init |-> TRUE, icon |-> IF cmd # 2 THEN arg[1] ELSE @.icon,
                        window |-> IF cmd # 1 THEN arg[1] ELSE @.window]]

\* The colour of the cursor is not kept: nothing else sets it.
hdl_osc_112(e) == e

\* links.go: addLink.  A link's index is its place.
AddLink(e, l) ==
  IF l \in Range(e.links) THEN [e EXCEPT !.rend.link = CHOOSE i \in DOMAIN e.links : e.links[i] = l]
  ELSE [e EXCEPT !.links = Append(@, l), !.rend.link = Len(e.links) + 1]

\* arg is the parameters and the URI; the parameter id is the one there is.
hdl_osc_8(e, arg) ==
  CASE Len(arg) # 2 -> e
    [] Len(arg) = 2 /\ arg[2] = "" -> [e EXCEPT !.rend.link = 0]
    [] Len(arg) = 2 /\ arg[2] # "" /\ arg[1] \in {"", "id"} -> AddLink(e, arg)
    [] OTHER -> e

hdl_osc(e, cmd, arg) ==
  CASE cmd \in {0, 1, 2} -> hdl_osc_0_1_2(e, cmd, arg)
    [] cmd = 4 -> hdl_osc_4(e, arg)
    [] cmd = 8 -> hdl_osc_8(e, arg)
    [] cmd = 52 -> hdl_osc_52(e, arg)
    [] cmd = 112 -> hdl_osc_112(e)
    [] OTHER -> hdl_osc_10x(e, arg)

SaveWindowTitleOnStack(e) ==
  LET stack == Append(e.titleStack, e.titles.window)
  IN  IF e.titles.window = "" THEN e ELSE [e EXCEPT !.titleStack = IF Len(stack) > MaxTitles THEN Tail(stack) ELSE stack]
RestoreWindowTitleOnStack(e) ==
  IF e.titleStack = <<>> THEN e ELSE [e EXCEPT !.titles.window = Last(e.titleStack), !.titleStack = Front(@)]

\* The size that parameters leave out is that of the scrolling region.
hdl_csi_xtwinops(e, ps) ==
  LET given(n, default) == IF Len(ps) = 3 /\ ps[n] # 0 THEN ps[n] ELSE default
  IN  CASE ps = <<>> -> e
        [] ps # <<>> /\ ps[1] = 22 -> IF ps[2] \in {0, 2} THEN SaveWindowTitleOnStack(e) ELSE e
        [] ps # <<>> /\ ps[1] = 23 -> IF ps[2] \in {0, 2} THEN RestoreWindowTitleOnStack(e) ELSE e
        [] ps # <<>> /\ ps[1] = 8 -> EmuResize(e, given(3, GetWidth(e)), given(2, GetHeight(e)))
        [] OTHER -> e

-----------------------------------------------------------------------------
(* Handler.handle: the function of a handler, by the group of its sequence.*)

HandleMove(e, k, n) ==
  CASE k = "CUU" -> hdl_csi_cuu(e, n[1])
    [] k = "CUD" -> hdl_csi_cud(e, n[1])
    [] k = "CUF" -> hdl_csi_cuf(e, n[1])
    [] k = "CUB" -> hdl_csi_cub(e, n[1])
    [] k = "CUP" -> hdl_csi_cup(e, n[1], n[2])
    [] k = "VPA" -> hdl_csi_vpa(e, n[1])
    [] k = "VPR" -> hdl_csi_vpr(e, n[1])
    [] k = "CHA" -> hdl_csi_cha(e, n[1])
    [] k = "HPA" -> hdl_csi_hpa(e, n[1])
    [] k = "HPR" -> hdl_csi_hpr(e, n[1])
    [] k = "CNL" -> hdl_csi_cnl(e, n[1])
    [] k = "CPL" -> hdl_csi_cpl(e, n[1])
    [] k = "CR"  -> hdl_c0_cr(e)
    [] k = "HT"  -> hdl_c0_ht(e)
    [] k = "HTS" -> hdl_esc_hts(e)
    [] k = "TBC" -> hdl_csi_tbc(e, n[1])
    [] k = "CHT" -> hdl_csi_cht(e, n[1])
    [] k = "CBT" -> hdl_csi_cbt(e, n[1])

HandleEdit(e, k, n) ==
  CASE k = "IND" -> hdl_esc_ind(e)
    [] k = "RI"  -> hdl_esc_ri(e)
    [] k = "NEL" -> hdl_esc_nel(e)
    [] k = "SU"  -> hdl_csi_su(e, n[1])
    [] k = "SD"  -> hdl_csi_sd(e, n[1])
    [] k = "IL"  -> hdl_csi_il(e, n[1])
    [] k = "DL"  -> hdl_csi_dl(e, n[1])
    [] k = "DECIC" -> hdl_csi_decic(e, n[1])
    [] k = "DECDC" -> hdl_csi_decdc(e, n[1])
    [] k = "ecma48_SL" -> hdl_csi_ecma48_SL(e, n[1])
    [] k = "ecma48_SR" -> hdl_csi_ecma48_SR(e, n[1])
    [] k = "FI"  -> hdl_esc_fi(e)
    [] k = "BI"  -> hdl_esc_bi(e)
    [] k = "ICH" -> hdl_csi_ich(e, n[1])
    [] k = "DCH" -> hdl_csi_dch(e, n[1])
    [] k = "ECH" -> hdl_csi_ech(e, n[1])
    [] k = "EL"  -> hdl_csi_el(e, n[1])
    [] k = "ED"  -> hdl_csi_ed(e, n[1])
    [] k = "DECALN" -> hdl_esc_decaln(e)

HandleCharset(e, k, n, arg) ==
  CASE k = "SI" -> hdl_c0_si(e)
    [] k = "SO" -> hdl_c0_so(e)
    [] k = "SS2" -> hdl_esc_ss2(e)
    [] k = "SS3" -> hdl_esc_ss3(e)
    [] k = "LS1R" -> hdl_esc_ls1r(e)
    [] k = "LS2" -> hdl_esc_ls2(e)
    [] k = "LS2R" -> hdl_esc_ls2r(e)
    [] k = "LS3" -> hdl_esc_ls3(e)
    [] k = "LS3R" -> hdl_esc_ls3r(e)
    [] k = "DOCS_UTF8" -> hdl_esc_docs_utf8(e)
    [] k = "DOCS_ISO8859_1" -> hdl_esc_docs_iso8859_1(e)
    [] k = "ESC_DCS" -> hdl_esc_dcs(e, n[1], arg[1])
    [] k = "EGM" -> hdl_vt52_egm(e)

HandleMode(e, hd) ==
  LET n == hd.ps IN
  CASE hd.k = "SM" -> hdl_csi_sm(e, n)
    [] hd.k = "RM" -> hdl_csi_rm(e, n)
    [] hd.k = "privSM" -> hdl_csi_privSM(e, n)
    [] hd.k = "privRM" -> hdl_csi_privRM(e, n)
    [] hd.k = "DECSTBM" -> hdl_csi_decstbm(e, n)
    [] hd.k = "SLRM_SCOSC" -> hdl_csi_slrm_scosc(e, n)
    [] hd.k = "SCORC" -> hdl_csi_scorc(e)
    [] hd.k = "DECSC" -> hdl_esc_decsc(e)
    [] hd.k = "DECRC" -> hdl_esc_decrc(e)
    [] hd.k = "DECSTR" -> hdl_csi_decstr(e)
    [] hd.k = "RIS" -> hdl_esc_ris(e)
    [] hd.k = "DECANM" -> hdl_esc_decanm(e, CHOOSE cl \in Levels(hd) : TRUE)
    [] hd.k = "DECKPAM" -> hdl_esc_deckpam(e)
    [] hd.k = "DECKPNM" -> hdl_esc_deckpnm(e)
    [] hd.k = "DECSCL" -> hdl_csi_decscl(e, hd)
    [] hd.k = "DECSCUSR" -> hdl_csi_decscusr(e, n[1])
    [] hd.k = "XTMODKEYS" -> hdl_csi_xtmodkeys(e, n)
    [] hd.k = "MouseTrack" -> hdl_csi_mousetrack(e, hd.arg = <<"m">>, n)
    [] hd.k = "FocusIn" -> hdl_csi_focus(e, TRUE)
    [] hd.k = "FocusOut" -> hdl_csi_focus(e, FALSE)
    [] hd.k = "U_set" -> hdl_csi_u_set(e, Range(hd.arg), n[1])
    [] hd.k = "U_push" -> hdl_csi_u_push(e, Range(hd.arg))
    [] hd.k = "U_pop" -> hdl_csi_u_pop(e, n[1])
    [] hd.k = "SGR" -> hdl_csi_sgr(e, n, hd.arg)
    [] hd.k = "XTWINOPS" -> hdl_csi_xtwinops(e, n)

HandleReply(e, hd) ==
  CASE hd.k = "priDA" -> hdl_csi_priDA(e)
    [] hd.k = "secDA" -> hdl_csi_secDA(e)
    [] hd.k = "ID" -> hdl_vt52_id(e)
    [] hd.k = "DSR" -> hdl_csi_dsr(e, hd.ps[1])
    [] hd.k = "DECRQM" -> hdl_csi_decrqm(e)
    [] hd.k = "U_query" -> hdl_csi_u_query(e)
    [] hd.k = "DECRQSS" -> hdl_dcs_decrqss(e, hd.arg)
    [] hd.k = "XTGETTCAP" -> hdl_dcs_xtgettcap(e, hd.arg)

Handle(e, hd) ==
  CASE hd.k = "Graphemes" -> hdl_graphemes(e, hd.chs)
    [] hd.k = "REP" -> hdl_csi_rep(e, hd.ps[1], hd.chs)
    [] hd.k = "BEL" -> hdl_c0_bel(e)
    [] hd.k = "OSC" -> hdl_osc(e, hd.ps[1], hd.arg)
    [] hd.k \in MoveKeys \cup TabKeys \cup {"VPA", "VPR", "CHA", "HPA", "HPR", "CNL", "CPL", "CR", "HT", "CHT"} ->
         HandleMove(e, hd.k, hd.ps)
    [] hd.k \in {"IND", "RI", "NEL", "DECIC", "DECDC", "ecma48_SL", "ecma48_SR", "FI", "BI", "DECALN", "SU", "SD",
                 "IL", "DL", "ICH", "DCH", "ECH", "EL", "ED"} -> HandleEdit(e, hd.k, hd.ps)
    [] hd.k \in ShiftKeys \cup {"SI", "SO", "ESC_DCS", "EGM"} -> HandleCharset(e, hd.k, hd.ps, hd.arg)
    [] hd.k \in {"priDA", "secDA", "ID", "DSR", "DECRQM", "U_query", "DECRQSS", "XTGETTCAP"} -> HandleReply(e, hd)
    [] OTHER -> HandleMode(e, hd)

-----------------------------------------------------------------------------
(* emulator.go: what is kept from the client, and the client's own reading.*)

\* Mutated: a selection that an application sets is never sent.
MExcludeHandler(e, hd, replied) ==
  \/ hd.k \in {"DSR", "priDA", "secDA", "DECRQSS", "XTGETTCAP", "DECRQM", "U_query", "ID"}
  \/ hd.k = "OSC" /\ hd.ps[1] \in {4, 10, 11, 12, 17, 19, 52}

\* e is the emulator after the handler.  What was answered is not sent, and a
\* change of the keyboard's flags is not if it had no effect.
ExcludeHandler(e, hd, replied) ==
  \/ hd.k \in {"DSR", "priDA", "secDA", "DECRQSS", "XTGETTCAP", "DECRQM", "U_query", "ID"}
  \/ hd.k = "OSC" /\ hd.ps[1] \in {4, 10, 11, 12, 17, 19}
  \/ hd.k \in {"U_push", "U_pop", "U_set"} /\ ~Support(e)
  \/ hd.k = "OSC" /\ hd.ps[1] = 52 /\ replied

\* What is left of handlers for another time, as it was written.
RestoreSequence(hds) == [i \in DOMAIN hds |-> Whole(hds[i].seq)]

HandleStream(e, pieces) ==
  LET read == ProcessStream(e.parser, pieces)
  IN  FoldLeft(LAMBDA s, x : Handle(s, x.hd), [e EXCEPT !.parser = read.parser], read.hds)
=============================================================================
