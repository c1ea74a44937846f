------------------------------- MODULE Parser -------------------------------
(***************************************************************************)
(* terminal/parser.go: what comes from the host, cut into control          *)
(* sequences and made into handlers.                                       *)
(*                                                                         *)
(* A sequence t is a record: what it is (k, the name after handle_), how   *)
(* it is written (form: text, c0, esc, csi, osc, dcs or vt52), its numeric *)
(* parameters ps, its string parameter arg, split at the semicolons, and   *)
(* the grapheme chs of a text.  A handler is the record of its sequence    *)
(* with its parameters filled in.                                          *)
(*                                                                         *)
(* Input comes in pieces: a sequence, or its first or its second part when *)
(* two reads split it.  Nothing is split inside a grapheme, and text that  *)
(* is not ASCII is not written in VT mode, where it is read byte by byte.  *)
(***************************************************************************)
EXTENDS Integers, Sequences, SequencesExt

NoGrapheme == [g |-> "", w |-> 0]
Nothing == [k |-> "none", form |-> "none", ps |-> <<>>, arg |-> <<>>, chs |-> NoGrapheme]

ControlSequence == [k: STRING, form: STRING, ps: Seq(Nat), arg: Seq(STRING), chs: [g: STRING, w: Nat]]
PieceSet == [t: ControlSequence, part: {"whole", "head", "tail"}]

\* ESC Z in VT52 mode leaves the parser as if an ESC had been read.
Escaped == [Nothing EXCEPT !.k = "ESC"]

\* reset: pending is the sequence of which only the first part has been read.
NewParser == [pending |-> Nothing, lastChs |-> NoGrapheme, compatLevel |-> "VT400"]

\* getPs: no parameter is written as one that is 0.
GetPs(t, n, default) == IF n <= Len(t.ps) /\ t.ps[n] >= 1 THEN t.ps[n] ELSE default
CopyArgs(t) == IF t.ps = <<0>> THEN <<>> ELSE t.ps

-----------------------------------------------------------------------------
(* The parameters of the handlers, in the order of the source.             *)

MoveKeys == {"CUU", "CUD", "CUF", "CUB", "CUP"}
Moves(t) == IF t.k = "CUP" THEN <<GetPs(t, 1, 1), GetPs(t, 2, 1)>> ELSE <<GetPs(t, 1, 1)>>

\* handle_OSC makes no handler of a command it does not know.
OscCommands == {0, 1, 2, 4, 52, 10, 11, 12, 17, 19, 112, 8}

C0Keys == {"CR", "IND", "HT", "BEL", "SI", "SO"}

\* CSI I without a parameter is how a terminal says that it got the focus.
CHT_Focus(t) == IF t.ps = <<>> THEN [t EXCEPT !.k = "FocusIn"] ELSE [t EXCEPT !.k = "CHT", !.ps = <<GetPs(t, 1, 1)>>]
TabKeys == {"HTS", "CBT", "TBC"}
Tabs(t) == CASE t.k = "HTS" -> <<>> [] t.k = "CBT" -> <<GetPs(t, 1, 1)>> [] t.k = "TBC" -> <<GetPs(t, 1, 0)>>

EditKeys == {"ICH", "HPA", "HPR", "CHA", "ED", "EL", "IL", "DL"}
Edits(t) == <<GetPs(t, 1, IF t.k \in {"ED", "EL"} THEN 0 ELSE 1)>>

ScrollKeys == {"FocusOut", "DCH", "SU", "SD", "ECH", "priDA", "secDA", "VPA", "VPR"}
Scrolls(t) == IF t.k \in {"FocusOut", "priDA", "secDA"} THEN <<>> ELSE <<GetPs(t, 1, 1)>>
SGR(t) == IF CopyArgs(t) = <<>> THEN <<0>> ELSE CopyArgs(t)
DSR(t) == <<GetPs(t, 1, 0)>>

ShiftKeys == {"SS2", "SS3", "LS1R", "LS2", "LS2R", "LS3", "LS3R", "DOCS_UTF8", "DOCS_ISO8859_1"}
EscKeys   == {"RI", "NEL", "RIS", "DECSC", "DECRC", "DECALN"}

\* handle_ESC_DCS: arg holds what designates the set, and its final byte.
Index(dst) == CASE dst = "(" -> 0 [] dst \in {")", "-"} -> 1 [] dst \in {"*", "."} -> 2 [] dst \in {"+", "/"} -> 3
Charset(dst, final) ==
  CASE final = "A" -> IF dst \in {"-", ".", "/"} THEN "ISO_8859_1" ELSE "ISO_UK"
    [] final = "0" -> "DEC_Special"
    [] final \in {"%5", "<"} -> "DEC_Supplement"
    [] final = ">" -> "DEC_Technical"
    [] OTHER -> ""
ESC_DCS(t) == [t EXCEPT !.ps = <<Index(t.arg[1])>>, !.arg = <<Charset(t.arg[1], t.arg[2])>>]

ModeKeys == {"SM", "RM", "privSM", "privRM", "U_query", "U_set", "U_push", "U_pop", "DECSTBM", "DECSTR"}
Modes(t) ==
  CASE t.k \in {"SM", "RM", "privSM", "privRM", "DECSTBM"} -> CopyArgs(t)
    [] t.k = "U_set" -> <<GetPs(t, 2, 1)>>
    [] t.k = "U_pop" -> <<GetPs(t, 1, 1)>>
    [] OTHER -> <<>>

OtherKeys == {"SLRM_SCOSC", "SCORC", "DECSCL", "DECSCUSR", "DECIC", "DECDC", "ecma48_SL", "ecma48_SR", "CNL",
              "CPL", "BI", "FI", "DECKPAM", "DECKPNM", "DECANM", "XTWINOPS", "XTMODKEYS", "EGM", "ID",
              "MouseTrack"}
Others(t) ==
  CASE t.k \in {"SLRM_SCOSC", "DECSCL", "XTWINOPS", "XTMODKEYS", "MouseTrack"} -> CopyArgs(t)
    [] t.k \in {"DECSCUSR", "DECIC", "DECDC", "ecma48_SL", "ecma48_SR", "CNL", "CPL"} -> <<GetPs(t, 1, 1)>>
    [] OTHER -> <<>>

-----------------------------------------------------------------------------
(* What a sequence does to the parser.                                     *)

\* CSI ? h and CSI ? l without parameters are taken for a change, too.
Holds2(t) == CopyArgs(t) = <<>> \/ 2 \in Range(CopyArgs(t))

SclCompatLevel(t) ==
  CASE CopyArgs(t) = <<>> \/ t.ps[1] \notin 61..65 -> {}
    [] t.ps[1] = 61 -> {"VT100"}
    [] OTHER -> {"VT400"}

\* setCompatLevel: the levels it is set to, none or one.
Levels(t) ==
  CASE t.k = "RIS" -> {"VT400"}
    [] t.k = "DECANM" -> IF t.form = "vt52" THEN {"VT100"} ELSE {"VT400"}
    [] t.k = "privSM" /\ Holds2(t) -> {"VT400"}
    [] t.k = "privRM" /\ Holds2(t) -> {"VT52"}
    [] t.k = "DECRQSS" /\ t.arg = <<"\"p">> -> {"VT400"}
    [] t.k = "DECSCL" -> SclCompatLevel(t)
    [] OTHER -> {}

AfterHandle(p, t) ==
  [p EXCEPT !.pending = IF t.k = "ID" THEN Escaped ELSE Nothing,
            !.compatLevel = IF Levels(t) = {} THEN @ ELSE CHOOSE cl \in Levels(t) : TRUE,
            !.lastChs = IF t.k = "Graphemes" THEN t.chs ELSE @]

\* The handler of a sequence, or Nothing.
HandlerOf(p, t) ==
  CASE t.k \in MoveKeys -> [t EXCEPT !.ps = Moves(t)]
    [] t.k = "CHT_Focus" -> CHT_Focus(t)
    [] t.k \in TabKeys -> [t EXCEPT !.ps = Tabs(t)]
    [] t.k \in EditKeys -> [t EXCEPT !.ps = Edits(t)]
    [] t.k \in ScrollKeys -> [t EXCEPT !.ps = Scrolls(t)]
    [] t.k = "SGR" -> [t EXCEPT !.ps = SGR(t)]
    [] t.k = "DSR" -> [t EXCEPT !.ps = DSR(t)]
    [] t.k = "ESC_DCS" -> ESC_DCS(t)
    [] t.k = "DECRQM" -> IF t.ps = <<>> \/ t.ps[1] # 2026 THEN Nothing ELSE [t EXCEPT !.ps = CopyArgs(t)]
    [] t.k \in ModeKeys -> [t EXCEPT !.ps = Modes(t)]
    [] t.k \in OtherKeys -> [t EXCEPT !.ps = Others(t)]
    [] t.k = "REP" -> [t EXCEPT !.ps = <<GetPs(t, 1, 1)>>, !.chs = p.lastChs]
    [] t.k = "OSC" -> IF t.ps[1] \in OscCommands THEN t ELSE Nothing
    [] t.k \in {"Graphemes", "DECRQSS", "XTGETTCAP"} \cup C0Keys \cup ShiftKeys \cup EscKeys -> t
    [] OTHER -> Nothing

-----------------------------------------------------------------------------
(* A stream of pieces.                                                     *)

Piece(t, part) == [t |-> t, part |-> part]
Whole(t) == Piece(t, "whole")

\* In VT52 mode ESC begins other sequences.
Understood(p, t) ==
  \/ t.form \in {"text", "c0"}
  \/ IF p.compatLevel = "VT52" THEN t.form = "vt52" ELSE t.form # "vt52"

\* A sequence is understood if its parts come one after the other.  What the
\* state machine makes of the rest, text for the most part, is left out.
Fits(p, piece) ==
  /\ Understood(p, piece.t)
  /\ \/ p.pending = IF piece.part = "tail" THEN piece.t ELSE Nothing
     \/ p.pending = Escaped /\ piece.part # "tail" /\ piece.t.form = "vt52"

\* ProcessInput for all runes of a piece.
ProcessPiece(acc, piece) ==
  LET p == acc.parser
      hd == HandlerOf(p, piece.t)
  IN  IF acc.broken \/ ~Fits(p, piece) THEN [acc EXCEPT !.broken = TRUE]
      ELSE IF piece.part = "head" THEN [acc EXCEPT !.parser.pending = piece.t]
      ELSE [acc EXCEPT !.parser = AfterHandle(p, piece.t),
                       !.hds = IF hd = Nothing THEN @ ELSE Append(@, [seq |-> piece.t, hd |-> hd])]

\* The whole stream is read before any of its handlers is run.
ProcessStream(p, pieces) ==
  FoldLeft(ProcessPiece, [parser |-> p, hds |-> <<>>, broken |-> FALSE], pieces)
=============================================================================
