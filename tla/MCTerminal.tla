----------------------------- MODULE MCTerminal -----------------------------
(***************************************************************************)
(* A terminal of three columns and three rows with two rows of scrollback, *)
(* in one of several states an application has brought it to; then the     *)
(* application writes one of all the sequences, or a longer stretch, and   *)
(* then one of a few more.                                                 *)
(***************************************************************************)
EXTENDS Terminal

\* Sequences.
T(k, form, ps, arg) == [k |-> k, form |-> form, ps |-> ps, arg |-> arg, chs |-> NoGrapheme]
Csi(k, ps) == T(k, "csi", ps, <<>>)
Esc(k) == T(k, "esc", <<>>, <<>>)
C0(k)  == T(k, "c0", <<>>, <<>>)
Osc(n, arg) == T("OSC", "osc", <<n>>, arg)
Text(g, w) == [T("Graphemes", "text", <<>>, <<>>) EXCEPT !.chs = [g |-> g, w |-> w]]

A  == Text("a", 1)
B  == Text("b", 1)
W  == Text("w", 2)
LF == C0("IND")
CR == C0("CR")

Moving ==
  {Csi(k, <<2>>) : k \in {"CUU", "CUD", "CUF", "CUB", "VPA", "VPR", "CHA", "HPA", "HPR", "CNL", "CPL", "CBT", "CHT_Focus"}}
  \cup {Csi("CUP", <<3, 3>>), Csi("CUP", <<>>), CR, LF, C0("HT"), Esc("HTS"), Csi("TBC", <<0>>), Csi("TBC", <<3>>)}

Editing ==
  {Csi(k, <<n>>) : k \in {"SU", "SD"}, n \in {1, 4}}
  \cup {Csi(k, <<1>>) : k \in {"IL", "DL", "DECIC", "DECDC", "ecma48_SL", "ecma48_SR", "ICH", "DCH", "ECH"}}
  \cup {Csi("EL", <<n>>) : n \in 0..2} \cup {Csi("ED", <<n>>) : n \in 0..3}
  \cup {Esc(k) : k \in {"RI", "NEL", "FI", "BI", "DECALN"}}
  \cup {A, W, Csi("REP", <<2>>)}

Charsets ==
  {C0("SI"), C0("SO")} \cup {Esc(k) : k \in ShiftKeys}
  \cup {T("ESC_DCS", "esc", <<>>, <<d, f>>) : d \in {"(", "*"}, f \in {"0", "B"}}
  \cup {T("ESC_DCS", "esc", <<>>, <<"-", "A">>), T("ESC_DCS", "esc", <<>>, <<")", ">">>), T("ESC_DCS", "esc", <<>>, <<"+", "<">>)}

Renditions == {Csi("SGR", <<>>), Csi("SGR", <<1, 31, 22, 5, 25>>), Csi("SGR", <<48, 5, 2, 90>>), Csi("SGR", <<38, 2, 1>>),
               [Csi("SGR", <<58, 2, 0, 1, 1, 1, 4, 3>>) EXCEPT !.arg = <<":", ":", ":", ":", ":", ";", ":", "">>],
               [Csi("SGR", <<4, 0>>) EXCEPT !.arg = <<":", "">>]}

Switching ==
  {Csi("SM", <<2, 4, 12>>), Csi("SM", <<20>>), Csi("RM", <<4, 12, 99>>)}
  \cup {Csi("privSM", <<n>>) : n \in {2, 3, 6, 12, 67, 69, 1000, 1004, 1006, 1048, 1049, 2026, 5, 47}}
  \cup {Csi("privRM", <<n>>) : n \in {2, 3, 6, 7, 12, 25, 67, 69, 1000, 1006, 1048, 1049, 47}}
  \cup {Csi("DECSTBM", <<>>), Csi("DECSTBM", <<2, 3>>), Csi("DECSTBM", <<1, 3>>), Csi("DECSTBM", <<3, 3>>),
        Csi("SLRM_SCOSC", <<>>), Csi("SLRM_SCOSC", <<2, 3>>), Csi("SLRM_SCOSC", <<3, 3>>), Csi("SCORC", <<>>),
        Csi("DECSTR", <<>>), Csi("DECSCL", <<61>>), Csi("DECSCL", <<64, 1>>), Csi("DECSCUSR", <<4>>)}
  \cup {Esc(k) : k \in {"DECSC", "DECRC", "RIS", "DECANM", "DECKPAM", "DECKPNM"}}
  \cup {T("MouseTrack", "csi", <<0, 2, 2>>, <<"m">>), Csi("CHT_Focus", <<>>), Csi("FocusOut", <<>>),
        Csi("XTMODKEYS", <<4, 2>>), Csi("XTMODKEYS", <<4>>),
        T("U_push", "csi", <<>>, <<"disambiguate">>), T("U_set", "csi", <<1, 2>>, <<"event">>), Csi("U_pop", <<2>>)}

Asking ==
  {Csi("priDA", <<>>), Csi("secDA", <<>>), Csi("DSR", <<5>>), Csi("DSR", <<6>>), Csi("DECRQM", <<2026>>), Csi("DECRQM", <<7>>),
   Csi("U_query", <<>>), T("DECRQSS", "dcs", <<>>, <<"\"p">>), T("DECRQSS", "dcs", <<>>, <<"m">>),
   T("XTGETTCAP", "dcs", <<>>, <<"Co", "not hex">>)}
  \cup {Osc(4, <<"1", "?">>), Osc(4, <<"no number", "?">>), Osc(4, <<"1">>), Osc(11, <<"?">>), Osc(112, <<>>), Osc(99, <<>>)}
  \cup {Osc(52, <<"c", "base64">>), Osc(52, <<"", "?">>), Osc(52, <<"c", "">>), Osc(52, <<"x", "base64">>), Osc(52, <<"c">>)}
  \cup {Osc(0, <<"title">>), Osc(1, <<"icon">>), Osc(2, <<"other">>), Osc(8, <<"", "uri">>), Osc(8, <<"", "">>), Osc(8, <<"k=v", "uri">>)}
  \cup {Csi("XTWINOPS", <<22, 0>>), Csi("XTWINOPS", <<23, 2>>), Csi("XTWINOPS", <<8, 4, 3>>), Csi("XTWINOPS", <<8>>)}
  \cup {C0("BEL")}

VT52 == {T(k, "vt52", <<>>, <<>>) : k \in {"DECANM", "EGM", "ID", "CUU", "RI", "DOCS_UTF8"}}

Singles == {<<Whole(t)>> : t \in Moving \cup Editing \cup Charsets \cup Renditions \cup Switching \cup Asking \cup VT52}

\* Streams that fill the ring, that end within a sequence, and that change how
\* the rest is read.
All(ts) == [i \in DOMAIN ts |-> Whole(ts[i])]
Lines == <<A, LF, B, LF, A, LF, B, LF>>
Up == Csi("CUU", <<1>>)
Long == {All(Lines \o <<A, CR, W>>),
         All(Lines \o <<Csi("REP", <<2>>), A>>),
         All(Lines) \o <<Whole(B), Piece(Up, "head")>>,
         <<Whole(B), Piece(Up, "head")>>,
         All(<<Csi("privSM", <<1049>>)>> \o Lines),
         All(<<Csi("DECSTBM", <<2, 3>>), Csi("CUP", <<3, 1>>), LF>>),
         All(<<Esc("RIS"), A>>),
         All(<<Osc(8, <<"", "uri">>), Osc(8, <<"", "">>)>>),
         All(<<Osc(52, <<"c", "base64">>), Osc(52, <<"c", "?">>)>>),
         All(<<T("ESC_DCS", "esc", <<>>, <<"(", "0">>), A, Csi("REP", <<2>>)>>)}

MCWrites == <<Singles \cup Long,
              {All(<<t>>) : t \in {A, W, LF, Csi("SD", <<1>>), Csi("REP", <<1>>), Csi("ED", <<1>>), Csi("ICH", <<1>>),
                             Csi("DECSTBM", <<>>), Csi("privRM", <<1049>>), Esc("DECRC"), Esc("RI"), Csi("SCORC", <<>>),
                             Csi("privSM", <<1049>>), Csi("IL", <<1>>), Esc("RIS")}}
              \cup {<<Piece(Up, "tail")>>, All(<<LF, LF, LF>>)} >>

MCPrologues ==
  {<<>>,
   <<A, LF, CR, B, LF, CR, A, LF, CR, B, LF, CR, W, Esc("DECSC")>>,
   <<A, LF, LF, LF, Csi("DECSTBM", <<2, 3>>), Csi("privSM", <<6>>), B, Csi("SLRM_SCOSC", <<>>)>>,
   <<A, LF, LF, LF, B, Csi("privSM", <<1049>>), A, LF, Esc("HTS"), Csi("DECSCL", <<61>>)>>,
   <<W, Csi("privSM", <<69>>), Csi("SLRM_SCOSC", <<2, 3>>), Csi("CUP", <<2, 2>>), A, Csi("SM", <<4>>)>>,
   <<A, B, A, B, Csi("privRM", <<2>>)>>}

MCSizes == {<<3, 2>>, <<4, 4>>}
=============================================================================
