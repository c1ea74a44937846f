---------------------------- MODULE MCPrediction ----------------------------
(* Prediction for TLC: what is typed, and sizes of the window.             *)
EXTENDS Prediction

Glyph(c, w) == [kind |-> "glyph", ch |-> c, w |-> w]
Key(k)      == [kind |-> k]

SomeKeys ==
  << {Glyph("a", 1), Glyph("b", 2), [kind |-> "resize", h |-> 1, w |-> 2]},
     {Glyph("a", 1), Key("CR"), Key("control"), [Glyph("a", 1) EXCEPT !.kind = "paste"]},
     {Key("CUB")} >>
SomeModes == {<<"Always", FALSE>>, <<"Adaptive", TRUE>>}
Size2x3  == <<2, 3>>
=============================================================================
