SPECIFICATION Spec
CONSTANTS
  MaxHeight = 2
  MaxWidth = 3
  RepairCount = 1
  Modes <- SomeModes
  Keys <- SomeKeys
  Size <- Size2x3
  Graphemes = {"", "a", "b"}
  Texts = {"a"}
  Intervals = {"low"}
  Paces = {"quick", "late"}
  MaxOutputs = 1
INVARIANTS TypeOK PredictionsFit OnlyUnansweredRemain NothingIsShownBlindly
PROPERTY Settles
