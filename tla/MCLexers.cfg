SPECIFICATION Spec
CONSTANTS
  Symbols <- MCSymbols
  Digits = {"5", "0"}
  Letters = {"t", "r"}
  Reserved <- MCReserved
  Sources <- MCSources
  NoisyReserved <- MCReserved
  NoisySources <- MCNoisySources
  Truths <- MCTruths
INVARIANTS TypeOK SignConsumed AsWritten
PROPERTY EveryTextIsLexed
CHECK_DEADLOCK FALSE
