\* Two copied streams, and packets of a data stream behind them.
CONSTANTS
  NbInStreams = 3
  Kept = {0, 1}
  From = {0, 1, 2}
  NbStreams = 2
  Subtitle = {}
  Data = {}
  Sparse = {}
  TsNonstrict = TRUE
  MaxDelta = 4
  WriteFails = TRUE
  NoDts = NoDts
  Dts = {}
  MaxPackets = 0
  InputLen = 4
  MaxDts = 3
  TimeBase <- MCTimeBase
  InBase <- MCInBase
  Inputs <- MCInputs
SPECIFICATION RemuxFairSpec
INVARIANTS RemuxFaithful StopsAtUnplaceable FileComplete
