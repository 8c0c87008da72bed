\* Three streams, one of subtitles, one of sparse data (SMPTE 2038), a delay limit, failing writes.
CONSTANTS
  NbStreams = 3
  Subtitle = {2}
  Data = {1}
  Sparse = {1}
  TsNonstrict = FALSE
  MaxDelta = 2
  WriteFails = TRUE
  NoDts = NoDts
  MaxPackets = 4
  TimeBase <- MCTimeBase
  Dts <- ShortDts
SPECIFICATION MuxFairSpec
INVARIANTS ListSound  Conserved 
PROPERTIES MuxCallsReturn
