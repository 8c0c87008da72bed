\* All six programs, two frames of delay, drains may fail.
CONSTANTS
  Unit = {u1, u2, u3, u4}
  Corrupt = {u3}
  Hidden = {u4}
  CodecDelay = 2
  DrainFails = TRUE
  NbErrorsMax = 1
  VideoLen = 5
  AudioLen = 2
  Programs <- MCPrograms
  Packet <- MCPacket
  Inputs <- MCInputs
SPECIFICATION LoopFairSpec
INVARIANTS NothingPending CompleteOutput
PROPERTIES Terminates
