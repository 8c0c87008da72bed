\* A codec that holds two frames back, packets of up to two coded frames, corrupt
\* and hidden frames, drains that may fail.
CONSTANTS
  Unit = {u1, u2, u3, u4}
  Corrupt = {u3}
  Hidden = {u4}
  CodecDelay = 2
  DrainFails = TRUE
  NbErrorsMax = 1
  PacketLen = 2
  Packet <- MCPacket
SPECIFICATION FairSpec
INVARIANTS DrainOrder EofMeansEmpty HungryMeansAccepting
PROPERTIES CallsReturn DrainTerminates PipeSpec
