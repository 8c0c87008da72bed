\* An audio codec that holds up to two frames, may skip and may fail.
CONSTANTS
  Frame = {f1, f2, f3, f4, f5}
  CodecDelay = 2
  Skipped = {f3}
  EncodeFails = TRUE
  Sized = TRUE
  Short = {f4}
  Unfit = {f5}
  Flushable = TRUE
SPECIFICATION FairSpec
INVARIANTS DrainOrder HungryMeansAccepting
PROPERTIES PipeSpec
