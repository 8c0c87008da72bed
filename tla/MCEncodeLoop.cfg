\* Both programs: encodeAudioDemo.c over libfdk_aac, with a fixed frame size that
\* every frame has, and encodeVideoDemo.c, whose frames have no format (f4).
CONSTANTS
  Frame = {f1, f2, f3, f4}
  CodecDelay = 2
  Skipped = {f3}
  EncodeFails = TRUE
  Sized = TRUE
  Short = {}
  Unfit = {f4}
  Flushable = TRUE
  InputLen = 5
  Programs <- BothPrograms
SPECIFICATION LoopFairSpec
INVARIANTS CompleteOutput SamplesFree
PROPERTIES Terminates
