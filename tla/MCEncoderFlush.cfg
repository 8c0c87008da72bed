\* libfdk_aac: fixed frame size, small last frame, flushable; no bad frames.
CONSTANTS
  Frame = {f1, f2, f4}
  CodecDelay = 2
  Skipped = {}
  EncodeFails = FALSE
  Sized = TRUE
  Short = {f4}
  Unfit = {}
  Flushable = TRUE
SPECIFICATION Spec
PROPERTIES FlushedIsFresh
