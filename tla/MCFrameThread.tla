--------------------------- MODULE MCFrameThread ---------------------------
(* Small instance of FrameThread, with one codec for each way the code      *)
(* distinguishes them.                                                      *)
EXTENDS FrameThread

Software == [update |-> TRUE, delay |-> TRUE, ffv1 |-> FALSE, hw |-> "none",
             async_safe |-> TRUE]

AllCodecs ==
  { Software,
    [Software EXCEPT !.update = FALSE, !.delay = FALSE],
    [Software EXCEPT !.delay = FALSE, !.ffv1 = TRUE],
    [Software EXCEPT !.hw = "safe"],
    [Software EXCEPT !.hw = "serial"],
    [Software EXCEPT !.hw = "serial", !.async_safe = FALSE] }
=============================================================================
