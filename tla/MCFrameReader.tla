--------------------------- MODULE MCFrameReader ---------------------------
(***************************************************************************)
(* An instance of FrameReader for TLC: six frames behind headers of two    *)
(* bytes, with bodies of 2, 0, 3, 1, 2 and 0 bytes.  One keepalive asks    *)
(* before the last change, and one after it; the stream ends in an error.  *)
(***************************************************************************)
EXTENDS FrameReader

SixFrames == <<4, 6, 11, 14, 18, 20>>
SixKinds == <<"xlog", "skip", "ask", "xlog", "ask", "error">>
=============================================================================
