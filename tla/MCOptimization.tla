--------------------------- MODULE MCOptimization ---------------------------
(* Qualities on both sides of 0.0, the value of points outside of the box. *)
EXTENDS Optimization

MCQuality == {-1, 1, NaN}
=============================================================================
