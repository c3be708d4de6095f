------------------------- MODULE MCComplexityQueue -------------------------
(***************************************************************************)
(* ComplexityQueue with two workers that meet on one submission.           *)
(***************************************************************************)
EXTENDS ComplexityQueue

CONSTANTS w1, w2
=============================================================================
