------------------------------- MODULE MCLabel -------------------------------
(* All pairs of bitfields of four bits.  As in the code the characters that  *)
(* have the label Sigma are a part of both bitfields.                        *)
EXTENDS Label

MCEverything == {0, 2, 3, 4, 5, 6}
=============================================================================
