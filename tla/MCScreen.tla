------------------------------ MODULE MCScreen ------------------------------
(* Screen with its symbols as model values. *)
EXTENDS Screen
CONSTANT a
TwoChars == {a, Blank}
=============================================================================
