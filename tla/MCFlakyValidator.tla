------------------------- MODULE MCFlakyValidator --------------------------
(* The validators of MCValidator in the retry loop, with two attempts.    *)
EXTENDS MCValidator, FlakyValidator
=============================================================================
