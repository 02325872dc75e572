---------------------------- MODULE MCFlakiness ----------------------------
(* Model of flaky_wrapped_cb with the default retry budget shrunk to 4.    *)
EXTENDS Flakiness

CONSTANTS e1, e2, x1

MCErrors == {e1, e2}
MCEscaping == {x1}

=============================================================================
