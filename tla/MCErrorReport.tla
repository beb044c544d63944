--------------------------- MODULE MCErrorReport ---------------------------
(* Two Error objects and one non-Error value thrown by JS code. *)
EXTENDS ErrorReport

CONSTANTS e1, e2, n

MCErrors == {e1, e2}
=============================================================================
