---------------------------- MODULE MCJobPump ----------------------------
(* Model of JobPump with a few promises. *)
EXTENDS JobPump

CONSTANTS p1, p2

MCPromises == {p1, p2}

=============================================================================
