------------------------ MODULE MCSharedRejections -------------------------
(* Two runtimes with one promise each. *)
EXTENDS SharedRejections

CONSTANTS r1, r2, p1, p2

MCRuntimes == {r1, r2}
MCPromisesOf == (r1 :> {p1}) @@ (r2 :> {p2})
=============================================================================
