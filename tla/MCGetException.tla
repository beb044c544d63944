-------------------------- MODULE MCGetException ---------------------------
(* getException on a thrown object e, one other object o and one object  *)
(* a getter can create.                                                   *)
EXTENDS GetException

CONSTANTS e, o, f

MCObjs == {e, o}
MCFresh == {f}
=============================================================================
