---------------------------- MODULE MCBoundary -----------------------------
(* Model-checking instance of Boundary: the global object and three more  *)
(* heap values, one property key, counts bounded by two.                   *)
EXTENDS Boundary

CONSTANTS g, c1, c2, c3

MCCells == {g, c1, c2, c3}
MCKeys == {0}

(* Every JNI entry point of Boundary. *)
AllEntries == {"getGlobalObject", "initNewJSObject", "initNewJSArray",
               "initNewJSFunction", "registerJavaMethod", "get", "getValue", "arrayGet",
               "arrayGetValue", "set", "arrayAdd", "releasePtr", "executeFunction",
               "executeFunction2", "executeScript", "parseJSON", "newError",
               "setPrototype"}

(* Scripts call callbacks as plain functions, f(x): the call with the     *)
(* global object as this is the borrowed-handle path of refcount_errors.  *)
PlainCallThis == {NoVal}
=============================================================================
