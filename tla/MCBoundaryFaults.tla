------------------------- MODULE MCBoundaryFaults --------------------------
(* Model-checking instance of BoundaryFaults: the entry points whose      *)
(* reference counting is wrong, with the few entry points that make a      *)
(* value for them to be applied to.                                        *)
EXTENDS BoundaryFaults

CONSTANTS g, c1, c2, c3

MCCells == {g, c1, c2, c3}
MCKeys == {0}

BorrowedFreeEntries == {"initNewJSObject", "setPrototype", "getPrototype",
                        "getObject", "toJSString", "releasePtr"}
HandleArgEntries == {"getGlobalObject", "initNewJSObject", "executeScript",
                     "executeFunction", "executeFunctionHandleArg", "releasePtr"}
BorrowedEntries == BorrowedFreeEntries \cup HandleArgEntries
(* With the entry points whose references To_JObject drops or             *)
(* executeFunction2 keeps.                                                 *)
RefCountEntries == BorrowedEntries \cup {"set", "get", "parseJSON",
                                         "initNewJSFunction", "executeFunction2"}

(* Scripts call callbacks as f(x) and as globalThis.f(x). *)
AnyCallThis == {NoVal, GlobalObj}
=============================================================================
