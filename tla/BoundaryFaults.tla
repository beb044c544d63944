--------------------------- MODULE BoundaryFaults ---------------------------
(***************************************************************************)
(* The JNI entry points of quickjs-jni.cpp that call JS_FreeValue on a     *)
(* value read from a Java JSValue handle, added to those of Boundary.      *)
(* TO_JS_VALUE borrows the handle's reference: it does not duplicate it,   *)
(* so freeing the value gives up a reference the Java handle still owns.   *)
(***************************************************************************)
EXTENDS Boundary

(* getPrototype: JS_GetPrototype returns the prototype without a new      *)
(* reference in engine releases up to 2021 and with one in later ones     *)
(* (newRef, a property of the build); then the argument is freed and the  *)
(* prototype wrapped.  An unset prototype is a built-in object that the    *)
(* model does not track.                                                   *)
GetPrototype(c) ==
  /\ "getPrototype" \in Entry
  /\ \E newRef \in BOOLEAN :
       LET p  == mem.proto[c]
           m1 == IF newRef THEN JS_DupValue(mem, p) ELSE mem
       IN  mem' = TO_JAVA_OBJECT(JS_FreeValue(m1, c), p)

(* getObject: a second handle on the same value, then the value is freed. *)
GetObject(c) ==
  /\ "getObject" \in Entry
  /\ mem' = JS_FreeValue(TO_JAVA_OBJECT(mem, c), c)

(* toJSString: the string JS_ToString makes is freed, and so is the value *)
(* the handle refers to.                                                   *)
ToJSString(c) ==
  /\ "toJSString" \in Entry
  /\ mem' = JS_FreeValue(mem, c)

(* executeFunction with a JSValue handle in the argument array:           *)
(* JavaToJSValue borrows it and the loop after JS_Call frees it.           *)
ExecuteFunctionHandleArg(o, k, h, expected) ==
  /\ "executeFunctionHandleArg" \in Entry
  /\ ExecuteFunction(o, k, <<h>>, expected)

NextFaults ==
  \/ Next
  \/ /\ \/ \E c \in JavaHeld(mem) : GetPrototype(c) \/ GetObject(c) \/ ToJSString(c)
        \/ \E o \in ObjectHandles, k \in Keys, h \in JavaHeld(mem), e \in ExpectedTypes :
             ExecuteFunctionHandleArg(o, k, h, e)
     /\ Bounded(mem')

SpecFaults == Init /\ [][NextFaults]_vars
=============================================================================
