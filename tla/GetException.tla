--------------------------- MODULE GetException ----------------------------
(***************************************************************************)
(* getException (quickjs-jni.cpp 974-1003), Java's getCurrentError: it    *)
(* takes the pending exception and, for an Error, collects its name, its  *)
(* toString and its chain of "stack" values:                              *)
(*                                                                         *)
(*   while (!JS_IsUndefined(stackValue)) {                                 *)
(*     push ToCString(stackValue); JS_FreeValue(stackValue);               *)
(*     stackValue = JS_GetPropertyStr(ctx, stackValue, "stack"); }         *)
(*                                                                         *)
(* JS code can give any object its own "stack": Error's stack is a         *)
(* writable, configurable data property, and a getter can replace it.     *)
(* The model follows the reference counts of the objects on the chain.    *)
(* The objects that exist before the call, and what their "stack" holds,  *)
(* are fixed by Init; a getter returns a new object each time it is read, *)
(* taken from the pool Fresh.  Strings are not counted: reading "stack"   *)
(* of a string gives undefined.  The JS code run by toString and          *)
(* ToCString is taken not to change the chain.                            *)
(***************************************************************************)
EXTENDS Naturals, FiniteSets

CONSTANTS
  Objs,       \* objects that exist when getException is called
  Thrown,     \* the one of them that is the pending exception
  Fresh,      \* objects a "stack" getter can create
  Undef, Null, Str, Exception  \* JS_UNDEFINED, JS_NULL, a string, JS_EXCEPTION

ASSUME Thrown \in Objs /\ Objs \cap Fresh = {}

Cells == Objs \cup Fresh
Prims == {Undef, Null, Str, Exception}

(* What "stack" of an object is: a data property with value val, or a      *)
(* getter returning a new object.                                          *)
StackProps == [mode : {"data"}, val : {Undef, Null, Str} \cup Objs]
                \cup [mode : {"getter"}]

VARIABLES
  isError,     \* JS_IsError(ctx, exc)
  prop,        \* [Cells -> StackProps]: the "stack" property of each object
  rc,          \* [Cells -> Nat]: reference counts; a created Fresh object
               \* whose count returns to 0 is freed
  created,     \* Fresh objects a getter has returned
  pc,          \* "take", "props", "loop" or "done"
  stackValue,  \* the local stackValue
  uaf          \* history: a freed object was read

vars == <<isError, prop, rc, created, pc, stackValue, uaf>>

(* The references to o held by the data properties of existing objects. *)
PropRefs(p, o) == Cardinality({d \in Objs : p[d] = [mode |-> "data", val |-> o]})

(* Every existing object is held by a variable of the script; Thrown is  *)
(* also held by the pending-exception slot.                              *)
Init ==
  /\ isError \in BOOLEAN
  /\ \E po \in [Objs -> StackProps], pf \in [Fresh -> {Undef, Str}] :
       /\ prop = [c \in Cells |-> IF c \in Objs THEN po[c]
                                   ELSE [mode |-> "data", val |-> pf[c]]]
       /\ rc = [c \in Cells |-> IF c \in Objs
                                THEN 1 + PropRefs(po, c) + (IF c = Thrown THEN 1 ELSE 0)
                                ELSE 0]
  /\ created = {}
  /\ pc = "take"
  /\ stackValue = Undef
  /\ uaf = FALSE

(* JS_GetPropertyStr(ctx, v, "stack"), given the counts r: the value got *)
(* and the counts after.  A getter takes the first free Fresh object.    *)
(* Reading a property of null throws, and JS_GetPropertyInternal returns  *)
(* JS_EXCEPTION for the JS_EXCEPTION tag itself: the walk never leaves it. *)
GetStack(v, r) ==
  CASE v \in Cells /\ prop[v].mode = "data" ->
         LET w == prop[v].val IN
         {<<w, IF w \in Cells THEN [r EXCEPT ![w] = @ + 1] ELSE r>>}
    [] v \in Cells ->
         {<<f, [r EXCEPT ![f] = 1]>> : f \in Fresh \ created}
    [] v = Null      -> {<<Exception, r>>}
    [] v = Exception -> {<<Exception, r>>}
    [] OTHER         -> {<<Undef, r>>}

Release(v, r) == IF v \in Cells THEN [r EXCEPT ![v] = @ - 1] ELSE r

(* JS_GetException takes the slot's reference; a value that is not an    *)
(* Error returns nullptr, and that reference is never released.          *)
TakeException ==
  /\ pc = "take"
  /\ pc' = IF isError THEN "props" ELSE "done"
  /\ UNCHANGED <<isError, prop, rc, created, stackValue, uaf>>

(* func, nameValue, stackValue and titleValue are read; func is freed.   *)
(* Only stackValue's reference is followed.                              *)
ReadProperties ==
  /\ pc = "props"
  /\ \E res \in GetStack(Thrown, rc) :
       /\ stackValue' = res[1]
       /\ rc' = res[2]
       /\ created' = created \cup ({res[1]} \cap Fresh)
  /\ pc' = "loop"
  /\ UNCHANGED <<isError, prop, uaf>>

(* One turn of the loop: the value is converted, freed, then read again. *)
StackStep ==
  /\ pc = "loop" /\ stackValue # Undef
  /\ LET r == Release(stackValue, rc) IN
       IF stackValue \in Cells /\ r[stackValue] = 0
       THEN /\ uaf' = TRUE /\ rc' = r /\ pc' = "done"
            /\ UNCHANGED <<stackValue, created>>
       ELSE \E res \in GetStack(stackValue, r) :
              /\ stackValue' = res[1]
              /\ rc' = res[2]
              /\ created' = created \cup ({res[1]} \cap Fresh)
              /\ UNCHANGED <<pc, uaf>>
  /\ UNCHANGED <<isError, prop>>

(* The loop ends; exc is freed and the strings go to Java. *)
Finish ==
  /\ pc = "loop" /\ stackValue = Undef
  /\ rc' = Release(Thrown, rc)
  /\ pc' = "done"
  /\ UNCHANGED <<isError, prop, created, stackValue, uaf>>

Next == TakeException \/ ReadProperties \/ StackStep \/ Finish

(* getException runs on the calling thread and waits for nothing. *)
Spec == Init /\ [][Next]_vars /\ WF_vars(Next)

(* The stack walk never reads an object it has freed: JS_GetPropertyStr  *)
(* at line 993 reads stackValue after JS_FreeValue dropped the reference *)
(* the previous read returned, which is the last one when a getter made  *)
(* the object.                                                            *)
NoUseAfterFree == ~uaf

(* The references a finished call leaves: the script's variable and the  *)
(* data properties for an existing object; none for a getter's object.   *)
Holders(c) == IF c \in Objs THEN 1 + PropRefs(prop, c) ELSE 0

(* Every reference getException takes it gives back, and it frees none it *)
(* did not take: when the call returns, each count equals its holders.    *)
(* JS_GetException hands the pending exception's reference to the caller; *)
(* the early return at line 978 for a value that is not an Error drops it *)
(* unfreed, while the walk frees what each read returns (line 992) and    *)
(* line 995 frees exc.  Together with NoUseAfterFree.                      *)
ReferencesBalanced ==
  /\ NoUseAfterFree
  /\ pc = "done" => \A c \in Cells : rc[c] = Holders(c)

(* Every getException call returns to Java: the stack walk reaches        *)
(* undefined.  An Error whose stack chain comes back to itself             *)
(* (e.stack = e) is walked forever, pushing a string per turn; the model   *)
(* leaves the vector out, so a turn on e.stack = e repeats the state and   *)
(* TLC shows the endless loop as stuttering at pc = "loop".                *)
GetExceptionReturns == pc # "done" ~> pc = "done"

=============================================================================
