------------------------------ MODULE Boundary ------------------------------
(***************************************************************************)
(* Reference ownership across the JNI boundary of quickjs-jni.cpp.        *)
(*                                                                         *)
(* The engine keeps a reference count on every heap value (object, array,  *)
(* function, string, error).  References are held by property slots and   *)
(* prototype links of live objects, by the context (its global object and  *)
(* its pending-exception slot) and by the Java side, which holds JSValue   *)
(* handles created by TO_JAVA_OBJECT and gives them back with releasePtr.  *)
(* Each JNI entry point is one atomic action: the engine is confined to    *)
(* the thread that makes the call, so nothing interleaves inside one.      *)
(*                                                                         *)
(* The whole heap and the Java handle counts are one record, mem, so that  *)
(* each entry point is written as the composition of the engine calls it   *)
(* makes: JS_DupValue, JS_FreeValue (with the cascade of a free), the      *)
(* creation of a value, TO_JAVA_OBJECT and JS_SetPropertyStr.              *)
(***************************************************************************)
EXTENDS Integers, Sequences, FiniteSets, SequencesExt

CONSTANTS
  Cells,      \* identities of engine heap values (model values)
  GlobalObj,  \* the context's global object
  Keys,       \* property names and array indices, 0 .. n
  NoVal,      \* undefined, an empty slot, or JS_EXCEPTION: no reference count
  Prim,       \* any other value without a reference count (null, numbers, booleans)
  Entry,      \* the JNI entry points the Java side calls in this model
  ScriptThis, \* this of a script's call of a callback: NoVal for f(x),
              \* GlobalObj for globalThis.f(x)
  MaxRef      \* bound on every reference count and handle count

ASSUME GlobalObj \in Cells /\ NoVal \notin Cells /\ Prim \notin Cells /\ NoVal # Prim
ASSUME Keys \subseteq Nat /\ Keys # {}
ASSUME MaxRef \in Nat \ {0}
ASSUME ScriptThis \subseteq {NoVal, GlobalObj}

(* Type codes of quickjs-jni.cpp (the TYPE_ constants), engine tag JS_TAG_OBJECT. *)
TYPE_UNKNOWN == 0
TYPE_INTEGER == 1
TYPE_STRING == 4
TYPE_JS_ARRAY == 5
TYPE_JS_OBJECT == 6
TYPE_JS_FUNCTION == 7
TYPE_UNDEFINED == 99
JS_TAG_OBJECT == -1

(* Type codes the Java side passes as expected_type, one for each branch  *)
(* of To_JObject's switch that treats a heap value differently: classify  *)
(* it, drop its reference (TYPE_STRING; TYPE_INTEGER, TYPE_DOUBLE and      *)
(* TYPE_BOOLEAN do the same), or wrap it in a handle.                     *)
ExpectedTypes == {TYPE_UNKNOWN, TYPE_STRING, TYPE_JS_OBJECT}

Kinds == {"object", "array", "callback", "jsfunction", "string", "error"}

(* Java values handed to the native side: a boxed primitive (or null),    *)
(* a java.lang.String, a java.util.List of primitives, or a JSValue handle. *)
JPrim == "jprim"
JStr == "str"
JList == "list"

VARIABLE mem

vars == <<mem>>

Live(m) == m.alloc \ m.dead
JavaHeld(m) == {c \in Cells : m.handles[c] > 0}

-----------------------------------------------------------------------------
(* Engine primitives, each a function from heap to heap.                   *)

(* The references a value holds on other values: its slots and prototype. *)
OwnRefs(m, c) ==
  LET ks == SetToSeq({k \in Keys : m.slot[c][k] \in Cells})
  IN  [i \in 1 .. Len(ks) |-> m.slot[c][ks[i]]]
        \o (IF m.proto[c] \in Cells THEN <<m.proto[c]>> ELSE <<>>)

(* JS_FreeValue on each value of todo: a count that reaches zero frees the *)
(* value, which releases the references it holds and keeps none.           *)
RECURSIVE Cascade(_, _)
Cascade(m, todo) ==
  IF todo = <<>> THEN m
  ELSE LET c  == Head(todo)
           m1 == [m EXCEPT !.rc[c] = @ - 1]
       IN  IF m1.rc[c] = 0
           THEN Cascade([m1 EXCEPT !.dead = @ \cup {c},
                                   !.slot[c] = [k \in Keys |-> NoVal],
                                   !.proto[c] = NoVal],
                        Tail(todo) \o OwnRefs(m1, c))
           ELSE Cascade(m1, Tail(todo))

JS_FreeValue(m, v) == IF v \in Cells THEN Cascade(m, <<v>>) ELSE m

JS_DupValue(m, v) == IF v \in Cells THEN [m EXCEPT !.rc[v] = @ + 1] ELSE m

Fresh(m) == CHOOSE c \in Cells \ m.alloc : TRUE

(* A newly created value with one reference, owned by the caller. *)
NewValue(m, c, k) ==
  [m EXCEPT !.alloc = @ \cup {c}, !.kind[c] = k, !.rc[c] = 1]

(* TO_JAVA_OBJECT: the caller's reference passes to a new Java handle. *)
TO_JAVA_OBJECT(m, v) == IF v \in Cells THEN [m EXCEPT !.handles[v] = @ + 1] ELSE m

(* JS_SetPropertyStr / JS_SetPropertyUint32: consumes v, frees the old value. *)
SetSlot(m, o, k, v) == JS_FreeValue([m EXCEPT !.slot[o][k] = v], m.slot[o][k])

(* JS_Throw: consumes v as the pending exception, frees the previous one. *)
JS_Throw(m, v) == JS_FreeValue([m EXCEPT !.exc = v], m.exc)

GetObjectType(m, v) ==
  CASE v = NoVal                 -> TYPE_UNDEFINED
    [] v = Prim                  -> TYPE_INTEGER
    [] m.kind[v] = "array"       -> TYPE_JS_ARRAY
    [] m.kind[v] \in {"callback", "jsfunction"} -> TYPE_JS_FUNCTION
    [] m.kind[v] = "string"      -> TYPE_STRING
    [] OTHER                     -> TYPE_JS_OBJECT

(* To_JObject: only the object-like types are wrapped in a handle; for the *)
(* others a Java value is built and the reference to v is dropped.         *)
To_JObject(m, expected, v) ==
  LET t == IF v = NoVal THEN TYPE_UNDEFINED
           ELSE IF v = Prim THEN TYPE_INTEGER
           ELSE IF expected = TYPE_UNKNOWN THEN GetObjectType(m, v) ELSE expected
  IN  IF t \in {TYPE_JS_ARRAY, TYPE_JS_OBJECT, TYPE_JS_FUNCTION, TYPE_UNDEFINED}
      THEN TO_JAVA_OBJECT(m, v) ELSE m

(* Variant for checking: a JSValue handle passed back without JS_DupValue. *)
JobjectToJSValueNoDup(m, jv) ==
  CASE jv = JPrim -> [m |-> m, v |-> Prim]
    [] jv = JStr  -> [m |-> NewValue(m, Fresh(m), "string"), v |-> Fresh(m)]
    [] jv = JList -> [m |-> m, v |-> NoVal]
    [] OTHER      -> [m |-> m, v |-> jv]

(* JobjectToJSValue: a result record of the new heap and the engine value. *)
JobjectToJSValue(m, jv) ==
  CASE jv = JPrim -> [m |-> m, v |-> Prim]
    [] jv = JStr  -> [m |-> NewValue(m, Fresh(m), "string"), v |-> Fresh(m)]
    [] jv = JList -> [m |-> m, v |-> NoVal]
    [] OTHER      -> [m |-> JS_DupValue(m, jv), v |-> jv]

(* JavaToJSValue: a List becomes a new array, a String a new string, and  *)
(* any other object is read as a JSValue handle by TO_JS_VALUE, without a *)
(* JS_DupValue.                                                            *)
JavaToJSValue(m, jv) ==
  CASE jv = JPrim -> [m |-> m, v |-> Prim]
    [] jv = JStr  -> [m |-> NewValue(m, Fresh(m), "string"), v |-> Fresh(m)]
    [] jv = JList -> [m |-> NewValue(m, Fresh(m), "array"), v |-> Fresh(m)]
    [] OTHER      -> [m |-> m, v |-> jv]

-----------------------------------------------------------------------------
(* Calls into engine code.                                                 *)

(* callJavaCallback: each argument is duplicated and given to Java (as a   *)
(* handle, or as a String whose duplicated reference is never freed);      *)
(* this_val is wrapped in a handle, and duplicated unless it equals the    *)
(* global object, so a handle on the global carries no reference of its   *)
(* own.  Java answers jr: a value converted by JobjectToJSValue, or an     *)
(* exception, which becomes a thrown Error and the JS_EXCEPTION result.    *)
ArgToJava(m, a) ==
  LET m1 == JS_DupValue(m, a)
  IN  IF a \in Cells /\ m1.kind[a] # "string" THEN TO_JAVA_OBJECT(m1, a) ELSE m1

RECURSIVE ArgsToJava(_, _)
ArgsToJava(m, args) ==
  IF args = <<>> THEN m ELSE ArgsToJava(ArgToJava(m, Head(args)), Tail(args))

ThisToJava(m, this) ==
  IF this = GlobalObj THEN TO_JAVA_OBJECT(m, this)
  ELSE JS_DupValue(TO_JAVA_OBJECT(m, this), this)

JavaAnswers(m) == {JPrim, JStr, "throw"} \cup JavaHeld(m)

CallJavaCallback(m, this, args, jr) ==
  LET m1 == ThisToJava(ArgsToJava(m, args), this)
  IN  IF jr = "throw"
      THEN [m |-> JS_Throw(NewValue(m1, Fresh(m1), "error"), Fresh(m1)), v |-> NoVal]
      ELSE JobjectToJSValue(m1, jr)

(* Engine code of a plain JS function: it returns nothing, an argument   *)
(* or this, and may keep an argument in a property of the global object.   *)
JSFunctionResults(args, this) ==
  {NoVal} \cup ((ToSet(args) \cup {this}) \cap Cells)

RunJSFunction(m, this, args, ret, keep, k) ==
  LET m1 == IF keep \in Cells THEN SetSlot(JS_DupValue(m, keep), GlobalObj, k, keep) ELSE m
  IN  [m |-> JS_DupValue(m1, ret), v |-> ret]

(* JS_Call: a non-function throws a TypeError; a callback created by       *)
(* newFunction runs callJavaCallback; other functions run engine code.     *)
(* ch is the input of the callee: Java's answer, or the engine's choice.   *)
JS_Call(m, func, this, args, ch) ==
  CASE func \notin Cells \/ m.kind[func] \notin {"callback", "jsfunction"} ->
         [m |-> JS_Throw(NewValue(m, Fresh(m), "error"), Fresh(m)), v |-> NoVal]
    [] m.kind[func] = "callback" -> CallJavaCallback(m, this, args, ch.jr)
    [] OTHER -> RunJSFunction(m, this, args, ch.ret, ch.keep, ch.k)

CalleeInputs(m, args, this) ==
  [jr : JavaAnswers(ArgsToJava(m, args)) \cup {"throw"},
   ret : JSFunctionResults(args, this),
   keep : {NoVal} \cup (ToSet(args) \cap Cells),
   k : Keys]

-----------------------------------------------------------------------------
(* The JNI entry points.                                                   *)

ObjectHandles == {c \in JavaHeld(mem) : mem.kind[c] # "string"}
(* Heap space an entry point may allocate: its arguments and the callee's *)
(* result or thrown error.                                                 *)
RoomFor(n) == Cardinality(Cells \ mem.alloc) >= n

RECURSIVE ArgsToJS(_, _)
(* JavaToJSValue over the Java argument array, in index order. *)
ArgsToJS(m, args) ==
  IF args = <<>> THEN [m |-> m, vs |-> <<>>]
  ELSE LET r  == JavaToJSValue(m, Head(args))
           rs == ArgsToJS(r.m, Tail(args))
       IN  [m |-> rs.m, vs |-> <<r.v>> \o rs.vs]

RECURSIVE FreeArgs(_, _)
FreeArgs(m, vs) ==
  IF vs = <<>> THEN m ELSE FreeArgs(JS_FreeValue(m, Head(vs)), Tail(vs))

(* Java argument arrays: empty, or one primitive, String or List. *)
JavaArgs == {<<>>} \cup {<<a>> : a \in {JPrim, JStr, JList}}

Init ==
  mem = [alloc    |-> {GlobalObj},
         dead     |-> {},
         kind     |-> [c \in Cells |-> IF c = GlobalObj THEN "object" ELSE NoVal],
         rc       |-> [c \in Cells |-> IF c = GlobalObj THEN 1 ELSE 0],
         slot     |-> [c \in Cells |-> [k \in Keys |-> NoVal]],
         proto    |-> [c \in Cells |-> NoVal],
         exc      |-> NoVal,
         handles  |-> [c \in Cells |-> 0]]

GetGlobalObject ==
  /\ "getGlobalObject" \in Entry
  /\ mem' = TO_JAVA_OBJECT(JS_DupValue(mem, GlobalObj), GlobalObj)

InitNewJSObject ==
  /\ "initNewJSObject" \in Entry /\ RoomFor(1)
  /\ mem' = TO_JAVA_OBJECT(NewValue(mem, Fresh(mem), "object"), Fresh(mem))

InitNewJSArray ==
  /\ "initNewJSArray" \in Entry /\ RoomFor(1)
  /\ mem' = TO_JAVA_OBJECT(NewValue(mem, Fresh(mem), "array"), Fresh(mem))

(* newFunction + TO_JAVA_OBJECT: JS_NewCFunctionData closes over the       *)
(* callback id and a boolean, neither of them reference counted.           *)
InitNewJSFunction ==
  /\ "initNewJSFunction" \in Entry /\ RoomFor(1)
  /\ mem' = TO_JAVA_OBJECT(NewValue(mem, Fresh(mem), "callback"), Fresh(mem))

(* The function is stored in the property (with a duplicated reference)   *)
(* and also returned to Java.                                              *)
RegisterJavaMethod(o, k) ==
  /\ "registerJavaMethod" \in Entry /\ RoomFor(1)
  /\ LET f  == Fresh(mem)
         m1 == NewValue(mem, f, "callback")
     IN  mem' = TO_JAVA_OBJECT(SetSlot(JS_DupValue(m1, f), o, k, f), f)

(* get: the reference JS_GetPropertyStr returns goes to To_JObject with   *)
(* the type Java expects, which drops it unless it wraps it in a handle.   *)
GetProperty(o, k, expected) ==
  /\ mem.slot[o][k] \in Cells
  /\ mem' = To_JObject(JS_DupValue(mem, mem.slot[o][k]), expected, mem.slot[o][k])

(* getValue: the property value is always wrapped in a handle. *)
GetValue(o, k) ==
  /\ mem.slot[o][k] \in Cells
  /\ mem' = TO_JAVA_OBJECT(JS_DupValue(mem, mem.slot[o][k]), mem.slot[o][k])

(* arrayGet and arrayGetValue: the same, by index (JS_GetPropertyUint32). *)
ArrayGet(o, i, expected) == GetProperty(o, i, expected)
ArrayGetValue(o, i) == GetValue(o, i)

Set(o, k, jv) ==
  /\ "set" \in Entry /\ RoomFor(1)
  /\ LET r == JobjectToJSValue(mem, jv) IN mem' = SetSlot(r.m, o, k, r.v)

(* GetArrayLength: JS_VALUE_GET_INT of "length", whatever it holds: one   *)
(* past the highest filled index of an array, the declared length of a    *)
(* function (1 for newFunction's JS_NewCFunctionData; a script function's  *)
(* is its own), and undefined, whose int32 field reads 0, for an object    *)
(* or an error.  The possible values, as a script function's is open.     *)
GetArrayLength(m, o) ==
  LET filled == {k \in Keys : m.slot[o][k] # NoVal}
  IN  CASE m.kind[o] = "array"      -> {IF filled = {} THEN 0 ELSE Max(filled) + 1}
        [] m.kind[o] = "callback"   -> {1}
        [] m.kind[o] = "jsfunction" -> {0, 1}
        [] OTHER                    -> {0}

(* arrayAdd: JS_SetPropertyUint32 at index len.  Indices outside Keys are *)
(* beyond the model's heap.                                                *)
ArrayAdd(o, jv) ==
  /\ "arrayAdd" \in Entry /\ RoomFor(1)
  /\ \E len \in GetArrayLength(mem, o) \cap Keys :
       LET r == JobjectToJSValue(mem, jv)
       IN  mem' = SetSlot(r.m, o, len, r.v)

ReleasePtr(c) ==
  /\ "releasePtr" \in Entry
  /\ mem' = JS_FreeValue([mem EXCEPT !.handles[c] = @ - 1], c)

(* The C helper executeFunction and To_JObject of its result: arguments   *)
(* converted by JavaToJSValue, a global this replaced by undefined,        *)
(* JS_Call, every argument freed.                                          *)
CallFunction(m, o, func, args, expected) ==
  LET r    == ArgsToJS(m, args)
      this == IF o = GlobalObj THEN NoVal ELSE o
  IN  \E ch \in CalleeInputs(r.m, r.vs, this) :
        LET c == JS_Call(r.m, func, this, r.vs, ch)
        IN  mem' = To_JObject(FreeArgs(c.m, r.vs), expected, c.v)

(* executeFunction: the function is looked up by name; the reference      *)
(* JS_GetPropertyStr returns is never freed.                               *)
ExecuteFunction(o, k, args, expected) ==
  /\ "executeFunction" \in Entry /\ RoomFor(2)
  /\ CallFunction(JS_DupValue(mem, mem.slot[o][k]), o, mem.slot[o][k], args, expected)

(* executeFunction2: the function handle is duplicated and never freed.   *)
ExecuteFunction2(o, f, args, expected) ==
  /\ "executeFunction2" \in Entry /\ RoomFor(2)
  /\ CallFunction(JS_DupValue(mem, f), o, f, args, expected)

(* Global properties a script can reach, and the kinds of value it makes. *)
GlobalRefs == {mem.slot[GlobalObj][k] : k \in Keys} \cap Cells
ScriptKinds == {"object", "array", "jsfunction", "string"}

(* executeScript: JS_Eval of a script that defines a global, returns a new *)
(* value, calls a registered callback with this in ScriptThis, or throws.  *)
(* A script that throws replaces the pending exception with its error; the *)
(* error is created and freed within the call, since getJSErrorStr(ctx)    *)
(* takes it with JS_GetException and frees it (line 286), and              *)
(* JS_Throw(ctx, JS_EXCEPTION) leaves no value pending.  Its net effect is  *)
(* the previous pending exception freed and none left.                     *)
ExecuteScript(expected) ==
  /\ "executeScript" \in Entry /\ RoomFor(2)
  /\ \/ \E kd \in ScriptKinds, k \in Keys :
          mem' = SetSlot(NewValue(mem, Fresh(mem), kd), GlobalObj, k, Fresh(mem))
     \/ \E kd \in ScriptKinds :
          mem' = To_JObject(NewValue(mem, Fresh(mem), kd), expected, Fresh(mem))
     \/ \E f \in GlobalRefs, args \in {<<>>} \cup {<<a>> : a \in GlobalRefs},
           this \in ScriptThis :
          /\ mem.kind[f] = "callback"
          /\ \E jr \in JavaAnswers(ArgsToJava(mem, args)) :
               LET c == CallJavaCallback(mem, this, args, jr)
               IN  mem' = To_JObject(c.m, expected, c.v)
     \/ mem' = JS_Throw(mem, NoVal)

(* parseJSON asks To_JObject for the type JS_TAG_OBJECT, which no case of  *)
(* its switch handles; invalid JSON leaves a SyntaxError pending.          *)
ParseJSON ==
  /\ "parseJSON" \in Entry /\ RoomFor(1)
  /\ LET v == Fresh(mem) IN
     \/ mem' = To_JObject(NewValue(mem, v, "object"), JS_TAG_OBJECT, v)
     \/ mem' = JS_Throw(NewValue(mem, v, "error"), v)

(* newError: JS_ThrowTypeError makes the error the pending exception and   *)
(* Java gets a handle on JS_EXCEPTION.                                     *)
NewError ==
  /\ "newError" \in Entry /\ RoomFor(1)
  /\ mem' = JS_Throw(NewValue(mem, Fresh(mem), "error"), Fresh(mem))

RECURSIVE InProtoChain(_, _, _)
InProtoChain(m, p, o) == p \in Cells /\ (p = o \/ InProtoChain(m, m.proto[p], o))

(* JS_SetPrototype duplicates the new prototype and frees the old one; a  *)
(* circular chain throws a TypeError instead.                              *)
SetPrototype(o, p) ==
  /\ "setPrototype" \in Entry /\ RoomFor(1)
  /\ mem' = IF InProtoChain(mem, p, o)
            THEN JS_Throw(NewValue(mem, Fresh(mem), "error"), Fresh(mem))
            ELSE JS_FreeValue([JS_DupValue(mem, p) EXCEPT !.proto[o] = p], mem.proto[o])

Bounded(m) == \A c \in Cells : m.rc[c] <= MaxRef /\ m.handles[c] <= MaxRef

JavaValues == {JPrim, JStr, JList} \cup JavaHeld(mem)

Next ==
  /\ \/ GetGlobalObject \/ InitNewJSObject \/ InitNewJSArray \/ InitNewJSFunction
     \/ \E o \in ObjectHandles, k \in Keys : RegisterJavaMethod(o, k)
     \/ \E o \in ObjectHandles, k \in Keys, e \in ExpectedTypes :
          \/ "get" \in Entry /\ GetProperty(o, k, e)
          \/ "arrayGet" \in Entry /\ ArrayGet(o, k, e)
     \/ \E o \in ObjectHandles, k \in Keys :
          \/ "getValue" \in Entry /\ GetValue(o, k)
          \/ "arrayGetValue" \in Entry /\ ArrayGetValue(o, k)
     \/ \E o \in ObjectHandles, k \in Keys, jv \in JavaValues : Set(o, k, jv)
     \/ \E o \in ObjectHandles, jv \in JavaValues : ArrayAdd(o, jv)
     \/ \E c \in JavaHeld(mem) : ReleasePtr(c)
     \/ \E o \in ObjectHandles, k \in Keys, a \in JavaArgs, e \in ExpectedTypes :
          ExecuteFunction(o, k, a, e)
     \/ \E o \in ObjectHandles, f \in JavaHeld(mem), a \in JavaArgs, e \in ExpectedTypes :
          ExecuteFunction2(o, f, a, e)
     \/ \E e \in ExpectedTypes : ExecuteScript(e)
     \/ ParseJSON
     \/ NewError
     \/ \E o, p \in ObjectHandles : SetPrototype(o, p)
  /\ Bounded(mem')

Spec == Init /\ [][Next]_vars

-----------------------------------------------------------------------------
(* Properties.                                                             *)

(* The references to c: Java handles, slots and prototype links of live   *)
(* objects, the pending exception, and the context's hold on its global.   *)
Holders(m, c) ==
    m.handles[c]
  + Cardinality({ok \in Live(m) \X Keys : m.slot[ok[1]][ok[2]] = c})
  + Cardinality({o \in Live(m) : m.proto[o] = c})
  + (IF m.exc = c THEN 1 ELSE 0)
  + (IF c = GlobalObj THEN 1 ELSE 0)

(* No premature free: whatever sequence of JNI calls Java makes, every     *)
(* value some Java handle, live object or the context still refers to is   *)
(* allocated and its reference count covers all those references, so no   *)
(* later releasePtr or JS_FreeValue frees it while it is still in use.     *)
OwnershipSound ==
  \A c \in mem.alloc :
    IF c \in mem.dead THEN Holders(mem, c) = 0 ELSE mem.rc[c] >= Holders(mem, c)

(* No leak: every reference a JNI call takes on a value is either handed   *)
(* to Java or stored in the engine, so a value nobody refers to is freed.  *)
NoLeak == \A c \in Live(mem) : mem.rc[c] <= Holders(mem, c)

(* Reference counts are exact: every count equals the number of Java      *)
(* handles, engine slots and the context holding the value, so no entry   *)
(* point frees a reference it borrowed (TO_JS_VALUE) or keeps one nobody   *)
(* owns (To_JObject's dropped branches, executeFunction2's duplicate).     *)
RefCountsExact == OwnershipSound /\ NoLeak

=============================================================================
