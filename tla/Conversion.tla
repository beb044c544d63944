---------------------------- MODULE Conversion -----------------------------
(***************************************************************************)
(* Conversion of primitive values between Java and JS in quickjs-jni.cpp: *)
(*  - JobjectToJSValue, for what Java stores (set, arrayAdd, a callback's *)
(*    return value);                                                       *)
(*  - GetObjectType and To_JObject, for what Java reads (get, arrayGet,   *)
(*    executeScript, executeFunction), with a type the caller requests or *)
(*    TYPE_UNKNOWN to let the bridge classify the value;                   *)
(*  - JSValueToJava, for the arguments of a Java callback.                 *)
(* Reference counts are the Boundary module's; here a JS value is its tag *)
(* and payload, and a Java value its class and payload, both as records    *)
(* [tag or cls, n, k].  A finite double is n/2, with k = "fin"; k names   *)
(* the other doubles.  Strings are numbered contents.                      *)
(***************************************************************************)
EXTENDS Integers, TLC

CONSTANTS
  Ints,      \* int32 payloads (small: TLC integers are 32 bits wide)
  Halves,    \* numerators n of the finite doubles n/2
  Strs,      \* string contents, numbered
  Garbage    \* int32 values the low word of a heap pointer can hold

ASSUME Ints \subseteq Int /\ Halves \subseteq Int /\ Strs \subseteq Nat /\ Garbage \subseteq Int

TYPE_NULL == 0
TYPE_UNKNOWN == 0
TYPE_INTEGER == 1
TYPE_DOUBLE == 2
TYPE_BOOLEAN == 3
TYPE_STRING == 4
TYPE_JS_ARRAY == 5
TYPE_JS_OBJECT == 6
TYPE_JS_FUNCTION == 7
TYPE_JS_EXCEPTION == 8
TYPE_UNDEFINED == 99

MaxInt32 == 2147483647
MinInt32 == -MaxInt32 - 1

JS(t, n, k) == [tag |-> t, n |-> n, k |-> k]
JSNull      == JS("null", 0, "-")
JSUndefined == JS("undefined", 0, "-")
Doubles ==
  {JS("float", n, "fin") : n \in Halves} \cup {JS("float", 0, k) : k \in {"nan", "negzero", "inf"}}

Java(c, n, k) == [cls |-> c, n |-> n, k |-> k]
JNull == Java("null", 0, "-")
AsDouble(d) == Java("Double", d.n, d.k)   \* new Double(d)

(* JS_NewFloat64: releases from 2020 on store an integral double in int32 *)
(* range that is not -0 with the int tag; earlier ones always as float64.  *)
(* norm says which release the build uses.                                 *)
JS_NewFloat64(d, norm) ==
  IF norm /\ d.k = "fin" /\ d.n % 2 = 0 /\ MinInt32 <= d.n \div 2 /\ d.n \div 2 <= MaxInt32
  THEN JS("int", d.n \div 2, "-") ELSE d

(* JS_NewInt64: int tag for a value in int32 range, float64 otherwise. *)
JS_NewInt64(l) ==
  IF MinInt32 <= l /\ l <= MaxInt32 THEN JS("int", l, "-") ELSE JS("float", 2 * l, "fin")

(* Java value to JS (the branches for boxed primitives; a JSValue handle *)
(* is Boundary's).  Any other class gives undefined.                      *)
JobjectToJSValue(j, norm) ==
  CASE j.cls = "null"    -> JSNull
    [] j.cls = "Integer" -> JS("int", j.n, "-")
    [] j.cls = "Long"    -> JS_NewInt64(j.n)
    [] j.cls = "Double"  -> JS_NewFloat64(JS("float", j.n, j.k), norm)
    [] j.cls = "Boolean" -> JS("bool", j.n, "-")
    [] j.cls = "String"  -> JS("string", j.n, "-")
    [] OTHER             -> JSUndefined

(* The type of the objects, in GetObjectType's order: an array before a *)
(* function before any object (an Error is an object).                    *)
ObjectType == ("array" :> TYPE_JS_ARRAY) @@ ("function" :> TYPE_JS_FUNCTION)
                @@ ("plain" :> TYPE_JS_OBJECT) @@ ("error" :> TYPE_JS_OBJECT)
PrimitiveType ==
  ("string" :> TYPE_STRING) @@ ("bool" :> TYPE_BOOLEAN) @@ ("bigint" :> TYPE_INTEGER)
    @@ ("null" :> TYPE_NULL) @@ ("undefined" :> TYPE_UNDEFINED)
    @@ ("int" :> TYPE_INTEGER) @@ ("float" :> TYPE_DOUBLE) @@ ("exception" :> TYPE_UNKNOWN)

GetObjectType(v) == IF v.tag = "object" THEN ObjectType[v.k] ELSE PrimitiveType[v.tag]

(* TO_JAVA_OBJECT: a handle, with the type it computes. *)
HandleType(v) ==
  CASE v.tag = "undefined" -> TYPE_UNDEFINED
    [] v.tag = "object"    -> ObjectType[v.k]
    [] v.tag = "exception" -> TYPE_JS_EXCEPTION
    [] OTHER               -> TYPE_UNKNOWN
Handle(v) == Java("handle", HandleType(v), "-")

(* JS_VALUE_GET_INT: the int32 word of the value.  A float64 has the low *)
(* word of its IEEE-754 bits, which is 0 for every double of the model    *)
(* (half-integers of small magnitude, NaN, infinity, -0); a string or an  *)
(* object has the low word of its pointer, and so has a BigInt, except in *)
(* releases that keep a small BigInt in the value itself.                  *)
GetInt(v) ==
  CASE v.tag \in {"int", "bool"}    -> {v.n}
    [] v.tag \in {"string", "object"} -> Garbage
    [] v.tag = "bigint"              -> Garbage \cup {v.n}
    [] OTHER                                    -> {0}

(* JS_ToFloat64 into pres.  Strings parse to some number; an object's     *)
(* valueOf is JS code; and when the conversion throws, pres is never       *)
(* written and the uninitialized double is read.                           *)
ToFloat64(v) ==
  CASE v.tag \in {"int", "bool", "bigint"} -> {JS("float", 2 * v.n, "fin")}
    [] v.tag = "float"                     -> {v}
    [] v.tag = "null"                      -> {JS("float", 0, "fin")}
    [] OTHER                               -> Doubles

(* To_JObject: TYPE_UNKNOWN asks GetObjectType; undefined and null        *)
(* override any request; then one Java value per type.  new Boolean gets  *)
(* the int word through varargs, read whole or truncated to a jboolean.   *)
To_JObject(expected, v) ==
  LET t0 == IF expected = TYPE_UNKNOWN THEN GetObjectType(v) ELSE expected
      t  == CASE v.tag = "undefined" -> TYPE_UNDEFINED
              [] v.tag = "null"      -> TYPE_NULL
              [] OTHER               -> t0
  IN CASE t = TYPE_INTEGER -> {Java("Integer", i, "-") : i \in GetInt(v)}
       [] t = TYPE_DOUBLE  -> {AsDouble(d) : d \in ToFloat64(v)}
       [] t = TYPE_BOOLEAN -> {Java("Boolean", IF b THEN 1 ELSE 0, "-") :
                                 b \in UNION {{i # 0, i % 256 # 0} : i \in GetInt(v)}}
       [] t = TYPE_STRING  -> IF v.tag = "string" THEN {Java("String", v.n, "-")}
                              ELSE {Java("String", s, "-") : s \in Strs}
       [] t \in {TYPE_JS_ARRAY, TYPE_JS_OBJECT, TYPE_JS_FUNCTION, TYPE_UNDEFINED}
                           -> {Handle(v)}
       [] OTHER            -> {JNull}

(* JSValueToJava: a number is a Long unless its tag is float64. *)
JSValueToJava(v) ==
  CASE v.tag \in {"null", "undefined"} -> JNull
    [] v.tag = "bool"                  -> Java("Boolean", v.n, "-")
    [] v.tag = "float"                 -> AsDouble(v)
    [] v.tag = "int"                   -> Java("Long", v.n, "-")
    [] v.tag = "string"                -> Java("String", v.n, "-")
    [] OTHER                           -> Handle(v)

-----------------------------------------------------------------------------
(* Java and JS code passing values through one property.                  *)

JavaValues ==
  {JNull, Java("other", 0, "-")}
    \cup {Java(c, i, "-") : c \in {"Integer", "Long"}, i \in Ints}
    \cup {AsDouble(d) : d \in Doubles}
    \cup {Java("Boolean", b, "-") : b \in {0, 1}}
    \cup {Java("String", s, "-") : s \in Strs}

ExpectedTypes == {TYPE_UNKNOWN, TYPE_INTEGER, TYPE_DOUBLE, TYPE_BOOLEAN, TYPE_STRING,
                  TYPE_JS_OBJECT}

(* What JS code can compute; BigInt exists only in builds with it. *)
JSValues(bigint) ==
  {JSNull, JSUndefined, JS("exception", 0, "-")}
    \cup {JS("int", i, "-") : i \in Ints} \cup Doubles
    \cup {JS("bool", b, "-") : b \in {0, 1}} \cup {JS("string", s, "-") : s \in Strs}
    \cup {JS("object", 0, k) : k \in DOMAIN ObjectType}
    \cup (IF bigint THEN {JS("bigint", i, "-") : i \in Ints} ELSE {})

VARIABLES
  norm,     \* build: JS_NewFloat64 stores integral doubles with the int tag
  bigint,   \* build: the engine has BigInt
  slot,     \* the JS value of the property
  path,     \* how Java last read it: "none", "get" or "arg"
  hint,     \* the expected type of the last get
  read,     \* the JS value Java last read
  got       \* the Java value Java last got

vars == <<norm, bigint, slot, path, hint, read, got>>

Init ==
  /\ norm \in BOOLEAN /\ bigint \in BOOLEAN
  /\ slot = JSUndefined
  /\ path = "none" /\ hint = TYPE_UNKNOWN
  /\ read = JSUndefined /\ got = JNull

(* set or arrayAdd of a Java value, or a Java callback returning it. *)
Set(j) ==
  /\ slot' = JobjectToJSValue(j, norm)
  /\ UNCHANGED <<norm, bigint, path, hint, read, got>>

(* JS code stores a value it computed. *)
Compute(v) ==
  /\ slot' = v
  /\ UNCHANGED <<norm, bigint, path, hint, read, got>>

(* get, arrayGet, executeScript or executeFunction with an expected type. *)
Get(e) ==
  /\ got' \in To_JObject(e, slot)
  /\ path' = "get" /\ hint' = e /\ read' = slot
  /\ UNCHANGED <<norm, bigint, slot>>

(* JS calls a Java callback with the value as an argument. *)
CallbackArg ==
  /\ got' = JSValueToJava(slot)
  /\ path' = "arg" /\ read' = slot
  /\ UNCHANGED <<norm, bigint, slot, hint>>

Next ==
  \/ \E j \in JavaValues : Set(j)
  \/ \E v \in JSValues(bigint) : Compute(v)
  \/ \E e \in ExpectedTypes : Get(e)
  \/ CallbackArg

Spec == Init /\ [][Next]_vars

(* The Java value denotes the JS value: a number of the same value (of any *)
(* Java class), the same boolean or string, null for null or undefined, a  *)
(* handle for anything else.  The JS_EXCEPTION tag of a failed call is no  *)
(* value; Java gets null and asks getException (the ErrorReport module).   *)
Denotes(j, v) ==
  CASE v.tag \in {"int", "bigint"} ->
         \/ j.cls \in {"Integer", "Long"} /\ j.n = v.n
         \/ j = Java("Double", 2 * v.n, "fin")
    [] v.tag = "float" ->
         \/ j = AsDouble(v)
         \/ v.k = "fin" /\ v.n % 2 = 0 /\ j.cls \in {"Integer", "Long"} /\ j.n = v.n \div 2
    [] v.tag = "bool"   -> j = Java("Boolean", v.n, "-")
    [] v.tag = "string" -> j = Java("String", v.n, "-")
    [] v.tag \in {"null", "undefined", "exception"} -> j \in {JNull, Handle(v)}
    [] OTHER -> j = Handle(v)

(* Spec 4.2/4.3: whenever the bridge chooses the Java type itself (a read  *)
(* with TYPE_UNKNOWN, or a callback argument), Java gets the value the JS  *)
(* side holds.  GetObjectType classifies a BigInt as TYPE_INTEGER and      *)
(* To_JObject then takes JS_VALUE_GET_INT of a pointer-tagged value.       *)
ReadsDenoteValue == (path = "arg" \/ (path = "get" /\ hint = TYPE_UNKNOWN)) => Denotes(got, read)

=============================================================================
