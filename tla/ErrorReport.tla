---------------------------- MODULE ErrorReport ----------------------------
(***************************************************************************)
(* How JS errors reach Java in quickjs-jni.cpp.                            *)
(*                                                                         *)
(* The engine keeps one pending-exception slot per runtime.  A failing JS  *)
(* operation puts the thrown value there; JS_Throw replaces it; and        *)
(* JS_GetException takes it and leaves JS_NULL.  The bridge reads the slot *)
(* in three places:                                                        *)
(*  - getJSErrorStr(ctx), which takes the slot and describes it;           *)
(*  - getJSErrorStr(ctx, err), which describes a value.  When the value is *)
(*    an Error it first calls tryToTriggerOnError, and that call to the    *)
(*    global onError / onerror hook can itself throw into the slot;        *)
(*  - getException, Java's getCurrentError.                                *)
(* Java learns an error either from the Java exception that                *)
(* throwJSException raises or from getException.                           *)
(*                                                                         *)
(* Each JNI call is one atomic step, since the code runs on one thread.    *)
(* The JS code a call runs is abstracted to what it does to the slot:      *)
(*  - the hooks it assigns;                                                *)
(*  - a job that fails inside jobListener, whose error is described and    *)
(*    dropped;                                                             *)
(*  - how it completes.                                                    *)
(* Reference counts are left to the Boundary module.                       *)
(***************************************************************************)
EXTENDS FiniteSets

CONSTANTS
  Errors,     \* Error objects the JS code throws (model values)
  NonError    \* a thrown value that is not an Error (a string, a plain object)

None         == "null"          \* JS_NULL: the slot is empty
Marker       == "exception"     \* the JS_EXCEPTION tag stored as a value
Result       == "result"        \* the completion value of a script
NotAFunction == "notAFunction"  \* TypeError: calling a value that is no function
HookError    == "hookError"     \* an Error thrown by the onError hook itself
NewErr       == "newError"      \* the TypeError newError constructs

ASSUME Errors \cap {None, Marker, Result, NotAFunction, HookError, NewErr} = {}

(* What JS_IsError accepts. *)
ErrorValues == Errors \cup {NotAFunction, HookError, NewErr}
Thrown      == Errors \cup {NonError}
SlotValues  == ErrorValues \cup {NonError, None, Marker, Result}

(* Values of the global properties onError and onerror: absent, null, a  *)
(* function that returns, or a function that throws.                      *)
HookValues == {"undefined", "null", "function", "throwing"}

VARIABLES
  pending,   \* the runtime's pending exception
  onError,   \* global property "onError"
  onerror,   \* global property "onerror"
  raised,    \* history: the value thrown by the last JNI call, when that call
             \* failed without raising a Java exception; None otherwise
  got        \* history: what the last getException returned (None for nullptr)

vars == <<pending, onError, onerror, raised, got>>

(* tryToTriggerOnError: the hook is onError unless that property is null, *)
(* then onerror; a null hook is skipped; anything else is called, and a   *)
(* call of a value that is not a function throws a TypeError.  The slot   *)
(* after the call, given the slot p before it and the hooks h, the pair  *)
(* <<onError, onerror>>.                                                   *)
TriggerOnError(p, h) ==
  LET hook == IF h[1] = "null" THEN h[2] ELSE h[1]
  IN  CASE hook \in {"null", "function"} -> p
        [] hook = "throwing"             -> HookError
        [] OTHER                         -> NotAFunction

(* getJSErrorStr(ctx, err): the slot after describing err, given slot p.  *)
(* An Error triggers the hook; any other value is only converted.         *)
Describe(err, p, h) == IF err \in ErrorValues THEN TriggerOnError(p, h) ELSE p

(* getJSErrorStr(ctx): JS_GetException takes err out of the slot, which is *)
(* then empty, and describes it.                                           *)
GetJSErrorStr(err, h) == Describe(err, None, h)

(* jobListener: a job that fails inside a JS call has its error taken and *)
(* described with getJSErrorStr(ctx); the loop breaks and the error goes   *)
(* no further.  l is None when no job fails.                               *)
AfterListener(p, l, h) == IF l = None THEN p ELSE GetJSErrorStr(l, h)

(* executePendingJobLoop after the JS code of the call has left slot p.    *)
(* <<"ok", None>>: no rejection is queued, the slot is untouched.         *)
(* <<"rejection", r>>: a rejection with reason r is queued; the reason is  *)
(* described in place and raised as a Java exception.  Pump is the slot    *)
(* after.  The loop's own job-failure branch (JS_ExecutePendingJob < 0)    *)
(* never runs: jobListener runs every job as it is queued, and a listener  *)
(* that breaks leaves none (JobPump's NoJobLeftBehind).                    *)
PumpOutcomes == {<<"ok", None>>} \cup {<<"rejection", r>> : r \in Thrown}

Pump(p, out, h) == IF out[1] = "ok" THEN p ELSE Describe(out[2], p, h)

Init ==
  /\ pending = None
  /\ onError = "undefined" /\ onerror = "undefined"
  /\ raised = None
  /\ got = None

Hooks == <<onError, onerror>>

(* executeScript when JS_Eval throws e: getJSErrorStr(ctx) takes e and    *)
(* describes it, then TO_JAVA_OBJECT(JS_Throw(ctx, val)) with val the     *)
(* JS_EXCEPTION tag stores that tag in the slot; Java gets a handle of    *)
(* type JS_EXCEPTION and no Java exception.  Before throwing, the script  *)
(* may assign the hooks.                                                  *)
ExecuteScriptThrow ==
  \E e \in Thrown :
    /\ onError' \in HookValues /\ onerror' \in HookValues
    /\ pending' = Marker
    /\ raised' = e
    /\ UNCHANGED got

(* executeScript when JS_Eval returns: jobs run in jobListener while the  *)
(* script runs, then executePendingJobLoop.  When the loop fails, the     *)
(* call returns TO_JAVA_OBJECT(JS_Throw(ctx, val)), which stores the      *)
(* script's completion value in the slot; the Java exception the loop     *)
(* raised reaches Java.  Otherwise the result goes through To_JObject.    *)
(* The script may first assign the hooks h that describing then calls.    *)
ExecuteScriptReturn ==
  \E h \in HookValues \X HookValues, l \in Thrown \cup {None} :
    \E out \in PumpOutcomes :
      LET p == AfterListener(pending, l, h) IN
      /\ onError' = h[1] /\ onerror' = h[2]
      /\ pending' = IF out[1] = "ok" THEN p ELSE Result
      /\ raised' = None
      /\ UNCHANGED got

(* executePendingJobs: executePendingJobLoop alone; its Java exception is *)
(* the call's only report and the slot keeps what describing left.        *)
ExecutePendingJobs ==
  \E out \in PumpOutcomes :
    /\ pending' = Pump(pending, out, Hooks)
    /\ raised' = None
    /\ UNCHANGED <<onError, onerror, got>>

(* executeFunction / executeFunction2: JS_Call of the callee, with jobs   *)
(* run by jobListener on the way.  A callee that throws (a Java callback  *)
(* that threw surfaces as the Error createJSException throws) leaves the  *)
(* thrown value in the slot; To_JObject of JS_EXCEPTION gives Java null.  *)
ExecuteFunction ==
  \E l \in Thrown \cup {None}, out \in {"return"} \cup Thrown :
    /\ pending' = IF out = "return" THEN AfterListener(pending, l, Hooks) ELSE out
    /\ raised' = IF out = "return" THEN None ELSE out
    /\ UNCHANGED <<onError, onerror, got>>

(* newError: JS_ThrowTypeError stores the new error in the slot and Java  *)
(* gets a handle of the JS_EXCEPTION tag it returns.                      *)
NewError ==
  /\ pending' = NewErr
  /\ raised' = None
  /\ UNCHANGED <<onError, onerror, got>>

(* getException: JS_GetException takes the slot; a value that is not an  *)
(* Error gives nullptr, an Error is described from name, toString and     *)
(* stack.  raised is what Java could still ask for, and it has asked.     *)
GetException ==
  /\ pending' = None
  /\ got' = IF pending \in ErrorValues THEN pending ELSE None
  /\ raised' = None
  /\ UNCHANGED <<onError, onerror>>

Next ==
  \/ ExecuteScriptThrow \/ ExecuteScriptReturn \/ ExecutePendingJobs
  \/ ExecuteFunction \/ NewError \/ GetException

Spec == Init /\ [][Next]_vars

(* Spec 4.5: the error-description helper invokes a hook "if one is       *)
(* defined" and leaves the engine state alone; getCurrentError returns     *)
(* the pending error.  So what getException returns was thrown by JS code *)
(* or made by newError.  tryToTriggerOnError tests the hook with JS_IsNull *)
(* and calls an absent (undefined) hook, whose TypeError stays pending.    *)
NoSpuriousError == got \in Errors \cup {None, NewErr, HookError}

(* Spec 4.5/7: a failing call that raises no Java exception leaves its    *)
(* error for getCurrentError.  executeScript's JS_Eval failure path       *)
(* replaces the error by the JS_EXCEPTION tag.                            *)
FailureRetrievable == raised \in Errors => pending = raised

=============================================================================
