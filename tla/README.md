# TLA+ models of the quickjs-android JNI bridge

The models cover `src/quickjs-android/src/main/cpp/quickjs-jni.cpp`. That file is the C++ layer between Java (`com.quickjs.QuickJSNativeImpl`) and the QuickJS engine. The engine itself is an external library. The models treat it as a fixed collaborator: reference counting, property access, `JS_Call`, the job queue and the promise hooks.

## The system

The file has seven parts, and they interact as follows.

| Part | Code | State it touches |
|---|---|---|
| Value Representation Adapter | `TO_JS_VALUE`, `TO_JAVA_OBJECT`, `JS_Equals` | Java `JSValue` handles, each of which carries an engine value |
| Type Classifier | `GetObjectType`, `To_JObject` | none; it decides whether a result is wrapped in a handle or converted |
| Marshaler | `JobjectToJSValue`, `JavaToJSValue`, `JSValueToJava`, `get`/`set`/`arrayGet`/`arrayAdd`/`getValue`/`arrayGetValue`/`contains`/`getKeys` | engine properties and reference counts |
| Callback Bridge | `newFunction`, `callJavaCallback`, `registerJavaMethod`, `initNewJSFunction` | reference counts of arguments and `this`; the exception the engine has pending |
| Exception & Rejection Reporter | `getJSErrorStr`, `tryToTriggerOnError`, `getException`, `throwJSException`, `promiseRejectionTracker`, `throwIfUnhandledRejections` | the process-wide queue `unhandledRejections`; the pending Java exception |
| Lifecycle & Job Pump | `createRuntime`, `createContext`, `initES6Module`, `jobListener`, `executePendingJobLoop`, `executePendingJobs` | the engine job queue |
| Module Loader | `ES6JSModuleNormalizeFunc`, `ES6JSModuleLoaderFunc` | none (string functions) |

Java makes a JNI call, and the call runs to completion on the engine's thread. Inside the call, the engine may:

- call back into Java through `callJavaCallback`;
- call `jobListener` whenever a job is queued. That listener runs jobs immediately, nested inside the JS code that queued them;
- call `promiseRejectionTracker` when a promise is rejected without a handler, or gets one.

`executeScript` and `executePendingJobs` then drain the job queue and report the queued rejections as one Java exception.

The hard parts are the following.

1. **Reference ownership across the boundary.** `TO_JAVA_OBJECT` hands a reference to a Java handle. `TO_JS_VALUE` reads a handle without taking a reference. Some entry points duplicate a value, some free it, and some do neither. Whether every count stays right depends on long sequences of calls from Java.
2. **Re-entrant job execution.** Jobs run inside `JS_EnqueueJob`, under the code that queued them.
3. **The rejection queue.** It is matched by position, not by promise, and it is shared across runtimes.
4. **JNI exception discipline.** After the pump has thrown a Java exception, `executeScript` still makes an upcall.
5. **The engine's single pending-exception slot.** The bridge reads and writes it from many places: describing an error may call the `onError` hook, which can throw into the slot, and `executeScript` overwrites it.

## Modules

### `Boundary.tla`: reference ownership

State: a single record `mem` with these fields.

- `alloc`: the heap cells in use.
- `dead`: the cells already freed.
- `kind`: each cell's kind (object, array, callback, JS function, string, error).
- `rc`: each cell's engine reference count.
- `slot`: one slot per object per key in `Keys`, which covers both properties and array indices.
- `proto`: each object's prototype link.
- `exc`: the context's pending exception.
- `handles`: the number of live Java handles on each value.

Engine calls are operators from heap to heap:

- `JS_DupValue`.
- `JS_FreeValue`, which is the recursive `Cascade`: a count that reaches 0 frees the cell and then its properties and prototype.
- `NewValue`.
- `TO_JAVA_OBJECT`.
- `SetSlot` (`JS_SetPropertyStr`, which frees the old value).
- `JS_Throw` (which frees the previous exception).

Each JNI entry point is one action, written as the composition of the calls its C body makes, in the same order:

`GetGlobalObject`, `InitNewJSObject`, `InitNewJSArray`, `InitNewJSFunction`, `RegisterJavaMethod`, `GetProperty` (`get`), `GetValue`, `ArrayGet`, `ArrayGetValue`, `Set`, `ArrayAdd` (through `GetArrayLength`), `ReleasePtr`, `ExecuteFunction`, `ExecuteFunction2` (both through the C helper `executeFunction`, here `CallFunction`), `ExecuteScript`, `ParseJSON`, `NewError`, `SetPrototype`.

`JS_Call` dispatches as follows:

- A callback made by `newFunction` goes to `CallJavaCallback`. It duplicates each argument and hands it to Java. It also gives Java a handle on `this`, duplicated only when `this` is not the global object (`ThisToJava`, lines 838-843). Java's answer is chosen from a primitive, a String, a handle Java holds, or a thrown exception.
- Other JS functions return nothing, an argument or `this`, and may store an argument in a global property.
- A non-function throws a TypeError.

A script in `executeScript` does one of four things: it defines a global, returns a new value, calls a global callback, or throws. The constant `ScriptThis` gives the `this` of that call: undefined for `f(x)` (a C function gets `this` unconverted), or the global object for `globalThis.f(x)`.

`GetArrayLength` returns what `JS_VALUE_GET_INT` of `length` can read:

- one past the last element for an array;
- 1 for a callback, whose `JS_NewCFunctionData` length is 1;
- 0 or 1 for a script function;
- 0 for any other object, where `length` is undefined.

`arrayAdd` writes at that index when it is in `Keys`.

A script that throws is net-modelled. Its error replaces the pending exception. `getJSErrorStr(ctx)` then takes the error and frees it (line 286), and `JS_Throw(ctx, JS_EXCEPTION)` leaves nothing pending. So the action frees the previous exception and leaves none.

`Entry`, a set of entry-point names, selects which calls Java makes in a run.

Properties:

- **`OwnershipSound`**: no premature free. A freed value has no holder. A live value's count is at least the number of its holders: Java handles, slots and prototype links of live objects, the pending exception, and the context's own reference to its global.
- **`NoLeak`**: the count of a live value is at most its holders, so nothing keeps a value alive after its last holder goes.
- **`RefCountsExact`**: both together; every count equals its holders.

### `BoundaryFaults.tla`: entry points that free a borrowed value

This module extends `Boundary` with `getPrototype`, `getObject`, `toJSString`, and `executeFunction` called with a JSValue handle as its argument. Each of these calls `JS_FreeValue` on a value obtained through `TO_JS_VALUE`. They are kept out of `Boundary` so that the passing run shows that every other entry point is sound. `getPrototype` takes a nondeterministic `newRef`: whether `JS_GetPrototype` returns a new reference depends on the engine release the build links against.

### `JobPump.tla`: jobs, listener, pump, rejection queue

State:

- `prom`, `reactions`: each promise's state and its number of reactions.
- `jobs`: the engine job queue; a job is the i-th reaction of a promise.
- `rejq`: `unhandledRejections`.
- `stack`: the active frames, which are the script of `executeScript`, a job, a `jobListener` loop, an `executePendingJobLoop` loop, or the engine's loop that queues the reactions of a promise that has just settled.
- `call`: the JNI call in progress.
- `failed`, `javaExc`: the loop's result and a pending Java exception.
- Histories: `reported`, `started`, `order` (the standard reaction order), and `upcallExc`.

Actions, grouped by who takes them:

- JS code: `Settle(p, fulfilled|rejected)` and `Then(p)`. Together with `TrackUnhandled`/`TrackHandled`, these are `promiseRejectionTracker`.
- The engine: `SettleStep` (which includes `JS_EnqueueJob` and the `jobListener` call), `JobReturn`, `JobFail` (an uncatchable error in a job), `ScriptReturn`, `ScriptThrow`.
- The native loops: `ListenerStep` (`jobListener`) and `PumpStep` (`executePendingJobLoop` with `throwIfUnhandledRejections`).
- Java: `ExecuteScript`, `ExecutePendingJobs`, `ReturnToJava`.

Properties:

- **`NoJobLeftBehind`**: a job waits in the engine's queue only while a `jobListener` is about to run it. So the listener keeps the queue empty around a failing job and inside nested settle loops, and `executePendingJobLoop`'s own job branch never runs.
- **`ImplementsJobQueue`** (refinement with liveness): `JobPump` implements the abstract `JobQueue` (below), fairness included, under the mapping `pend <- ToSet(order) \ ToSet(started)`, `done <- started`, `exc <- javaExc`. So every `executeScript` and `executePendingJobs` call returns, and a scheduled job that stays runnable starts.
- **`JobsRunInReactionOrder`**: jobs start in standard promise-reaction order.
- **`RejectionsReportedExactly`** (action property): the pump reports exactly the rejections that are still unhandled.
- **`NoUpcallWithPendingException`**: no JNI upcall is made while a Java exception is pending.

### `JobQueue.tla`: what the job machinery promises

This is an abstract specification with no code behind it. It has four variables:

- `pend`: the scheduled jobs that have not yet run.
- `done`: the jobs that have run, in the order they started.
- `call`: the JNI call in progress.
- `exc`: whether a Java exception is pending.

Its actions are these:

- `Begin(c)` starts a call.
- `Schedule(S)` adds new jobs.
- `Run(j)` runs a pending job.
- `Fail` raises the Java exception.
- `End` returns from the call, which it may do only when `pend` is empty or `exc` is set.

`Spec` has weak fairness of every `Run(j)` and of `End`.

So every scheduled job starts exactly once, and a call never returns silently with work left. The order of jobs is deliberately not promised, because the code does not keep it (`reaction_order`). `JobPump` defines `JQ == INSTANCE JobQueue WITH ...` and checks `JQ!Spec` as a property.

### `ErrorReport.tla`: how errors reach Java

State:

- `pending`: the engine's pending exception. It holds one of the following:
  - `null`;
  - an Error thrown by JS code;
  - a non-Error value;
  - the `JS_EXCEPTION` tag;
  - the script's completion value;
  - the TypeError from calling a non-function;
  - an error thrown by the hook;
  - the error made by `newError`.
- `onError`, `onerror`: the two global hook properties. Each is undefined, null, a function, or a function that throws.
- Histories:
  - `raised`: the value thrown by the last call that failed without a Java exception.
  - `got`: the last result of `getException`.

Operators:

- `TriggerOnError` is `tryToTriggerOnError`.
- `Describe` is `getJSErrorStr(ctx, err)`.
- `GetJSErrorStr` is `getJSErrorStr(ctx)`.
- `AfterListener` is a job failing inside `jobListener`.
- `PumpOutcomes` and `Pump` are `executePendingJobLoop` and `throwIfUnhandledRejections`. The loop's job-failure branch is left out. JobPump's `NoJobLeftBehind` shows that no job is queued when the loop starts.

Each JNI call is one atomic action:

- `ExecuteScriptThrow` and `ExecuteScriptReturn` (the two paths of `executeScript`);
- `ExecutePendingJobs`;
- `ExecuteFunction`, which includes a Java callback exception turned into an Error by `createJSException`;
- `NewError`;
- `GetException`.

The JS code of a call is abstracted to the hooks it assigns, a job that fails inside the listener, and how it completes. Error texts and reference counts are left out.

Properties:

- **`NoSpuriousError`**: `getException` returns only errors that JS code threw or that `newError` made.
- **`FailureRetrievable`**: after a call fails without a Java exception, its Error is still pending for `getException`.

### `SharedRejections.tla`: runtimes sharing `unhandledRejections`

This is a composition of runtimes around the one global queue. Each runtime is reduced to two things:

- its call phase: `ExecuteScript`, `ScriptReturn`, `ScriptThrow`, `ExecutePendingJobs`, `ThrowIfUnhandledRejections`, `ReleaseRuntime`;
- what its JS code does to its own promises: `Reject` and `Then`, which are the two branches of `promiseRejectionTracker`.

Steps of different runtimes interleave, which covers runtimes on different threads as well as one runtime's callback calling into another.

Property:

- **`ReasonsFreedByOwner`**: a reason is freed only with the context of the runtime that owns it.

### `GetException.tla`: the stack walk of `getException`

The model covers one `getException` call (lines 974-1003) on a pending exception `Thrown`.

- `Init` fixes the objects, their `stack` properties and their counts. Each object is held by a script variable, by every data property that points to it, and, for `Thrown`, by the exception slot. A `stack` property is a data property holding undefined, null, a string or an object, or it is a getter that returns a new object from the pool `Fresh`.
- `GetStack` is `JS_GetPropertyStr(.., "stack")`, and `Release` is `JS_FreeValue`. A read on null throws. QuickJS's `JS_GetPropertyInternal` returns `JS_EXCEPTION` for a read on the `JS_EXCEPTION` tag, so a walk that reaches null never reaches undefined.
- The actions follow the function in order:
  - `TakeException`: the `JS_IsError` early return.
  - `ReadProperties`: lines 981-985.
  - `StackStep`: one turn of the loop.
  - `Finish`: the final `JS_FreeValue(exc)` and the array for Java.
- `uaf` records a read of an object whose count the loop brought to 0.

`Spec` has `WF_vars(Next)`. The function runs on the caller's thread and waits for nothing.

Properties:

- **`NoUseAfterFree`**: the walk never reads an object it has freed.
- **`ReferencesBalanced`**: `NoUseAfterFree` holds, and when the call returns every count equals its holders. The holders are the script's variable and the data properties. So the call gives back the exception's reference and each reference the walk took.
- **`GetExceptionReturns`**: every call returns.

The model has the thrown object, one other object and one object a getter can create. That is enough for a self-cycle, a two-object cycle, a null stack, and a getter.

### `Conversion.tla`: primitive values between Java and JS

This module covers the conversions whose result is a value rather than a reference: `JobjectToJSValue` (150-169), `GetObjectType` (174-198), `To_JObject` (202-233), `JSValueToJava` (524-566) and the type `TO_JAVA_OBJECT` gives a handle (117-128).

- A JS value is a record of its tag and payload. A Java value is a record of its class and payload.
- A finite double is `n/2` for `n` in `Halves`; NaN, -0 and infinity are named. Strings are numbered contents.
- Two build choices are made by `Init`, because the engine sources are not in this repository:
  - `norm`: whether `JS_NewFloat64` stores an integral double with the int tag (releases from 2020);
  - `bigint`: whether the engine has BigInt.
- Where the code reads words it should not, the model keeps every outcome the build can produce:
  - `JS_VALUE_GET_INT` of a pointer tag gives any value in `Garbage`, or the BigInt's own value for releases that store short BigInts inline.
  - A failing `JS_ToFloat64` leaves `pres` uninitialized, so it gives any double.
  - `new Boolean` reads the int word through varargs, whole or truncated to a byte.

The state is one property slot that Java and JS both use. The actions are:

- `Set(j)`: `set`/`arrayAdd` (932-949), or a callback returning `j`.
- `Compute(v)`: JS code storing a value of its own.
- `Get(e)`: `get` (673-683) and the other reads through `To_JObject` with expected type `e`.
- `CallbackArg`: the argument loop of `callJavaCallback` (829-836).

Property:

- **`ReadsDenoteValue`**: when the bridge chooses the Java type itself (a read with `TYPE_UNKNOWN`, or a callback argument), Java gets the value JS holds. A number may arrive as another Java number class; null, undefined and the exception tag arrive as null.

## Runs

| Run | cfg | Expect | What it shows |
|---|---|---|---|
| ownership | `MCBoundary.cfg` | pass | With all 18 modelled entry points, callbacks that answer with values, handles or exceptions, scripts, arrays, prototype chains, parsed JSON and errors, no value is ever freed while referenced (`OwnershipSound`). Scripts call callbacks as `f(x)`; the `globalThis.f(x)` path is checked in refcount_errors. About 434k states. |
| refcount_errors | `MCBoundaryFaults_RefCounts.cfg` | violation | `RefCountsExact` (`OwnershipSound` and `NoLeak` together) with the entry points whose counting is wrong. First, `getObject`, `getPrototype` and `toJSString` free a value `TO_JS_VALUE` borrowed from a Java handle, and `executeFunction` frees a JSValue handle passed as an argument. Second, `To_JObject` drops the reference it was given on its non-object branches: `get` of a string leaks, and `parseJSON` (whose `JS_TAG_OBJECT` matches no case) returns null and leaks the parsed object. Third, `executeFunction2` keeps a duplicate of the function. Fourth, a script calls a callback as `globalThis.f(x)`. Java gets a handle on the global `this` with no reference (lines 838-843), against spec section 3's rule that every handle carries one. TLC shows the shortest counterexample; each of these bugs was first found on its own, with only its own entry points enabled. |
| job_pump | `MCJobPump.cfg` | pass | `NoJobLeftBehind` and `ImplementsJobQueue` (refinement of `JobQueue`, its fairness included) under weak fairness of engine steps. |
| reaction_order | `MCJobPump_ReactionOrder.cfg` | violation | A job queued by the first reaction of p runs before p's second reaction. |
| rejection_report | `MCJobPump_UnhandledQueue.cfg` | violation | With two unhandled rejections, a handler on the second one makes the pump report it and lose the first. |
| upcall_pending_exception | `MCJobPump_Upcall.cfg` | violation | An unhandled rejection makes the pump throw; `executeScript` then calls `TO_JAVA_OBJECT`. |
| spurious_hook_error | `MCErrorReport_NoSpuriousError.cfg` | violation | In a context with no `onError` hook, describing an Error calls `undefined`. The TypeError stays pending, and `getException` returns it. |
| script_error_lost | `MCErrorReport_FailureRetrievable.cfg` | violation | A script that throws leaves the `JS_EXCEPTION` tag in place of its error, so `getException` returns null. |
| shared_rejection_queue | `MCSharedRejections.cfg` | violation | Runtime r1 queues an unhandled rejection, and runtime r2's pump describes and frees it with r2's context. |
| getexception_refs | `MCGetException_References.cfg` | violation | `ReferencesBalanced` fails in two ways, and each was found on its own. (1) A pending value that is not an Error (`throw 1`) hits the early return at line 978, which keeps the reference `JS_GetException` handed over, so the value leaks. (2) An Error whose `stack` is a getter returning a new object: the loop frees that object, and then reads its `stack` from freed memory (line 993). With `isError` fixed TRUE and the use-after-free excluded, the counts balance (324 states). |
| getexception_returns | `MCGetException_Returns.cfg` | violation | After `e.stack = e` or `e.stack = null`, the stack loop never reaches undefined, and `getException` never returns. With null, the read throws, and every later read returns `JS_EXCEPTION`. Each turn of the loop repeats the model state, so TLC shows the loop as stuttering at `pc = "loop"`. |
| bigint_read | `MCConversion.cfg` | violation | JS computes a BigInt, and Java reads it with `TYPE_UNKNOWN`. `GetObjectType` says `TYPE_INTEGER` (line 186), and `To_JObject` returns `new Integer(JS_VALUE_GET_INT(v))` (line 217), which is a word of the BigInt's pointer. Java gets an unrelated Integer. With `bigint` fixed FALSE, every other stored or computed value in both builds reads back as the value it is (13,608 states). |

Every property of a passing run has a mutant in `PROJECT.json`: a plausible bug in the mapped definition that TLC finds violating it.

- `JobjectToJSValue` without its `JS_DupValue` breaks `OwnershipSound`.
- A runtime without the job listener breaks `ImplementsJobQueue`: a script that queues a job and then throws returns with the job pending.
- A pump loop missing its `break` also breaks `ImplementsJobQueue`: the call never returns, against the abstract `WF(End)`.
- A runtime without the job listener also breaks `NoJobLeftBehind`: a queued job waits while JS code runs.

## Bounds

**Boundary.** The model has 4 heap cells (the global object plus 3), 1 property key, and reference and handle counts of at most 2 (`MaxRef`, enforced with `Bounded(mem')`).

- With 4 cells, a callback, an argument, a result and a thrown error can all exist at once. `RoomFor` guards the entry points that need that space.
- One key suffices for every path: storing over an existing value (which frees it), `arrayAdd` on an empty and on a one-element array, a cycle through a property, a prototype cycle, and a callback reachable from the global object.
- A count of 2 allows a value held by both Java and the engine, and a duplicated handle.
- A second key multiplies the state space about 30 times (it does not finish within 5 minutes) and adds no code path.

**JobPump.** The model has 2 promises with up to 2 reactions each (`MaxThen`). That is the least that exhibits a second reaction queued after a nested job, two rejections popped in the wrong order, and a job failing while the settle loop still has a reaction to queue. Promises settle once, so the state space is finite; it has about 9k states.

**ErrorReport.** The model has two Errors and one non-Error value. Two Errors let a second failure replace a first one, and the hooks take all 16 combinations. Every call is one step, so the state space (1,440 states) is the product of the slot, the hooks and the histories.

**SharedRejections.** The model has two runtimes with one promise each. That is the least in which a reason crosses runtimes. `CHECK_DEADLOCK FALSE` is set because the system really stops once every runtime is released.

**GetException.** The model has two existing objects and one object a getter can create, which gives 144 initial configurations. `CHECK_DEADLOCK FALSE` is set because the call ends at `pc = "done"`.

**Conversion.** The model has the ints {-1, 0, 1}, the doubles {-1.5, 0.5, 1, 1.5} with NaN, -0 and infinity, two strings, and two garbage words (0 and 40). These cover the following cases:

- an integral and a non-integral double, under both `norm` choices;
- a negative value;
- a garbage word that equals a real payload, and one that does not;
- every Java class `JobjectToJSValue` accepts, and every expected type Java passes.

## Fairness

JobPump assumes `WF_vars(EngineStep)`. That covers the settle loop, a job or script returning, both native loops stepping, and the call returning. Once these steps are enabled they are not blocked by anything: the code has no locks or waits, and the loops call `JS_ExecutePendingJob` until it returns 0.

Java's calls and the JS code's choices get no fairness, because Java need not call again. Boundary, ErrorReport, SharedRejections and Conversion check safety only. GetException has `WF_vars(Next)`, because `getException` is straight-line native code on the caller's thread. JobQueue's `Fairness` is weak fairness of `Run(j)` for each job and of `End`: a call in progress is not blocked by Java, so a job that stays runnable runs and a call that may return does return. Checking `JQ!Spec` as a property checks these as liveness consequences of `WF_vars(EngineStep)`.

## What is not modelled, and why

- **The JS engine's own semantics** (its parser, garbage-collector cycles, and the content of values). Values are identities with a kind and a count, and strings and numbers are abstracted away.
- **Whether a job error swallowed by `jobListener` should reach Java.** The listener only logs the error of a failing job (line 1061). Spec 4.6 says a job failure is reported. ErrorReport models the error being described and dropped, but no run states that it reaches Java, because the run budget went to the findings above. It is listed as a hazard.
- **Long values outside int32, and string contents.** TLC integers are 32 bits wide, so `JS_NewInt64`'s float64 branch is written but never reached. Strings are numbered contents, so what `JS_ToCString` and string parsing produce is not modelled.
- **What a caller should get when it requests a type other than the value's own.** Examples are `TYPE_INTEGER` on 1.5, which gives 0, and `TYPE_DOUBLE` on an object whose `valueOf` throws, which gives the uninitialized `pres`. `Conversion` models both, but neither the code nor the spec says what the answer should be, so no property states it.
- **The `Double` round trip.** Under `norm`, a Java `Double` 2.0 comes back to a callback as a `Long`. Spec section 8 says it comes back as a `Double`. `ReadsDenoteValue` compares values, not classes, and the engine release cannot be settled from this repository, so the issue is listed as a hazard.
- **Conversion of a Java `Map`** in `JavaToJSValue`. Only the empty `List` case is modelled.
- **The other leaks of `getException`.** `GetException` counts the exception's reference and the references along the stack chain. `nameValue`, `titleValue` and the C strings from `JS_ToCString` are freed on no path, so they are listed under the hazard at line 978 and not modelled.
- **`stringify`, `toString`, `getKeys`, `contains`.** They read values and build strings, and they change no state the properties are about.
- **`setConstructor`, `newClass` and the worker constructor; the module loader** (string functions with no state).
- **Threads.** The spec confines each runtime to one thread, so within a runtime concurrency appears only as the nesting of calls. Across runtimes, `SharedRejections` interleaves steps. The data race on the `std::queue` itself, when two threads pump at once, is undefined behaviour and is not modelled further.

## Plan for later sittings

1. The job-failure and upcall paths of `executeScript` together with `ErrorReport`'s slot, composed with `JobPump`.
2. The conversion of a Java `Map` in `JavaToJSValue`, on Boundary's heap.
