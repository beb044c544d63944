------------------------------ MODULE JobPump ------------------------------
(***************************************************************************)
(* Deferred jobs and unhandled promise rejections in quickjs-jni.cpp.      *)
(*                                                                         *)
(* initES6Module installs two engine hooks on every runtime:              *)
(*  - promiseRejectionTracker, called when a promise is rejected with no   *)
(*    handler (it pushes a duplicate of the reason on the process-wide     *)
(*    queue unhandledRejections) and when a handler is attached to such a  *)
(*    promise (it frees and pops the queue's oldest entry);                *)
(*  - jobListener, called each time a job is added to the engine's job    *)
(*    queue, which runs pending jobs until none is left.                   *)
(* executePendingJobLoop, run by executeScript after JS_Eval and by        *)
(* executePendingJobs, runs jobs until none is left or one fails, then     *)
(* reports every queued rejection as one Java exception.                   *)
(*                                                                         *)
(* Code runs on one thread; the interleaving modelled is the nesting of    *)
(* calls: JS code that adds a job calls jobListener, which runs other JS   *)
(* code before the adding code resumes.  stack holds the active frames:    *)
(* the script of executeScript, a job, a jobListener loop, or the loop of  *)
(* executePendingJobLoop.  A job is the reaction to a promise settling     *)
(* and is named by that promise.                                           *)
(***************************************************************************)
EXTENDS Naturals, Sequences, FiniteSets, SequencesExt

CONSTANTS
  Promises,   \* promises the JS code creates (model values)
  MaxThen,    \* bound on the reactions (then calls) per promise
  NoJob       \* the job field of a frame that is not a job

ASSUME Promises # {} /\ MaxThen \in Nat \ {0} /\ NoJob \notin Promises \X (1..MaxThen)

(* A job is the i-th reaction of promise p. *)
Jobs == Promises \X (1..MaxThen)

VARIABLES
  prom,        \* [Promises -> {"pending", "fulfilled", "rejected"}]
  reactions,   \* [Promises -> 0..MaxThen]: reactions attached; > 0 is the engine's is_handled
  jobs,        \* the engine's job queue
  rejq,        \* unhandledRejections: reasons, named by their promise
  stack,       \* active frames, innermost last
  call,        \* the JNI call in progress: "none", "executeScript", "executePendingJobs"
  failed,      \* executePendingJobLoop of the current call returned false
  javaExc,     \* a Java exception is pending in the JNIEnv
  reported,    \* history: rejections reported to Java so far
  started,     \* history: jobs in the order they started
  order,       \* history: jobs in standard reaction order (all reactions of a
               \* promise queued when it settles)
  upcallExc    \* history: a JNI upcall was made with a Java exception pending

vars == <<prom, reactions, jobs, rejq, stack, call, failed, javaExc, reported,
          started, order, upcallExc>>

(* A frame; a "settle" frame is the engine's loop over the reactions of a *)
(* promise that just settled, job the next one to queue and last the last. *)
Frame(k, j) == [kind |-> k, job |-> j, last |-> 0]
Top == stack[Len(stack)]
Pop == SubSeq(stack, 1, Len(stack) - 1)

(* JS code is running: the innermost frame is a script or a job. *)
InJS == stack # <<>> /\ Top.kind \in {"script", "job"}

-----------------------------------------------------------------------------
(* Engine operations called by JS code.                                    *)

(* Variant for checking: a runtime without the job-added listener. *)
EnqueueJobNoListener(j, rest) ==
  /\ jobs' = Append(jobs, j)
  /\ stack' = rest

(* JS_EnqueueJob: the job is added, then jobListener is called.            *)
EnqueueJob(j, rest) ==
  /\ jobs' = Append(jobs, j)
  /\ stack' = Append(rest, Frame("listener", NoJob))

(* promiseRejectionTracker with is_handled = FALSE. *)
TrackUnhandled(p) == rejq' = Append(rejq, p)

(* promiseRejectionTracker with is_handled = TRUE: the oldest entry is     *)
(* freed and popped, whichever promise it belongs to.                      *)
TrackHandled == rejq' = IF rejq # <<>> THEN Tail(rejq) ELSE rejq

(* The running code settles p.  A promise with reactions starts the loop  *)
(* that queues them; a rejected one without calls the tracker.             *)
Settle(p, st) ==
  /\ InJS /\ prom[p] = "pending"
  /\ prom' = [prom EXCEPT ![p] = st]
  /\ IF reactions[p] > 0
     THEN /\ stack' = Append(stack, [kind |-> "settle", job |-> <<p, 1>>,
                                     last |-> reactions[p]])
          /\ order' = order \o [i \in 1..reactions[p] |-> <<p, i>>]
          /\ UNCHANGED rejq
     ELSE /\ IF st = "rejected" THEN TrackUnhandled(p) ELSE UNCHANGED rejq
          /\ UNCHANGED <<stack, order>>
  /\ UNCHANGED <<reactions, jobs, call, failed, javaExc, reported, started, upcallExc>>

(* One turn of the settle loop: the next reaction job is queued.          *)
SettleStep ==
  /\ stack # <<>> /\ Top.kind = "settle"
  /\ LET j == Top.job IN
       EnqueueJob(j, IF j[2] < Top.last
                     THEN [stack EXCEPT ![Len(stack)].job = <<j[1], j[2] + 1>>]
                     ELSE Pop)
  /\ UNCHANGED <<prom, reactions, rejq, call, failed, javaExc, reported, started,
                 order, upcallExc>>

(* p.then(f, r): the first reaction of a rejected promise calls the        *)
(* tracker; a settled promise gets its reaction job at once.               *)
Then(p) ==
  /\ InJS /\ reactions[p] < MaxThen
  /\ reactions' = [reactions EXCEPT ![p] = @ + 1]
  /\ IF prom[p] = "rejected" /\ reactions[p] = 0 THEN TrackHandled ELSE UNCHANGED rejq
  /\ IF prom[p] # "pending"
     THEN EnqueueJob(<<p, reactions[p] + 1>>, stack)
          /\ order' = Append(order, <<p, reactions[p] + 1>>)
     ELSE UNCHANGED <<jobs, stack, order>>
  /\ UNCHANGED <<prom, call, failed, javaExc, reported, started, upcallExc>>

-----------------------------------------------------------------------------
(* Frames: JS code returning or failing, and the two job loops.            *)

(* The script of executeScript completes: executePendingJobLoop follows.   *)
ScriptReturn ==
  /\ stack # <<>> /\ Top.kind = "script"
  /\ stack' = <<Frame("pump", NoJob)>>
  /\ UNCHANGED <<prom, reactions, jobs, rejq, call, failed, javaExc, reported,
                 started, order, upcallExc>>

(* JS_Eval returns an exception: executeScript returns at once.           *)
ScriptThrow ==
  /\ stack # <<>> /\ Top.kind = "script"
  /\ stack' = Pop
  /\ UNCHANGED <<prom, reactions, jobs, rejq, call, failed, javaExc, reported,
                 started, order, upcallExc>>

(* A job returns: the loop that ran it goes on.                            *)
JobReturn ==
  /\ stack # <<>> /\ Top.kind = "job"
  /\ stack' = Pop
  /\ UNCHANGED <<prom, reactions, jobs, rejq, call, failed, javaExc, reported,
                 started, order, upcallExc>>

(* JS_ExecutePendingJob returns -1 (an uncatchable error in the job): the *)
(* loop that ran it breaks.  jobListener only logs the error text;         *)
(* executePendingJobLoop throws it as a Java exception.                    *)
JobFail ==
  /\ stack # <<>> /\ Top.kind = "job"
  /\ stack' = SubSeq(stack, 1, Len(stack) - 2)
  /\ IF stack[Len(stack) - 1].kind = "pump"
     THEN failed' = TRUE /\ javaExc' = TRUE
     ELSE UNCHANGED <<failed, javaExc>>
  /\ UNCHANGED <<prom, reactions, jobs, rejq, call, reported, started, order, upcallExc>>

(* One JS_ExecutePendingJob: the oldest job starts.                        *)
RunHead ==
  /\ jobs' = Tail(jobs)
  /\ stack' = Append(stack, Frame("job", Head(jobs)))
  /\ started' = Append(started, Head(jobs))

(* jobListener: while (JS_IsJobPending(rt)) JS_ExecutePendingJob.          *)
ListenerStep ==
  /\ stack # <<>> /\ Top.kind = "listener"
  /\ IF jobs # <<>> THEN RunHead ELSE stack' = Pop /\ UNCHANGED <<jobs, started>>
  /\ UNCHANGED <<prom, reactions, rejq, call, failed, javaExc, reported, order, upcallExc>>

(* throwIfUnhandledRejections: every queued reason is freed and reported  *)
(* in one Java exception (throwJSException keeps one already pending).     *)
ThrowIfUnhandledRejections ==
  IF rejq # <<>>
  THEN /\ rejq' = <<>>
       /\ reported' = reported \cup ToSet(rejq)
       /\ failed' = TRUE
       /\ javaExc' = TRUE
  ELSE UNCHANGED <<rejq, reported, failed, javaExc>>

(* Variant for checking: the loop lacks the break taken when               *)
(* JS_ExecutePendingJob returns 0.                                         *)
PumpStepNoBreak ==
  /\ stack # <<>> /\ Top.kind = "pump"
  /\ IF jobs # <<>>
     THEN RunHead /\ UNCHANGED <<rejq, reported, failed, javaExc>>
     ELSE UNCHANGED <<stack, jobs, started, rejq, reported, failed, javaExc>>
  /\ UNCHANGED <<prom, reactions, call, order, upcallExc>>

(* executePendingJobLoop: a job at a time until JS_ExecutePendingJob       *)
(* returns 0, then the rejections.                                         *)
PumpStep ==
  /\ stack # <<>> /\ Top.kind = "pump"
  /\ IF jobs # <<>>
     THEN RunHead /\ UNCHANGED <<rejq, reported, failed, javaExc>>
     ELSE stack' = Pop /\ ThrowIfUnhandledRejections /\ UNCHANGED <<jobs, started>>
  /\ UNCHANGED <<prom, reactions, call, order, upcallExc>>

-----------------------------------------------------------------------------
(* JNI calls from Java.                                                    *)

ExecuteScript ==
  /\ call = "none"
  /\ call' = "executeScript"
  /\ stack' = <<Frame("script", NoJob)>>
  /\ UNCHANGED <<prom, reactions, jobs, rejq, failed, javaExc, reported, started,
                 order, upcallExc>>

(* executePendingJobs; executePendingJobLoop returns false at once if a    *)
(* Java exception is pending.                                              *)
ExecutePendingJobs ==
  /\ call = "none"
  /\ call' = "executePendingJobs"
  /\ IF javaExc THEN failed' = TRUE /\ UNCHANGED stack
     ELSE stack' = <<Frame("pump", NoJob)>> /\ UNCHANGED failed
  /\ UNCHANGED <<prom, reactions, jobs, rejq, javaExc, reported, started, order,
                 upcallExc>>

(* The call returns to Java, which takes the pending exception.  After a   *)
(* failed loop executeScript still calls TO_JAVA_OBJECT, an upcall into    *)
(* Java (createJSValue).                                                   *)
ReturnToJava ==
  /\ call # "none" /\ stack = <<>>
  /\ upcallExc' = (upcallExc \/ (call = "executeScript" /\ failed /\ javaExc))
  /\ call' = "none"
  /\ failed' = FALSE
  /\ javaExc' = FALSE
  /\ UNCHANGED <<prom, reactions, jobs, rejq, stack, reported, started, order>>

Init ==
  /\ prom = [p \in Promises |-> "pending"]
  /\ reactions = [p \in Promises |-> 0]
  /\ jobs = <<>>
  /\ rejq = <<>>
  /\ stack = <<>>
  /\ call = "none"
  /\ failed = FALSE
  /\ javaExc = FALSE
  /\ reported = {}
  /\ started = <<>>
  /\ order = <<>>
  /\ upcallExc = FALSE

(* Steps of the engine and of the native code, as opposed to the choices  *)
(* of the JS code and of Java.                                             *)
EngineStep ==
  SettleStep \/ ScriptReturn \/ JobReturn \/ ListenerStep \/ PumpStep \/ ReturnToJava

Next ==
  \/ \E p \in Promises : Settle(p, "fulfilled") \/ Settle(p, "rejected") \/ Then(p)
  \/ SettleStep \/ ScriptReturn \/ ScriptThrow \/ JobReturn \/ JobFail
  \/ ListenerStep \/ PumpStep
  \/ ExecuteScript \/ ExecutePendingJobs \/ ReturnToJava

(* The engine and the native loops are not blocked by anything once they  *)
(* run, so their steps are weakly fair; Java need not call at all.         *)
Spec == Init /\ [][Next]_vars /\ WF_vars(EngineStep)

-----------------------------------------------------------------------------
(* Properties.                                                             *)

(* No job waits in the engine's queue while other code runs: a job is     *)
(* queued only while a jobListener is about to run it.  JS_EnqueueJob      *)
(* calls jobListener on every job, nested inside the settle loop, a job or *)
(* a script, and a listener loop that breaks on a failing job leaves       *)
(* nothing behind, so executePendingJobLoop never finds a job to run.     *)
NoJobLeftBehind == jobs # <<>> => stack # <<>> /\ Top.kind = "listener"

(* The job machinery implements JobQueue: every job scheduled by a       *)
(* reaction (the ghost order) starts exactly once, and a JNI call returns  *)
(* to Java only when every scheduled job has started or with a Java        *)
(* exception pending; under the fairness of the engine steps every call   *)
(* returns and every scheduled job starts before it returns or fails.     *)
(* Jobs are split between jobListener, which breaks on a failing job, the *)
(* settle loop that queues reactions one at a time, and                    *)
(* executePendingJobLoop, which executeScript skips when JS_Eval throws.   *)
JQ == INSTANCE JobQueue WITH
        pend  <- ToSet(order) \ ToSet(started),
        done  <- started,
        exc   <- javaExc,
        Calls <- {"executeScript", "executePendingJobs"}

ImplementsJobQueue == JQ!Spec

(* Deferred jobs start in standard promise-reaction order: the reactions  *)
(* of a promise run one after another, before jobs queued later.           *)
(* jobListener runs each job inside JS_EnqueueJob, while the engine is     *)
(* still queueing the other reactions of the same promise.                 *)
JobsRunInReactionOrder == IsPrefix(started, order)

(* At the end of a full job pump exactly the rejections that are still    *)
(* unhandled and not yet reported are reported (and none that was handled  *)
(* in the meantime).  promiseRejectionTracker pops the oldest entry when   *)
(* any promise gets a handler.                                             *)
RejectionsReportedExactly ==
  [][PumpStep /\ jobs = <<>> =>
       reported' \ reported =
         {p \in Promises : prom[p] = "rejected" /\ reactions[p] = 0 /\ p \notin reported}]_vars

(* No JNI upcall is made while a Java exception is pending: executeScript *)
(* calls TO_JAVA_OBJECT after executePendingJobLoop threw one.             *)
NoUpcallWithPendingException == ~upcallExc

=============================================================================
