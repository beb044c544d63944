-------------------------- MODULE SharedRejections --------------------------
(***************************************************************************)
(* The process-wide queue unhandledRejections of quickjs-jni.cpp (line 90) *)
(* shared by every runtime.  initES6Module gives each runtime the same     *)
(* queue as the opaque of promiseRejectionTracker, and                     *)
(* throwIfUnhandledRejections empties it with the context of whichever     *)
(* runtime is pumping.                                                      *)
(*                                                                         *)
(* Each runtime is reduced to its JNI call phase and to what its JS code   *)
(* does to its own promises: rejecting one and attaching a handler.  The  *)
(* job machinery of a single runtime is the JobPump module.  Steps of      *)
(* different runtimes interleave: runtimes are used from different         *)
(* threads, or one runtime's Java callback calls into another.             *)
(***************************************************************************)
EXTENDS Sequences, SequencesExt

CONSTANTS
  Runtimes,    \* runtimes created by createRuntime (model values)
  PromisesOf   \* [Runtimes -> SUBSET promises]: the promises of each runtime

Promises == UNION {PromisesOf[r] : r \in Runtimes}

ASSUME \A r, s \in Runtimes : r # s => PromisesOf[r] \cap PromisesOf[s] = {}

VARIABLES
  prom,      \* [Promises -> {"pending", "rejected"}]
  handled,   \* [Promises -> BOOLEAN]: a reaction is attached (is_handled)
  rejq,      \* unhandledRejections: reasons, named by their promise
  call,      \* [Runtimes -> {"none", "js", "pump", "released"}]: phase of the
             \* JNI call, or the runtime was released
  freed      \* history: [Runtimes -> SUBSET Promises]: reasons freed with
             \* that runtime's context

vars == <<prom, handled, rejq, call, freed>>

Init ==
  /\ prom = [p \in Promises |-> "pending"]
  /\ handled = [p \in Promises |-> FALSE]
  /\ rejq = <<>>
  /\ call = [r \in Runtimes |-> "none"]
  /\ freed = [r \in Runtimes |-> {}]

(* JS code of runtime r rejects its promise p; with no handler the engine *)
(* calls promiseRejectionTracker, which pushes the reason.                *)
Reject(r, p) ==
  /\ call[r] = "js" /\ prom[p] = "pending"
  /\ prom' = [prom EXCEPT ![p] = "rejected"]
  /\ rejq' = IF handled[p] THEN rejq ELSE Append(rejq, p)
  /\ UNCHANGED <<handled, call, freed>>

(* JS code of runtime r attaches the first handler to p.  For a rejected *)
(* p the tracker frees, with r's context, and pops the oldest reason of  *)
(* the shared queue.                                                      *)
Then(r, p) ==
  /\ call[r] = "js" /\ ~handled[p]
  /\ handled' = [handled EXCEPT ![p] = TRUE]
  /\ IF prom[p] = "rejected" /\ rejq # <<>>
     THEN /\ freed' = [freed EXCEPT ![r] = @ \cup {Head(rejq)}]
          /\ rejq' = Tail(rejq)
     ELSE UNCHANGED <<freed, rejq>>
  /\ UNCHANGED <<prom, call>>

(* executeScript on runtime r: JS_Eval runs the script. *)
ExecuteScript(r) ==
  /\ call[r] = "none"
  /\ call' = [call EXCEPT ![r] = "js"]
  /\ UNCHANGED <<prom, handled, rejq, freed>>

(* JS_Eval returns: executePendingJobLoop follows. *)
ScriptReturn(r) ==
  /\ call[r] = "js"
  /\ call' = [call EXCEPT ![r] = "pump"]
  /\ UNCHANGED <<prom, handled, rejq, freed>>

(* JS_Eval throws: executeScript returns without the loop, leaving the    *)
(* reasons its script queued.                                             *)
ScriptThrow(r) ==
  /\ call[r] = "js"
  /\ call' = [call EXCEPT ![r] = "none"]
  /\ UNCHANGED <<prom, handled, rejq, freed>>

(* executePendingJobs on runtime r. *)
ExecutePendingJobs(r) ==
  /\ call[r] = "none"
  /\ call' = [call EXCEPT ![r] = "pump"]
  /\ UNCHANGED <<prom, handled, rejq, freed>>

(* executePendingJobLoop of runtime r, past its jobs:                     *)
(* throwIfUnhandledRejections describes every queued reason with r's      *)
(* context and frees it with JS_FreeValue(ctx, reason).                   *)
ThrowIfUnhandledRejections(r) ==
  /\ call[r] = "pump"
  /\ call' = [call EXCEPT ![r] = "none"]
  /\ freed' = [freed EXCEPT ![r] = @ \cup ToSet(rejq)]
  /\ rejq' = <<>>
  /\ UNCHANGED <<prom, handled>>

(* releaseRuntime: JS_FreeRuntime while reasons of r may still be in the *)
(* shared queue, which keeps pointers into the freed heap.               *)
ReleaseRuntime(r) ==
  /\ call[r] = "none"
  /\ call' = [call EXCEPT ![r] = "released"]
  /\ UNCHANGED <<prom, handled, rejq, freed>>

Next ==
  \E r \in Runtimes :
    \/ \E p \in PromisesOf[r] : Reject(r, p) \/ Then(r, p)
    \/ ExecuteScript(r) \/ ScriptReturn(r) \/ ScriptThrow(r)
    \/ ExecutePendingJobs(r) \/ ThrowIfUnhandledRejections(r)
    \/ ReleaseRuntime(r)

Spec == Init /\ [][Next]_vars

TypeOK ==
  /\ prom \in [Promises -> {"pending", "rejected"}]
  /\ handled \in [Promises -> BOOLEAN]
  /\ rejq \in Seq(Promises)
  /\ call \in [Runtimes -> {"none", "js", "pump", "released"}]
  /\ freed \in [Runtimes -> SUBSET Promises]

(* A rejection reason is freed (and described) only with the context of  *)
(* the runtime that owns it: JS_FreeValue and JS_GetPropertyStr on a      *)
(* value of another runtime, possibly one already released, corrupt the   *)
(* heaps.  promiseRejectionTracker and throwIfUnhandledRejections take    *)
(* reasons from one queue shared by all runtimes.                         *)
ReasonsFreedByOwner == \A r \in Runtimes : freed[r] \subseteq PromisesOf[r]

=============================================================================
