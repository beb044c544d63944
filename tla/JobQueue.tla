----------------------------- MODULE JobQueue ------------------------------
(***************************************************************************)
(* What the job machinery of one runtime promises Java, independent of how *)
(* jobListener and executePendingJobLoop share the work: inside a JNI call *)
(* JS code schedules jobs; every scheduled job runs once; and a call       *)
(* returns to Java only with no job left, or with a Java exception that    *)
(* reports a failure.  The order in which jobs run is not promised (see    *)
(* JobsRunInReactionOrder in JobPump).                                     *)
(***************************************************************************)
EXTENDS Sequences, SequencesExt

CONSTANTS
  Jobs,    \* the jobs JS code can schedule
  Calls    \* the JNI calls that run jobs

VARIABLES
  pend,    \* scheduled jobs that have not run
  done,    \* jobs run, in the order they started
  call,    \* the call in progress, or "none"
  exc      \* a Java exception is pending for the call

avars == <<pend, done, call, exc>>

Init ==
  /\ pend = {}
  /\ done = <<>>
  /\ call = "none"
  /\ exc = FALSE

Begin(c) ==
  /\ call = "none"
  /\ call' = c
  /\ UNCHANGED <<pend, done, exc>>

(* JS code schedules new jobs. *)
Schedule(S) ==
  /\ call # "none"
  /\ S # {} /\ S \cap (pend \cup ToSet(done)) = {}
  /\ pend' = pend \cup S
  /\ UNCHANGED <<done, call, exc>>

(* A scheduled job runs. *)
Run(j) ==
  /\ call # "none" /\ j \in pend
  /\ pend' = pend \ {j}
  /\ done' = Append(done, j)
  /\ UNCHANGED <<call, exc>>

(* A failure is reported to Java. *)
Fail ==
  /\ call # "none" /\ ~exc
  /\ exc' = TRUE
  /\ UNCHANGED <<pend, done, call>>

End ==
  /\ call # "none" /\ (pend = {} \/ exc)
  /\ call' = "none"
  /\ exc' = FALSE
  /\ UNCHANGED <<pend, done>>

Next ==
  \/ \E c \in Calls : Begin(c)
  \/ \E S \in SUBSET Jobs : Schedule(S)
  \/ \E j \in Jobs : Run(j)
  \/ Fail \/ End

(* A call in progress is not blocked by anything Java does: a scheduled  *)
(* job that stays runnable runs, and a call that may return returns.       *)
Fairness ==
  /\ \A j \in Jobs : WF_avars(Run(j))
  /\ WF_avars(End)

Spec == Init /\ [][Next]_avars /\ Fairness

=============================================================================
