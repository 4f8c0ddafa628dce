------------------------------- MODULE BmiJob -------------------------------
(***************************************************************************)
(* What the job layer promises to the state machines that post messages    *)
(* through it (job_bmi_send, job_bmi_recv, job_bmi_cancel, job_testcontext *)
(* in src/io/job/job.c): a posted job completes once, and is handed back   *)
(* only after that.  ThreadMgr implements this promise; MsgPairArray is    *)
(* built on it.                                                            *)
(***************************************************************************)
CONSTANT Job        \* the job descriptors

VARIABLE job        \* what became of each of them

\* The ways a job may go.  It is about to end once it is cancelled or BMI is
\* done with it, maybe in the step that posts it, and free to be posted again
\* once it is handed back.
Goes == {<<"free", "posted">>, <<"free", "ending">>, <<"posted", "ending">>,
         <<"ending", "completed">>, <<"completed", "free">>}

Init == job = [j \in Job |-> "free"]

\* Several jobs may go in one step.
Next ==
    /\ job' \in [Job -> {"free", "posted", "ending", "completed"}]
    /\ \A j \in Job : job'[j] = job[j] \/ <<job[j], job'[j]>> \in Goes

Spec == Init /\ [][Next]_job
=============================================================================
