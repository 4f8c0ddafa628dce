----------------------------- MODULE ThreadMgr ------------------------------
(***************************************************************************)
(* How messages in progress are completed, timed out and cancelled.        *)
(*                                                                         *)
(* One thread (bmi_thread_function, src/io/job/thread-mgr.c) tests for     *)
(* finished BMI operations and calls back their owners: the job layer      *)
(* (src/io/job/job.c) under completion_mutex, or a flow                    *)
(* (src/io/flow/flowproto-bmi-trove) under its flow_mutex.  Another thread *)
(* may cancel an operation, holding its owner's mutex; it must not do so   *)
(* while the test is in progress, and must not cancel what the test has    *)
(* already reported.  bmi_test_flag, bmi_test_cancel_waiter and one        *)
(* condition variable arrange that.  Jobs carry timers, kept in buckets by *)
(* the second they expire (src/io/job/job-time-mgr.c).                     *)
(***************************************************************************)
EXTENDS Naturals, Sequences, FiniteSets

CONSTANTS
    Job,            \* operations the job layer posts
    FlowOp,         \* operations a flow posts
    AtATime,        \* bound on the threads cancelling at a time, beside the BMI thread
    TestCount,      \* THREAD_MGR_TEST_COUNT
    Timeout,        \* the timeouts jobs are posted with, in seconds
    Infinite,       \* JOB_TIMEOUT_INF
    MaxTime,        \* bound on the clock
    MaxPosts,       \* bound on the operations posted
    None

ASSUME OpAssumption ==
    IsFiniteSet(FlowOp) /\ Job \cap FlowOp = {} /\ None \notin Job \cup FlowOp
ASSUME NoneAssumption == None \notin {"bmi", "main", "trove"}
ASSUME TimeAssumption ==
    /\ TestCount \in Nat \ {0} /\ MaxTime \in Nat
    /\ Timeout \subseteq Nat \ {0} /\ Infinite \notin Nat

VARIABLES
    bmi,                    \* where the BMI thread is
    bmi_test_flag,          \* a test is in progress
    bmi_test_cancel_waiter, \* number of cancels waiting for its end
    cond,                   \* the threads asleep on bmi_test_cond
    stat,                   \* the operations the last test reported
    st,                     \* the state of each operation
    lock,                   \* holder of completion_mutex and of flow_mutex
    todo,                   \* what the holder has still to cancel
    at,                     \* the cancel it is waiting in
    flow_error,             \* the flow is being cleaned up
    cleanup_pending_count,  \* and waits for this many callbacks
    main,                   \* what the main thread is in
    asked,                  \* jobs a state machine has cancelled
    bucket_queue,           \* the timers: [expire, jds] by rising expire
    due,                    \* the time each job was last told to end by
    now,                    \* the clock
    tv                      \* the time the walk over the timers started at

thread_vars == <<bmi, bmi_test_flag, bmi_test_cancel_waiter, cond, stat>>
cancel_vars == <<lock, todo, at, flow_error, cleanup_pending_count>>
time_vars == <<bucket_queue, due, now, tv>>
vars == <<thread_vars, st, cancel_vars, main, asked, time_vars>>

Op == Job \cup FlowOp

\* The main thread, which runs the state machines and the timers, cancels jobs;
\* the Trove thread cancels operations when its callback finds the flow failed.
MayCancel == Cardinality({d \in {"job", "flow"} : lock[d] \in {"main", "trove"}}) < AtATime

\* Operations BMI has, or has reported, and whose owner was not called back.
Pending == {o \in Op : st[o] \in {"posted", "finished", "cancelled", "reported"}}

Init ==
    /\ bmi = "loop" /\ bmi_test_flag = FALSE /\ bmi_test_cancel_waiter = 0
    /\ cond = {} /\ stat = {}
    /\ st = [o \in Op |-> "new"]
    /\ lock = [d \in {"job", "flow"} |-> None]
    /\ todo = [d \in {"job", "flow"} |-> {}]
    /\ at = [d \in {"job", "flow"} |-> None]
    /\ flow_error = FALSE /\ cleanup_pending_count = 0
    /\ main = "idle" /\ asked = {}
    /\ bucket_queue = <<>> /\ due = [j \in Job |-> Infinite]
    /\ now = 0 /\ tv = 0

\* pthread_cond_signal: one of the threads asleep, whichever, is woken.
Signal ==
    \/ cond = {} /\ cond' = cond
    \/ \E t \in cond : cond' = cond \ {t}

\* pthread_cond_wait may also return for no reason.
Wakeup ==
    /\ \E t \in cond : cond' = cond \ {t}
    /\ UNCHANGED <<bmi, bmi_test_flag, bmi_test_cancel_waiter, stat, st, cancel_vars, main,
                   asked, time_vars>>

-----------------------------------------------------------------------------
(* The timers (job-time-mgr.c). *)

\* The bucket of the wanted second, or a new one before the first later one.
TimerAdd(q, e, j) ==
    LET later == {i \in 1..Len(q) : q[i].expire >= e}
        k == IF later = {} THEN Len(q) + 1
             ELSE CHOOSE i \in later : \A m \in later : i <= m
    IN  IF k <= Len(q) /\ q[k].expire = e
        THEN [q EXCEPT ![k].jds = @ \cup {j}]
        ELSE SubSeq(q, 1, k - 1) \o <<[expire |-> e, jds |-> {j}]>>
                                 \o SubSeq(q, k, Len(q))

\* A bucket that becomes empty stays until its second comes.
TimerRem(q, j) == [i \in 1..Len(q) |-> [q[i] EXCEPT !.jds = @ \ {j}]]

NeverArmed(q, j, t) == q

\* job_time_mgr_add: nothing to do for a job that may take for ever.
Armed(q, j, t) == IF t = Infinite THEN q ELSE TimerAdd(q, now + t, j)
InTime(t) == t # Infinite => now + t <= MaxTime
DueAt(t) == IF t = Infinite THEN Infinite ELSE now + t

ExpiredRounded(time) == bucket_queue # <<>> /\ Head(bucket_queue).expire <= time + 1

\* The first bucket has come to its second.
Expired(time) == bucket_queue # <<>> /\ Head(bucket_queue).expire <= time

\* The clock of gettimeofday.
Tick ==
    /\ now < MaxTime
    /\ now' = now + 1
    /\ UNCHANGED <<thread_vars, st, cancel_vars, main, asked, bucket_queue, due, tv>>

-----------------------------------------------------------------------------
(* Posting, and the network. *)

MayPost(o) ==
    st[o] = "new" /\ Cardinality({p \in Op : st[p] # "new"}) < MaxPosts

\* job_bmi_send, job_bmi_recv.  A call that fails or completes at once leaves
\* no job behind: it is as if it had not been made.
JobPost(j, t) ==
    /\ main = "idle" /\ MayPost(j) /\ InTime(t)
    /\ st' = [st EXCEPT ![j] = "posted"]
    /\ bucket_queue' = Armed(bucket_queue, j, t)
    /\ due' = [due EXCEPT ![j] = DueAt(t)]
    /\ UNCHANGED <<thread_vars, cancel_vars, main, asked, now, tv>>

\* A flow posts under its mutex, until it has failed.
FlowPost(o) ==
    /\ lock["flow"] = None /\ ~ flow_error /\ MayPost(o)
    /\ st' = [st EXCEPT ![o] = "posted"]
    /\ UNCHANGED <<thread_vars, cancel_vars, main, asked, time_vars>>

\* The message is transferred, or its transfer fails.
Finish(o) ==
    /\ st[o] = "posted"
    /\ st' = [st EXCEPT ![o] = "finished"]
    /\ UNCHANGED <<thread_vars, cancel_vars, main, asked, time_vars>>

\* BMI_cancel: what has finished is left as it is.
BMI_cancel(o) == [st EXCEPT ![o] = IF @ = "finished" THEN @ ELSE "cancelled"]

-----------------------------------------------------------------------------
(* The BMI thread. *)

\* It waits for the cancels that are waiting for it, or starts a test.
StartTest ==
    /\ bmi = "loop" /\ "bmi" \notin cond
    /\ \/ /\ bmi_test_cancel_waiter > 0
          /\ cond' = cond \cup {"bmi"}
          /\ UNCHANGED <<bmi, bmi_test_flag, stat>>
       \/ /\ bmi_test_cancel_waiter = 0
          /\ bmi_test_flag' = TRUE /\ stat' = {} /\ bmi' = "test"
          /\ UNCHANGED cond
    /\ UNCHANGED <<bmi_test_cancel_waiter, st, cancel_vars, main, asked, time_vars>>

TestContextSilent ==
    LET over == {o \in Op : st[o] \in {"finished", "cancelled"}}
    IN  /\ bmi = "test" /\ Cardinality(over) <= TestCount
        /\ stat' = over
        /\ st' = [o \in Op |-> IF o \in over THEN "reported" ELSE st[o]]
        /\ bmi_test_flag' = FALSE /\ bmi' = "calls"
        /\ UNCHANGED <<bmi_test_cancel_waiter, cond, cancel_vars, main, asked, time_vars>>

\* BMI_testcontext reports at most TestCount operations, then the flag falls.
TestContext ==
    LET over == {o \in Op : st[o] \in {"finished", "cancelled"}}
    IN  /\ bmi = "test"
        /\ \E done \in SUBSET over :
              /\ Cardinality(done) <= TestCount
              /\ Cardinality(done) < TestCount => done = over
              /\ stat' = done
              /\ st' = [o \in Op |-> IF o \in done THEN "reported" ELSE st[o]]
        /\ bmi_test_flag' = FALSE /\ Signal /\ bmi' = "calls"
        /\ UNCHANGED <<bmi_test_cancel_waiter, cancel_vars, main, asked, time_vars>>

\* "critical BMI failure": the thread terminates.
TestFails ==
    /\ bmi = "test"
    /\ bmi_test_flag' = FALSE /\ Signal /\ bmi' = "dead"
    /\ UNCHANGED <<bmi_test_cancel_waiter, stat, st, cancel_vars, main, asked, time_vars>>

\* bmi_thread_mgr_callback: the job is complete and waits to be collected.
JobCallback(j) ==
    /\ bmi = "calls" /\ st[j] = "reported" /\ lock["job"] = None
    /\ st' = [st EXCEPT ![j] = "completed"]
    /\ UNCHANGED <<thread_vars, cancel_vars, main, asked, time_vars>>

FlowFailsCounted(t, others) ==
    /\ ~ flow_error /\ flow_error' = TRUE
    /\ cleanup_pending_count' = Cardinality(others \ stat)
    /\ todo' = [todo EXCEPT !["flow"] = others]
    /\ lock' = [lock EXCEPT !["flow"] = IF others = {} THEN None ELSE t]
    /\ UNCHANGED at

\* handle_io_error: the first error of a flow cancels all it has posted.
FlowFails(t, others) ==
    /\ ~ flow_error /\ flow_error' = TRUE
    /\ cleanup_pending_count' = Cardinality(others)
    /\ todo' = [todo EXCEPT !["flow"] = others]
    /\ lock' = [lock EXCEPT !["flow"] = IF others = {} THEN None ELSE t]
    /\ UNCHANGED at

\* The callback of a flow; the first error makes this very thread cancel the
\* others, whose callbacks are then counted down.
FlowCallback(o) ==
    /\ bmi = "calls" /\ st[o] = "reported" /\ lock["flow"] = None
    /\ st' = [st EXCEPT ![o] = "called"]
    /\ \/ ~ flow_error /\ UNCHANGED <<bmi, cancel_vars>>
       \/ /\ flow_error /\ cleanup_pending_count' = cleanup_pending_count - 1
          /\ UNCHANGED <<bmi, lock, todo, at, flow_error>>
       \/ LET others == (Pending \cap FlowOp) \ {o}
          IN  /\ FlowFails("bmi", others)
              /\ bmi' = IF others = {} THEN bmi ELSE "cancel"
    /\ UNCHANGED <<bmi_test_flag, bmi_test_cancel_waiter, cond, stat, main, asked,
                   time_vars>>

CallbacksDone ==
    /\ bmi = "calls" /\ \A o \in stat : st[o] # "reported"
    /\ bmi' = "loop"
    /\ UNCHANGED <<bmi_test_flag, bmi_test_cancel_waiter, cond, stat, st, cancel_vars,
                   main, asked, time_vars>>

-----------------------------------------------------------------------------
(* PINT_thread_mgr_bmi_cancel, called by thread t holding the mutex of d. *)

NeverDone(o) == FALSE

\* The match: the test has reported it, its callback is on the way.
AlreadyDone(o) == o \in stat

\* The cancel proper, and then the next one, or the mutex is released.
CancelNow(t, d, o, waiters) ==
    /\ ~ bmi_test_flag
    /\ bmi_test_cancel_waiter' = waiters
    /\ \/ AlreadyDone(o) /\ UNCHANGED <<st, cond>>
       \/ ~ AlreadyDone(o) /\ st' = BMI_cancel(o) /\ Signal
    /\ todo' = [todo EXCEPT ![d] = @ \ {o}]
    /\ at' = [at EXCEPT ![d] = None]
    /\ lock' = [lock EXCEPT ![d] = IF todo[d] = {o} THEN None ELSE @]
    /\ bmi' = IF t = "bmi" /\ todo[d] = {o} THEN "calls" ELSE bmi
    /\ main' = IF t = "main" /\ main = "cancel" THEN "idle" ELSE main

\* A thread entering the cancel goes to sleep if a test is in progress.
EnterCancel(t, d) ==
    /\ lock[d] = t /\ at[d] = None
    /\ \E o \in todo[d] :
          \/ CancelNow(t, d, o, bmi_test_cancel_waiter)
          \/ /\ bmi_test_flag
             /\ bmi_test_cancel_waiter' = bmi_test_cancel_waiter + 1
             /\ cond' = cond \cup {t}
             /\ at' = [at EXCEPT ![d] = o]
             /\ UNCHANGED <<st, lock, todo, bmi, main>>
    /\ UNCHANGED <<bmi_test_flag, stat, flow_error, cleanup_pending_count, asked, time_vars>>

\* Woken, it looks at the flag again.
WakeInCancel(t, d) ==
    /\ lock[d] = t /\ at[d] # None /\ t \notin cond
    /\ \/ CancelNow(t, d, at[d], bmi_test_cancel_waiter - 1)
       \/ /\ bmi_test_flag
          /\ cond' = cond \cup {t}
          /\ UNCHANGED <<bmi_test_cancel_waiter, st, lock, todo, at, bmi, main>>
    /\ UNCHANGED <<bmi_test_flag, stat, flow_error, cleanup_pending_count, asked, time_vars>>

Cancel(t, d) == EnterCancel(t, d) \/ WakeInCancel(t, d)

\* job_bmi_cancel: only a job that has not completed goes to the thread manager.
CancelJob(j) ==
    /\ lock["job"] = None
    /\ IF j \in Pending
       THEN /\ MayCancel
            /\ lock' = [lock EXCEPT !["job"] = "main"]
            /\ todo' = [todo EXCEPT !["job"] = {j}]
       ELSE UNCHANGED <<lock, todo>>
    /\ UNCHANGED <<at, flow_error, cleanup_pending_count>>

-----------------------------------------------------------------------------
(* The main thread, and the Trove thread. *)

\* A state machine cancels a job it posted (at most once each).
StateMachineCancels(j) ==
    /\ main = "idle" /\ st[j] \notin {"new", "collected"} /\ j \notin asked
    /\ CancelJob(j) /\ asked' = asked \cup {j}
    /\ main' = IF j \in Pending THEN "cancel" ELSE main
    /\ UNCHANGED <<thread_vars, st, time_vars>>

\* A callback of the Trove thread finds that the flow failed.
TroveError ==
    /\ MayCancel /\ lock["flow"] = None
    /\ FlowFails("trove", Pending \cap FlowOp)
    /\ UNCHANGED <<thread_vars, st, main, asked, time_vars>>

\* job_time_mgr_expire, run every second (only runs with something to do).
ExpireStart ==
    /\ main = "idle" /\ Expired(now)
    /\ main' = "expire" /\ tv' = now
    /\ UNCHANGED <<thread_vars, st, cancel_vars, asked, bucket_queue, due, now>>

\* Each job of an expired bucket is taken out of it and cancelled.
ExpireJob ==
    /\ main = "expire" /\ Expired(tv)
    /\ \E j \in Job :
          /\ j \in Head(bucket_queue).jds
          /\ CancelJob(j)
          /\ bucket_queue' = [bucket_queue EXCEPT ![1].jds = @ \ {j}]
    /\ UNCHANGED <<thread_vars, st, main, asked, due, now, tv>>

ExpireBucket ==
    /\ main = "expire" /\ lock["job"] = None /\ Expired(tv)
    /\ Head(bucket_queue).jds = {}
    /\ bucket_queue' = Tail(bucket_queue)
    /\ UNCHANGED <<thread_vars, st, cancel_vars, main, asked, due, now, tv>>

ExpireEnd ==
    /\ main = "expire" /\ lock["job"] = None /\ ~ Expired(tv)
    /\ main' = "idle" /\ tv' = 0
    /\ UNCHANGED <<thread_vars, st, cancel_vars, asked, bucket_queue, due, now>>

CollectEarly(j) ==
    /\ main = "idle" /\ lock["job"] = None /\ st[j] \in {"reported", "completed"}
    /\ st' = [st EXCEPT ![j] = "collected"]
    /\ bucket_queue' = TimerRem(bucket_queue, j)
    /\ due' = [due EXCEPT ![j] = Infinite]
    /\ UNCHANGED <<thread_vars, cancel_vars, main, asked, now, tv>>

\* job_testcontext: the job's timer is removed and its descriptor freed.
Collect(j) ==
    /\ main = "idle" /\ lock["job"] = None /\ st[j] = "completed"
    /\ st' = [st EXCEPT ![j] = "collected"]
    /\ bucket_queue' = TimerRem(bucket_queue, j)
    /\ due' = [due EXCEPT ![j] = Infinite]
    /\ asked' = asked \ {j}
    /\ UNCHANGED <<thread_vars, cancel_vars, main, now, tv>>

\* job_reset_timeout, on a job that was posted and not collected.
ResetTimeout(j, t) ==
    /\ main = "idle" /\ lock["job"] = None
    /\ st[j] \notin {"new", "collected"}
    /\ DueAt(t) # due[j] /\ InTime(t)
    /\ bucket_queue' = Armed(TimerRem(bucket_queue, j), j, t)
    /\ due' = [due EXCEPT ![j] = DueAt(t)]
    /\ UNCHANGED <<thread_vars, st, cancel_vars, main, asked, now, tv>>

BmiThread ==
    \/ StartTest \/ TestContext \/ CallbacksDone
    \/ \E j \in Job : JobCallback(j)
    \/ \E o \in FlowOp : FlowCallback(o)
    \/ Cancel("bmi", "flow")

MainThread ==
    \/ ExpireStart \/ ExpireJob \/ ExpireBucket \/ ExpireEnd
    \/ Cancel("main", "job")
    \/ \E j \in Job : Collect(j)

Next ==
    \/ BmiThread \/ MainThread \/ Cancel("trove", "flow")
    \/ Tick \/ Wakeup \/ TestFails \/ TroveError
    \/ \E o \in Op : Finish(o)
    \/ \E o \in FlowOp : FlowPost(o)
    \/ \E j \in Job : StateMachineCancels(j)
    \/ \E j \in Job, t \in Timeout \cup {Infinite} : JobPost(j, t) \/ ResetTimeout(j, t)

Spec == Init /\ [][Next]_vars

\* Every thread that can go on does, and time passes; nothing is assumed of the
\* network, which may never finish an operation.
FairSpec ==
    /\ Spec
    /\ WF_vars(BmiThread) /\ WF_vars(MainThread) /\ WF_vars(Cancel("trove", "flow"))
    /\ WF_vars(Tick)

-----------------------------------------------------------------------------
\* The types of the flags, of the operations and of the timers.
TypeOK ==
    /\ bmi \in {"loop", "test", "calls", "cancel", "dead"}
    /\ bmi_test_flag = (bmi = "test")
    /\ bmi_test_cancel_waiter \in 0..2
    /\ cond \subseteq {"bmi", "main", "trove"}
    /\ stat \subseteq Op
    /\ st \in [Op -> {"new", "posted", "finished", "cancelled", "reported", "completed",
                      "called", "collected"}]
    /\ lock \in [{"job", "flow"} -> {None, "bmi", "main", "trove"}]
    /\ todo \in [{"job", "flow"} -> SUBSET Op]
    /\ at \in [{"job", "flow"} -> Op \cup {None}]
    /\ flow_error \in BOOLEAN /\ cleanup_pending_count \in 0..Cardinality(FlowOp)
    /\ main \in {"idle", "cancel", "expire"} /\ asked \subseteq Job
    /\ bucket_queue \in Seq([expire : 0..MaxTime, jds : SUBSET Job])
    /\ due \in [Job -> 0..MaxTime \cup {Infinite}]
    /\ now \in 0..MaxTime /\ tv \in 0..MaxTime

\* The timers hold no job whose descriptor is freed (job_time_mgr_expire would
\* follow a dangling link), none in another second than it was last given, and
\* the buckets rise, so that the walk which stops at the first one still to come
\* (job_time_mgr_expire) has passed every job that is due.
TimersExact ==
    \A i \in 1..Len(bucket_queue) :
        /\ \A j \in bucket_queue[i].jds :
              st[j] \notin {"new", "collected"} /\ due[j] = bucket_queue[i].expire
        /\ i > 1 => bucket_queue[i - 1].expire < bucket_queue[i].expire

\* A job is timed out neither before the time it was last given nor while it
\* may take for ever (job_reset_timeout against job_time_mgr_expire).
NotBeforeDue ==
    /\ TypeOK /\ TimersExact
    /\ main = "expire" => \A j \in todo["job"] : due[j] # Infinite /\ due[j] <= now

\* handle_io_error ends a failed flow when cleanup_pending_count is zero, and
\* its buffers are freed: no operation is under way then, and while one is, the
\* flow knows of it, whether its cancel came in time or not.
CleanupExact ==
    flow_error => cleanup_pending_count = Cardinality(Pending \cap FlowOp)

\* PINT_thread_mgr_bmi_cancel "cancels a pending BMI operation for which the
\* callback function has not yet been executed": BMI_cancel is never called
\* on an operation a test has already reported, whose BMI state is gone.
CancelsPending ==
    [][\A o \in Op : st[o] \notin {"posted", "finished"} => st'[o] # "cancelled"
                      \/ st[o] = "cancelled"]_vars

\* "wait politely for any cancel operations to run; else we're too fast in
\* regrabbing the test_mutex and it hangs": a cancel that was begun ends.
CancelEnds ==
    \A d \in {"job", "flow"} : todo[d] # {} ~> todo[d] = {} \/ bmi = "dead"

\* What a state machine can know of its jobs: one that was cancelled, or that
\* BMI is done with, is about to end.
Seen ==
    [j \in Job |->
        CASE st[j] \in {"new", "collected"} -> "free"
          [] st[j] \in {"finished", "cancelled", "reported"} -> "ending"
          [] OTHER -> st[j]]

\* job_bmi_cancel: "This will result in normal completion path through thread
\* mgr callbacks".  A job about to end does complete, and so does, whatever the
\* network does, one given a time to end by, unless that is taken back; both
\* as long as the BMI thread has not terminated.
ToEnd(j) == j \in Pending /\ (Seen[j] = "ending" \/ due[j] # Infinite)

JobEnds == \A j \in Job : ToEnd(j) ~> ~ ToEnd(j) \/ bmi = "dead"

\* To the state machines the threads, mutexes and timers look like BmiJob.
Promise == INSTANCE BmiJob WITH job <- Seen

ImplementsJob == Promise!Spec
=============================================================================
