-------------------------- MODULE ThreadMgr_proofs --------------------------
(* For any number of jobs, of operations of a flow and of threads, and any  *)
(* interleaving of the BMI thread with those that cancel: the clean-up of a *)
(* flow counts what is still under way (CleanupExact), no operation is      *)
(* cancelled that a test has reported (CancelsPending), no job is timed out *)
(* before its time (NotBeforeDue), and the state machines see jobs that     *)
(* keep the promise of BmiJob (ImplementsJob).                              *)
EXTENDS ThreadMgr, TLAPS

-----------------------------------------------------------------------------
(* What the steps keep, apart from the timers: the states of the            *)
(* operations, what is to be cancelled and the flags of the threads.  The   *)
(* laws of counting that are needed are an assumption of the lemmas here;   *)
(* the theorems at the end have them from the library.                      *)

Owner == {"job", "flow"}
State == {"new", "posted", "finished", "cancelled", "reported", "completed", "called",
          "collected"}
OpsOf(d) == IF d = "job" THEN Job ELSE FlowOp

\* The part of the type invariant the proofs need.
OpType ==
    /\ st \in [Op -> State] /\ \A j \in Job : st[j] # "called"
    /\ stat \subseteq Op
    /\ lock \in [Owner -> {None, "bmi", "main", "trove"}]
    /\ todo \in [Owner -> SUBSET Op] /\ at \in [Owner -> Op \cup {None}]
    /\ flow_error \in BOOLEAN

\* What is to be cancelled belongs to the owner whose mutex is held, and its
\* callback, which takes that mutex, has not run.
ToCancel ==
    \A d \in Owner :
        /\ todo[d] \subseteq Pending \cap OpsOf(d)
        /\ lock[d] = None => todo[d] = {}
        /\ at[d] # None => at[d] \in todo[d]

\* An operation is reported from the test to its callback, and all that time
\* stat, which PINT_thread_mgr_bmi_cancel looks into, has it.
InStat == \A o \in Op : st[o] = "reported" => o \in stat /\ bmi \in {"calls", "cancel"}

IndInv == OpType /\ ToCancel /\ InStat /\ CleanupExact

\* What is counted: the operations of a flow.
CountingLaws ==
    /\ Cardinality(FlowOp) \in Nat
    /\ \A S \in SUBSET FlowOp : Cardinality(S) \in 0..Cardinality(FlowOp)
    /\ \A S \in SUBSET FlowOp : \A o \in S : Cardinality(S \ {o}) = Cardinality(S) - 1

\* No operation is under way at the start.
LEMMA InitInd == Init => IndInv
<1> SUFFICES ASSUME Init PROVE IndInv
  BY Zenon
<1>1. OpType /\ InStat /\ CleanupExact
  BY Zenon DEF Init, OpType, InStat, CleanupExact, State, Owner, Op
<1>2. ToCancel
  BY Zenon DEF Init, ToCancel, Owner
<1> QED
  BY Zenon, <1>1, <1>2 DEF IndInv

\* A step that leaves the operations to their owners: the states of the
\* operations change, but which of them are pending does not.
LEMMA PendingKept ==
    ASSUME IndInv, UNCHANGED cancel_vars, Pending' = Pending,
           st' \in [Op -> State], \A j \in Job : st'[j] # "called", stat' \subseteq Op, InStat'
    PROVE IndInv'
<1>1. OpType'
  BY Zenon DEF IndInv, OpType, cancel_vars
<1>2. ToCancel'
  BY Zenon DEF IndInv, ToCancel, cancel_vars
<1>3. CleanupExact'
  BY Zenon DEF IndInv, CleanupExact, cancel_vars
<1> QED
  BY Zenon, <1>1, <1>2, <1>3 DEF IndInv

\* The steps that touch no operation: the clock, wake-ups, the end of the
\* callbacks, a test that fails, the walk over the timers.
LEMMA IdleInd ==
    ASSUME IndInv, UNCHANGED <<st, cancel_vars>>, stat' = stat,
           bmi' = bmi \/ \A o \in Op : st[o] # "reported"
    PROVE IndInv'
<1>1. Pending' = Pending
  BY Zenon DEF Pending
<1>2. InStat'
  BY Zenon DEF IndInv, InStat
<1> QED
  BY Zenon, <1>1, <1>2, PendingKept DEF IndInv, OpType

\* A test starts, and forgets what the last one reported: it was called back.
LEMMA StartTestInd == ASSUME IndInv, StartTest PROVE IndInv'
<1>1. Pending' = Pending /\ UNCHANGED <<st, cancel_vars>>
  BY Zenon DEF Pending, StartTest
<1>2. \A o \in Op : st[o] # "reported"
  BY Zenon DEF IndInv, InStat, StartTest
<1>3. InStat' /\ stat' \subseteq Op
  BY Zenon, <1>1, <1>2 DEF InStat, StartTest, IndInv, OpType
<1> QED
  BY Zenon, <1>1, <1>3, PendingKept DEF IndInv, OpType

\* The test reports operations that were pending, and they still are.
LEMMA TestContextInd == ASSUME IndInv, TestContext PROVE IndInv'
<1>1. PICK done \in SUBSET Op :
        /\ \A o \in done : st[o] \in {"finished", "cancelled"}
        /\ stat' = done
        /\ st' = [o \in Op |-> IF o \in done THEN "reported" ELSE st[o]]
  BY Zenon DEF TestContext
<1>2. UNCHANGED cancel_vars /\ bmi = "test" /\ bmi' = "calls"
  BY Zenon DEF TestContext
<1>3. \A o \in Op : st[o] # "reported"
  BY Zenon, <1>2 DEF IndInv, InStat
<1>4. st \in [Op -> State] /\ \A j \in Job : st[j] # "called"
  BY Zenon DEF IndInv, OpType
<1>5. st' \in [Op -> State] /\ \A j \in Job : st'[j] # "called"
  BY Zenon, <1>1, <1>4 DEF State, Op
<1>6. Pending' = Pending
  BY Zenon, <1>1, <1>4 DEF Pending
<1>7. InStat'
  BY Zenon, <1>1, <1>2, <1>3 DEF InStat
<1> QED
  BY Zenon, <1>1, <1>2, <1>5, <1>6, <1>7, PendingKept

\* The network finishes an operation.
LEMMA FinishInd == ASSUME IndInv, NEW o \in Op, Finish(o) PROVE IndInv'
<1>1. UNCHANGED cancel_vars /\ stat' = stat /\ bmi' = bmi
  BY Zenon DEF Finish, thread_vars
<1>2. st' = [st EXCEPT ![o] = "finished"] /\ st[o] = "posted"
  BY Zenon DEF Finish
<1>3. st \in [Op -> State] /\ \A j \in Job : st[j] # "called"
  BY Zenon DEF IndInv, OpType
<1>4. st' \in [Op -> State] /\ \A j \in Job : st'[j] # "called"
  BY Zenon, <1>2, <1>3 DEF State, Op
<1>5. Pending' = Pending
  BY Zenon, <1>2, <1>3 DEF Pending
<1>6. InStat'
  BY Zenon, <1>1, <1>2, <1>3 DEF IndInv, InStat
<1> QED
  BY Zenon, <1>1, <1>4, <1>5, <1>6, PendingKept DEF IndInv, OpType

\* An operation that is not pending changes: it is posted by a job, or collected.
LEMMA JobMovesInd ==
    ASSUME IndInv, NEW j \in Job, NEW s \in State \ {"called", "reported"},
           st' = [st EXCEPT ![j] = s], UNCHANGED cancel_vars, stat' = stat, bmi' = bmi,
           j \in todo["job"] => s \in {"posted", "finished", "cancelled"}
    PROVE IndInv'
<1>1. st \in [Op -> State] /\ \A k \in Job : st[k] # "called"
  BY Zenon DEF IndInv, OpType
<1>2. OpType'
  BY Zenon, <1>1 DEF IndInv, OpType, cancel_vars, Op
<1>3. InStat'
  BY Zenon, <1>1 DEF IndInv, InStat
<1>4. j \in Op /\ j \notin FlowOp
  BY Zenon, OpAssumption DEF Op
<1>5. \A o \in Op : o # j => st'[o] = st[o]
  BY Zenon, <1>1
<1>6. Pending' \cap FlowOp = Pending \cap FlowOp
  BY Zenon, <1>4, <1>5 DEF Pending
<1>7. CleanupExact'
  BY Zenon, <1>6 DEF IndInv, CleanupExact, cancel_vars
<1>8. ToCancel'
  <2> SUFFICES ASSUME NEW d \in Owner
               PROVE /\ todo'[d] \subseteq Pending' \cap OpsOf(d)
                     /\ lock'[d] = None => todo'[d] = {}
                     /\ at'[d] # None => at'[d] \in todo'[d]
    BY Zenon DEF ToCancel
  <2>1. todo' = todo /\ lock' = lock /\ at' = at
    BY Zenon DEF cancel_vars
  <2>2. todo[d] \subseteq Pending \cap OpsOf(d)
    BY Zenon DEF IndInv, ToCancel
  <2>3. st'[j] = s
    BY Zenon, <1>1, <1>4
  <2>4. d = "job" => todo[d] \subseteq Pending'
    BY Zenon, <1>5, <2>2, <2>3 DEF Pending
  <2>5. d # "job" => todo[d] \subseteq Pending'
    BY Zenon, <1>5, <1>4, <2>2 DEF Pending, OpsOf
  <2> QED
    BY Zenon, <2>1, <2>2, <2>4, <2>5 DEF IndInv, ToCancel
<1> QED
  BY Zenon, <1>2, <1>3, <1>7, <1>8 DEF IndInv

\* Nothing of an owner whose mutex is free is being cancelled.
LEMMA NothingToCancel ==
    ASSUME IndInv, NEW d \in Owner, lock[d] = None PROVE todo[d] = {} /\ at[d] = None
BY Zenon DEF IndInv, ToCancel

\* Posting, completing and collecting a job.
LEMMA JobInd ==
    ASSUME IndInv, NEW j \in Job,
           \/ \E t \in Timeout \cup {Infinite} : JobPost(j, t)
           \/ JobCallback(j) \/ Collect(j)
    PROVE IndInv'
<1>1. UNCHANGED cancel_vars /\ stat' = stat /\ bmi' = bmi
  BY Zenon DEF JobPost, JobCallback, Collect, thread_vars
<1>2. CASE \E t \in Timeout \cup {Infinite} : JobPost(j, t)
  BY Zenon, <1>1, <1>2, JobMovesInd DEF JobPost, State
<1>3. CASE JobCallback(j)
  BY Zenon, <1>1, <1>3, JobMovesInd, NothingToCancel DEF JobCallback, State, Owner
<1>4. CASE Collect(j)
  BY Zenon, <1>1, <1>4, JobMovesInd, NothingToCancel DEF Collect, State, Owner
<1> QED
  BY Zenon, <1>2, <1>3, <1>4

\* The main thread, for a state machine or a timer, sets out to cancel a job.
LEMMA CancelJobInd ==
    ASSUME IndInv, NEW j \in Job, CancelJob(j), st' = st, stat' = stat, bmi' = bmi
    PROVE IndInv'
<1>1. Pending' = Pending /\ InStat'
  BY Zenon DEF Pending, IndInv, InStat
<1>2. CleanupExact'
  BY Zenon, <1>1 DEF IndInv, CleanupExact, CancelJob
<1>3. todo \in [Owner -> SUBSET Op] /\ lock \in [Owner -> {None, "bmi", "main", "trove"}]
  BY Zenon DEF IndInv, OpType
<1>4. OpType'
  BY <1>3 DEF IndInv, OpType, CancelJob, Op
<1>5. ToCancel'
  <2>1. CASE j \in Pending
    <3>1. /\ todo'["job"] = {j} /\ todo'["flow"] = todo["flow"]
          /\ lock'["job"] = "main" /\ lock'["flow"] = lock["flow"] /\ at' = at
      BY Zenon, <1>3, <2>1 DEF CancelJob, Owner
    <3>2. at["job"] = None
      BY Zenon, NothingToCancel DEF CancelJob, Owner
    <3>3. None # "main"
      BY Zenon, NoneAssumption
    <3> QED
      BY Zenon, <1>1, <2>1, <3>1, <3>2, <3>3 DEF IndInv, ToCancel, OpsOf, Owner
  <2>2. CASE j \notin Pending
    BY Zenon, <1>1, <2>2 DEF IndInv, ToCancel, CancelJob
  <2> QED
    BY Zenon, <2>1, <2>2
<1> QED
  BY Zenon, <1>1, <1>2, <1>4, <1>5 DEF IndInv

\* A flow posts, unless it has failed.
LEMMA FlowPostInd == ASSUME IndInv, NEW o \in FlowOp, FlowPost(o) PROVE IndInv'
<1>1. UNCHANGED cancel_vars /\ stat' = stat /\ bmi' = bmi /\ ~ flow_error
  BY Zenon DEF FlowPost, thread_vars
<1>2. st' = [st EXCEPT ![o] = "posted"] /\ st[o] = "new" /\ o \in Op /\ o \notin Job
  BY Zenon, OpAssumption DEF FlowPost, MayPost, Op
<1>3. st \in [Op -> State]
  BY Zenon DEF IndInv, OpType
<1>4. Pending \subseteq Pending' /\ InStat' /\ st' \in [Op -> State]
  BY Zenon, <1>1, <1>2, <1>3 DEF Pending, IndInv, InStat, State
<1>5. OpType'
  BY Zenon, <1>1, <1>2, <1>3, <1>4 DEF IndInv, OpType, cancel_vars, Op
<1>6. ToCancel'
  BY Zenon, <1>1, <1>4 DEF IndInv, ToCancel, cancel_vars
<1>7. CleanupExact'
  BY Zenon, <1>1 DEF CleanupExact, cancel_vars
<1> QED
  BY Zenon, <1>4, <1>5, <1>6, <1>7 DEF IndInv

\* handle_io_error: all that the flow has under way is to be cancelled, and
\* counted.
LEMMA FlowFailsInd ==
    ASSUME IndInv, NEW t \in {"bmi", "trove"}, NEW others, lock["flow"] = None,
           FlowFails(t, others), Pending' \cap FlowOp = others,
           Pending \cap Job \subseteq Pending',
           st' \in [Op -> State], \A j \in Job : st'[j] # "called", stat' = stat, InStat'
    PROVE IndInv'
<1>1. others \subseteq Op /\ None \notin {"bmi", "trove"}
  BY Zenon, NoneAssumption DEF Op
<1>2. /\ todo \in [Owner -> SUBSET Op] /\ at \in [Owner -> Op \cup {None}]
      /\ lock \in [Owner -> {None, "bmi", "main", "trove"}] /\ stat \subseteq Op
  BY Zenon DEF IndInv, OpType
<1>3. OpType'
  BY Zenon, <1>1, <1>2 DEF OpType, FlowFails
<1>4. CleanupExact'
  BY Zenon DEF CleanupExact, FlowFails
<1>5. /\ todo'["flow"] = others /\ todo'["job"] = todo["job"] /\ at' = at
      /\ lock'["job"] = lock["job"] /\ (lock'["flow"] = None => others = {})
  BY Zenon, <1>1, <1>2 DEF FlowFails, Owner
<1>6. at["flow"] = None
  BY Zenon, NothingToCancel DEF Owner
<1>7. todo["job"] \subseteq Pending'
  BY Zenon DEF IndInv, ToCancel, OpsOf, Owner
<1>8. ToCancel'
  BY Zenon, <1>5, <1>6, <1>7 DEF IndInv, ToCancel, OpsOf, Owner
<1> QED
  BY Zenon, <1>3, <1>4, <1>8 DEF IndInv

\* The Trove thread finds the flow failed.
LEMMA TroveErrorInd == ASSUME IndInv, TroveError PROVE IndInv'
<1>1. /\ st' = st /\ stat' = stat /\ bmi' = bmi /\ lock["flow"] = None
      /\ FlowFails("trove", Pending \cap FlowOp)
  BY Zenon DEF TroveError, thread_vars
<1>2. Pending' = Pending /\ InStat'
  BY Zenon, <1>1 DEF Pending, IndInv, InStat
<1> QED
  BY Zenon, <1>1, <1>2, FlowFailsInd DEF IndInv, OpType

\* The callback of a flow takes one operation off those under way.
LEMMA FlowCallbackInd ==
    ASSUME CountingLaws, IndInv, NEW o \in FlowOp, FlowCallback(o) PROVE IndInv'
<1>1. /\ st' = [st EXCEPT ![o] = "called"] /\ st[o] = "reported" /\ stat' = stat
      /\ lock["flow"] = None /\ bmi = "calls" /\ o \in Op /\ o \notin Job
  BY Zenon, OpAssumption DEF FlowCallback, Op
<1>2. st \in [Op -> State] /\ \A j \in Job : st[j] # "called"
  BY Zenon DEF IndInv, OpType
<1>3. st' \in [Op -> State] /\ \A j \in Job : st'[j] # "called"
  BY Zenon, <1>1, <1>2 DEF State, Op
<1>4. Pending' = Pending \ {o} /\ o \in Pending
  BY Zenon, <1>1, <1>2 DEF Pending
<1>5. bmi' \in {"calls", "cancel"}
  BY Zenon, <1>1 DEF FlowCallback
<1>6. InStat'
  BY Zenon, <1>1, <1>2, <1>5 DEF IndInv, InStat
<1>7. Pending \cap Job \subseteq Pending' /\ todo["flow"] = {} /\ at["flow"] = None
  BY Zenon, <1>1, <1>4, NothingToCancel DEF Owner
<1>8. ASSUME UNCHANGED <<lock, todo, at>> PROVE ToCancel'
  BY Zenon, <1>4, <1>7, <1>8 DEF IndInv, ToCancel, OpsOf, Owner, OpType
<1>9. CASE ~ flow_error /\ UNCHANGED <<bmi, cancel_vars>>
  <2>1. OpType' /\ CleanupExact' /\ UNCHANGED <<lock, todo, at>>
    BY Zenon, <1>1, <1>3, <1>9 DEF IndInv, OpType, CleanupExact, cancel_vars
  <2> QED
    BY Zenon, <1>6, <1>8, <2>1 DEF IndInv
<1>10. CASE /\ flow_error /\ cleanup_pending_count' = cleanup_pending_count - 1
            /\ UNCHANGED <<bmi, lock, todo, at, flow_error>>
  <2>2. Cardinality((Pending \cap FlowOp) \ {o}) = Cardinality(Pending \cap FlowOp) - 1
    BY Zenon, <1>4 DEF CountingLaws
  <2>3. Pending' \cap FlowOp = (Pending \cap FlowOp) \ {o}
    BY Zenon, <1>4
  <2>4. CleanupExact'
    BY Zenon, <1>10, <2>2, <2>3 DEF IndInv, CleanupExact
  <2>5. OpType'
    BY Zenon, <1>1, <1>3, <1>10 DEF IndInv, OpType
  <2> QED
    BY Zenon, <1>6, <1>8, <1>10, <2>4, <2>5 DEF IndInv
<1>11. CASE FlowFails("bmi", (Pending \cap FlowOp) \ {o})
  <2>1. Pending' \cap FlowOp = (Pending \cap FlowOp) \ {o}
    BY Zenon, <1>4
  <2> QED
    BY Zenon, <1>1, <1>3, <1>6, <1>7, <1>11, <2>1, FlowFailsInd
<1> QED
  BY Zenon, <1>9, <1>10, <1>11 DEF FlowCallback

\* What CancelNow does to the operation, whoever calls it: if a test reported
\* it nothing, else it was posted, finished or cancelled before, and is pending
\* after.
LEMMA CancelNowSt ==
    ASSUME IndInv, NEW t, NEW d \in Owner, NEW o \in todo[d], NEW waiters,
           CancelNow(t, d, o, waiters)
    PROVE /\ o \in Op /\ o \in Pending
          /\ \/ st' = st
             \/ /\ st[o] \in {"posted", "finished", "cancelled"}
                /\ st' = [st EXCEPT ![o] = IF @ = "finished" THEN @ ELSE "cancelled"]
<1>1. o \in Op /\ o \in Pending
  BY Zenon DEF IndInv, ToCancel, Pending
<1>2. ASSUME ~ AlreadyDone(o) PROVE st[o] \in {"posted", "finished", "cancelled"}
  BY Zenon, <1>1, <1>2 DEF AlreadyDone, IndInv, InStat, Pending
<1> QED
  BY Zenon, <1>1, <1>2 DEF CancelNow, BMI_cancel

\* Cancelling the operation o of d.
LEMMA CancelNowInd ==
    ASSUME IndInv, NEW t, NEW d \in Owner, NEW o \in todo[d], NEW waiters,
           CancelNow(t, d, o, waiters), UNCHANGED <<stat, flow_error, cleanup_pending_count>>
    PROVE IndInv'
<1>1. st \in [Op -> State] /\ \A j \in Job : st[j] # "called"
  BY Zenon DEF IndInv, OpType
<1>2. st' \in [Op -> State] /\ \A j \in Job : st'[j] # "called"
  BY Zenon, <1>1, CancelNowSt DEF State, Op
<1>3. Pending' = Pending
  BY Zenon, <1>1, CancelNowSt DEF Pending
<1>4. bmi \in {"calls", "cancel"} => bmi' \in {"calls", "cancel"}
  BY Zenon DEF CancelNow
<1>5. \A p \in Op : st'[p] = "reported" => st[p] = "reported"
  BY Zenon, <1>1, CancelNowSt
<1>6. InStat'
  BY Zenon, <1>4, <1>5 DEF IndInv, InStat
<1>7. /\ todo \in [Owner -> SUBSET Op] /\ at \in [Owner -> Op \cup {None}]
      /\ lock \in [Owner -> {None, "bmi", "main", "trove"}]
  BY Zenon DEF IndInv, OpType
<1>8. OpType'
  BY Zenon, <1>2, <1>7 DEF IndInv, OpType, CancelNow
<1>9. CleanupExact'
  BY Zenon, <1>3 DEF IndInv, CleanupExact
<1>10. ToCancel'
  <2> SUFFICES ASSUME NEW e \in Owner
               PROVE /\ todo'[e] \subseteq Pending' \cap OpsOf(e)
                     /\ lock'[e] = None => todo'[e] = {}
                     /\ at'[e] # None => at'[e] \in todo'[e]
    BY Zenon DEF ToCancel
  <2>1. /\ todo[e] \subseteq Pending \cap OpsOf(e) /\ (lock[e] = None => todo[e] = {})
        /\ (at[e] # None => at[e] \in todo[e])
    BY Zenon DEF IndInv, ToCancel
  <2>2. CASE e = d
    <3>1. todo'[e] = todo[e] \ {o} /\ at'[e] = None
      BY Zenon, <1>7, <2>2 DEF CancelNow
    <3>2. lock'[e] = None => todo'[e] = {}
      BY Zenon, <1>7, <2>1, <2>2, <3>1 DEF CancelNow
    <3> QED
      BY Zenon, <1>3, <2>1, <3>1, <3>2
  <2>3. CASE e # d
    <3>1. todo'[e] = todo[e] /\ at'[e] = at[e] /\ lock'[e] = lock[e]
      BY Zenon, <1>7, <2>3 DEF CancelNow
    <3> QED
      BY Zenon, <1>3, <2>1, <3>1
  <2> QED
    BY Zenon, <2>2, <2>3
<1> QED
  BY Zenon, <1>6, <1>8, <1>9, <1>10 DEF IndInv

\* A thread in PINT_thread_mgr_bmi_cancel waits for the end of the test, or
\* cancels.
LEMMA CancelInd == ASSUME IndInv, NEW t, NEW d \in Owner, Cancel(t, d) PROVE IndInv'
<1>1. UNCHANGED <<stat, flow_error, cleanup_pending_count>>
  BY Zenon DEF Cancel, EnterCancel, WakeInCancel
<1>2. CASE \E o \in todo[d], n \in {bmi_test_cancel_waiter, bmi_test_cancel_waiter - 1} :
             CancelNow(t, d, o, n)
  BY Zenon, <1>1, <1>2, CancelNowInd
<1>3. CASE \E o \in todo[d] : /\ at' = [at EXCEPT ![d] = o] \/ at' = at
                              /\ UNCHANGED <<st, lock, todo, bmi>>
  <2>1. Pending' = Pending /\ InStat' /\ CleanupExact'
    BY Zenon, <1>1, <1>3 DEF Pending, IndInv, InStat, CleanupExact
  <2>2. at \in [Owner -> Op \cup {None}] /\ todo \in [Owner -> SUBSET Op]
    BY Zenon DEF IndInv, OpType
  <2>3. OpType'
    BY Zenon, <1>1, <1>3, <2>2 DEF IndInv, OpType
  <2>4. ToCancel'
    BY Zenon, <1>3, <2>1, <2>2 DEF IndInv, ToCancel
  <2> QED
    BY Zenon, <2>1, <2>3, <2>4 DEF IndInv
<1>4. at[d] # None => at[d] \in todo[d]
  BY Zenon DEF IndInv, ToCancel
<1>5. CASE EnterCancel(t, d)
  BY Zenon, <1>2, <1>3, <1>5 DEF EnterCancel
<1>6. CASE WakeInCancel(t, d)
  BY Zenon, <1>2, <1>3, <1>4, <1>6 DEF WakeInCancel
<1> QED
  BY Zenon, <1>5, <1>6 DEF Cancel

\* Every step keeps the invariant.
LEMMA NextInd == ASSUME CountingLaws, IndInv, [Next]_vars PROVE IndInv'
<1>1. CASE StartTest \/ TestContext
  BY Zenon, <1>1, StartTestInd, TestContextInd
<1>2. CASE \/ CallbacksDone \/ TestFails \/ Tick \/ Wakeup \/ UNCHANGED vars
           \/ ExpireStart \/ ExpireBucket \/ ExpireEnd
           \/ \E j \in Job, t \in Timeout \cup {Infinite} : ResetTimeout(j, t)
  <2>1. UNCHANGED <<st, cancel_vars>> /\ stat' = stat
    BY Zenon, <1>2 DEF CallbacksDone, TestFails, Tick, Wakeup, vars, ExpireStart, ExpireBucket,
                ExpireEnd, ResetTimeout, thread_vars
  <2>2. bmi' = bmi \/ \A o \in Op : st[o] # "reported"
    BY Zenon, <1>2 DEF CallbacksDone, TestFails, Tick, Wakeup, vars, ExpireStart, ExpireBucket,
                ExpireEnd, ResetTimeout, thread_vars, IndInv, InStat
  <2> QED
    BY Zenon, <2>1, <2>2, IdleInd
<1>3. CASE \E j \in Job : \/ \E t \in Timeout \cup {Infinite} : JobPost(j, t)
                          \/ JobCallback(j) \/ Collect(j)
  BY Zenon, <1>3, JobInd
<1>4. CASE ExpireJob \/ \E j \in Job : StateMachineCancels(j)
  <2>1. st' = st /\ stat' = stat /\ bmi' = bmi
    BY Zenon, <1>4 DEF ExpireJob, StateMachineCancels, thread_vars
  <2>2. \E j \in Job : CancelJob(j)
    BY Zenon, <1>4 DEF ExpireJob, StateMachineCancels
  <2> QED
    BY Zenon, <2>1, <2>2, CancelJobInd
<1>5. CASE \E o \in Op : Finish(o)
  BY Zenon, <1>5, FinishInd
<1>6. CASE \E o \in FlowOp : FlowPost(o) \/ FlowCallback(o)
  BY Zenon, <1>6, FlowPostInd, FlowCallbackInd
<1>7. CASE TroveError
  BY Zenon, <1>7, TroveErrorInd
<1>8. CASE Cancel("bmi", "flow") \/ Cancel("main", "job") \/ Cancel("trove", "flow")
  BY Zenon, <1>8, CancelInd DEF Owner
<1> QED
  BY Zenon, <1>1, <1>2, <1>3, <1>4, <1>5, <1>6, <1>7, <1>8 DEF Next, BmiThread, MainThread

\* What a step does to the state of an operation.
Moves(o) ==
    \/ st'[o] = st[o]
    \/ st[o] = "new" /\ st'[o] = "posted"
    \/ st[o] = "posted" /\ st'[o] \in {"finished", "cancelled"}
    \/ st[o] \in {"finished", "cancelled"} /\ st'[o] = "reported"
    \/ st[o] = "reported" /\ st'[o] \in {"completed", "called"}
    \/ st[o] = "completed" /\ st'[o] = "collected"

\* Every operation goes one way: only what is posted is cancelled or finished,
\* only what is reported is called back.
LEMMA NextMoves == ASSUME IndInv, [Next]_vars PROVE \A o \in Op : Moves(o)
<1> SUFFICES ASSUME NEW o \in Op PROVE Moves(o)
  BY Zenon
<1>1. st \in [Op -> State]
  BY Zenon DEF IndInv, OpType
<1>2. CASE st' = st
  BY Zenon, <1>2 DEF Moves
<1>3. CASE TestContext
  <2>1. PICK done : /\ done \subseteq {p \in Op : st[p] \in {"finished", "cancelled"}}
                    /\ st' = [p \in Op |-> IF p \in done THEN "reported" ELSE st[p]]
    BY Zenon, <1>3 DEF TestContext
  <2> QED
    BY Zenon, <2>1 DEF Moves
<1>4. CASE \E j \in Job : \/ \E t \in Timeout \cup {Infinite} : JobPost(j, t)
                          \/ JobCallback(j) \/ Collect(j)
  BY Zenon, <1>1, <1>4 DEF JobPost, MayPost, JobCallback, Collect, Moves
<1>5. CASE \E p \in Op : Finish(p)
  BY Zenon, <1>1, <1>5 DEF Finish, Moves
<1>6. CASE \E p \in FlowOp : FlowPost(p) \/ FlowCallback(p)
  BY Zenon, <1>1, <1>6 DEF FlowPost, MayPost, FlowCallback, Moves
<1>7. ASSUME NEW t, NEW d \in Owner, Cancel(t, d) PROVE Moves(o)
  <2>1. at[d] # None => at[d] \in todo[d]
    BY Zenon DEF IndInv, ToCancel
  <2>2. \/ st' = st
        \/ \E p \in todo[d] : \E n : CancelNow(t, d, p, n)
    BY Zenon, <1>7, <2>1 DEF Cancel, EnterCancel, WakeInCancel
  <2>3. ASSUME NEW p \in todo[d], NEW n, CancelNow(t, d, p, n) PROVE Moves(o)
    BY Zenon, <1>1, <2>3, CancelNowSt DEF Moves
  <2> QED
    BY Zenon, <1>2, <2>2, <2>3
<1>8. CASE Cancel("bmi", "flow") \/ Cancel("main", "job") \/ Cancel("trove", "flow")
  BY Zenon, <1>7, <1>8 DEF Owner
<1>9. CASE \/ StartTest \/ CallbacksDone \/ TestFails \/ Tick \/ Wakeup \/ UNCHANGED vars
           \/ ExpireStart \/ ExpireJob \/ ExpireBucket \/ ExpireEnd \/ TroveError
           \/ \E j \in Job : StateMachineCancels(j)
           \/ \E j \in Job, t \in Timeout \cup {Infinite} : ResetTimeout(j, t)
  BY Zenon, <1>2, <1>9 DEF StartTest, CallbacksDone, TestFails, Tick, Wakeup, vars, ExpireStart,
       ExpireJob, ExpireBucket, ExpireEnd, TroveError, StateMachineCancels, ResetTimeout
<1> QED
  BY Zenon, <1>3, <1>4, <1>5, <1>6, <1>8, <1>9 DEF Next, BmiThread, MainThread

-----------------------------------------------------------------------------
\* The threads asleep in PINT_thread_mgr_bmi_cancel.
Asleep == (IF at["job"] = None THEN 0 ELSE 1) + (IF at["flow"] = None THEN 0 ELSE 1)

\* bmi_test_flag is up during the test only, and bmi_test_cancel_waiter counts
\* the cancels that wait for its end.
Flags ==
    /\ bmi \in {"loop", "test", "calls", "cancel", "dead"}
    /\ bmi_test_flag = (bmi = "test")
    /\ bmi_test_cancel_waiter = Asleep
    /\ cond \subseteq {"bmi", "main", "trove"}
    /\ main \in {"idle", "cancel", "expire"} /\ asked \subseteq Job
    /\ ~ flow_error => cleanup_pending_count = 0

\* Nobody is asleep at the start.
LEMMA InitFlags == Init => Flags
<1> SUFFICES ASSUME Init PROVE Flags
  BY Zenon
<1>1. Asleep = 0
  BY DEF Init, Asleep
<1>2. bmi_test_flag = (bmi = "test")
  BY Zenon DEF Init
<1> QED
  BY Zenon, <1>1, <1>2 DEF Init, Flags

\* Every step keeps the flags right.
LEMMA NextFlags == ASSUME IndInv, Flags, [Next]_vars PROVE Flags'
<1>0. at \in [Owner -> Op \cup {None}] /\ \A d \in Owner : at[d] # None => at[d] \in todo[d]
  BY Zenon DEF IndInv, OpType, ToCancel
<1>1. CASE StartTest
  BY Zenon, <1>1 DEF StartTest, Flags, Asleep, cancel_vars
<1>2. CASE TestContext \/ TestFails \/ Wakeup
  BY Zenon, <1>2 DEF TestContext, TestFails, Wakeup, Signal, Flags, Asleep, cancel_vars
<1>3. CASE CallbacksDone \/ Tick \/ ExpireStart \/ ExpireBucket \/ ExpireEnd \/ UNCHANGED vars
  BY Zenon, <1>3 DEF CallbacksDone, Tick, ExpireStart, ExpireBucket, ExpireEnd, vars, thread_vars,
              Flags, Asleep, cancel_vars
<1>4. CASE \E j \in Job, t \in Timeout \cup {Infinite} : JobPost(j, t) \/ ResetTimeout(j, t)
  <2>1. UNCHANGED <<thread_vars, cancel_vars, main, asked>>
    BY Zenon, <1>4 DEF JobPost, ResetTimeout
  <2> QED
    BY Zenon, <2>1 DEF thread_vars, cancel_vars, Flags, Asleep
<1>5. CASE \E j \in Job : JobCallback(j) \/ Collect(j)
  <2>1. UNCHANGED <<thread_vars, cancel_vars, main>> /\ asked' \subseteq asked
    BY Zenon, <1>5 DEF JobCallback, Collect
  <2> QED
    BY Zenon, <2>1 DEF thread_vars, cancel_vars, Flags, Asleep
<1>6. CASE (\E o \in Op : Finish(o)) \/ (\E o \in FlowOp : FlowPost(o))
  BY Zenon, <1>6 DEF Finish, FlowPost, thread_vars, Flags, Asleep, cancel_vars
<1>7. CASE ExpireJob \/ \E j \in Job : StateMachineCancels(j)
  BY <1>7 DEF ExpireJob, StateMachineCancels, CancelJob, thread_vars, Flags, Asleep
<1>8. CASE TroveError
  BY Zenon, <1>8 DEF TroveError, FlowFails, thread_vars, Flags, Asleep
<1>9. CASE \E o \in FlowOp : FlowCallback(o)
  BY <1>9 DEF FlowCallback, FlowFails, Flags, Asleep, cancel_vars
<1>10. ASSUME NEW t \in {"bmi", "main", "trove"}, NEW d \in Owner, Cancel(t, d) PROVE Flags'
  <2>1. CASE \E o \in todo[d] : at[d] = None /\ CancelNow(t, d, o, bmi_test_cancel_waiter)
    <3>1. at' = at
      BY <1>0, <2>1 DEF CancelNow
    <3>2. bmi_test_cancel_waiter' = Asleep'
      BY Zenon, <2>1, <3>1 DEF CancelNow, Flags, Asleep
    <3> QED
      BY Zenon, <1>10, <2>1, <3>2 DEF CancelNow, Signal, Flags, Cancel, EnterCancel, WakeInCancel
  <2>2. CASE \E o \in todo[d] : at[d] # None /\ CancelNow(t, d, o, bmi_test_cancel_waiter - 1)
    <3>1. bmi_test_cancel_waiter' = Asleep'
      BY <1>0, <2>2 DEF CancelNow, Flags, Asleep, Owner
    <3> QED
      BY Zenon, <1>10, <2>2, <3>1 DEF CancelNow, Signal, Flags, Cancel, EnterCancel, WakeInCancel
  <2>3. CASE /\ \/ /\ at[d] = None /\ bmi_test_cancel_waiter' = bmi_test_cancel_waiter + 1
                   /\ \E o \in todo[d] : at' = [at EXCEPT ![d] = o]
                \/ UNCHANGED <<at, bmi_test_cancel_waiter>>
             /\ cond' = cond \cup {t} /\ UNCHANGED <<bmi, main>>
    <3>1. None \notin todo[d]
      BY Zenon, OpAssumption DEF IndInv, OpType, Op
    <3>2. bmi_test_cancel_waiter' = Asleep'
      BY <1>0, <2>3, <3>1 DEF Flags, Asleep, Owner
    <3> QED
      BY Zenon, <1>10, <2>3, <3>2 DEF Flags, Cancel, EnterCancel, WakeInCancel
  <2> QED
    BY Zenon, <1>0, <1>10, <2>1, <2>2, <2>3 DEF Cancel, EnterCancel, WakeInCancel
<1>11. CASE Cancel("bmi", "flow") \/ Cancel("main", "job") \/ Cancel("trove", "flow")
  BY Zenon, <1>10, <1>11 DEF Owner
<1> QED
  BY Zenon, <1>1, <1>2, <1>3, <1>4, <1>5, <1>6, <1>7, <1>8, <1>9, <1>11 DEF Next, BmiThread, MainThread

-----------------------------------------------------------------------------
(* The buckets of job-time-mgr.c, a sequence that insertion keeps in order, *)
(* and what the steps do to the timers.                                     *)

Bucket == [expire : 0..MaxTime, jds : SUBSET Job]

\* What the buckets of q say: each job in one of them is due in its second,
\* where D has the times, and the seconds rise.
Sound(q, D) ==
    /\ q \in Seq(Bucket)
    /\ \A i \in 1..Len(q) : \A j \in q[i].jds : D[j] = q[i].expire
    /\ \A i, k \in 1..Len(q) : i < k => q[i].expire < q[k].expire

\* What is needed of sequences and of indices, as ThreadMgr_proofs has it from
\* the library.
SequenceLaws ==
    /\ \A s, t \in Seq(Bucket) :
          /\ s \o t \in Seq(Bucket) /\ Len(s \o t) = Len(s) + Len(t)
          /\ \A i \in 1..Len(s) + Len(t) :
                (s \o t)[i] = IF i <= Len(s) THEN s[i] ELSE t[i - Len(s)]
    /\ \A s \in Seq(Bucket), b \in Bucket : \A i \in 1..Len(s) :
          /\ [s EXCEPT ![i] = b] \in Seq(Bucket) /\ Len([s EXCEPT ![i] = b]) = Len(s)
          /\ \A j \in 1..Len(s) : [s EXCEPT ![i] = b][j] = IF j = i THEN b ELSE s[j]
    /\ \A n \in Nat : \A S \in SUBSET (1..n) :
          S # {} => \E i \in S : \A m \in S : i <= m

Ins(q, k, b) == SubSeq(q, 1, k - 1) \o <<b>> \o SubSeq(q, k, Len(q))

\* The first law, on two sequences.
LEMMA Joined ==
    ASSUME SequenceLaws, NEW s \in Seq(Bucket), NEW t \in Seq(Bucket)
    PROVE /\ s \o t \in Seq(Bucket) /\ Len(s \o t) = Len(s) + Len(t)
          /\ \A i \in 1..Len(s) + Len(t) :
                (s \o t)[i] = IF i <= Len(s) THEN s[i] ELSE t[i - Len(s)]
BY Zenon DEF SequenceLaws

\* The last law, on a set of indices.
LEMMA First ==
    ASSUME SequenceLaws, NEW n \in Nat, NEW S \in SUBSET (1..n), S # {}
    PROVE \E i \in S : \A m \in S : i <= m
BY Zenon DEF SequenceLaws

\* A sequence with b put in at k.
LEMMA Inserted ==
    ASSUME SequenceLaws, NEW q \in Seq(Bucket), NEW k \in 1..(Len(q) + 1), NEW b \in Bucket
    PROVE /\ Ins(q, k, b) \in Seq(Bucket) /\ Len(Ins(q, k, b)) = Len(q) + 1
          /\ \A i \in 1..Len(q) + 1 :
               Ins(q, k, b)[i] = IF i < k THEN q[i] ELSE IF i = k THEN b ELSE q[i - 1]
<1> DEFINE u == SubSeq(q, 1, k - 1) v == SubSeq(q, k, Len(q)) x == u \o <<b>>
           r == Ins(q, k, b) n == Len(q)
<1>1. n \in Nat /\ k \in Nat /\ 1 <= k /\ k <= n + 1 /\ \A i \in 1..n : q[i] \in Bucket
  OBVIOUS
<1>2. u \in Seq(Bucket) /\ Len(u) = k - 1 /\ \A i \in 1..k - 1 : u[i] = q[i]
  BY <1>1, SMTT(30)
<1>3. /\ v \in Seq(Bucket) /\ Len(v) = n - k + 1
      /\ \A i \in 1..n - k + 1 : v[i] = q[k + i - 1]
  BY <1>1, SMTT(30)
<1> HIDE DEF u, v, n
<1>4. x \in Seq(Bucket) /\ Len(x) = k /\ \A i \in 1..k : x[i] = IF i < k THEN q[i] ELSE b
  BY <1>1, <1>2
<1>5. r = x \o v
  BY Zenon DEF u, v, Ins, n
<1> HIDE DEF x, r
<1>6. /\ r \in Seq(Bucket) /\ Len(r) = Len(x) + Len(v)
      /\ \A i \in 1..Len(x) + Len(v) : r[i] = IF i <= Len(x) THEN x[i] ELSE v[i - Len(x)]
  BY <1>3, <1>4, <1>5, Joined, Zenon
<1>7. Len(x) + Len(v) = n + 1
  BY <1>1, <1>3, <1>4
<1>8. \A i \in 1..n + 1 : r[i] = IF i <= k THEN x[i] ELSE v[i - k]
  BY Zenon, <1>4, <1>6, <1>7
<1>9. ASSUME NEW i \in 1..n + 1, i > k PROVE r[i] = q[i - 1]
  <2>1. r[i] = v[i - k] /\ i - k \in 1..n - k + 1
    BY <1>1, <1>8, <1>9
  <2>2. k + (i - k) - 1 = i - 1
    BY <1>1
  <2> QED
    BY Zenon, <1>3, <2>1, <2>2
<1>10. ASSUME NEW i \in 1..n + 1, i <= k PROVE r[i] = IF i < k THEN q[i] ELSE b
  BY <1>1, <1>4, <1>8, <1>10
<1>11. Len(r) = n + 1
  BY Zenon, <1>6, <1>7
<1> QED
  BY <1>1, <1>6, <1>9, <1>10, <1>11 DEF r, n

\* A job that is in no bucket gets a timer.
LEMMA Added ==
    ASSUME SequenceLaws, NEW q, NEW D \in [Job -> Nat \cup {Infinite}], NEW e \in 0..MaxTime, NEW j \in Job,
           Sound(q, D), \A i \in 1..Len(q) : j \notin q[i].jds
    PROVE Sound(TimerAdd(q, e, j), [D EXCEPT ![j] = e])
<1> DEFINE later == {i \in 1..Len(q) : q[i].expire >= e}
           k == IF later = {} THEN Len(q) + 1 ELSE CHOOSE i \in later : \A m \in later : i <= m
           r == TimerAdd(q, e, j)
           E == [D EXCEPT ![j] = e]
<1>1. q \in Seq(Bucket) /\ Len(q) \in Nat /\ e \in Nat /\ \A i \in 1..Len(q) : q[i] \in Bucket
  BY DEF Sound
<1>12. \A i \in 1..Len(q) : q[i].expire \in Nat /\ q[i].jds \subseteq Job
  BY <1>1, TimeAssumption DEF Bucket
<1>13. \A i, l \in 1..Len(q) : i < l => q[i].expire < q[l].expire
  BY Zenon DEF Sound
<1>2. /\ k \in 1..Len(q) + 1
      /\ \A i \in 1..Len(q) : i < k => q[i].expire < e
      /\ \A i \in 1..Len(q) : i >= k => q[i].expire >= e
  <2>1. CASE later = {}
    <3>1. k = Len(q) + 1 /\ \A i \in 1..Len(q) : ~ (q[i].expire >= e)
      BY Zenon, <2>1
    <3> HIDE DEF k, later
    <3> QED
      BY <1>1, <1>12, <3>1
  <2>2. CASE later # {}
    <3>1. \E i \in later : \A m \in later : i <= m
      BY Zenon, <1>1, <2>2, First
    <3>2. k \in later /\ \A m \in later : k <= m
      BY <2>2, <3>1, Zenon
    <3>5. k \in 1..Len(q) /\ q[k].expire >= e
      BY Zenon, <3>2
    <3>6. \A i \in 1..Len(q) : q[i].expire >= e => k <= i
      BY Zenon, <3>2
    <3> HIDE DEF k, later
    <3>3. \A i \in 1..Len(q) : i >= k => q[i].expire >= e
      BY <1>1, <1>12, <1>13, <3>5
    <3>4. \A i \in 1..Len(q) : i < k => q[i].expire < e
      BY <1>1, <1>12, <3>5, <3>6
    <3> QED
      BY <1>1, <3>5, <3>3, <3>4
  <2> QED
    BY Zenon, <2>1, <2>2
<1>3. r = IF k <= Len(q) /\ q[k].expire = e
          THEN [q EXCEPT ![k].jds = @ \cup {j}]
          ELSE SubSeq(q, 1, k - 1) \o <<[expire |-> e, jds |-> {j}]>> \o SubSeq(q, k, Len(q))
  BY Zenon DEF TimerAdd
<1> HIDE DEF later, k, r
<1>4. E \in [Job -> Nat \cup {Infinite}] /\ E[j] = e /\ \A m \in Job : m # j => E[m] = D[m]
  BY TimeAssumption
<1>14. \A i \in 1..Len(q) : \A m \in q[i].jds : E[m] = q[i].expire
  BY Zenon, <1>12, <1>4 DEF Sound
<1> HIDE DEF E
<1>5. CASE k <= Len(q) /\ q[k].expire = e
  <2>0. r = [q EXCEPT ![k].jds = @ \cup {j}] /\ k \in 1..Len(q)
    BY <1>1, <1>2, <1>3, <1>5
  <2>1. /\ Len(r) = Len(q) /\ r \in Seq(Bucket)
        /\ \A i \in 1..Len(q) : i # k => r[i] = q[i]
        /\ r[k] = [q[k] EXCEPT !.jds = @ \cup {j}]
    <3> DEFINE b == [q[k] EXCEPT !.jds = @ \cup {j}]
    <3>1. b \in Bucket
      BY Zenon, <1>1, <2>0 DEF Bucket
    <3>2. r = [q EXCEPT ![k] = b]
      BY Zenon, <2>0
    <3> HIDE DEF b
    <3>3. r[k] = b /\ r \in Seq(Bucket) /\ Len(r) = Len(q)
          /\ \A i \in 1..Len(q) : i # k => r[i] = q[i]
      <4>1. k \in 1..Len(q)
        BY Zenon, <2>0
      <4> QED
        BY <1>1, <3>1, <3>2, <4>1 DEF SequenceLaws
    <3> QED
      BY Zenon, <3>3 DEF b
  <2>2. \A i \in 1..Len(q) : r[i].expire = q[i].expire
    BY <1>1, <2>0, <2>1 DEF Bucket
  <2>3. r[k].jds = q[k].jds \cup {j}
    BY <1>1, <2>0, <2>1 DEF Bucket
  <2>4. \A i \in 1..Len(r) : \A m \in r[i].jds : E[m] = r[i].expire
    BY Zenon, <1>4, <1>14, <1>5, <2>1, <2>2, <2>3
  <2>5. \A i, l \in 1..Len(r) : i < l => r[i].expire < r[l].expire
    BY Zenon, <2>1, <2>2 DEF Sound
  <2> QED
    BY Zenon, <2>1, <2>4, <2>5 DEF Sound, r, E
<1>6. CASE ~(k <= Len(q) /\ q[k].expire = e)
  <2> DEFINE b == [expire |-> e, jds |-> {j}]
  <2>1. b \in Bucket /\ b.expire = e /\ b.jds = {j}
    BY Zenon DEF Bucket
  <2> HIDE DEF b
  <2>2. r = Ins(q, k, b)
    BY Zenon, <1>3, <1>6 DEF b, Ins
  <2>3. /\ r \in Seq(Bucket) /\ Len(r) = Len(q) + 1
        /\ \A i \in 1..Len(q) + 1 :
             r[i] = IF i < k THEN q[i] ELSE IF i = k THEN b ELSE q[i - 1]
    <3>1. k \in 1..(Len(q) + 1) /\ q \in Seq(Bucket) /\ b \in Bucket
      BY Zenon, <1>1, <1>2, <2>1
    <3>2. /\ Ins(q, k, b) \in Seq(Bucket) /\ Len(Ins(q, k, b)) = Len(q) + 1
          /\ \A i \in 1..Len(q) + 1 :
               Ins(q, k, b)[i] = IF i < k THEN q[i] ELSE IF i = k THEN b ELSE q[i - 1]
      BY <3>1, Inserted
    <3> QED
      BY Zenon, <2>2, <3>2
  <2>4. \A i \in 1..Len(r) : \/ i < k /\ i \in 1..Len(q) /\ r[i] = q[i]
                             \/ i = k /\ r[i] = b
                             \/ i > k /\ i - 1 \in 1..Len(q) /\ i - 1 >= k /\ r[i] = q[i - 1]
    BY <1>1, <1>2, <2>3
  <2>5. \A i \in 1..Len(r) : \A m \in r[i].jds : E[m] = r[i].expire
    BY <1>4, <1>14, <2>1, <2>4
  <2>6. \A i \in 1..Len(q) : i >= k => q[i].expire > e
    BY <1>1, <1>12, <1>13, <1>2, <1>6
  <2>7. \A i, l \in 1..Len(r) : i < l => r[i].expire < r[l].expire
    <3> TAKE i, l \in 1..Len(r)
    <3> HAVE i < l
    <3>1. \A m, n \in 1..Len(q) : m < n => q[m].expire < q[n].expire
      BY Zenon DEF Sound
    <3>2. CASE l < k
      <4>1. r[i] = q[i] /\ r[l] = q[l] /\ i \in 1..Len(q) /\ l \in 1..Len(q)
        BY <1>1, <1>2, <2>3, <2>4, <3>2
      <4> QED
        BY Zenon, <3>1, <4>1
    <3>3. CASE l = k
      <4>1. r[l] = b /\ r[i] = q[i] /\ i \in 1..Len(q) /\ i < k
        BY <1>1, <1>2, <2>3, <2>4, <3>3
      <4> QED
        BY Zenon, <1>2, <2>1, <4>1
    <3>4. CASE l > k /\ i = k
      BY <1>1, <1>2, <2>1, <2>3, <2>4, <2>6, <3>4
    <3>5. CASE l > k /\ i < k
      <4>1. r[i] = q[i] /\ r[l] = q[l - 1] /\ i \in 1..Len(q) /\ l - 1 \in 1..Len(q) /\ i < l - 1
        BY <1>1, <1>2, <2>3, <2>4, <3>5
      <4> QED
        BY Zenon, <3>1, <4>1
    <3>6. CASE l > k /\ i > k
      <4>1. r[i] = q[i - 1] /\ r[l] = q[l - 1] /\ i - 1 \in 1..Len(q) /\ l - 1 \in 1..Len(q)
        BY <1>1, <1>2, <2>3, <2>4, <3>6
      <4>2. i - 1 < l - 1
        BY <2>3
      <4> QED
        BY Zenon, <3>1, <4>1, <4>2
    <3> QED
      BY <1>2, <2>3, <3>2, <3>3, <3>4, <3>5, <3>6
  <2> QED
    BY Zenon, <2>3, <2>5, <2>7 DEF Sound, r, E
<1> QED
  BY Zenon, <1>5, <1>6

\* job_time_mgr_rem takes a job out of all buckets.
LEMMA Removed ==
    ASSUME NEW q, NEW D, NEW j, Sound(q, D)
    PROVE /\ Sound(TimerRem(q, j), D) /\ Len(TimerRem(q, j)) = Len(q)
          /\ \A i \in 1..Len(q) : TimerRem(q, j)[i].jds = q[i].jds \ {j}
<1> DEFINE r == TimerRem(q, j)
<1>1. q \in Seq(Bucket) /\ Len(q) \in Nat /\ \A i \in 1..Len(q) : q[i] \in Bucket
  BY DEF Sound
<1>2. r = [i \in 1..Len(q) |-> [q[i] EXCEPT !.jds = @ \ {j}]]
  BY Zenon DEF TimerRem
<1>3. \A i \in 1..Len(q) : /\ [q[i] EXCEPT !.jds = @ \ {j}] \in Bucket
                           /\ [q[i] EXCEPT !.jds = @ \ {j}].expire = q[i].expire
                           /\ [q[i] EXCEPT !.jds = @ \ {j}].jds = q[i].jds \ {j}
  BY Zenon, <1>1 DEF Bucket
<1> HIDE DEF r
<1>4. r \in Seq(Bucket) /\ Len(r) = Len(q)
  BY <1>1, <1>2, <1>3
<1>5. \A i \in 1..Len(q) : r[i].expire = q[i].expire /\ r[i].jds = q[i].jds \ {j}
  BY Zenon, <1>2, <1>3
<1>6. Sound(r, D)
  BY Zenon, <1>4, <1>5 DEF Sound
<1> QED
  BY Zenon, <1>4, <1>5, <1>6 DEF r

-----------------------------------------------------------------------------
\* The timers agree with the jobs, and the main thread cancels one job at a
\* time: while it walks over the timers, one that is due.
Timers ==
    /\ Sound(bucket_queue, due)
    /\ \A j \in Job : st[j] \in {"new", "collected"} => due[j] = Infinite
    /\ due \in [Job -> 0..MaxTime \cup {Infinite}]
    /\ now \in 0..MaxTime /\ tv \in 0..MaxTime /\ tv <= now
    /\ \E j : todo["job"] \subseteq {j}
    /\ main = "idle" => todo["job"] = {}
    /\ main = "expire" => \A j \in todo["job"] : due[j] # Infinite /\ due[j] <= now

\* No job has a timer at the start.
LEMMA InitTimers == Init => Timers
BY TimeAssumption DEF Init, Timers, Sound, Bucket

\* A step that leaves the timers alone, and brings no job back to the state in
\* which it has none.
LEMMA TimersKept ==
    ASSUME Timers, UNCHANGED <<bucket_queue, due, now, tv>>,
           \A j \in Job : st'[j] \in {"new", "collected"} => st[j] \in {"new", "collected"},
           (todo'["job"] = todo["job"] /\ main' = main) \/ todo'["job"] = {}
    PROVE Timers'
<1>1. CASE todo'["job"] = {}
  BY Zenon, <1>1 DEF Timers
<1>2. CASE todo'["job"] = todo["job"] /\ main' = main
  BY Zenon, <1>2 DEF Timers
<1> QED
  BY Zenon, <1>1, <1>2

\* A job that is in a bucket is due in its second.
LEMMA InBucket ==
    ASSUME Timers, NEW i \in 1..Len(bucket_queue), NEW j \in bucket_queue[i].jds
    PROVE /\ j \in Job /\ due[j] = bucket_queue[i].expire /\ due[j] # Infinite
          /\ bucket_queue[i].expire \in 0..MaxTime
<1>1. bucket_queue[i] \in Bucket /\ due[j] = bucket_queue[i].expire
  BY DEF Timers, Sound
<1>2. bucket_queue[i].jds \subseteq Job /\ bucket_queue[i].expire \in 0..MaxTime
  BY Zenon, <1>1 DEF Bucket
<1>3. \A n \in 0..MaxTime : n \in Nat
  BY TimeAssumption
<1> QED
  BY <1>1, <1>2, <1>3, TimeAssumption, Zenon

\* A job's timer is set anew: it has none in q, and q is what is left.
LEMMA ArmedTimers ==
    ASSUME SequenceLaws, Timers, NEW q, NEW j \in Job, NEW t \in Timeout \cup {Infinite}, InTime(t),
           Sound(q, due), \A i \in 1..Len(q) : j \notin q[i].jds
    PROVE /\ Sound(Armed(q, j, t), [due EXCEPT ![j] = DueAt(t)])
          /\ DueAt(t) \in 0..MaxTime \cup {Infinite}
<1>0. due \in [Job -> 0..MaxTime \cup {Infinite}] /\ now \in 0..MaxTime
  BY Zenon DEF Timers
<1>1. CASE t = Infinite
  <2> DEFINE E == [due EXCEPT ![j] = Infinite]
  <2>1. Armed(q, j, t) = q /\ DueAt(t) = Infinite
    BY Zenon, <1>1 DEF Armed, DueAt
  <2>2. \A i \in 1..Len(q) : \A m \in q[i].jds : m \in Job /\ m # j /\ due[m] = q[i].expire
    <3>1. \A i \in 1..Len(q) : q[i] \in Bucket
      BY DEF Sound
    <3>2. \A i \in 1..Len(q) : q[i].jds \subseteq Job
      BY Zenon, <3>1 DEF Bucket
    <3> QED
      BY Zenon, <3>2 DEF Sound
  <2>3. \A m \in Job : m # j => E[m] = due[m]
    BY Zenon, <1>0
  <2> HIDE DEF E
  <2>4. Sound(q, E)
    BY Zenon, <2>2, <2>3 DEF Sound
  <2> QED
    BY Zenon, <2>1, <2>4 DEF E
<1>2. CASE t # Infinite
  <2>1. Armed(q, j, t) = TimerAdd(q, now + t, j) /\ DueAt(t) = now + t /\ now + t <= MaxTime
    BY Zenon, <1>2 DEF Armed, DueAt, InTime
  <2>2. t \in Nat /\ now \in Nat /\ MaxTime \in Nat
    BY <1>0, <1>2, TimeAssumption
  <2>3. now + t \in 0..MaxTime
    BY <2>1, <2>2
  <2>4. due \in [Job -> Nat \cup {Infinite}]
    BY <1>0, TimeAssumption
  <2> DEFINE e == now + t
  <2>5. e \in 0..MaxTime /\ Armed(q, j, t) = TimerAdd(q, e, j) /\ DueAt(t) = e
    BY Zenon, <2>1, <2>3
  <2> HIDE DEF e
  <2>6. Sound(TimerAdd(q, e, j), [due EXCEPT ![j] = e])
    BY Zenon, <2>4, <2>5, Added
  <2> QED
    BY Zenon, <2>5, <2>6
<1> QED
  BY Zenon, <1>1, <1>2

\* A step that does this to the timers, between two walks over them.
LEMMA ArmedStep ==
    ASSUME SequenceLaws, IndInv, Timers, NEW q, NEW j \in Job, NEW t \in Timeout \cup {Infinite}, InTime(t),
           Sound(q, due), \A i \in 1..Len(q) : j \notin q[i].jds,
           bucket_queue' = Armed(q, j, t), due' = [due EXCEPT ![j] = DueAt(t)],
           NEW s, st' = [st EXCEPT ![j] = s], s \in {"new", "collected"} => t = Infinite,
           main = "idle", UNCHANGED <<main, now, tv, todo>>
    PROVE Timers'
<1>1. due \in [Job -> 0..MaxTime \cup {Infinite}] /\ st \in [Op -> State] /\ Job \subseteq Op
  BY Zenon DEF Timers, IndInv, OpType, Op
<1>2. Sound(bucket_queue', due') /\ DueAt(t) \in 0..MaxTime \cup {Infinite}
  BY Zenon, ArmedTimers
<1>3. due' \in [Job -> 0..MaxTime \cup {Infinite}]
  BY Zenon, <1>1, <1>2
<1>4. \A k \in Job : st'[k] \in {"new", "collected"} => due'[k] = Infinite
  <2> TAKE k \in Job
  <2>1. CASE k = j
    BY Zenon, <1>1, <2>1 DEF DueAt
  <2>2. CASE k # j
    BY Zenon, <1>1, <2>2 DEF Timers
  <2> QED
    BY Zenon, <2>1, <2>2
<1> QED
  BY Zenon, <1>2, <1>3, <1>4 DEF Timers

\* Posting a job, giving it another time to end by, and collecting it.
LEMMA PostTimers ==
    ASSUME SequenceLaws, IndInv, Timers, NEW j \in Job,
           \/ \E t \in Timeout \cup {Infinite} : JobPost(j, t) \/ ResetTimeout(j, t)
           \/ Collect(j)
    PROVE Timers'
<1>1. main = "idle" /\ UNCHANGED <<main, now, tv, todo>>
  BY Zenon DEF JobPost, ResetTimeout, Collect, cancel_vars
<1>2. st \in [Op -> State] /\ Job \subseteq Op /\ Sound(bucket_queue, due)
  BY Zenon DEF Timers, IndInv, OpType, Op
<1>3. ASSUME NEW t \in Timeout \cup {Infinite}, JobPost(j, t) PROVE Timers'
  <2>1. due[j] = Infinite
    BY Zenon, <1>3 DEF JobPost, MayPost, Timers
  <2>2. \A i \in 1..Len(bucket_queue) : j \notin bucket_queue[i].jds
    BY Zenon, <2>1, InBucket
  <2> QED
    BY Zenon, <1>1, <1>2, <1>3, <2>2, ArmedStep DEF JobPost
<1> DEFINE q == TimerRem(bucket_queue, j)
<1>4. Sound(q, due) /\ \A i \in 1..Len(q) : j \notin q[i].jds
  <2>1. /\ Sound(q, due) /\ Len(q) = Len(bucket_queue)
        /\ \A i \in 1..Len(bucket_queue) : q[i].jds = bucket_queue[i].jds \ {j}
    BY <1>2, Removed, Zenon
  <2> HIDE DEF q
  <2> QED
    BY Zenon, <2>1
<1>5. ASSUME NEW t \in Timeout \cup {Infinite}, ResetTimeout(j, t) PROVE Timers'
  <2>1. st' = [st EXCEPT ![j] = st[j]] /\ st[j] \notin {"new", "collected"}
    BY Zenon, <1>2, <1>5 DEF ResetTimeout
  <2>2. InTime(t) /\ bucket_queue' = Armed(q, j, t) /\ due' = [due EXCEPT ![j] = DueAt(t)]
    BY Zenon, <1>5 DEF ResetTimeout
  <2> HIDE DEF q
  <2> QED
    BY Zenon, <1>1, <1>4, <2>1, <2>2, ArmedStep
<1>6. CASE Collect(j)
  <2>1. InTime(Infinite) /\ DueAt(Infinite) = Infinite /\ Armed(q, j, Infinite) = q
    BY Zenon DEF InTime, DueAt, Armed
  <2>2. /\ bucket_queue' = Armed(q, j, Infinite) /\ due' = [due EXCEPT ![j] = DueAt(Infinite)]
        /\ st' = [st EXCEPT ![j] = "collected"]
    BY Zenon, <1>6, <2>1 DEF Collect
  <2> HIDE DEF q
  <2> QED
    BY Zenon, <1>1, <1>4, <2>1, <2>2, ArmedStep
<1> QED
  BY Zenon, <1>3, <1>5, <1>6

\* The walk over the timers: a job of a bucket that is due is cancelled, and
\* a bucket without jobs goes.
LEMMA ExpireTimers ==
    ASSUME SequenceLaws, IndInv, Timers, ExpireStart \/ ExpireJob \/ ExpireBucket \/ ExpireEnd
    PROVE Timers'
<1>0. Sound(bucket_queue, due)
  BY Zenon DEF Timers
<1>1. CASE ExpireStart
  BY <1>1 DEF ExpireStart, cancel_vars, Timers
<1>2. CASE ExpireEnd
  <2>1. todo["job"] = {} /\ todo' = todo
    BY Zenon, <1>2, NothingToCancel DEF ExpireEnd, Owner, cancel_vars
  <2>2. tv' = 0 /\ UNCHANGED <<st, bucket_queue, due, now>>
    BY Zenon, <1>2 DEF ExpireEnd
  <2> QED
    BY <2>1, <2>2, TimeAssumption DEF Timers
<1>3. CASE ExpireBucket
  <2>1. bucket_queue # <<>> /\ bucket_queue' = Tail(bucket_queue) /\ todo' = todo
        /\ UNCHANGED <<st, due, now, tv, main>>
    BY Zenon, <1>3 DEF ExpireBucket, Expired, cancel_vars
  <2>2. Sound(Tail(bucket_queue), due)
    <3> DEFINE q == Tail(bucket_queue)
    <3>1. bucket_queue \in Seq(Bucket) /\ Len(bucket_queue) \in Nat
      BY <1>0 DEF Sound
    <3>2. q \in Seq(Bucket) /\ Len(q) = Len(bucket_queue) - 1
          /\ \A i \in 1..Len(q) : q[i] = bucket_queue[i + 1]
      BY <2>1, <3>1
    <3>3. \A i \in 1..Len(q) : i + 1 \in 1..Len(bucket_queue)
      BY <3>1, <3>2
    <3> HIDE DEF q
    <3>4. \A i \in 1..Len(q) : \A j \in q[i].jds : due[j] = q[i].expire
      BY <1>0, <3>2, <3>3 DEF Sound
    <3>5. \A i, k \in 1..Len(q) : i < k => q[i].expire < q[k].expire
      <4> TAKE i, k \in 1..Len(q)
      <4> HAVE i < k
      <4>1. i + 1 < k + 1 /\ q[i] = bucket_queue[i + 1] /\ q[k] = bucket_queue[k + 1]
        BY <3>1, <3>2
      <4> QED
        BY Zenon, <1>0, <3>3, <4>1 DEF Sound
    <3>6. Sound(q, due)
      BY Zenon, <3>2, <3>4, <3>5 DEF Sound
    <3> QED
      BY Zenon, <3>6 DEF q
  <2> QED
    BY Zenon, <2>1, <2>2 DEF Timers
<1>4. CASE ExpireJob
  <2>1. PICK j \in Job : /\ j \in bucket_queue[1].jds /\ CancelJob(j)
                         /\ bucket_queue' = [bucket_queue EXCEPT ![1].jds = @ \ {j}]
    <3>1. Head(bucket_queue) = bucket_queue[1]
      BY <1>0, <1>4 DEF ExpireJob, Expired, Sound
    <3> QED
      BY Zenon, <1>4, <3>1 DEF ExpireJob
  <2>2. /\ bucket_queue # <<>> /\ bucket_queue[1].expire <= tv
        /\ main = "expire" /\ UNCHANGED <<st, main, due, now, tv>>
    BY <1>0, <1>4 DEF ExpireJob, Expired, Sound
  <2>3. 1 \in 1..Len(bucket_queue) /\ bucket_queue \in Seq(Bucket)
    BY <1>0, <2>2 DEF Sound
  <2>4. due[j] # Infinite /\ due[j] <= now
    <3>1. /\ due[j] = bucket_queue[1].expire /\ due[j] # Infinite
          /\ bucket_queue[1].expire \in 0..MaxTime
      BY Zenon, <2>1, <2>3, InBucket
    <3>2. tv \in 0..MaxTime /\ now \in 0..MaxTime /\ tv <= now
      BY Zenon DEF Timers
    <3> QED
      BY <2>2, <3>1, <3>2, TimeAssumption
  <2>5. todo'["job"] \subseteq {j}
    <3>1. todo \in [Owner -> SUBSET Op] /\ todo["job"] = {}
      BY Zenon, <2>1, NothingToCancel DEF CancelJob, Owner, IndInv, OpType
    <3> QED
      BY Zenon, <2>1, <3>1 DEF CancelJob, Owner
  <2>6. Sound(bucket_queue', due)
    <3> DEFINE b == [bucket_queue[1] EXCEPT !.jds = @ \ {j}]
               q == [bucket_queue EXCEPT ![1] = b]
    <3>1. bucket_queue' = q
      BY Zenon, <2>1
    <3>2. b \in Bucket /\ b.expire = bucket_queue[1].expire /\ b.jds \subseteq bucket_queue[1].jds
      <4>1. bucket_queue[1] \in Bucket
        BY <2>3
      <4> QED
        BY Zenon, <4>1 DEF Bucket
    <3> HIDE DEF b
    <3>3. q \in Seq(Bucket) /\ Len(q) = Len(bucket_queue)
          /\ \A i \in 1..Len(bucket_queue) : q[i] = IF i = 1 THEN b ELSE bucket_queue[i]
      <4>1. b \in Bucket
        BY Zenon, <3>2
      <4> QED
        BY <2>3, <4>1 DEF SequenceLaws
    <3> HIDE DEF q
    <3>4. \A i \in 1..Len(q) : /\ q[i].expire = bucket_queue[i].expire
                               /\ q[i].jds \subseteq bucket_queue[i].jds
      BY Zenon, <3>2, <3>3
    <3>5. Sound(q, due)
      BY Zenon, <1>0, <3>3, <3>4 DEF Sound
    <3> QED
      BY Zenon, <3>1, <3>5
  <2> QED
    BY Zenon, <2>2, <2>4, <2>5, <2>6 DEF Timers
<1> QED
  BY Zenon, <1>1, <1>2, <1>3, <1>4

\* Every step keeps the timers right.
LEMMA NextTimers == ASSUME SequenceLaws, IndInv, Timers, [Next]_vars PROVE Timers'
<1>0. /\ Job \subseteq Op /\ todo \in [Owner -> SUBSET Op] /\ st \in [Op -> State]
      /\ Job \cap FlowOp = {}
  BY Zenon, OpAssumption DEF Op, IndInv, OpType
<1>1. CASE \/ StartTest \/ CallbacksDone \/ TestFails \/ Wakeup \/ UNCHANGED vars
  BY Zenon, <1>1, TimersKept DEF StartTest, CallbacksDone, TestFails, Wakeup, vars, cancel_vars,
                          time_vars
<1>2. CASE TestContext \/ (\E j \in Job : JobCallback(j)) \/ (\E o \in Op : Finish(o))
           \/ (\E o \in FlowOp : FlowPost(o))
  <2>1. UNCHANGED <<bucket_queue, due, now, tv, main, todo>>
    BY Zenon, <1>2 DEF TestContext, JobCallback, Finish, FlowPost, cancel_vars, time_vars
  <2>2. \A j \in Job : st'[j] \in {"new", "collected"} => st[j] \in {"new", "collected"}
    BY Zenon, <1>0, <1>2 DEF TestContext, JobCallback, Finish, FlowPost
  <2> QED
    BY Zenon, <2>1, <2>2, TimersKept
<1>3. CASE TroveError \/ \E o \in FlowOp : FlowCallback(o)
  <2>1. UNCHANGED <<bucket_queue, due, now, tv, main>> /\ todo'["job"] = todo["job"]
    BY Zenon, <1>0, <1>3 DEF TroveError, FlowCallback, FlowFails, cancel_vars, time_vars, Owner
  <2>2. \A j \in Job : st'[j] = st[j]
    BY Zenon, <1>0, <1>3 DEF TroveError, FlowCallback
  <2> QED
    BY Zenon, <2>1, <2>2, TimersKept
<1>4. CASE Tick
  <2>1. UNCHANGED <<bucket_queue, due, tv, main, todo, st>> /\ now' = now + 1 /\ now < MaxTime
    BY Zenon, <1>4 DEF Tick, cancel_vars
  <2>2. now \in 0..MaxTime /\ tv \in 0..MaxTime /\ tv <= now
    BY Zenon DEF Timers
  <2>3. now' \in 0..MaxTime /\ tv <= now' /\ now <= now'
    BY <2>1, <2>2, TimeAssumption
  <2>4. \A j \in Job : due[j] \in 0..MaxTime \cup {Infinite}
    BY Zenon DEF Timers
  <2>5. todo["job"] \subseteq Job
    BY Zenon DEF IndInv, ToCancel, Owner, OpsOf
  <2>6. ASSUME main = "expire", NEW j \in todo["job"] PROVE due[j] # Infinite /\ due[j] <= now'
    <3>1. due[j] # Infinite /\ due[j] <= now /\ due[j] \in 0..MaxTime
      BY Zenon, <2>4, <2>5, <2>6 DEF Timers
    <3> QED
      BY <2>2, <2>3, <3>1, TimeAssumption
  <2> QED
    BY Zenon, <2>1, <2>2, <2>3, <2>6 DEF Timers
<1>5. CASE \E j \in Job : StateMachineCancels(j)
  <2>1. PICK j \in Job : StateMachineCancels(j)
    BY Zenon, <1>5
  <2>2. UNCHANGED <<bucket_queue, due, now, tv, st>>
    BY Zenon, <2>1 DEF StateMachineCancels, time_vars
  <2>3. CASE j \in Pending
    <3>1. main' = "cancel" /\ todo'["job"] = {j}
      BY Zenon, <1>0, <2>1, <2>3 DEF StateMachineCancels, CancelJob, Owner
    <3> QED
      BY Zenon, <2>2, <3>1 DEF Timers
  <2>4. CASE j \notin Pending
    BY Zenon, <2>1, <2>2, <2>4, TimersKept DEF StateMachineCancels, CancelJob
  <2> QED
    BY Zenon, <2>3, <2>4
<1>6. CASE \E j \in Job : \/ \E t \in Timeout \cup {Infinite} : JobPost(j, t) \/ ResetTimeout(j, t)
                          \/ Collect(j)
  BY Zenon, <1>6, PostTimers
<1>7. CASE ExpireStart \/ ExpireJob \/ ExpireBucket \/ ExpireEnd
  BY Zenon, <1>7, ExpireTimers
<1>8. ASSUME NEW t, NEW d \in Owner, Cancel(t, d), t = "main" <=> d = "job" PROVE Timers'
  <2>1. UNCHANGED <<bucket_queue, due, now, tv>>
    BY Zenon, <1>8 DEF Cancel, EnterCancel, WakeInCancel, time_vars
  <2>2. CASE \E o \in todo[d], n \in {bmi_test_cancel_waiter, bmi_test_cancel_waiter - 1} :
               CancelNow(t, d, o, n)
    <3>1. PICK o \in todo[d], n \in {bmi_test_cancel_waiter, bmi_test_cancel_waiter - 1} :
            CancelNow(t, d, o, n)
      BY Zenon, <2>2
    <3>2. \A j \in Job : st'[j] \in {"new", "collected"} => st[j] \in {"new", "collected"}
      BY Zenon, <1>0, <3>1, CancelNowSt
    <3>3. CASE d = "job"
      <4>1. todo'["job"] = {}
        BY Zenon, <1>0, <3>1, <3>3 DEF CancelNow, Timers, Owner
      <4> QED
        BY Zenon, <2>1, <3>2, <4>1, TimersKept
    <3>4. CASE d # "job"
      <4>1. todo'["job"] = todo["job"] /\ main' = main
        BY Zenon, <1>0, <1>8, <3>1, <3>4 DEF CancelNow, Owner
      <4> QED
        BY Zenon, <2>1, <3>2, <4>1, TimersKept
    <3> QED
      BY Zenon, <3>3, <3>4
  <2>3. CASE UNCHANGED <<st, todo, main>>
    BY Zenon, <2>1, <2>3, TimersKept
  <2>4. at[d] # None => at[d] \in todo[d]
    BY Zenon DEF IndInv, ToCancel
  <2> QED
    BY Zenon, <1>8, <2>2, <2>3, <2>4 DEF Cancel, EnterCancel, WakeInCancel
<1>9. CASE Cancel("bmi", "flow") \/ Cancel("main", "job") \/ Cancel("trove", "flow")
  BY Zenon, <1>8, <1>9 DEF Owner
<1> QED
  BY Zenon, <1>1, <1>2, <1>3, <1>4, <1>5, <1>6, <1>7, <1>9 DEF Next, BmiThread, MainThread

-----------------------------------------------------------------------------
(* The laws, from the library.                                              *)
INSTANCE FiniteSetTheorems
INSTANCE SequenceTheorems
INSTANCE WellFoundedInduction

\* The laws of counting that the steps rest on.
LEMMA Counting == CountingLaws
<1>1. IsFiniteSet(FlowOp)
  BY Zenon, OpAssumption
<1>2. /\ Cardinality(FlowOp) \in Nat
      /\ \A S \in SUBSET FlowOp : /\ IsFiniteSet(S) /\ Cardinality(S) \in Nat
                                  /\ Cardinality(S) <= Cardinality(FlowOp)
  BY <1>1, FS_CardinalityType, FS_Subset
<1>3. \A S \in SUBSET FlowOp : \A o \in S : Cardinality(S \ {o}) = Cardinality(S) - 1
  BY Zenon, <1>2, FS_RemoveElement
<1> QED
  BY <1>2, <1>3 DEF CountingLaws

\* A set of indices has a least one.
LEMMA LeastOf ==
    ASSUME NEW n \in Nat, NEW S \in SUBSET (1..n), S # {}
    PROVE \E i \in S : \A m \in S : i <= m
<1>1. S \subseteq Nat
  OBVIOUS
<1>2. PICK i \in S : \A m \in S : <<m, i>> \notin OpToRel(<, Nat)
  BY Zenon, <1>1, WFMin, NatLessThanWellFounded
<1>3. ASSUME NEW m \in S, m < i PROVE FALSE
  <2>1. <<m, i>> \in Nat \X Nat /\ <<m, i>>[1] = m /\ <<m, i>>[2] = i
    BY Zenon, <1>1
  <2>2. <<m, i>> \in OpToRel(<, Nat)
    BY <1>3, <2>1, Zenon DEF OpToRel
  <2> QED
    BY <1>2, <2>2, Zenon
<1> QED
  BY <1>1, <1>3

\* The laws of sequences that the timers rest on.
LEMMA Sequencing == SequenceLaws
<1>1. \A s, t \in Seq(Bucket) :
        /\ s \o t \in Seq(Bucket) /\ Len(s \o t) = Len(s) + Len(t)
        /\ \A i \in 1..Len(s) + Len(t) :
              (s \o t)[i] = IF i <= Len(s) THEN s[i] ELSE t[i - Len(s)]
  BY ConcatProperties, Zenon
<1>2. ASSUME NEW s \in Seq(Bucket), NEW b \in Bucket, NEW i \in 1..Len(s)
      PROVE /\ [s EXCEPT ![i] = b] \in Seq(Bucket) /\ Len([s EXCEPT ![i] = b]) = Len(s)
            /\ \A j \in 1..Len(s) : [s EXCEPT ![i] = b][j] = IF j = i THEN b ELSE s[j]
  BY ExceptSeq
<1>3. \A n \in Nat : \A S \in SUBSET (1..n) :
        S # {} => \E i \in S : \A m \in S : i <= m
  BY LeastOf, Zenon
<1> QED
  BY Zenon, <1>1, <1>2, <1>3 DEF SequenceLaws

-----------------------------------------------------------------------------
\* The invariant holds in every state.
THEOREM Inductive == Spec => []IndInv
<1> QED
  BY InitInd, NextInd, Counting, PTL DEF Spec

\* handle_io_error knows of every operation of a failed flow under way.
THEOREM CleanupCounts == Spec => []CleanupExact
<1>1. IndInv => CleanupExact
  BY Zenon DEF IndInv
<1> QED
  BY <1>1, Inductive, PTL

\* BMI_cancel is never called on an operation that a test has reported.
THEOREM CancelsOnlyPending == Spec => CancelsPending
<1>1. IndInv /\ [Next]_vars =>
        [\A o \in Op : st[o] \notin {"posted", "finished"} => st'[o] # "cancelled"
                        \/ st[o] = "cancelled"]_vars
  BY NextMoves DEF Moves
<1> QED
  BY <1>1, Inductive, PTL DEF Spec, CancelsPending

\* The threads, mutexes and timers keep the promise of BmiJob: a job that was
\* posted completes once, and is handed back after that only.
THEOREM KeepsPromise == Spec => ImplementsJob
<1>1. Init => Promise!Init
  BY Zenon DEF Init, Promise!Init, Seen, Op
<1>2. ASSUME IndInv, [Next]_vars PROVE [Promise!Next]_Seen
  <2>1. \A j \in Job : st[j] \in State \ {"called"} /\ st'[j] \in State \ {"called"}
    BY <1>2, NextInd, Counting DEF IndInv, OpType, Op
  <2>2. \A j \in Job : Moves(j)
    BY <1>2, NextMoves DEF Op
  <2>3. Seen' \in [Job -> {"free", "posted", "ending", "completed"}]
    BY Zenon, <2>1 DEF Seen, State
  <2>4. \A j \in Job : Seen'[j] = Seen[j] \/ <<Seen[j], Seen'[j]>> \in Promise!Goes
    <3> TAKE j \in Job
    <3>1. CASE st'[j] = st[j]
      BY <3>1 DEF Seen
    <3>2. CASE st'[j] # st[j]
      BY <2>1, <2>2, <3>2 DEF Seen, Moves, Promise!Goes, State
    <3> QED
      BY <3>1, <3>2
  <2> QED
    BY <2>3, <2>4 DEF Promise!Next
<1> QED
  BY <1>1, <1>2, Inductive, PTL DEF Spec, ImplementsJob, Promise!Spec

\* The flags, counts and timers keep their types, and no job is timed out
\* before the time it was last given, nor while it may take for ever: however
\* job_reset_timeout, job_time_mgr_expire, the clock and the BMI thread
\* interleave.
THEOREM NeverBeforeDue == Spec => []NotBeforeDue
<1>1. Init => IndInv /\ Flags /\ Timers
  BY InitInd, InitFlags, InitTimers
<1>2. IndInv /\ Flags /\ Timers /\ [Next]_vars => (IndInv /\ Flags /\ Timers)'
  BY NextInd, NextFlags, NextTimers, Counting, Sequencing
<1>3. ASSUME IndInv, Flags, Timers PROVE NotBeforeDue
  <2>1. cleanup_pending_count \in 0..Cardinality(FlowOp)
    <3>1. /\ Cardinality(FlowOp) \in Nat
          /\ Cardinality(Pending \cap FlowOp) \in 0..Cardinality(FlowOp)
      BY Zenon, Counting DEF CountingLaws
    <3> QED
      BY <1>3, <3>1 DEF IndInv, CleanupExact, Flags, OpType
  <2>2. bmi_test_cancel_waiter \in 0..2
    BY <1>3 DEF Flags, Asleep
  <2>3. TypeOK
    BY Zenon, <1>3, <2>1, <2>2 DEF TypeOK, IndInv, OpType, Flags, Timers, Sound, Bucket, Owner, State
  <2>4. TimersExact
    <3>1. ASSUME NEW i \in 1..Len(bucket_queue), NEW j \in bucket_queue[i].jds
          PROVE st[j] \notin {"new", "collected"} /\ due[j] = bucket_queue[i].expire
      BY Zenon, <1>3, InBucket DEF Timers
    <3>2. ASSUME NEW i \in 1..Len(bucket_queue), i > 1
          PROVE bucket_queue[i - 1].expire < bucket_queue[i].expire
      <4>1. Len(bucket_queue) \in Nat
        BY <1>3 DEF Timers, Sound
      <4>2. i - 1 \in 1..Len(bucket_queue) /\ i - 1 < i
        BY <3>2, <4>1
      <4> QED
        BY <1>3, <4>2 DEF Timers, Sound
    <3> QED
      BY Zenon, <3>1, <3>2 DEF TimersExact
  <2> QED
    BY <1>3, <2>3, <2>4 DEF NotBeforeDue, Timers
<1> QED
  BY <1>1, <1>2, <1>3, PTL DEF Spec
=============================================================================
