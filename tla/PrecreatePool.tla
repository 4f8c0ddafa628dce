--------------------------- MODULE PrecreatePool ---------------------------
(***************************************************************************)
(* The pools of precreated datafile handles a metadata server keeps, one   *)
(* per I/O server (io/job/job.c), the state machine that refills each of   *)
(* them (server/precreate-pool-refiller.sm) and their users: a create or   *)
(* an unstuff takes handles, a create that fails late gives them back      *)
(* (server/create.sm, server/unstuff.sm).                                  *)
(*                                                                         *)
(* Three threads meet here.  The main thread runs the state machines, the  *)
(* storage thread serves the key/value operations, and one callback thread *)
(* runs the callbacks, sleepers it pushes included.  Handles are counted,  *)
(* not named: what is told apart is how many a pool has stored and how     *)
(* many of them the in-memory count promises.                              *)
(***************************************************************************)
EXTENDS Integers, Sequences, FiniteSets

CONSTANTS
    Pool,                   \* one pool per peer I/O server
    Create,                 \* slots for requests that need handles
    Ask,                    \* what a request may ask for: handles per pool
    Batch,                  \* precreate_batch_size
    Low,                    \* precreate_low_threshold
    MaxKeys,                \* PRECREATE_POOL_MAX_KEYS
    CountRange,             \* values of a pool_count: it is a uint32_t
    Nobody,
    Immediate,              \* settings of immediate_completion to look at
    Faults                  \* key/value operations that may fail

ASSUME SizesAssumption ==
    {Batch, Low, MaxKeys, CountRange} \subseteq Nat \ {0} /\ Low < CountRange
ASSUME FiniteAssumption == IsFiniteSet(Pool) /\ IsFiniteSet(Create)
ASSUME AskAssumption   == Ask \subseteq [Pool -> Nat]
ASSUME FaultsAssumption == Faults \subseteq {"get", "write"}
ASSUME ImmediateAssumption == Immediate \subseteq BOOLEAN
ASSUME NamesAssumption == Pool \cap Create = {} /\ Nobody \notin Pool \cup Create

VARIABLES
    immediate_completion,   \* of the collection, set when the server starts
    poolCount,  \* pool_count, in memory
    stored,     \* handles in the pool object's key/value space
    sleepers,   \* precreate_pool_get_handles_list, its head first
    pushing,    \* tmp_list of the fill callback that runs, its head first
    pusher,     \* the fill job whose callback runs
    refill,     \* where the refiller of each pool is
    create,     \* where each request is
    ask,        \* handles the request asked for
    queued,     \* its iterate-and-remove operations not served yet
    served,     \* its operations served whose callback did not run yet
    pending,    \* trove_pending of its job
    got,        \* handles it was given
    target,     \* the pool a request is giving a handle back to
    left,       \* handles a fill job has not written yet
    write       \* the outstanding write of a fill job

getVars  == <<ask, queued, served, pending, got>>
fillVars == <<target, left, write, immediate_completion>>
vars == <<poolCount, stored, sleepers, pushing, pusher, refill, create,
          getVars, fillVars>>

\* A fill job belongs to a refiller or to a request that gives back.
Job == Pool \cup Create

FillPool(j) == IF j \in Pool THEN j ELSE target[j]

Lesser(m, n) == IF m <= n THEN m ELSE n

PostedButLast(j) == Lesser(left[j] - 1, MaxKeys)

\* Keys of the outstanding write: at most PRECREATE_POOL_MAX_KEYS at once.
Posted(j) == Lesser(left[j], MaxKeys)

\* The things that f counts, one by one, and the number of them all.
Each(f)  == UNION {{x} \X (1 .. f[x]) : x \in DOMAIN f}
Total(f) == Cardinality(Each(f))

NoHandles == [p \in Pool |-> 0]

Stocked == \A p \in Pool : poolCount[p] >= 1

\* With immediate completion every callback runs inside the call that posts
\* the operation, on the main thread, which does nothing else meanwhile.
MainFree == immediate_completion =>
                pusher = Nobody /\ \A j \in Job : write[j] = "none"

CallbackFree == pusher = Nobody

Init ==
    /\ immediate_completion \in Immediate
    /\ poolCount \in [Pool -> 0 .. Low]
    /\ stored = poolCount
    /\ sleepers = <<>>
    /\ pushing = <<>>
    /\ pusher = Nobody
    /\ refill = [p \in Pool |-> "threshold"]
    /\ create = [c \in Create |-> "idle"]
    /\ ask = [c \in Create |-> NoHandles]
    /\ queued = [c \in Create |-> NoHandles]
    /\ served = [c \in Create |-> 0]
    /\ pending = [c \in Create |-> 0]
    /\ got = [c \in Create |-> NoHandles]
    /\ target = [c \in Create |-> Nobody]
    /\ left = [j \in Job |-> 0]
    /\ write = [j \in Job |-> "none"]

-----------------------------------------------------------------------------
(* Taking handles                                                          *)

\* "check pool list, go back to sleep if any are empty"
Sleep(c, a) ==
    /\ ~Stocked
    /\ ask' = [ask EXCEPT ![c] = a]
    /\ sleepers' = <<c>> \o sleepers
    /\ create' = [create EXCEPT ![c] = "asleep"]
    /\ UNCHANGED <<poolCount, stored, refill, queued, pending, got>>

\* No memory for the operations, or a server the pools do not know.  The
\* cleanup of a request without handles touches no pool: it is over.
Refuse(c) ==
    /\ Stocked
    /\ create' = [create EXCEPT ![c] = "idle"]
    /\ ask' = [ask EXCEPT ![c] = NoHandles]
    /\ UNCHANGED <<poolCount, stored, sleepers, refill, queued, pending, got>>

\* pool_count after k decrements; it is unsigned and wraps round.
Less(p, k) == (poolCount[p] - k) % CountRange

WokenTooLate(a) == {p \in Pool : a[p] > 0 /\ refill[p] = "waiting" /\ poolCount[p] < Low}

\* The refillers whose pool one of the decrements of a brings below the
\* threshold.
WokenRefillers(a) ==
    {p \in Pool : refill[p] = "waiting" /\ \E k \in 1 .. a[p] : Less(p, k) < Low}

\* All operations are posted at once, under the pool mutex.  One that
\* completes at once runs its callback before trove_pending counts it.
Post(c, a) ==
    /\ Stocked
    /\ poolCount' = [p \in Pool |-> Less(p, a[p])]
    /\ refill' = [p \in Pool |-> IF p \in WokenRefillers(a) THEN "batch" ELSE refill[p]]
    /\ create' = [create EXCEPT ![c] = "posted"]
    /\ ask' = [ask EXCEPT ![c] = a]
    /\ \/ /\ ~immediate_completion
          /\ queued' = [queued EXCEPT ![c] = a]
          /\ pending' = [pending EXCEPT ![c] = Total(a)]
          /\ UNCHANGED <<stored, got>>
       \/ /\ immediate_completion
          /\ got' = [got EXCEPT ![c] = [p \in Pool |-> Lesser(a[p], stored[p])]]
          /\ stored' = [p \in Pool |-> stored[p] - Lesser(a[p], stored[p])]
          /\ pending' = [pending EXCEPT ![c] = 0 - Total(a)]
          /\ UNCHANGED queued
    /\ UNCHANGED sleepers

\* precreate_pool_get_handles_try_post()
TryPost(c, a) == Sleep(c, a) \/ Refuse(c) \/ Post(c, a)

\* job_precreate_pool_get_handles(), called by a create or an unstuff
GetHandles(c, a) ==
    /\ MainFree
    /\ create[c] = "idle"
    /\ TryPost(c, a)
    /\ UNCHANGED <<pushing, pusher, served, fillVars>>

\* The storage thread serves one iterate-and-remove of c.  A pool object
\* without keys is no error: the operation succeeds and finds no handle.
ServeGet(c, p) ==
    /\ queued[c][p] > 0
    /\ queued' = [queued EXCEPT ![c][p] = @ - 1]
    /\ served' = [served EXCEPT ![c] = @ + 1]
    /\ \/ /\ stored[p] > 0
          /\ stored' = [stored EXCEPT ![p] = @ - 1]
          /\ got' = [got EXCEPT ![c][p] = @ + 1]
       \/ /\ stored[p] = 0 \/ "get" \in Faults
          /\ UNCHANGED <<stored, got>>
    /\ UNCHANGED <<poolCount, sleepers, pushing, pusher, refill, create, ask,
                   pending, fillVars>>

\* The storage completed an operation whose callback did not run yet.
Completed(c) == served[c] > 0

DoneBefore(c) == pending[c] = 0

DoneEarly(c) == pending[c] <= 2

\* "is this job done?", asked after trove_pending was decremented
JobDone(c) == pending[c] - 1 = 0

\* precreate_pool_get_thread_mgr_callback(): the job completes with error
\* code 0 once nothing is pending, whatever its operations returned.
GetCallback(c) ==
    /\ CallbackFree
    /\ Completed(c)
    /\ served' = [served EXCEPT ![c] = @ - 1]
    /\ pending' = [pending EXCEPT ![c] = @ - 1]
    /\ create' = [create EXCEPT ![c] = IF JobDone(c) THEN "have" ELSE @]
    /\ UNCHANGED <<poolCount, stored, sleepers, pushing, pusher, refill, ask,
                   queued, got, fillVars>>

-----------------------------------------------------------------------------
(* Filling a pool                                                          *)

\* The write of the next keys of job j, l handles left, into pool p: queued
\* for the storage thread, or tried at once with its callback still to run.
PostWrite(j, p, l) ==
    /\ left' = [left EXCEPT ![j] = l]
    /\ \/ /\ ~immediate_completion
          /\ write' = [write EXCEPT ![j] = "posted"]
          /\ UNCHANGED stored
       \/ /\ immediate_completion
          /\ write' = [write EXCEPT ![j] = "written"]
          /\ stored' = [stored EXCEPT ![p] = @ + Lesser(l, MaxKeys)]
       \/ /\ immediate_completion
          /\ "write" \in Faults
          /\ write' = [write EXCEPT ![j] = "failed"]
          /\ \E k \in 0 .. Lesser(l, MaxKeys) - 1 :
                stored' = [stored EXCEPT ![p] = @ + k]

\* The storage thread serves the write ...
ServeWrite(j) ==
    /\ write[j] = "posted"
    /\ write' = [write EXCEPT ![j] = "written"]
    /\ stored' = [stored EXCEPT ![FillPool(j)] = @ + Posted(j)]
    /\ UNCHANGED <<poolCount, sleepers, pushing, pusher, refill, create,
                   getVars, target, left, immediate_completion>>

\* ... or fails to, after some of the keys.
FailWrite(j) ==
    /\ "write" \in Faults
    /\ write[j] = "posted"
    /\ write' = [write EXCEPT ![j] = "failed"]
    /\ \E k \in 0 .. Posted(j) - 1 :
          stored' = [stored EXCEPT ![FillPool(j)] = @ + k]
    /\ UNCHANGED <<poolCount, sleepers, pushing, pusher, refill, create,
                   getVars, target, left, immediate_completion>>

GrownByJob(j) == [poolCount EXCEPT ![FillPool(j)] = (@ + left[j]) % CountRange]

\* "increment in-memory count for this pool"
Grown(j) == [poolCount EXCEPT ![FillPool(j)] = (@ + Posted(j)) % CountRange]

\* The first n sleepers, and the list of sleepers after they left it.
First(n) == {sleepers[i] : i \in 1 .. n}
Unlisted(n) == SubSeq(sleepers, n + 1, Len(sleepers))

\* precreate_pool_fill_thread_mgr_callback() up to the release of the pool
\* mutex: the count grows and as many sleepers as keys leave the list, the
\* last one to fall asleep first; qlist_add() turns their order round.
FillCallback(j) ==
    /\ CallbackFree
    /\ write[j] = "written"
    /\ LET n == Lesser(Len(sleepers), Posted(j))
       IN  /\ pushing' = [i \in 1 .. n |-> sleepers[n + 1 - i]]
           /\ sleepers' = Unlisted(n)
           /\ create' = [c \in Create |-> IF c \in First(n) THEN "pushed" ELSE create[c]]
    /\ poolCount' = Grown(j)
    /\ left' = [left EXCEPT ![j] = @ - Posted(j)]
    /\ write' = [write EXCEPT ![j] = "none"]
    /\ pusher' = j
    /\ UNCHANGED <<stored, refill, getVars, target,
                   immediate_completion>>

\* The callback pushes one sleeper it collected; the mutex was released.
PushSleeper ==
    /\ pushing # <<>>
    /\ TryPost(Head(pushing), ask[Head(pushing)])
    /\ pushing' = Tail(pushing)
    /\ UNCHANGED <<pusher, served, fillVars>>

\* The fill job of j is over; what waits for it goes on.
Filled(j, next) == refill' = [p \in Pool |-> IF p = j THEN next ELSE refill[p]]

\* The rest of the callback: "are we done?", or the next keys are written.
FillContinue ==
    /\ pusher # Nobody
    /\ pushing = <<>>
    /\ \/ /\ left[pusher] = 0
          /\ Filled(pusher, "threshold")
          /\ UNCHANGED <<stored, left, write>>
       \/ /\ left[pusher] > 0
          /\ PostWrite(pusher, FillPool(pusher), left[pusher])
          /\ UNCHANGED refill
    /\ pusher' = Nobody
    /\ UNCHANGED <<poolCount, sleepers, pushing, create, getVars, target,
                   immediate_completion>>

\* The callback of a write that failed: what was not written is stranded.
FillFailed(j) ==
    /\ CallbackFree
    /\ write[j] = "failed"
    /\ write' = [write EXCEPT ![j] = "none"]
    /\ left' = [left EXCEPT ![j] = 0]
    /\ Filled(j, "retry")
    /\ UNCHANGED <<poolCount, stored, sleepers, pushing, pusher, create,
                   getVars, target,
                   immediate_completion>>

-----------------------------------------------------------------------------
(* The refiller                                                            *)

\* wait_for_threshold_fn() and job_precreate_pool_check_level()
CheckLevel(p) ==
    /\ MainFree
    /\ refill[p] = "threshold"
    /\ refill' = [refill EXCEPT ![p] = IF poolCount[p] < Low THEN "batch" ELSE "waiting"]
    /\ UNCHANGED <<poolCount, stored, sleepers, pushing, pusher, create,
                   getVars, fillVars>>

\* The I/O server answers the batch create; store_handles_fn() starts a fill.
BatchCreated(p) ==
    /\ MainFree
    /\ refill[p] = "batch"
    /\ refill' = [refill EXCEPT ![p] = "store"]
    /\ PostWrite(p, p, Batch)
    /\ UNCHANGED <<poolCount, sleepers, pushing, pusher, create, getVars, target,
                   immediate_completion>>

\* The batch create fails for good: job_precreate_pool_fill_signal_error()
\* wakes every sleeper with the error, and the batch create is tried again.
SignalError(p) ==
    /\ MainFree
    /\ refill[p] = "batch"
    /\ create' = [c \in Create |-> IF c \in First(Len(sleepers)) THEN "idle" ELSE create[c]]
    /\ ask' = [c \in Create |-> IF c \in First(Len(sleepers)) THEN NoHandles ELSE ask[c]]
    /\ sleepers' = <<>>
    /\ UNCHANGED <<poolCount, stored, pushing, pusher, refill, queued, served,
                   pending, got, fillVars>>

\* error_fn(): the refiller slept 30 seconds after a storage error.
RetryTimer(p) ==
    /\ MainFree
    /\ refill[p] = "retry"
    /\ refill' = [refill EXCEPT ![p] = "threshold"]
    /\ UNCHANGED <<poolCount, stored, sleepers, pushing, pusher, create,
                   getVars, fillVars>>

-----------------------------------------------------------------------------
(* The requests                                                            *)

Forget(c) ==
    /\ create' = [create EXCEPT ![c] = "idle"]
    /\ ask' = [ask EXCEPT ![c] = NoHandles]
    /\ got' = [got EXCEPT ![c] = NoHandles]

\* The file is written with its handles.
Finish(c) ==
    /\ MainFree
    /\ create[c] = "have"
    /\ Forget(c)
    /\ UNCHANGED <<poolCount, stored, sleepers, pushing, pusher, refill,
                   queued, served, pending, fillVars>>

\* write_keyvals or setobj_attribs fails: the handles go back.
GiveBack(c) ==
    /\ MainFree
    /\ create[c] = "have"
    /\ create' = [create EXCEPT ![c] = "returning"]
    /\ UNCHANGED <<poolCount, stored, sleepers, pushing, pusher, refill,
                   getVars, fillVars>>

\* replace_remote_datafile_handles(): one handle at a time, then done.
Replace(c) ==
    /\ MainFree
    /\ create[c] = "returning" /\ write[c] = "none" /\ left[c] = 0 /\ pusher # c
    /\ \/ \E p \in Pool :
            /\ got[c][p] > 0
            /\ got' = [got EXCEPT ![c][p] = @ - 1]
            /\ target' = [target EXCEPT ![c] = p]
            /\ PostWrite(c, p, 1)
            /\ UNCHANGED <<create, ask>>
       \/ /\ got[c] = NoHandles
          /\ Forget(c)
          /\ target' = [target EXCEPT ![c] = Nobody]
          /\ UNCHANGED <<stored, left, write>>
    /\ UNCHANGED <<poolCount, sleepers, pushing, pusher, refill, queued,
                   served, pending, immediate_completion>>

-----------------------------------------------------------------------------
Requests == \E c \in Create :
    \/ \E a \in Ask : GetHandles(c, a)
    \/ Finish(c)
    \/ GiveBack(c)
    \/ Replace(c)

Storage ==
    \/ \E c \in Create, p \in Pool : ServeGet(c, p)
    \/ \E j \in Job : ServeWrite(j) \/ FailWrite(j)

Callbacks ==
    \/ \E c \in Create : GetCallback(c)
    \/ \E j \in Job : FillCallback(j) \/ FillFailed(j)
    \/ PushSleeper
    \/ FillContinue

Refillers == \E p \in Pool :
    CheckLevel(p) \/ BatchCreated(p) \/ SignalError(p) \/ RetryTimer(p)

Next == Requests \/ Storage \/ Callbacks \/ Refillers

Spec == Init /\ [][Next]_vars

\* Every thread keeps running, storage operations are served, a batch create
\* ends with an answer or an error (its messages time out), the timer fires
\* and a request that was answered goes on; new requests need not come.  The
\* callback thread takes completed operations in their order, so one that
\* waits for it is not passed by for ever: its callback is strongly fair.
Fairness ==
    /\ \A c \in Create :
        /\ \A p \in Pool : WF_vars(ServeGet(c, p))
        /\ SF_vars(GetCallback(c))
        /\ WF_vars(Finish(c) \/ GiveBack(c) \/ Replace(c))
    /\ \A j \in Job :
        /\ WF_vars(ServeWrite(j))
        /\ SF_vars(FillCallback(j) \/ FillFailed(j))
    /\ WF_vars(PushSleeper)
    /\ WF_vars(FillContinue)
    /\ \A p \in Pool :
        /\ WF_vars(CheckLevel(p) \/ RetryTimer(p))
        /\ WF_vars(BatchCreated(p) \/ SignalError(p))

FairSpec == Spec /\ Fairness

-----------------------------------------------------------------------------
QueuedGets(p) == Total([c \in Create |-> queued[c][p]])

\* Keys of pool p that are stored and not yet added to the count.
Unreported(p) == Total([j \in Job |->
    IF write[j] = "written" /\ FillPool(j) = p THEN Posted(j) ELSE 0])

\* Every variable keeps the values its declaration in job.c allows.
TypeOK ==
    /\ immediate_completion \in BOOLEAN
    /\ poolCount \in [Pool -> 0 .. CountRange - 1]
    /\ stored \in [Pool -> Nat]
    /\ sleepers \in Seq(Create) /\ pushing \in Seq(Create)
    /\ pusher \in Job \cup {Nobody}
    /\ refill \in [Pool -> {"threshold", "waiting", "batch", "store", "retry"}]
    /\ create \in [Create -> {"idle", "asleep", "pushed", "posted", "have",
                              "returning"}]
    /\ \A f \in {ask, queued, got} : f \in [Create -> [Pool -> Nat]]
    /\ served \in [Create -> Nat]
    /\ pending \in [Create -> Int]
    /\ target \in [Create -> Pool \cup {Nobody}]
    /\ left \in [Job -> Nat]
    /\ write \in [Job -> {"none", "posted", "written", "failed"}]

\* "decrement count to avoid races with other consumers" (job.c): however
\* gets, fills and returns interleave, the storage holds every handle that
\* the in-memory count still offers, those already promised to a posted get
\* and those written whose callback has not run.
CountBacked ==
    \A p \in Pool : stored[p] >= poolCount[p] + QueuedGets(p) + Unreported(p)

\* A get that completes gave the request a handle for every datafile: the
\* iterate-and-remove never ran on a pool object another consumer emptied.
HandlesGiven == TypeOK /\ \A c \in Create : create[c] = "have" => got[c] = ask[c]

\* job_precreate_pool_check_level() and the gets share one mutex: a refiller
\* never sleeps on a pool that is below its threshold.
RefillerAwake ==
    \A p \in Pool : refill[p] = "waiting" => poolCount[p] >= Low

\* A request that waits for handles is woken, with handles, with an error or
\* to look again, unless every pool comes to have some: the empty pool's
\* refiller cannot be asleep, and it wakes the sleepers either way.
SleeperWoken ==
    \A c \in Create : create[c] = "asleep" ~> create[c] # "asleep" \/ Stocked

\* A get whose operations were posted is answered.
GetAnswered == \A c \in Create : create[c] = "posted" ~> create[c] # "posted"

=============================================================================
