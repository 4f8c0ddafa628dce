-------------------------- MODULE RequestScheduler --------------------------
(***************************************************************************)
(* The server's request scheduler, server/request-scheduler.c: one FIFO    *)
(* list of request elements per handle, the queue of elements that became  *)
(* ready and were not collected yet, and the queue of mode changes.        *)
(*                                                                         *)
(* A member of Req is a slot for a request element; it is free again after *)
(* the release.  The operations are kept up to what the scheduler tells    *)
(* apart: I/O or not, directory entry or not, management or not, the       *)
(* access type and the scheduling policy of the operation's parameters.    *)
(***************************************************************************)
EXTENDS Integers, Sequences, FiniteSets

CONSTANTS
    Req,        \* request elements
    Handle,     \* object handles, PVFS_HANDLE_NULL is one of them
    ModeElem,   \* the element at the head of mode_queue
    InCount,    \* completions one testworld call may return
    MaxModes    \* bound on the length of mode_queue

ASSUME ReqAssumption  == IsFiniteSet(Req)
ASSUME ElemAssumption == ModeElem \notin Req
ASSUME InCountAssumption == InCount \in Nat \ {0}
ASSUME MaxModesAssumption == MaxModes \in Nat

VARIABLES
    reqList,        \* req_list of each handle (an absent list is empty)
    state,          \* the element's req_sched_states
    op,             \* the element's operation
    access_type,    \* the access type recorded in the element
    ready_queue,
    pinned,         \* ModeElem was linked into ready_queue a second time
    mode_queue,     \* requested modes, the head first
    mode_state,     \* state of the element at the head of mode_queue
    sched_count,
    current_mode

vars == <<reqList, state, op, access_type, ready_queue, pinned,
          mode_queue, mode_state, sched_count, current_mode>>

modeVars == <<mode_queue, mode_state, current_mode>>

\* qlist_del of the i-th element.
Unlinked(s, i) == SubSeq(s, 1, i - 1) \o SubSeq(s, i + 1, Len(s))

-----------------------------------------------------------------------------
(* Request parameters: what the scheduler reads of an operation.           *)

Op == {"io_read", "io_write", "getattr", "setattr", "dirent", "mgmt_remove",
       "mkdir"}

Mode == {"normal", "admin"}

IsIO(o) == o \in {"io_read", "io_write"}

AccessType(o) == IF o \in {"io_read", "getattr"} THEN "readonly" ELSE "modify"

Bypass(o) == o = "mkdir"

\* A modification that is not a management operation.
IsChange(o) == AccessType(o) = "modify" /\ o # "mgmt_remove"

Listed == {r \in Req : state[r] \in {"queued", "ready", "scheduled"}}

-----------------------------------------------------------------------------
(* Modes.                                                                  *)

in_admin_mode ==
    current_mode = "admin" \/ (mode_queue # <<>> /\ mode_queue[1] = "admin")

\* schedule_mode_change: with nothing left in the scheduler the head of
\* mode_queue is made ready and appended to ready_queue (rq), whatever its
\* state was.  Linking an element that is already linked leaves it at its old
\* place with a predecessor that no longer agrees, so that no later removal
\* unlinks it.
schedule_mode_change(rq, count) ==
    IF count = 0 /\ mode_queue # <<>>
      THEN /\ mode_state' = "ready"
           /\ IF \E i \in 1..Len(rq) : rq[i] = ModeElem
                THEN ready_queue' = rq /\ pinned' = TRUE
                ELSE ready_queue' = Append(rq, ModeElem) /\ UNCHANGED pinned
      ELSE ready_queue' = rq /\ UNCHANGED <<mode_state, pinned>>

\* mgmt_setparam of the server mode.  A change that is scheduled at once is
\* released by the final response of the same state machine before anything
\* else runs; a queued one is posted without a state machine to resume, and
\* nobody releases it.
change_mode(m) ==
    \/ /\ mode_queue = <<>>
       /\ m = "normal" \/ sched_count = 0
       /\ current_mode' = m
       /\ UNCHANGED <<mode_queue, mode_state>>
    \/ /\ mode_queue = <<>> => m = "admin" /\ sched_count # 0
       /\ Len(mode_queue) < MaxModes
       /\ mode_queue' = Append(mode_queue, m)
       /\ mode_state' = IF mode_queue = <<>> THEN "queued" ELSE mode_state
       /\ UNCHANGED current_mode

ChangeMode(m) ==
    /\ change_mode(m)
    /\ UNCHANGED <<reqList, state, op, access_type, ready_queue, pinned,
                   sched_count>>

-----------------------------------------------------------------------------
(* Posting.                                                                *)

\* Mutant of Refused: the transition to admin mode is not looked at.
RefusedLate(o) == IsChange(o) /\ current_mode = "admin"

\* The answer -PVFS_EAGAIN, given in admin mode and on the way to it.
Refused(o) == IsChange(o) /\ in_admin_mode

\* Mutant of Joins: only the last request of the list is checked.
JoinsLast(o, l) ==
    IF IsIO(o) THEN IsIO(op[l[Len(l)]])
    ELSE IF AccessType(o) = "readonly"
           THEN access_type[l[Len(l)]] # "modify"
           ELSE o = "dirent"

\* The check against the requests that already have the handle.
Joins(o, l) ==
    IF IsIO(o) THEN \A i \in 1..Len(l) : IsIO(op[l[i]])
    ELSE IF AccessType(o) = "readonly"
           THEN \A i \in 1..Len(l) : access_type[l[i]] # "modify"
           ELSE o = "dirent"

\* Mutant of EndsScheduled: the end of the list is not looked at.
FirstScheduled(l) == state[l[1]] = "scheduled"

\* Neither the first nor the last element still waits.
EndsScheduled(l) ==
    state[l[1]] = "scheduled" /\ state[l[Len(l)]] = "scheduled"

Immediate(o, l) == l = <<>> \/ (EndsScheduled(l) /\ Joins(o, l))

\* A directory-entry request let through beside others counts as read only.
PostedAccess(o, l) ==
    IF o = "dirent" /\ l # <<>> /\ EndsScheduled(l) THEN "readonly"
                                                    ELSE AccessType(o)

Post(r, o, h) ==
    /\ state[r] = "free"
    /\ ~Bypass(o)
    /\ ~Refused(o)
    /\ state' = [state EXCEPT ![r] =
                   IF Immediate(o, reqList[h]) THEN "scheduled" ELSE "queued"]
    /\ op' = [op EXCEPT ![r] = o]
    /\ access_type' = [access_type EXCEPT ![r] = PostedAccess(o, reqList[h])]
    /\ reqList' = [reqList EXCEPT ![h] = Append(@, r)]
    /\ sched_count' = sched_count + 1
    /\ UNCHANGED <<ready_queue, pinned, modeVars>>

\* Mutant of PostBypass: the count is taken before the policy is looked at.
PostBypassCounted(r, o) ==
    /\ state[r] = "free"
    /\ Bypass(o)
    /\ ~Refused(o)
    /\ state' = [state EXCEPT ![r] = "bypass"]
    /\ op' = [op EXCEPT ![r] = o]
    /\ sched_count' = sched_count + 1
    /\ UNCHANGED <<reqList, access_type, ready_queue, pinned, modeVars>>

\* A request whose policy is PINT_SERVER_REQ_BYPASS proceeds with id 0.
PostBypass(r, o) ==
    /\ state[r] = "free"
    /\ Bypass(o)
    /\ ~Refused(o)
    /\ state' = [state EXCEPT ![r] = "bypass"]
    /\ op' = [op EXCEPT ![r] = o]
    /\ UNCHANGED <<reqList, access_type, ready_queue, pinned, sched_count,
                   modeVars>>

-----------------------------------------------------------------------------
(* Leaving a list.                                                         *)

\* The i-th element is let go together with the first: all up to it are I/O,
\* or (of a list that starts with another operation) all are read only.
WithHead(l, i) ==
    IF IsIO(op[l[1]])
      THEN \A j \in 1..i : IsIO(op[l[j]])
      ELSE \A j \in 1..i : access_type[l[j]] = "readonly"

\* unpost only follows a run of I/O.
WithHeadUnpost(l, i) == \A j \in 1..i : IsIO(op[l[j]])

\* Mutant of ReleaseRun and UnpostRun: the next in line is forgotten.
ForgetNext(l, n) == n = 0

\* The head of the list l waits, and the first n elements become ready: the
\* head, and the longest run that goes with it.  Otherwise none does.
ReleaseRun(l, n) ==
    IF l # <<>> /\ state[l[1]] = "queued"
      THEN /\ n \in 1..Len(l)
           /\ n > 1 => WithHead(l, n)
           /\ n < Len(l) => ~WithHead(l, n + 1)
      ELSE n = 0

UnpostRun(l, n) ==
    IF l # <<>> /\ state[l[1]] = "queued"
      THEN /\ n \in 1..Len(l)
           /\ n > 1 => WithHeadUnpost(l, n)
           /\ n < Len(l) => ~WithHeadUnpost(l, n + 1)
      ELSE n = 0

\* The element at position i of h's list is unlinked and freed, and the first
\* n of the remaining ones, if any, become ready.
Unlink(h, i, n, rq) ==
    LET r == reqList[h][i]
        l == Unlinked(reqList[h], i)
    IN  /\ reqList' = [reqList EXCEPT ![h] = l]
        /\ state' = [q \in Req |->
                       IF q = r THEN "free"
                       ELSE IF \E k \in 1..n : l[k] = q THEN "ready"
                       ELSE state[q]]
        /\ sched_count' = sched_count - 1
        /\ schedule_mode_change(rq \o SubSeq(l, 1, n), sched_count - 1)
        /\ op' = [op EXCEPT ![r] = "none"]
        /\ access_type' = [access_type EXCEPT ![r] = "readonly"]
        /\ UNCHANGED <<mode_queue, current_mode>>

\* PINT_req_sched_release of the scheduled request at position i.
Release(h, i) ==
    LET l == Unlinked(reqList[h], i)
    IN  /\ state[reqList[h][i]] = "scheduled"
        /\ \E n \in 0..Len(l) :
             /\ ReleaseRun(l, n)
             /\ Unlink(h, i, n, ready_queue)

\* PINT_req_sched_release with id 0.
ReleaseBypass(r) ==
    /\ state[r] = "bypass"
    /\ state' = [state EXCEPT ![r] = "free"]
    /\ op' = [op EXCEPT ![r] = "none"]
    /\ UNCHANGED <<reqList, access_type, ready_queue, pinned, sched_count,
                   modeVars>>

\* PINT_req_sched_unpost; the next in line is looked at only when the request
\* was already ready.
Unpost(h, i) ==
    LET l == Unlinked(reqList[h], i)
        r == reqList[h][i]
    IN  \/ /\ state[r] = "queued"
           /\ Unlink(h, i, 0, ready_queue)
        \/ /\ state[r] = "ready"
           /\ \E k \in 1..Len(ready_queue), n \in 0..Len(l) :
                /\ ready_queue[k] = r
                /\ UnpostRun(l, n)
                /\ Unlink(h, i, n, Unlinked(ready_queue, k))

-----------------------------------------------------------------------------
(* Collecting what is ready.                                               *)

\* The collected elements are scheduled; a collected mode change takes effect.
Collect(S) ==
    /\ state' = [r \in Req |-> IF r \in S THEN "scheduled" ELSE state[r]]
    /\ IF ModeElem \in S
         THEN mode_state' = "scheduled" /\ current_mode' = mode_queue[1]
         ELSE UNCHANGED <<mode_state, current_mode>>
    /\ UNCHANGED <<reqList, op, access_type, pinned, mode_queue, sched_count>>

\* Mutant of TestWorld: one element is collected, all are unlinked.
TestWorldDrops ==
    /\ ready_queue # <<>>
    /\ Collect({Head(ready_queue)})
    /\ ready_queue' = <<>>

\* testworld takes from the front while the expired timers, which are served
\* first, leave room.  A pinned element is at the front for ever.
TestWorld ==
    \E n \in 1..InCount :
        /\ n <= Len(ready_queue)
        /\ \A i \in 1..(n-1) : ~(pinned /\ ready_queue[i] = ModeElem)
        /\ Collect({ready_queue[j] : j \in 1..n})
        /\ ready_queue' =
             SubSeq(ready_queue,
                    IF pinned /\ ready_queue[n] = ModeElem THEN n ELSE n + 1,
                    Len(ready_queue))

\* test and testsome take a request wherever it is in the queue.
Test(k) ==
    /\ ready_queue[k] # ModeElem
    /\ Collect({ready_queue[k]})
    /\ ready_queue' = Unlinked(ready_queue, k)

-----------------------------------------------------------------------------
Init ==
    /\ reqList = [h \in Handle |-> <<>>]
    /\ state = [r \in Req |-> "free"]
    /\ op = [r \in Req |-> "none"]
    /\ access_type = [r \in Req |-> "readonly"]
    /\ ready_queue = <<>>
    /\ pinned = FALSE
    /\ mode_queue = <<>>
    /\ mode_state = "none"
    /\ sched_count = 0
    /\ current_mode = "normal"

Next ==
    \/ \E r \in Req, o \in Op, h \in Handle : Post(r, o, h)
    \/ \E r \in Req, o \in Op : PostBypass(r, o)
    \/ \E r \in Req : ReleaseBypass(r)
    \/ \E h \in Handle : \E i \in 1..Len(reqList[h]) :
            Release(h, i) \/ Unpost(h, i)
    \/ TestWorld
    \/ \E k \in 1..Len(ready_queue) : Test(k)
    \/ \E m \in Mode : ChangeMode(m)

Spec == Init /\ [][Next]_vars

\* The server answers every request it works on, and its main loop calls
\* testworld on every turn.
Completes(r) ==
    \E h \in Handle : \E i \in 1..Len(reqList[h]) :
        reqList[h][i] = r /\ Release(h, i)

Fairness == WF_vars(TestWorld) /\ \A r \in Req : WF_vars(Completes(r))

FairSpec == Spec /\ Fairness

-----------------------------------------------------------------------------
(* Properties.                                                             *)

\* The types of the lists, the elements and the queues of request-scheduler.c.
TypeOK ==
    /\ reqList \in [Handle -> Seq(Req)]
    /\ state \in [Req -> {"free", "bypass", "queued", "ready", "scheduled"}]
    /\ op \in [Req -> Op \cup {"none"}]
    /\ access_type \in [Req -> {"readonly", "modify"}]
    /\ ready_queue \in Seq(Req \cup {ModeElem})
    /\ pinned \in BOOLEAN
    /\ mode_queue \in Seq(Mode)
    /\ mode_state \in {"none", "queued", "ready", "scheduled"}
    /\ sched_count \in Int
    /\ current_mode \in Mode

\* Nobody waits for nothing: the first request of a handle's list has been
\* let go, so whoever waits, waits for a request that will be released.
HeadGoes ==
    \A h \in Handle : reqList[h] # <<>> => state[reqList[h][1]] # "queued"

\* "We can never bypass a queued operation": behind a waiting request of a
\* handle there are only waiting ones.  The two assertions of release on the
\* state of the elements it makes ready follow.
NoOvertaking ==
    \A h \in Handle : \A i, j \in 1..Len(reqList[h]) :
        i < j /\ state[reqList[h][i]] = "queued"
            => state[reqList[h][j]] = "queued"

Compatible(o1, o2) ==
    \/ IsIO(o1) /\ IsIO(o2)
    \/ AccessType(o1) = "readonly" /\ AccessType(o2) = "readonly"

\* Two requests that have the same handle at the same time are both I/O or
\* both read only, unless one of them is a directory-entry request.
CompatibleHolders ==
    \A h \in Handle : \A i, j \in 1..Len(reqList[h]) :
        LET a == reqList[h][i]
            b == reqList[h][j]
        IN  i # j /\ state[a] # "queued" /\ state[b] # "queued"
              => \/ Compatible(op[a], op[b])
                 \/ "dirent" \in {op[a], op[b]}

\* sched_count, on which the entry into admin mode rests, is the number of
\* requests in the lists.
CountExact == sched_count = Cardinality(Listed)

\* A request is in ready_queue exactly while it is ready, and only once.
ReadyExact ==
    /\ \A r \in Req : state[r] = "ready"
                      <=> \E k \in 1..Len(ready_queue) : ready_queue[k] = r
    /\ \A k, l \in 1..Len(ready_queue) :
          ready_queue[k] = ready_queue[l] => k = l

\* In admin mode no scheduled modification is left or can come in, management
\* operations apart.
AdminDrained ==
    current_mode = "admin" => \A r \in Listed : ~IsChange(op[r])

\* A waiting request gets its turn (or is unposted), as long as the requests
\* that were let go are released, unless a mode change was linked into
\* ready_queue twice and blocks it.
EverybodysTurn ==
    \A r \in Req :
        state[r] = "queued" ~> state[r] \in {"scheduled", "free"} \/ pinned

-----------------------------------------------------------------------------
(* The invariant from which the safety properties follow.                  *)

\* Every element of a list is waiting, ready or scheduled, and has one place.
Placed ==
    /\ \A h \in Handle : \A i \in 1..Len(reqList[h]) :
          reqList[h][i] \in Listed
    /\ \A h, g \in Handle :
          \A i \in 1..Len(reqList[h]), j \in 1..Len(reqList[g]) :
              reqList[h][i] = reqList[g][j] => h = g /\ i = j

\* Only directory-entry requests are recorded as read only when they are not.
AccessKept ==
    \A r \in Listed : access_type[r] = "readonly"
        => AccessType(op[r]) = "readonly" \/ op[r] = "dirent"

\* CompatibleHolders, in terms of the recorded access types.
Holders ==
    \A h \in Handle : \A i, j \in 1..Len(reqList[h]) :
        LET a == reqList[h][i]
            b == reqList[h][j]
        IN  i # j /\ state[a] # "queued" /\ state[b] # "queued"
              => \/ IsIO(op[a]) /\ IsIO(op[b])
                 \/ access_type[a] = "readonly" /\ access_type[b] = "readonly"
                 \/ op[a] = "dirent"
                 \/ op[b] = "dirent"

ModeReady == \E k \in 1..Len(ready_queue) : ready_queue[k] = ModeElem

\* A queued mode change is headed by one to admin mode; it becomes ready when
\* the scheduler is empty, and no modification comes in from then on.
ModeInv ==
    /\ mode_queue # <<>> => mode_queue[1] = "admin"
    /\ ModeReady => mode_queue # <<>>
    /\ ModeReady \/ current_mode = "admin"
          => \A r \in Listed : ~IsChange(op[r])

\* What holds of the handles' lists.
ListInv == Placed /\ HeadGoes /\ NoOvertaking /\ AccessKept /\ Holders

\* The inductive invariant: every entry point of request-scheduler.c keeps it.
IndInv == TypeOK /\ ListInv /\ CountExact /\ ReadyExact /\ ModeInv

-----------------------------------------------------------------------------
(* The lock that the scheduler implements.                                 *)

SharesHandle(o1, o2) == Compatible(o1, o2) \/ "dirent" \in {o1, o2}

LetGoNow == {r \in Req : state[r] \in {"ready", "scheduled"}}

KindInLine == [r \in Req |-> IF r \in Listed THEN op[r] ELSE "none"]

Lock == INSTANCE HandleLock WITH
            Kind <- Op, None <- "none", Shares <- SharesHandle,
            line <- reqList, granted <- LetGoNow, kind <- KindInLine

\* post, unpost, release and the collecting of ready requests implement a
\* shared lock that is given in the order of arrival.
ImplementsLock == Lock!LockSpec

=============================================================================
