---------------------------- MODULE MsgPairArray ----------------------------
(***************************************************************************)
(* The nested state machine pvfs2_msgpairarray_sm                          *)
(* (src/common/misc/msgpairarray.sm), through which clients and servers    *)
(* send requests to several servers at a time.  For each request it posts  *)
(* the receive of the response and the send of the request as two jobs,    *)
(* waits for all of them, has the answers processed, and posts again the   *)
(* pairs that failed.  A job may fail or time out at any moment.  A        *)
(* response to an earlier attempt has another session tag than any receive *)
(* still posted, so it is lost and the model leaves it out.                *)
(***************************************************************************)
EXTENDS Integers, FiniteSets

CONSTANTS
    Shapes,         \* the arrays callers set up: [pairs, comp_fn, retry]
    RetryLimit      \* mop->params.retry_limit

\* An array has its pairs by number, some of them with a completion function and
\* some of them with PVFS_MSGPAIR_RETRY.
ASSUME ShapeAssumption ==
    \A s \in Shapes :
        /\ s.pairs # {} /\ s.pairs \subseteq Nat /\ IsFiniteSet(s.pairs)
        /\ s.comp_fn \subseteq s.pairs /\ s.retry \subseteq s.pairs
ASSUME LimitAssumption == RetryLimit \in Nat

VARIABLES
    shape,          \* the array at hand
    state,          \* the state the machine is to run, or waits in
    comp_ct,        \* number of jobs that must still complete
    complete,       \* the pairs marked complete
    retry_count,    \* how often each pair was posted again
    op_status,      \* the status of each pair
    error_code,     \* js_p->error_code
    job,            \* the jobs, as BmiJob has them
    result,         \* the outcome of each job
    reply           \* what became of each request at its server

vars == <<shape, state, comp_ct, complete, retry_count, op_status, error_code, job,
          result, reply>>

\* Statuses: "bmi" and "cancel" (BMI_ECANCEL) are BMI errors; "server" is what a
\* server, or the completion function, makes of a request that did arrive.
BmiError == {"bmi", "cancel"}
Status == {"ok", "server"} \cup BmiError

Pair == shape.pairs
Pairs == UNION {s.pairs : s \in Shapes}
Job == Pairs \X {"recv", "send"}
Other == [recv |-> "send", send |-> "recv"]
Incomplete == Pair \ complete
Outstanding == {j \in Job : job[j] # "free"}

\* msgpairarray_init.
Init ==
    /\ shape \in Shapes /\ state = "post"
    /\ comp_ct = 2 * Cardinality(shape.pairs)
    /\ complete = {} /\ retry_count = [p \in Pairs |-> 0]
    /\ op_status = [p \in Pairs |-> "ok"] /\ error_code = "ok"
    /\ job = [j \in Job |-> "free"] /\ result = [j \in Job |-> "ok"]
    /\ reply = [p \in Pairs |-> "none"]

-----------------------------------------------------------------------------
(* Network, servers and job layer. *)

\* A server gets a request, executes it and answers with some status.
ServerAnswers(p) ==
    /\ reply[p] = "asked"
    /\ \E s \in {"ok", "server"} : reply' = [reply EXCEPT ![p] = s]
    /\ UNCHANGED <<shape, state, comp_ct, complete, retry_count, op_status, error_code,
                   job, result>>

\* BMI is done with a job: its message went through, or it failed, or its time
\* was over and job_time_mgr_expire cancelled it.
End(j, r) ==
    /\ job[j] = "posted"
    /\ job' = [job EXCEPT ![j] = "ending"]
    /\ result' = [result EXCEPT ![j] = r]
    /\ UNCHANGED <<shape, state, comp_ct, complete, retry_count, op_status, error_code,
                   reply>>

Received(p) == reply[p] \in {"ok", "server"} /\ End(<<p, "recv">>, "ok")
Sent(p) == End(<<p, "send">>, "ok")
Fails(j) == End(j, "bmi")
TimesOut(j) == End(j, "cancel")

Completes(j) ==
    /\ job[j] = "ending"
    /\ job' = [job EXCEPT ![j] = "completed"]
    /\ UNCHANGED <<shape, state, comp_ct, complete, retry_count, op_status, error_code,
                   result, reply>>

-----------------------------------------------------------------------------
(* The states of the machine. *)

\* How posting one pair may go: the receive fails at once (the send is then not
\* posted), the send fails at once (the receive is then cancelled), the send
\* completes at once, or both jobs are to be waited for.
Posting == {"no_recv", "no_send", "sent", "both"}

OnlyNoRecv(how) == 2 * Cardinality({p \in Incomplete : how[p] = "no_recv"})

\* The jobs not to be waited for: both of a pair whose receive failed, and the send
\* that failed or completed at once.
NotWaited(how) ==
    2 * Cardinality({p \in Incomplete : how[p] = "no_recv"})
        + Cardinality({p \in Incomplete : how[p] \in {"no_send", "sent"}})

RecvDropped(j, how) ==
    CASE how = "no_send" -> IF j[2] = "recv" THEN "completed" ELSE "free"
      [] OTHER -> IF how = "both" \/ (j[2] = "recv" /\ how = "sent") THEN "posted" ELSE "free"

JobPosted(j, how) ==
    CASE j[2] = "recv" /\ how = "no_recv" -> "free"
      [] j[2] = "recv" /\ how = "no_send" -> "ending"
      [] j[2] = "send" /\ how # "both" -> "free"
      [] OTHER -> "posted"

\* msgpairarray_post: every pair not complete, under a new session tag.
Post ==
    /\ state = "post"
    /\ \E how \in [Incomplete -> Posting] :
          /\ comp_ct' = comp_ct - NotWaited(how)
          /\ job' = [j \in Job |-> IF j[1] \in Incomplete THEN JobPosted(j, how[j[1]])
                                   ELSE job[j]]
          /\ op_status' = [p \in Pairs |->
                IF p \notin Incomplete THEN op_status[p]
                ELSE IF how[p] \in {"no_recv", "no_send"} THEN "bmi" ELSE "ok"]
          /\ result' = [j \in Job |->
                IF j[1] \in Incomplete /\ how[j[1]] = "no_send" THEN "cancel" ELSE result[j]]
          /\ reply' = [p \in Pairs |->
                IF p \notin Incomplete THEN reply[p]
                ELSE IF how[p] \in {"sent", "both"} THEN "asked" ELSE "none"]
    /\ state' = IF comp_ct' = 0 THEN "completion_fn" ELSE "complete"
    /\ error_code' = "ok"
    /\ UNCHANGED <<shape, complete, retry_count>>

OnlyFreed(p, d) == [job EXCEPT ![<<p, d>>] = "free"]

\* An error cancels the other job of the pair, if that is still to come.
Cancelled(p, d) ==
    [job EXCEPT ![<<p, d>>] = "free",
                ![<<p, Other[d]>>] =
                    IF result[<<p, d>>] # "ok" /\ @ = "posted" THEN "ending" ELSE @]

\* msgpairarray_complete: job d of pair p has come back.
Complete(p, d) ==
    /\ state = "complete" /\ job[<<p, d>>] = "completed"
    /\ op_status' = [op_status EXCEPT ![p] = IF @ = "ok" THEN result[<<p, d>>] ELSE @]
    /\ job' = Cancelled(p, d)
    /\ result' = [result EXCEPT
                    ![<<p, d>>] = "ok",
                    ![<<p, Other[d]>>] =
                        IF job'[<<p, Other[d]>>] # job[<<p, Other[d]>>] THEN "cancel" ELSE @]
    /\ comp_ct' = comp_ct - 1
    /\ state' = IF comp_ct = 1 THEN "completion_fn" ELSE state
    /\ UNCHANGED <<shape, complete, retry_count, error_code, reply>>

\* The pairs the first loop of msgpairarray_completion_fn comes to: it leaves at
\* the first response with an error that no completion function takes.
Reached ==
    LET stops == {p \in Incomplete \ shape.comp_fn : op_status[p] = "ok" /\ reply[p] # "ok"}
    IN  {p \in Incomplete : \A q \in stops : p <= q}

\* Those of them whose response is processed, and those marked complete.
Processed == {p \in Reached : op_status[p] = "ok"}
MarkedAll == Reached
MarkedComplete == {p \in Processed : p \in shape.comp_fn \/ reply[p] = "ok"}

StatusProcessed == [p \in Pairs |-> IF p \in Processed THEN reply[p] ELSE op_status[p]]

\* "We only retry msgpairs that are not yet complete."
MayRetry(p) ==
    p \in shape.retry /\ op_status[p] \in BmiError /\ retry_count[p] < RetryLimit

RetriedUncounted(again) == retry_count

Retried(again) ==
    [p \in Pairs |-> IF p \in again THEN retry_count[p] + 1 ELSE retry_count[p]]

\* The error left when nothing is retried: of the pairs given up the first one's,
\* or else of the responses processed the last one's.
ErrorLeft(need_retry, left) ==
    LET bad == {p \in IF need_retry THEN left ELSE Processed : StatusProcessed[p] # "ok"}
    IN  \/ bad = {} /\ error_code' = "ok"
        \/ \E p \in bad : /\ \A q \in bad : IF need_retry THEN p <= q ELSE q <= p
                          /\ error_code' = StatusProcessed[p]

\* msgpairarray_completion_fn: process the responses; if a pair failed, forget
\* the errors found so far and retry what may be retried.
CompletionFn ==
    LET left == Incomplete \ MarkedComplete
        again == {p \in left : MayRetry(p)}
        need_retry == Reached \ Processed # {}
    IN  /\ state = "completion_fn"
        /\ complete' = complete \cup MarkedComplete
        /\ op_status' = StatusProcessed
        /\ \/ /\ need_retry /\ again # {}
              /\ retry_count' = Retried(again)
              /\ comp_ct' = 2 * Cardinality(again)
              /\ \E p \in again :        \* the last one tells whether to wait
                    /\ \A q \in again : q <= p
                    /\ state' = IF op_status[p] = "cancel" THEN "post" ELSE "post_retry"
              /\ error_code' = "ok"
           \/ /\ ~ (need_retry /\ again # {})
              /\ comp_ct' = 0 /\ state' = "done"
              /\ ErrorLeft(need_retry, left)
              /\ UNCHANGED retry_count
        /\ UNCHANGED <<shape, job, result, reply>>

\* msgpairarray_post_retry: the timer before the next attempt.
PostRetry ==
    /\ state = "post_retry" /\ state' = "post"
    /\ UNCHANGED <<shape, comp_ct, complete, retry_count, op_status, error_code, job,
                   result, reply>>

\* msgpairarray_done: the caller goes on.
Done == state = "done" /\ UNCHANGED vars

Machine ==
    \/ Post \/ CompletionFn \/ PostRetry
    \/ \E p \in Pairs, d \in {"recv", "send"} : Complete(p, d)

Next ==
    \/ Machine \/ Done
    \/ \E p \in Pairs : ServerAnswers(p) \/ Received(p) \/ Sent(p)
    \/ \E j \in Job : Fails(j) \/ TimesOut(j) \/ Completes(j)

Spec == Init /\ [][Next]_vars

\* The state machine runs, jobs time out if nothing else ends them, and the job
\* layer completes those that end (ThreadMgr!JobEnds).
FairSpec ==
    /\ Spec /\ WF_vars(Machine)
    /\ \A j \in Job : WF_vars(TimesOut(j)) /\ WF_vars(Completes(j))

-----------------------------------------------------------------------------
\* The types of the machine's fields, of the jobs and of the replies.
TypeOK ==
    /\ shape \in Shapes
    /\ state \in {"post", "complete", "completion_fn", "post_retry", "done"}
    /\ comp_ct \in 0..2 * Cardinality(Pair)
    /\ complete \subseteq Pair
    /\ retry_count \in [Pairs -> 0..RetryLimit]
    /\ op_status \in [Pairs -> Status] /\ error_code \in Status
    /\ job \in [Job -> {"free", "posted", "ending", "completed"}]
    /\ result \in [Job -> Status]
    /\ reply \in [Pairs -> {"none", "asked", "ok", "server"}]

\* "set number of operations that must complete": comp_ct counts the jobs that
\* are out, or about to be posted, so the machine neither goes on with a job out
\* nor waits for one that will never come back.
CountExact ==
    TypeOK /\ comp_ct = IF state \in {"post", "post_retry"} THEN 2 * Cardinality(Incomplete)
              ELSE Cardinality(Outstanding)

\* "we got a receive error, but send is still pending.  Cancel the send" and the
\* reverse: no job of a pair that has failed is left to run until it times out.
PeerCancelled ==
    \A p \in Pair, d \in {"recv", "send"} :
        state = "complete" /\ op_status[p] # "ok" => job[<<p, d>>] # "posted"

\* "Also store some non-zero (failure) value in js_p->error_code if we see one"
\* (msgpairarray_completion_fn): an array is left with success only if all its
\* requests were answered and, unless one was retried, none with an error; and
\* with an error only if one of them failed.
OutcomeTrue ==
    state = "done" =>
        /\ error_code = "ok" =>
              /\ \A p \in Pair : p \in complete /\ reply[p] \in {"ok", "server"}
              /\ \/ \A p \in Pair : op_status[p] = "ok"
                 \/ \E p \in Pair : retry_count[p] > 0
        /\ error_code # "ok" => \E p \in Pair : op_status[p] = error_code

\* The machine returns to its caller.
Returns == state # "done" ~> state = "done"

\* It uses its jobs as the job layer requires: it posts none that is still out.
Promise == INSTANCE BmiJob
UsesJobs == Promise!Spec
=============================================================================
