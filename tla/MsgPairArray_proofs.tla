------------------------ MODULE MsgPairArray_proofs -------------------------
(***************************************************************************)
(* Proofs about the array of message pairs.  The invariant IndInv: a job   *)
(* is out only while the machine waits, for a pair not yet complete; the   *)
(* pairs posted again are all that are left; and what is taken for an      *)
(* answer is one.                                                          *)
(***************************************************************************)
EXTENDS MsgPairArray, TLAPS

\* The arrays of which the theorems speak: nothing is retried, or all of it is, and
\* then each pair has a completion function or there is only one pair.  Of several
\* pairs with RETRY and without completion functions (sys-flush.sm, sys-truncate.sm)
\* CountExact is false: the pairs that are posted again are not all counted.
RetriedTogether ==
    \A s \in Shapes : \/ s.retry = {}
                      \/ s.retry = s.pairs /\ (s.comp_fn = s.pairs \/ s.pairs = {1})

Dir == {"recv", "send"}
Arrived == {"ok", "server"}

\* The types, but for comp_ct; a job has no other errors than those of BMI.
Types ==
    /\ shape \in Shapes
    /\ state \in {"post", "complete", "completion_fn", "post_retry", "done"}
    /\ complete \subseteq Pair
    /\ retry_count \in [Pairs -> 0..RetryLimit]
    /\ op_status \in [Pairs -> Status] /\ error_code \in Status
    /\ job \in [Job -> {"free", "posted", "ending", "completed"}]
    /\ result \in [Job -> {"ok"} \cup BmiError]
    /\ reply \in [Pairs -> {"none", "asked"} \cup Arrived]

\* Jobs are out only while the machine waits for them, and comp_ct counts them.
Counted ==
    /\ \A j \in Outstanding : state = "complete" /\ j[1] \in Incomplete
    /\ comp_ct = IF state \in {"post", "post_retry"} THEN 2 * Cardinality(Incomplete)
                 ELSE Cardinality(Outstanding)

\* The pairs that are left have been retried equally often, at least once if
\* another pair is complete, and have no other errors than those of BMI.
Rounds ==
    state # "done" =>
        /\ \A p, q \in Incomplete : shape.retry = Pair => retry_count[p] = retry_count[q]
        /\ complete # {} => \E p \in Pair : retry_count[p] > 0
        /\ state \in {"complete", "completion_fn"} =>
              \A p \in Incomplete : op_status[p] \in {"ok"} \cup BmiError

\* A receive that went well has received an answer.
Answers ==
    /\ \A p \in complete : reply[p] \in Arrived
    /\ \A p \in Incomplete :
         /\ job[<<p, "recv">>] \in {"ending", "completed"} /\ result[<<p, "recv">>] = "ok"
               => reply[p] \in Arrived
         /\ state \in {"complete", "completion_fn"} /\ op_status[p] = "ok"
               /\ job[<<p, "recv">>] = "free" => reply[p] \in Arrived

IndInv == Types /\ Counted /\ Rounds /\ Answers /\ PeerCancelled /\ OutcomeTrue

\* What is counted: the pairs of an array, their jobs, and those that are posted.
PostedJobs(A, how) == {j \in A \X Dir : JobPosted(j, how[j[1]]) # "free"}
CountingLaws ==
    \A s \in Shapes :
        /\ Cardinality(s.pairs) \in Nat
        /\ \A A \in SUBSET s.pairs : Cardinality(A) \in 0..Cardinality(s.pairs)
        /\ \A J \in SUBSET (s.pairs \X Dir) :
             /\ Cardinality(J) \in 0..2 * Cardinality(s.pairs)
             /\ Cardinality(J) = 0 <=> J = {}
             /\ \A j \in J : Cardinality(J \ {j}) = Cardinality(J) - 1
PostedLaw ==
    \A s \in Shapes : \A A \in SUBSET s.pairs : \A how \in [A -> Posting] :
        Cardinality(PostedJobs(A, how)) =
            2 * Cardinality(A) - (2 * Cardinality({p \in A : how[p] = "no_recv"})
                + Cardinality({p \in A : how[p] \in {"no_send", "sent"}}))
LeastLaw == \A S \in SUBSET Nat : S # {} => \E x \in S : \A y \in S : x <= y

\* A pair and its jobs.
LEMMA PairsJobs ==
    ASSUME Types
    PROVE  /\ Pair \subseteq Pairs /\ Pair \subseteq Nat /\ Incomplete \subseteq Pair
           /\ \A p \in Pairs, d \in Dir : <<p, d>> \in Job /\ <<p, d>>[1] = p
           /\ \A j \in Job : j = <<j[1], j[2]>> /\ j[1] \in Pairs /\ j[2] \in Dir
<1>1. Pair \subseteq Pairs
  BY Zenon DEF Types, Pair, Pairs
<1>2. Pair \subseteq Nat
  BY Zenon, ShapeAssumption DEF Types, Pair
<1>3. Incomplete \subseteq Pair
  BY Zenon DEF Incomplete
<1> QED
  BY <1>1, <1>2, <1>3 DEF Job, Dir

\* The machine starts with nothing posted.
LEMMA InitInd == Init => IndInv
<1> SUFFICES ASSUME Init PROVE IndInv
  BY Zenon
<1>1. Types
  BY LimitAssumption DEF Init, Types, Status, BmiError, Arrived
<1>2. Outstanding = {} /\ Incomplete = Pair
  BY Zenon DEF Init, Outstanding, Incomplete
<1>3. Counted
  BY Zenon, <1>2 DEF Init, Counted, Pair
<1>4. Rounds /\ Answers
  BY Zenon, <1>1, <1>2, PairsJobs DEF Init, Rounds, Answers, Dir, Types
<1> QED
  BY Zenon, <1>1, <1>3, <1>4 DEF IndInv, Init, PeerCancelled, OutcomeTrue

\* A request is answered.
LEMMA AnswersInd == ASSUME IndInv, NEW p \in Pairs, ServerAnswers(p) PROVE IndInv'
<1>1. /\ UNCHANGED <<shape, state, comp_ct, complete, retry_count, op_status, error_code,
                     job, result, Pair, Incomplete, Outstanding>>
      /\ reply[p] = "asked" /\ reply' \in [Pairs -> {"none", "asked"} \cup Arrived]
      /\ \A q \in Pairs : reply[q] \in Arrived => reply'[q] \in Arrived
  BY Zenon DEF ServerAnswers, IndInv, Types, Arrived, Pair, Incomplete, Outstanding
<1>2. Types' /\ Counted' /\ Rounds' /\ PeerCancelled'
  BY Zenon, <1>1 DEF IndInv, Types, Counted, Rounds, PeerCancelled
<1>3. Answers'
  BY Zenon, <1>1, PairsJobs DEF IndInv, Answers, Types
<1>4. OutcomeTrue'
  BY Zenon, <1>1, PairsJobs DEF IndInv, OutcomeTrue, Arrived
<1> QED
  BY Zenon, <1>2, <1>3, <1>4 DEF IndInv

\* BMI is done with a job; a receive that went well has received an answer.
LEMMA EndInd ==
    ASSUME IndInv, NEW j \in Job, NEW r \in {"ok"} \cup BmiError, End(j, r),
           j[2] = "recv" /\ r = "ok" => reply[j[1]] \in Arrived
    PROVE  IndInv'
<1>1. /\ UNCHANGED <<shape, state, comp_ct, complete, retry_count, op_status, error_code,
                     reply, Pair, Incomplete>>
      /\ job[j] = "posted"
      /\ job' = [job EXCEPT ![j] = "ending"] /\ result' = [result EXCEPT ![j] = r]
  BY Zenon DEF End, Pair, Incomplete
<1>2. /\ job' \in [Job -> {"free", "posted", "ending", "completed"}]
      /\ result' \in [Job -> {"ok"} \cup BmiError]
      /\ \A i \in Job : i # j => job'[i] = job[i] /\ result'[i] = result[i]
      /\ job'[j] = "ending" /\ result'[j] = r
  BY Zenon, <1>1 DEF IndInv, Types
<1>3. Outstanding' = Outstanding
  BY Zenon, <1>1, <1>2 DEF Outstanding
<1>4. Types' /\ Counted' /\ Rounds' /\ OutcomeTrue'
  BY <1>1, <1>2, <1>3 DEF IndInv, Types, Counted, Rounds, OutcomeTrue
<1>5. Answers'
  <2>1. \A p \in complete : reply'[p] \in Arrived
    BY Zenon, <1>1 DEF IndInv, Answers
  <2>2. ASSUME NEW p \in Incomplete,
               job'[<<p, "recv">>] \in {"ending", "completed"}, result'[<<p, "recv">>] = "ok"
        PROVE  reply[p] \in Arrived
    <3>1. <<p, "recv">> \in Job /\ <<p, "recv">>[1] = p /\ <<p, "recv">>[2] = "recv"
      BY Zenon, PairsJobs DEF IndInv, Dir
    <3>2. CASE j = <<p, "recv">>
      BY Zenon, <1>2, <2>2, <3>1, <3>2
    <3>3. CASE j # <<p, "recv">>
      BY Zenon, <1>2, <2>2, <3>1, <3>3 DEF IndInv, Answers
    <3> QED
      BY Zenon, <3>2, <3>3
  <2>3. ASSUME NEW p \in Incomplete, state \in {"complete", "completion_fn"},
               op_status[p] = "ok", job'[<<p, "recv">>] = "free"
        PROVE  reply[p] \in Arrived
    <3>1. <<p, "recv">> \in Job
      BY Zenon, PairsJobs DEF IndInv, Dir
    <3>2. job[<<p, "recv">>] = "free"
      BY Zenon, <1>2, <2>3, <3>1
    <3> QED
      BY Zenon, <2>3, <3>2 DEF IndInv, Answers
  <2> QED
    BY Zenon, <1>1, <2>1, <2>2, <2>3 DEF Answers
<1>6. PeerCancelled'
  <2>1. \A p \in Pair, d \in Dir : job'[<<p, d>>] = "posted" => job[<<p, d>>] = "posted"
    BY Zenon, <1>2, PairsJobs DEF IndInv
  <2> QED
    BY Zenon, <1>1, <2>1 DEF IndInv, PeerCancelled, Dir
<1> QED
  BY Zenon, <1>4, <1>5, <1>6 DEF IndInv

\* The job layer hands a job over.
LEMMA CompletesInd == ASSUME IndInv, NEW j \in Job, Completes(j) PROVE IndInv'
<1>1. /\ UNCHANGED <<shape, state, comp_ct, complete, retry_count, op_status, error_code,
                     result, reply, Pair, Incomplete>>
      /\ job[j] = "ending" /\ job' = [job EXCEPT ![j] = "completed"]
  BY Zenon DEF Completes, Pair, Incomplete
<1>2. /\ job' \in [Job -> {"free", "posted", "ending", "completed"}]
      /\ \A i \in Job : i # j => job'[i] = job[i]
      /\ job'[j] = "completed"
  BY Zenon, <1>1 DEF IndInv, Types
<1>3. Outstanding' = Outstanding
  BY Zenon, <1>1, <1>2 DEF Outstanding
<1>4. Types' /\ Counted' /\ Rounds' /\ OutcomeTrue'
  BY <1>1, <1>2, <1>3 DEF IndInv, Types, Counted, Rounds, OutcomeTrue
<1>5. ASSUME NEW p \in Incomplete, NEW d \in Dir
      PROVE  /\ job'[<<p, d>>] \in {"ending", "completed"}
                  <=> job[<<p, d>>] \in {"ending", "completed"}
             /\ job'[<<p, d>>] = "free" <=> job[<<p, d>>] = "free"
  <2>1. <<p, d>> \in Job
    BY Zenon, PairsJobs DEF IndInv
  <2> QED
    BY Zenon, <1>1, <1>2, <2>1
<1>6. Answers'
  BY Zenon, <1>1, <1>5 DEF IndInv, Answers, Dir
<1>7. PeerCancelled'
  <2>1. \A p \in Pair, d \in Dir : job'[<<p, d>>] = "posted" => job[<<p, d>>] = "posted"
    BY Zenon, <1>2, PairsJobs DEF IndInv
  <2> QED
    BY Zenon, <1>1, <2>1 DEF IndInv, PeerCancelled, Dir
<1> QED
  BY Zenon, <1>4, <1>6, <1>7 DEF IndInv

\* The pairs that are left are posted: what comp_ct keeps is what is out.
LEMMA PostInd == ASSUME CountingLaws, PostedLaw, IndInv, Post PROVE IndInv'
<1>1. PICK how \in [Incomplete -> Posting] :
        /\ comp_ct' = comp_ct - NotWaited(how)
        /\ job' = [j \in Job |-> IF j[1] \in Incomplete THEN JobPosted(j, how[j[1]])
                                 ELSE job[j]]
        /\ op_status' = [p \in Pairs |->
              IF p \notin Incomplete THEN op_status[p]
              ELSE IF how[p] \in {"no_recv", "no_send"} THEN "bmi" ELSE "ok"]
        /\ result' = [j \in Job |->
              IF j[1] \in Incomplete /\ how[j[1]] = "no_send" THEN "cancel" ELSE result[j]]
        /\ reply' = [p \in Pairs |->
              IF p \notin Incomplete THEN reply[p]
              ELSE IF how[p] \in {"sent", "both"} THEN "asked" ELSE "none"]
  BY Zenon DEF Post
<1>2. /\ state = "post" /\ state' = IF comp_ct' = 0 THEN "completion_fn" ELSE "complete"
      /\ error_code' = "ok"
      /\ UNCHANGED <<shape, complete, retry_count, Pair, Incomplete>>
  BY Zenon DEF Post, Pair, Incomplete
<1>3. \A j \in Job : job[j] = "free"
  BY Zenon, <1>2 DEF IndInv, Counted, Outstanding
<1>4. Types'
  <2>1. /\ job' \in [Job -> {"free", "posted", "ending", "completed"}]
        /\ result' \in [Job -> {"ok"} \cup BmiError]
    BY Zenon, <1>1 DEF IndInv, Types, JobPosted, BmiError
  <2>2. /\ op_status' \in [Pairs -> Status]
        /\ reply' \in [Pairs -> {"none", "asked"} \cup Arrived]
    BY Zenon, <1>1 DEF IndInv, Types, Status, BmiError
  <2> QED
    BY Zenon, <1>2, <2>1, <2>2 DEF IndInv, Types, Status
<1>5. Outstanding' = PostedJobs(Incomplete, how)
  <2>1. Incomplete \subseteq Pairs
    BY Zenon, PairsJobs DEF IndInv
  <2> QED
    BY Zenon, <1>1, <1>3, <2>1 DEF Outstanding, PostedJobs, Job, Dir
<1>6. Counted'
  <2>1. Incomplete \in SUBSET shape.pairs /\ shape \in Shapes
    BY Zenon DEF IndInv, Types, Incomplete, Pair
  <2>2. Cardinality(PostedJobs(Incomplete, how)) = 2 * Cardinality(Incomplete) - NotWaited(how)
    BY Zenon, <2>1 DEF PostedLaw, NotWaited
  <2>3. comp_ct' = Cardinality(Outstanding')
    BY Zenon, <1>1, <1>2, <1>5, <2>2 DEF IndInv, Counted
  <2>4. Outstanding' \in SUBSET (shape.pairs \X Dir)
    BY Zenon, <1>5, <2>1 DEF PostedJobs
  <2>5. comp_ct' = 0 => Outstanding' = {}
    BY Zenon, <2>1, <2>3, <2>4 DEF CountingLaws
  <2>6. \A j \in Outstanding' : j[1] \in Incomplete
    BY Zenon, <1>5 DEF PostedJobs
  <2> QED
    BY Zenon, <1>2, <2>3, <2>5, <2>6 DEF Counted
<1>7. Rounds'
  <2>1. \A p \in Incomplete : op_status'[p] \in {"ok"} \cup BmiError
    BY Zenon, <1>1, PairsJobs DEF IndInv, BmiError
  <2> QED
    BY Zenon, <1>2, <2>1 DEF IndInv, Rounds
<1>8. Answers'
  <2>1. \A p \in complete : reply'[p] \in Arrived
    BY Zenon, <1>1, PairsJobs DEF IndInv, Answers, Incomplete, Types
  <2>2. ASSUME NEW p \in Incomplete
        PROVE  /\ job'[<<p, "recv">>] = JobPosted(<<p, "recv">>, how[p])
               /\ how[p] = "no_send" => result'[<<p, "recv">>] = "cancel"
               /\ op_status'[p] = "ok" => how[p] \in {"sent", "both"}
    <3>1. <<p, "recv">> \in Job /\ <<p, "recv">>[1] = p /\ p \in Pairs
      BY Zenon, PairsJobs DEF IndInv, Dir
    <3> QED
      BY Zenon, <1>1, <3>1 DEF Posting
  <2>3. ASSUME NEW p \in Incomplete
        PROVE  /\ JobPosted(<<p, "recv">>, how[p]) \in {"ending", "completed"} => how[p] = "no_send"
               /\ JobPosted(<<p, "recv">>, how[p]) = "free" => how[p] = "no_recv"
    BY Zenon DEF JobPosted, Posting
  <2> QED
    BY Zenon, <1>2, <2>1, <2>2, <2>3 DEF Answers
<1>9. PeerCancelled'
  <2> SUFFICES ASSUME NEW p \in Pair, NEW d \in Dir, op_status'[p] # "ok"
               PROVE  job'[<<p, d>>] # "posted"
    BY Zenon, <1>2 DEF PeerCancelled, Dir
  <2>1. <<p, d>> \in Job /\ <<p, d>>[1] = p /\ <<p, d>>[2] = d /\ p \in Pairs
    BY Zenon, PairsJobs DEF IndInv
  <2>2. CASE p \notin Incomplete
    BY Zenon, <1>1, <1>3, <2>1, <2>2
  <2>3. CASE p \in Incomplete
    <3>1. how[p] \in {"no_recv", "no_send"}
      BY Zenon, <1>1, <2>1, <2>3
    <3> QED
      BY Zenon, <1>1, <2>1, <2>3, <3>1 DEF JobPosted, Dir
  <2> QED
    BY Zenon, <2>2, <2>3
<1> QED
  BY Zenon, <1>2, <1>4, <1>6, <1>7, <1>8, <1>9 DEF IndInv, OutcomeTrue

\* A job has come back: one less is out, and if it failed its peer is cancelled.
LEMMA CompleteInd ==
    ASSUME CountingLaws, IndInv, NEW p \in Pairs, NEW d \in Dir, Complete(p, d) PROVE IndInv'
<1> DEFINE j == <<p, d>>
           i == <<p, Other[d]>>
<1>1. /\ state = "complete" /\ job[j] = "completed" /\ comp_ct' = comp_ct - 1
      /\ op_status' = [op_status EXCEPT ![p] = IF @ = "ok" THEN result[j] ELSE @]
      /\ job' = [job EXCEPT ![j] = "free",
                            ![i] = IF result[j] # "ok" /\ @ = "posted" THEN "ending" ELSE @]
      /\ result' = [result EXCEPT ![j] = "ok",
                                  ![i] = IF job'[i] # job[i] THEN "cancel" ELSE @]
      /\ state' = IF comp_ct = 1 THEN "completion_fn" ELSE state
      /\ UNCHANGED <<shape, complete, retry_count, error_code, reply, Pair, Incomplete>>
  BY Zenon DEF Complete, Cancelled, Pair, Incomplete
<1>2. i \in Job /\ j \in Job /\ i # j /\ i[1] = p /\ j[1] = p /\ Other[d] \in Dir /\ Other[d] # d
  BY DEF Job, Dir, Other
<1>3. p \in Incomplete /\ j \in Outstanding
  BY Zenon, <1>1, <1>2 DEF IndInv, Counted, Outstanding
<1> HIDE DEF i, j
<1>4. /\ job'[j] = "free"
      /\ job'[i] = IF result[j] # "ok" /\ job[i] = "posted" THEN "ending" ELSE job[i]
      /\ result'[j] = "ok"
      /\ result'[i] = IF job'[i] # job[i] THEN "cancel" ELSE result[i]
      /\ \A k \in Job : k # i /\ k # j => job'[k] = job[k] /\ result'[k] = result[k]
      /\ op_status'[p] = IF op_status[p] = "ok" THEN result[j] ELSE op_status[p]
      /\ \A q \in Pairs : q # p => op_status'[q] = op_status[q]
  BY Zenon, <1>1, <1>2 DEF IndInv, Types
<1>5. Types'
  <2>1. result[j] \in {"ok"} \cup BmiError
    BY Zenon, <1>2 DEF IndInv, Types
  <2>2. op_status' \in [Pairs -> Status]
    BY Zenon, <1>1, <2>1 DEF IndInv, Types, Status
  <2>3. job' \in [Job -> {"free", "posted", "ending", "completed"}]
    BY Zenon, <1>1, <1>2 DEF IndInv, Types
  <2>4. result' \in [Job -> {"ok"} \cup BmiError]
    BY Zenon, <1>1, <1>2 DEF IndInv, Types, BmiError
  <2> QED
    BY Zenon, <1>1, <2>2, <2>3, <2>4 DEF IndInv, Types
<1>6. Outstanding' = Outstanding \ {j}
  BY Zenon, <1>2, <1>4 DEF Outstanding
<1>7. Counted'
  <2>1. Outstanding \in SUBSET (shape.pairs \X Dir) /\ shape \in Shapes
    BY Zenon DEF IndInv, Types, Counted, Outstanding, Incomplete, Pair, Job, Dir
  <2>2. /\ Cardinality(Outstanding \ {j}) = Cardinality(Outstanding) - 1
        /\ Cardinality(Outstanding \ {j}) = 0 <=> Outstanding \ {j} = {}
        /\ Cardinality(Outstanding) \in Int
    <3>1. Outstanding \ {j} \in SUBSET (shape.pairs \X Dir)
      BY Zenon, <2>1
    <3>2. /\ Cardinality(Outstanding \ {j}) = Cardinality(Outstanding) - 1
          /\ Cardinality(Outstanding \ {j}) = 0 <=> Outstanding \ {j} = {}
          /\ Cardinality(Outstanding) \in 0..2 * Cardinality(shape.pairs)
      BY Zenon, <1>3, <2>1, <3>1 DEF CountingLaws
    <3> QED
      BY <3>2
  <2>3. comp_ct = Cardinality(Outstanding)
    BY Zenon, <1>1 DEF IndInv, Counted
  <2> QED
    BY <1>1, <1>6, <2>2, <2>3 DEF IndInv, Counted
<1>8. Rounds'
  <2>1. \A q \in Incomplete : op_status'[q] \in {"ok"} \cup BmiError
    BY <1>1, <1>2, <1>4, PairsJobs DEF IndInv, Rounds, Types
  <2> QED
    BY Zenon, <1>1, <2>1 DEF IndInv, Rounds
<1>9. Answers'
  <2> SUFFICES ASSUME NEW q \in Incomplete
               PROVE  /\ job'[<<q, "recv">>] \in {"ending", "completed"}
                            /\ result'[<<q, "recv">>] = "ok" => reply[q] \in Arrived
                      /\ op_status'[q] = "ok" /\ job'[<<q, "recv">>] = "free"
                            => reply[q] \in Arrived
    BY Zenon, <1>1 DEF IndInv, Answers
  <2>1. <<q, "recv">> \in Job /\ <<q, "recv">>[1] = q /\ q \in Pairs
    BY Zenon, PairsJobs DEF IndInv, Dir
  <2>2. /\ job[<<q, "recv">>] \in {"ending", "completed"}
             /\ result[<<q, "recv">>] = "ok" => reply[q] \in Arrived
        /\ op_status[q] = "ok" /\ job[<<q, "recv">>] = "free" => reply[q] \in Arrived
    BY Zenon, <1>1 DEF IndInv, Answers
  <2>3. CASE <<q, "recv">> = j
    <3>1. q = p
      BY Zenon, <1>2, <2>1, <2>3
    <3> QED
      BY <1>1, <1>4, <2>2, <2>3, <3>1
  <2>4. CASE <<q, "recv">> = i
    <3>1. q = p
      BY Zenon, <1>2, <2>1, <2>4
    <3> QED
      BY <1>1, <1>4, <2>2, <2>4, <3>1
  <2>5. CASE <<q, "recv">> # i /\ <<q, "recv">> # j
    <3>1. q # p
      <4>1. "recv" = d \/ "recv" = Other[d]
        BY DEF Dir, Other
      <4> QED
        BY Zenon, <2>5, <4>1 DEF i, j
    <3> QED
      BY Zenon, <1>4, <2>1, <2>2, <2>5, <3>1
  <2> QED
    BY Zenon, <2>3, <2>4, <2>5
<1>10. PeerCancelled'
  <2> SUFFICES ASSUME NEW q \in Pair, NEW e \in Dir, op_status'[q] # "ok"
               PROVE  job'[<<q, e>>] # "posted"
    BY Zenon, <1>1 DEF PeerCancelled, Dir
  <2>1. <<q, e>> \in Job /\ q \in Pairs
    BY Zenon, PairsJobs DEF IndInv
  <2>2. op_status[q] # "ok" => job[<<q, e>>] # "posted"
    BY Zenon, <1>1 DEF IndInv, PeerCancelled, Dir
  <2>3. CASE q = p
    <3>1. e = d \/ e = Other[d]
      BY DEF Dir, Other
    <3> QED
      BY Zenon, <1>4, <2>2, <2>3, <3>1 DEF i, j
  <2>4. CASE q # p
    <3>1. <<q, e>> # i /\ <<q, e>> # j
      BY Zenon, <2>4 DEF i, j
    <3> QED
      BY Zenon, <1>4, <2>1, <2>2, <2>4, <3>1
  <2> QED
    BY Zenon, <2>3, <2>4
<1>11. OutcomeTrue'
  BY Zenon, <1>1 DEF OutcomeTrue
<1> QED
  BY Zenon, <1>5, <1>7, <1>8, <1>9, <1>10, <1>11 DEF IndInv

\* In the arrays of RetriedTogether, one pair is retried only together with all that are left.
LEMMA AllRetried ==
    ASSUME RetriedTogether, IndInv, state = "completion_fn",
           NEW p \in Incomplete \ MarkedComplete, MayRetry(p),
           NEW q \in Incomplete \ MarkedComplete
    PROVE  MayRetry(q)
<1>1. /\ shape.retry = shape.pairs /\ (shape.comp_fn = shape.pairs \/ shape.pairs = {1})
      /\ p \in Pair /\ q \in Pair
  BY Zenon DEF RetriedTogether, IndInv, Types, MayRetry, Incomplete, Pair
<1>2. CASE shape.pairs = {1}
  BY Zenon, <1>1, <1>2 DEF Pair
<1>3. CASE shape.comp_fn = shape.pairs
  <2>1. Reached = Incomplete
    BY Zenon, <1>3 DEF Reached, Incomplete, Pair
  <2>2. op_status[q] # "ok"
    BY Zenon, <1>1, <1>3, <2>1 DEF MarkedComplete, Processed, Pair
  <2>3. op_status[q] \in BmiError /\ retry_count[q] = retry_count[p]
    BY Zenon, <1>1, <2>2 DEF IndInv, Rounds, Pair
  <2> QED
    BY Zenon, <1>1, <2>3 DEF MayRetry, Pair
<1> QED
  BY Zenon, <1>1, <1>2, <1>3

\* The error that is left is that of a pair, and none is left only if all pairs
\* were answered and those of the last round without an error.
LEMMA ErrorTrue ==
    ASSUME LeastLaw, IndInv, state = "completion_fn",
           \A p \in Processed : reply[p] \in Arrived,
           ErrorLeft(Reached \ Processed # {}, Incomplete \ MarkedComplete)
    PROVE  /\ error_code' = "ok" => /\ Incomplete \subseteq MarkedComplete
                                    /\ \A p \in Incomplete : StatusProcessed[p] = "ok"
           /\ error_code' # "ok" => \E p \in Incomplete : StatusProcessed[p] = error_code'
           /\ error_code' \in Status
<1> DEFINE need == Reached \ Processed # {}
           left == Incomplete \ MarkedComplete
           bad == {p \in IF need THEN left ELSE Processed : StatusProcessed[p] # "ok"}
<1>1. Processed \subseteq Reached /\ Reached \subseteq Incomplete /\ Incomplete \subseteq Pairs
  BY Zenon, PairsJobs DEF Processed, Reached, IndInv
<1>2. \A p \in Pairs : StatusProcessed[p] = IF p \in Processed THEN reply[p] ELSE op_status[p]
  BY Zenon DEF StatusProcessed
<1>3. \/ bad = {} /\ error_code' = "ok"
      \/ \E p \in bad : error_code' = StatusProcessed[p]
  BY Zenon DEF ErrorLeft
<1>4. bad \subseteq Incomplete
  BY Zenon, <1>1
<1>5. ASSUME bad = {}
      PROVE  Incomplete \subseteq MarkedComplete /\ \A p \in Incomplete : StatusProcessed[p] = "ok"
  <2>1. Reached = Processed
    <3> SUFFICES ASSUME NEW p \in Reached \ Processed PROVE FALSE
      BY Zenon, <1>1
    <3>1. op_status[p] # "ok" /\ p \notin MarkedComplete /\ p \in Incomplete /\ p \in Pairs
      BY Zenon, <1>1 DEF Processed, MarkedComplete
    <3>2. StatusProcessed[p] # "ok"
      BY Zenon, <1>2, <3>1
    <3>3. need /\ p \in left
      BY Zenon, <3>1
    <3> HIDE DEF need, left
    <3> QED
      BY Zenon, <1>5, <3>2, <3>3
  <2>2. \A p \in Processed : reply[p] = "ok"
    <3>1. ~need
      BY Zenon, <2>1
    <3> HIDE DEF need
    <3> QED
      BY Zenon, <1>1, <1>2, <1>5, <3>1
  <2> DEFINE stops == {p \in Incomplete \ shape.comp_fn : op_status[p] = "ok" /\ reply[p] # "ok"}
  <2>3. stops = {}
    <3> SUFFICES ASSUME stops # {} PROVE FALSE
      BY Zenon
    <3>1. stops \in SUBSET Nat
      BY Zenon, PairsJobs DEF IndInv
    <3>2. PICK p \in stops : \A q \in stops : p <= q
      BY Zenon, <3>1 DEF LeastLaw
    <3>3. p \in Reached
      BY Zenon, <3>2 DEF Reached
    <3> QED
      BY Zenon, <2>2, <3>2, <3>3 DEF Processed
  <2>4. Reached = Incomplete
    BY Zenon, <2>3 DEF Reached
  <2> QED
    BY Zenon, <1>1, <1>2, <2>1, <2>2, <2>4 DEF MarkedComplete
<1>6. \A p \in Incomplete : StatusProcessed[p] \in Status
  BY Zenon, <1>1, <1>2 DEF IndInv, Types, Arrived, Status
<1>7. CASE bad = {} /\ error_code' = "ok"
  <2> HIDE DEF bad
  <2> QED
    BY Zenon, <1>5, <1>7 DEF Status
<1>8. CASE \E p \in bad : error_code' = StatusProcessed[p]
  <2>1. PICK p \in bad : error_code' = StatusProcessed[p]
    BY Zenon, <1>8
  <2>2. p \in Incomplete /\ StatusProcessed[p] # "ok"
    BY Zenon, <1>4
  <2> HIDE DEF bad
  <2> QED
    BY Zenon, <1>6, <2>1, <2>2
<1> QED
  BY Zenon, <1>3, <1>7, <1>8

\* The answers are processed, and what failed is posted again or given up.
LEMMA CompletionFnInd ==
    ASSUME RetriedTogether, CountingLaws, LeastLaw, IndInv, CompletionFn PROVE IndInv'
<1> DEFINE left == Incomplete \ MarkedComplete
           again == {p \in left : MayRetry(p)}
           need == Reached \ Processed # {}
<1>1. /\ state = "completion_fn" /\ complete' = complete \cup MarkedComplete
      /\ op_status' = StatusProcessed
      /\ UNCHANGED <<shape, job, result, reply, Pair, Outstanding>>
  BY Zenon DEF CompletionFn, Pair, Outstanding
<1>2. \/ /\ again # {} /\ retry_count' = Retried(again) /\ comp_ct' = 2 * Cardinality(again)
         /\ state' \in {"post", "post_retry"} /\ error_code' = "ok"
      \/ /\ comp_ct' = 0 /\ state' = "done" /\ retry_count' = retry_count
         /\ ErrorLeft(need, left)
  BY Zenon DEF CompletionFn
<1>3. Outstanding = {} /\ \A j \in Job : job[j] = "free"
  BY Zenon, <1>1 DEF IndInv, Counted, Outstanding
<1>4. \A p \in Processed : reply[p] \in Arrived
  <2> SUFFICES ASSUME NEW p \in Processed PROVE reply[p] \in Arrived
    BY Zenon
  <2>1. p \in Incomplete /\ op_status[p] = "ok"
    BY Zenon DEF Processed, Reached
  <2>2. job[<<p, "recv">>] = "free"
    BY Zenon, <1>3, <2>1, PairsJobs DEF IndInv, Dir
  <2> QED
    BY Zenon, <1>1, <2>1, <2>2 DEF IndInv, Answers
<1>5. /\ MarkedComplete \subseteq Processed /\ MarkedComplete \subseteq Incomplete
      /\ Incomplete \subseteq Pair /\ Pair \subseteq Pairs
  BY Zenon, PairsJobs DEF MarkedComplete, Processed, Reached, IndInv
<1>6. complete' \subseteq Pair /\ Incomplete' = left
  BY Zenon, <1>1, <1>5 DEF Incomplete, IndInv, Types
<1>7. op_status' \in [Pairs -> Status]
  BY Zenon, <1>1, <1>4 DEF StatusProcessed, IndInv, Types, Arrived, Status
<1>8. Answers' /\ PeerCancelled'
  <2>1. state' \notin {"complete", "completion_fn"}
    BY Zenon, <1>2
  <2>2. \A p \in complete' : reply'[p] \in Arrived
    BY Zenon, <1>1, <1>4, <1>5 DEF IndInv, Answers
  <2>3. \A p \in Incomplete' : job'[<<p, "recv">>] = "free"
    BY Zenon, <1>1, <1>3, <1>5, <1>6, PairsJobs DEF IndInv, Dir
  <2> QED
    BY Zenon, <2>1, <2>2, <2>3 DEF Answers, PeerCancelled
<1> HIDE DEF left, need
<1>9. CASE /\ again # {} /\ retry_count' = Retried(again) /\ comp_ct' = 2 * Cardinality(again)
           /\ state' \in {"post", "post_retry"} /\ error_code' = "ok"
  <2>1. again = left
    BY Zenon, <1>1, <1>9, AllRetried DEF left
  <2>2. \A p \in left : retry_count[p] < RetryLimit /\ p \in Pairs
    BY Zenon, <1>5, <2>1 DEF MayRetry, left
  <2> HIDE DEF again
  <2>3. /\ retry_count' \in [Pairs -> 0..RetryLimit]
        /\ \A p \in left : retry_count'[p] = retry_count[p] + 1 /\ retry_count[p] \in Nat
    BY <1>9, <2>1, <2>2, LimitAssumption DEF Retried, IndInv, Types
  <2>4. Types'
    BY Zenon, <1>1, <1>6, <1>7, <1>9, <2>3 DEF IndInv, Types, Status
  <2>5. Counted'
    BY Zenon, <1>1, <1>3, <1>6, <1>9, <2>1 DEF Counted
  <2>6. Rounds'
    <3>1. \A p, q \in left : shape.retry = Pair => retry_count'[p] = retry_count'[q]
      BY Zenon, <1>1, <2>3 DEF IndInv, Rounds, left
    <3>2. \E p \in Pair : retry_count'[p] > 0
      <4>1. PICK p \in left : TRUE
        BY Zenon, <1>9, <2>1 DEF again
      <4>2. p \in Pair
        BY Zenon, <1>5, <4>1 DEF left
      <4> QED
        BY <2>3, <4>1, <4>2
    <3> QED
      BY Zenon, <1>1, <1>6, <1>9, <3>1, <3>2 DEF Rounds
  <2>7. OutcomeTrue'
    BY Zenon, <1>9 DEF OutcomeTrue
  <2> QED
    BY Zenon, <1>8, <2>4, <2>5, <2>6, <2>7 DEF IndInv
<1>10. CASE /\ comp_ct' = 0 /\ state' = "done" /\ retry_count' = retry_count
            /\ ErrorLeft(need, left)
  <2>1. /\ error_code' = "ok" => /\ Incomplete \subseteq MarkedComplete
                                 /\ \A p \in Incomplete : op_status'[p] = "ok"
        /\ error_code' # "ok" => \E p \in Incomplete : op_status'[p] = error_code'
        /\ error_code' \in Status
    BY Zenon, <1>1, <1>4, <1>10, ErrorTrue DEF need, left
  <2>2. Types'
    BY Zenon, <1>1, <1>6, <1>7, <1>10, <2>1 DEF IndInv, Types
  <2>3. Counted'
    <3>1. {} \in SUBSET (shape.pairs \X Dir) /\ shape \in Shapes
      BY Zenon DEF IndInv, Types
    <3>2. Cardinality({}) = 0
      BY Zenon, <3>1 DEF CountingLaws
    <3> QED
      BY Zenon, <1>1, <1>3, <1>10, <3>2 DEF Counted
  <2>4. Rounds'
    BY Zenon, <1>10 DEF Rounds
  <2>5. OutcomeTrue'
    <3>1. ASSUME error_code' = "ok"
          PROVE  /\ \A p \in Pair : p \in complete' /\ reply'[p] \in Arrived
                 /\ \/ \A p \in Pair : op_status'[p] = "ok"
                    \/ \E p \in Pair : retry_count'[p] > 0
      <4>1. \A p \in Pair : p \in complete'
        BY Zenon, <1>1, <2>1, <3>1 DEF Incomplete
      <4>2. \A p \in Pair : reply'[p] \in Arrived
        BY Zenon, <1>8, <4>1 DEF Answers
      <4>3. CASE complete = {}
        BY Zenon, <2>1, <3>1, <4>1, <4>2, <4>3 DEF Incomplete
      <4>4. CASE complete # {}
        BY Zenon, <1>1, <1>10, <4>1, <4>2, <4>4 DEF IndInv, Rounds
      <4> QED
        BY Zenon, <4>3, <4>4
    <3>2. error_code' # "ok" => \E p \in Pair : op_status'[p] = error_code'
      BY Zenon, <1>5, <2>1
    <3> QED
      BY Zenon, <1>1, <3>1, <3>2 DEF OutcomeTrue, Arrived
  <2> QED
    BY Zenon, <1>8, <2>2, <2>3, <2>4, <2>5 DEF IndInv
<1> QED
  BY Zenon, <1>2, <1>9, <1>10

\* Every step keeps the invariant.
LEMMA NextInd ==
    ASSUME RetriedTogether, CountingLaws, PostedLaw, LeastLaw, IndInv, Next PROVE IndInv'
<1>1. ASSUME NEW p \in Pairs, Received(p) PROVE IndInv'
  <2>1. <<p, "recv">> \in Job /\ <<p, "recv">>[1] = p
    BY Zenon, PairsJobs DEF IndInv, Dir
  <2> QED
    BY Zenon, <1>1, <2>1, EndInd DEF Received, Arrived
<1>2. ASSUME NEW p \in Pairs, Sent(p) PROVE IndInv'
  <2>1. <<p, "send">> \in Job /\ <<p, "send">>[2] = "send"
    BY Zenon, PairsJobs DEF IndInv, Dir
  <2> QED
    BY Zenon, <1>2, <2>1, EndInd DEF Sent
<1>3. ASSUME NEW j \in Job, Fails(j) \/ TimesOut(j) PROVE IndInv'
  BY Zenon, <1>3, EndInd DEF Fails, TimesOut, BmiError
<1>4. CASE PostRetry
  <2>1. /\ UNCHANGED <<shape, comp_ct, complete, retry_count, op_status, error_code, job,
                       result, reply, Pair, Incomplete, Outstanding>>
        /\ state = "post_retry" /\ state' = "post"
    BY Zenon, <1>4 DEF PostRetry, Pair, Incomplete, Outstanding
  <2> QED
    BY Zenon, <2>1 DEF IndInv, Types, Counted, Rounds, Answers, PeerCancelled, OutcomeTrue
<1>5. CASE Done
  BY Zenon, <1>5 DEF Done, vars, IndInv, Types, Counted, Rounds, Answers, PeerCancelled, OutcomeTrue,
              Pair, Incomplete, Outstanding
<1> QED
  BY Zenon, <1>1, <1>2, <1>3, <1>4, <1>5, PostInd, CompletionFnInd, CompleteInd, AnswersInd, CompletesInd
  DEF Next, Machine, Dir

-----------------------------------------------------------------------------
INSTANCE FiniteSetTheorems
INSTANCE WellFoundedInduction

\* A set of numbers that is not empty has a least one.
LEMMA Least == LeastLaw
<1> SUFFICES ASSUME NEW S \in SUBSET Nat, S # {} PROVE \E x \in S : \A y \in S : x <= y
  BY Zenon DEF LeastLaw
<1>1. PICK x \in S : \A y \in S : <<y, x>> \notin OpToRel(<, Nat)
  BY Zenon, WFMin, NatLessThanWellFounded
<1>2. ASSUME NEW y \in S, y < x PROVE FALSE
  <2>1. <<y, x>> \in Nat \X Nat /\ <<y, x>>[1] = y /\ <<y, x>>[2] = x
    BY Zenon
  <2>2. <<y, x>> \in OpToRel(<, Nat)
    BY <1>2, <2>1, Zenon DEF OpToRel
  <2> QED
    BY <1>1, <2>2, Zenon
<1> QED
  BY <1>2

\* One job of every pair is as many jobs as pairs.
LEMMA TaggedCount ==
    ASSUME NEW S, IsFiniteSet(S), NEW t
    PROVE  IsFiniteSet(S \X {t}) /\ Cardinality(S \X {t}) = Cardinality(S)
<1>1. IsFiniteSet({t}) /\ Cardinality({t}) = 1 /\ Cardinality(S) \in Nat
  BY Zenon, FS_Singleton, FS_CardinalityType
<1>2. IsFiniteSet(S \X {t}) /\ Cardinality(S \X {t}) = Cardinality(S) * Cardinality({t})
  BY Zenon, <1>1, FS_Product
<1> QED
  BY <1>1, <1>2

\* Two disjoint sets of jobs count for their sum.
LEMMA DisjointCount ==
    ASSUME NEW S, IsFiniteSet(S), NEW T, IsFiniteSet(T), S \cap T = {}
    PROVE  Cardinality(S \cup T) = Cardinality(S) + Cardinality(T)
<1>1. /\ Cardinality(S \cup T) = Cardinality(S) + Cardinality(T) - Cardinality(S \cap T)
      /\ Cardinality({}) = 0 /\ Cardinality(S) \in Nat /\ Cardinality(T) \in Nat
  BY Zenon, FS_Union, FS_EmptySet, FS_CardinalityType
<1>2. Cardinality(S \cap T) = 0
  BY Zenon, <1>1
<1> QED
  BY <1>1, <1>2

\* As many jobs are out after msgpairarray_post as it has not taken off comp_ct.
LEMMA PostedCount ==
    ASSUME NEW A, IsFiniteSet(A), NEW how \in [A -> Posting]
    PROVE  Cardinality(PostedJobs(A, how)) =
             2 * Cardinality(A) - (2 * Cardinality({p \in A : how[p] = "no_recv"})
                 + Cardinality({p \in A : how[p] \in {"no_send", "sent"}}))
<1> DEFINE F == {p \in A : how[p] = "no_recv"}
           O == {p \in A : how[p] \in {"no_send", "sent"}}
           R == A \ F
           B == R \ O
<1>1. /\ IsFiniteSet(R) /\ Cardinality(R) = Cardinality(A) - Cardinality(F)
  <2>1. A \cap F = F
    BY Zenon
  <2> QED
    BY Zenon, <2>1, FS_Difference
<1>2. IsFiniteSet(B) /\ Cardinality(B) = Cardinality(R) - Cardinality(O)
  <2>1. R \cap O = O
    BY Zenon
  <2>2. IsFiniteSet(R)
    BY Zenon, <1>1
  <2> HIDE DEF R, O
  <2>3. IsFiniteSet(R \ O) /\ Cardinality(R \ O) = Cardinality(R) - Cardinality(R \cap O)
    BY Zenon, <2>2, FS_Difference
  <2> QED
    BY Zenon, <2>1, <2>3
<1>3. /\ IsFiniteSet(R \X {"recv"}) /\ Cardinality(R \X {"recv"}) = Cardinality(R)
      /\ IsFiniteSet(B \X {"send"}) /\ Cardinality(B \X {"send"}) = Cardinality(B)
  <2>1. IsFiniteSet(R) /\ IsFiniteSet(B)
    BY Zenon, <1>1, <1>2
  <2> HIDE DEF R, B
  <2> QED
    BY Zenon, <2>1, TaggedCount
<1>4. /\ PostedJobs(A, how) = (R \X {"recv"}) \cup (B \X {"send"})
      /\ (R \X {"recv"}) \cap (B \X {"send"}) = {}
  <2>1. \A p \in A, d \in Dir :
          JobPosted(<<p, d>>, how[p]) # "free" <=> \/ d = "recv" /\ how[p] # "no_recv"
                                                   \/ d = "send" /\ how[p] = "both"
    BY Zenon DEF JobPosted, Dir, Posting
  <2>2. \A p \in A : p \in R <=> how[p] # "no_recv"
    BY Zenon
  <2>3. \A p \in A : p \in B <=> how[p] = "both"
    BY Zenon DEF Posting
  <2>4. R \subseteq A /\ B \subseteq A
    BY Zenon
  <2> HIDE DEF R, B
  <2>5. ASSUME NEW p \in A, NEW d \in Dir
        PROVE  /\ <<p, d>> \in PostedJobs(A, how) <=> JobPosted(<<p, d>>, how[p]) # "free"
               /\ <<p, d>> \in (R \X {"recv"}) \cup (B \X {"send"})
                    <=> \/ d = "recv" /\ p \in R
                        \/ d = "send" /\ p \in B
    BY Zenon DEF PostedJobs
  <2>6. /\ PostedJobs(A, how) \subseteq A \X Dir
        /\ (R \X {"recv"}) \cup (B \X {"send"}) \subseteq A \X Dir
        /\ (R \X {"recv"}) \cap (B \X {"send"}) = {}
    BY Zenon, <2>4 DEF PostedJobs, Dir
  <2>7. ASSUME NEW j \in A \X Dir
        PROVE  j \in PostedJobs(A, how) <=> j \in (R \X {"recv"}) \cup (B \X {"send"})
    <3>1. PICK p \in A, d \in Dir : j = <<p, d>>
      OBVIOUS
    <3> QED
      BY <2>1, <2>2, <2>3, <2>5, <3>1
  <2> QED
    BY Zenon, <2>6, <2>7
<1>5. /\ Cardinality(A) \in Int /\ Cardinality(F) \in Int /\ Cardinality(O) \in Int
  BY FS_Subset, FS_CardinalityType
<1> HIDE DEF F, O, R, B
<1>6. Cardinality(PostedJobs(A, how)) = Cardinality(R) + Cardinality(B)
  BY <1>3, <1>4, DisjointCount
<1> QED
  BY <1>1, <1>2, <1>5, <1>6 DEF F, O

\* The laws of counting that the steps rest on.
LEMMA Counting == CountingLaws
<1> SUFFICES ASSUME NEW s \in Shapes
             PROVE  /\ Cardinality(s.pairs) \in Nat
                    /\ \A A \in SUBSET s.pairs : Cardinality(A) \in 0..Cardinality(s.pairs)
                    /\ \A J \in SUBSET (s.pairs \X Dir) :
                         /\ Cardinality(J) \in 0..2 * Cardinality(s.pairs)
                         /\ Cardinality(J) = 0 <=> J = {}
                         /\ \A j \in J : Cardinality(J \ {j}) = Cardinality(J) - 1
  BY Zenon DEF CountingLaws
<1>1. IsFiniteSet(s.pairs)
  BY Zenon, ShapeAssumption
<1>2. /\ Cardinality(s.pairs) \in Nat
      /\ \A A \in SUBSET s.pairs : /\ IsFiniteSet(A) /\ Cardinality(A) \in Nat
                                   /\ Cardinality(A) <= Cardinality(s.pairs)
  BY Zenon, <1>1, FS_CardinalityType, FS_Subset
<1>3. IsFiniteSet(Dir) /\ Cardinality(Dir) = 2
  <2>1. IsFiniteSet({"recv"}) /\ Cardinality({"recv"}) = 1
    BY Zenon, FS_Singleton
  <2>2. Dir = {"recv"} \cup {"send"} /\ "send" \notin {"recv"}
    BY Zenon DEF Dir
  <2> QED
    BY <2>1, <2>2, FS_AddElement
<1>4. /\ IsFiniteSet(s.pairs \X Dir)
      /\ Cardinality(s.pairs \X Dir) = Cardinality(s.pairs) * Cardinality(Dir)
  BY Zenon, <1>1, <1>3, FS_Product
<1>5. ASSUME NEW J \in SUBSET (s.pairs \X Dir)
      PROVE  /\ Cardinality(J) \in 0..2 * Cardinality(s.pairs)
             /\ Cardinality(J) = 0 <=> J = {}
             /\ \A j \in J : Cardinality(J \ {j}) = Cardinality(J) - 1
  <2>1. /\ IsFiniteSet(J) /\ Cardinality(J) \in Nat
        /\ Cardinality(J) <= Cardinality(s.pairs \X Dir)
    BY Zenon, <1>4, FS_Subset, FS_CardinalityType
  <2>2. Cardinality(J) = 0 <=> J = {}
    BY Zenon, <2>1, FS_EmptySet
  <2>3. \A j \in J : Cardinality(J \ {j}) = Cardinality(J) - 1
    BY Zenon, <2>1, FS_RemoveElement
  <2> QED
    BY <1>2, <1>3, <1>4, <2>1, <2>2, <2>3
<1> QED
  BY <1>2, <1>5

LEMMA Posted == PostedLaw
<1> SUFFICES ASSUME NEW s \in Shapes, NEW A \in SUBSET s.pairs, NEW how \in [A -> Posting]
             PROVE  Cardinality(PostedJobs(A, how)) =
                      2 * Cardinality(A) - (2 * Cardinality({p \in A : how[p] = "no_recv"})
                          + Cardinality({p \in A : how[p] \in {"no_send", "sent"}}))
  BY Zenon DEF PostedLaw
<1>1. IsFiniteSet(A)
  BY Zenon, ShapeAssumption, FS_Subset
<1> QED
  BY Zenon, <1>1, PostedCount

\* So does a step of nothing.
LEMMA StutterInd == ASSUME IndInv, UNCHANGED vars PROVE IndInv'
BY DEF vars, IndInv, Types, Counted, Rounds, Answers, PeerCancelled, OutcomeTrue, Pair,
       Incomplete, Outstanding

\* The invariant of the machine and its jobs.
THEOREM Inductive == ASSUME RetriedTogether PROVE Spec => []IndInv
<1>1. IndInv /\ [Next]_vars => IndInv'
  BY Zenon, RetriedTogether, Counting, Posted, Least, NextInd, StutterInd
<1> QED
  BY <1>1, InitInd, PTL DEF Spec

\* comp_ct is exact, so the machine leaves no job behind and waits for none that
\* does not come back, for arrays of any length and any limit of retries.
THEOREM CountsJobs == ASSUME RetriedTogether PROVE Spec => []CountExact
<1>1. IndInv => CountExact
  <2> SUFFICES ASSUME IndInv PROVE CountExact
    BY Zenon
  <2>1. /\ shape \in Shapes /\ Incomplete \in SUBSET shape.pairs
        /\ Outstanding \in SUBSET (shape.pairs \X Dir)
    BY Zenon DEF IndInv, Types, Counted, Outstanding, Incomplete, Pair, Job, Dir
  <2>2. comp_ct \in 0..2 * Cardinality(Pair)
    <3>1. /\ Cardinality(Pair) \in Nat /\ Cardinality(Incomplete) \in 0..Cardinality(Pair)
          /\ Cardinality(Outstanding) \in 0..2 * Cardinality(Pair)
      BY Zenon, <2>1, Counting DEF CountingLaws, Pair
    <3> QED
      BY <3>1 DEF IndInv, Counted
  <2>3. TypeOK
    BY Zenon, <2>2 DEF IndInv, Types, TypeOK, Arrived, Status
  <2> QED
    BY Zenon, <2>3 DEF IndInv, Counted, CountExact
<1> QED
  BY <1>1, RetriedTogether, Inductive, PTL

\* When a job of a pair fails, msgpairarray_complete leaves the other one of the
\* pair neither posted nor to its timeout.
THEOREM PeersCancelled == ASSUME RetriedTogether PROVE Spec => []PeerCancelled
<1>1. IndInv => PeerCancelled
  BY Zenon DEF IndInv
<1> QED
  BY <1>1, RetriedTogether, Inductive, PTL

\* What msgpairarray_completion_fn leaves in error_code is true of the requests.
THEOREM OutcomeTold == ASSUME RetriedTogether PROVE Spec => []OutcomeTrue
<1>1. IndInv => OutcomeTrue
  BY Zenon DEF IndInv
<1> QED
  BY <1>1, RetriedTogether, Inductive, PTL

\* The machine uses its jobs as the job layer of job.c requires: each is posted,
\* ended, completed and handed back in this order, and posted only when free.
THEOREM UsesTheJobs == ASSUME RetriedTogether PROVE Spec => UsesJobs
<1>1. Init => Promise!Init
  BY Zenon DEF Init, Promise!Init
<1>2. ASSUME IndInv, IndInv', [Next]_vars PROVE [Promise!Next]_job
  <2>1. job' \in [Job -> {"free", "posted", "ending", "completed"}]
    BY Zenon, <1>2 DEF IndInv, Types
  <2>2. ASSUME NEW j \in Job, NEW r, End(j, r) \/ Completes(j) PROVE Promise!Next
    BY Zenon, <1>2, <2>1, <2>2 DEF End, Completes, IndInv, Types, Promise!Next, Promise!Goes
  <2>3. CASE Post
    <3>1. \A j \in Job : job[j] = "free"
      BY Zenon, <1>2, <2>3 DEF Post, IndInv, Counted, Outstanding
    <3>2. PICK how : job' = [j \in Job |-> IF j[1] \in Incomplete THEN JobPosted(j, how[j[1]])
                                           ELSE job[j]]
      BY Zenon, <2>3 DEF Post
    <3>3. \A j \in Job : job'[j] \in {"free", "posted", "ending"}
      BY Zenon, <3>1, <3>2 DEF JobPosted
    <3> QED
      BY Zenon, <2>1, <3>1, <3>3 DEF Promise!Next, Promise!Goes
  <2>4. ASSUME NEW p \in Pairs, NEW d \in Dir, Complete(p, d) PROVE Promise!Next
    <3>1. <<p, d>> \in Job /\ <<p, Other[d]>> \in Job /\ <<p, Other[d]>> # <<p, d>>
      BY DEF Job, Dir, Other
    <3>2. \A j \in Job : \/ job'[j] = job[j]
                         \/ job[j] = "completed" /\ job'[j] = "free"
                         \/ job[j] = "posted" /\ job'[j] = "ending"
      BY Zenon, <1>2, <2>4, <3>1 DEF Complete, Cancelled, IndInv, Types
    <3> QED
      BY Zenon, <2>1, <3>2 DEF Promise!Next, Promise!Goes
  <2>5. CASE UNCHANGED job
    BY Zenon, <2>5
  <2>6. ASSUME NEW p \in Pairs, Received(p) \/ Sent(p) PROVE Promise!Next
    <3>1. <<p, "recv">> \in Job /\ <<p, "send">> \in Job
      BY Zenon DEF Job
    <3> QED
      BY Zenon, <2>2, <2>6, <3>1 DEF Received, Sent
  <2>7. ASSUME NEW j \in Job, Fails(j) \/ TimesOut(j) \/ Completes(j) PROVE Promise!Next
    BY Zenon, <2>2, <2>7 DEF Fails, TimesOut
  <2>8. ASSUME NEW p \in Pairs, ServerAnswers(p) PROVE UNCHANGED job
    BY Zenon, <2>8 DEF ServerAnswers
  <2>9. CompletionFn \/ PostRetry \/ Done \/ UNCHANGED vars => UNCHANGED job
    BY Zenon DEF CompletionFn, PostRetry, Done, vars
  <2> QED
    BY Zenon, <1>2, <2>3, <2>4, <2>5, <2>6, <2>7, <2>8, <2>9 DEF Next, Machine, Dir
<1> QED
  BY <1>1, <1>2, RetriedTogether, Inductive, PTL DEF Spec, UsesJobs, Promise!Spec
=============================================================================
