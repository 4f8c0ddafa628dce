------------------------ MODULE PrecreatePool_proofs ------------------------
(***************************************************************************)
(* Proofs about the pools of precreated handles.  Base says in which state *)
(* a request or a refiller has something posted; on it rest the handles    *)
(* that the storage holds for the count (CountBacked), those a get has     *)
(* been given (Served), and the number of handles that can be about        *)
(* (Supplied), by which the count never wraps round.                       *)
(***************************************************************************)
EXTENDS PrecreatePool, TLAPS

\* A request asks for at most one handle of each pool.  The servers of a layout are
\* different ones unless the client's list names one twice; then the count wraps round.
OneOfEach == \A a \in Ask : \A p \in Pool : a[p] <= 1

\* No fill of j is under way.
Quiet(j) == write[j] = "none" /\ left[j] = 0 /\ pusher # j

\* Handles of p that c waits for, has, or is giving back.
GivingBack(c, p) == IF target[c] = p THEN left[c] ELSE 0
Holding(c, p) == queued[c][p] + got[c][p] + GivingBack(c, p)

GetOk(c) ==
  /\ ask[c] \in Ask \cup {NoHandles}
  /\ \A p \in Pool : Holding(c, p) <= ask[c][p]
  /\ create[c] \in {"idle", "asleep", "pushed"} => got[c] = NoHandles
  /\ create[c] # "posted" \/ immediate_completion => queued[c] = NoHandles /\ served[c] = 0
  /\ create[c] = "posted" /\ ~immediate_completion => pending[c] = Total(queued[c]) + served[c]
  /\ create[c] # "returning" => Quiet(c)
  /\ Quiet(c) \/ target[c] \in Pool

JobOk(j) == write[j] # "none" => pusher # j /\ left[j] > 0

\* A sequence of different requests, which s says are all in state w.
Lined(s, q, w) ==
  /\ \A i \in 1..Len(q) : s[q[i]] = w
  /\ \A i, k \in 1..Len(q) : q[i] = q[k] => i = k

Placed == /\ \A c \in Create : GetOk(c)
          /\ \A j \in Job : JobOk(j)
          /\ \A p \in Pool : refill[p] # "store" => Quiet(p)
Lines == /\ Lined(create, sleepers, "asleep") /\ Lined(create, pushing, "pushed")
         /\ pusher = Nobody => pushing = <<>>

Base == TypeOK /\ Placed /\ Lines

\* The handles of a get are found, or still to be fetched.
Served == \A c \in Create : \A p \in Pool :
  create[c] \in {"posted", "have"} => queued[c][p] + got[c][p] = ask[c][p]

\* The handles of p in the count, with the requests and with the refiller: a batch is
\* added to them only when the count is below the threshold.
Held(p) == [c \in Create |-> Holding(c, p)]
Supply(p) == poolCount[p] + Total(Held(p)) + left[p]
Supplied(p) ==
  Supply(p)
    <= Low - 1 + Cardinality(Create) + IF refill[p] = "batch" THEN 0 ELSE Batch
Fed(p) == Supplied(p) /\ (refill[p] = "waiting" => poolCount[p] >= Low)
WideCount == Low + Batch + Cardinality(Create) <= CountRange

\* What is used of sums.
TotalLaws ==
  \A S \in {Create, Job, Pool} :
    /\ \A f \in [S -> Nat] :
         /\ Total(f) \in Nat
         /\ Total(f) = 0 <=> \A x \in S : f[x] = 0
         /\ \A x \in S : f[x] <= Total(f)
    /\ \A f, g \in [S -> Nat] : \A x \in S :
         (\A y \in S \ {x} : f[y] = g[y]) => Total(g) = Total(f) - f[x] + g[x]
CreateLaw ==
  /\ Cardinality(Create) \in Nat
  /\ \A f \in [Create -> Nat] :
       (\A c \in Create : f[c] <= 1) => Total(f) <= Cardinality(Create)

\* Keys of p that j has stored and not reported.
Reports(j, p) == IF write[j] = "written" /\ FillPool(j) = p THEN Posted(j) ELSE 0

\* The first n leave a line and are turned round; they change their state.
Turned(q, n) == [i \in 1 .. n |-> q[n + 1 - i]]
Moved(s, q, n, v) == [c \in Create |-> IF c \in {q[i] : i \in 1 .. n} THEN v ELSE s[c]]
Parted(s, q, n, v, w) ==
  /\ Turned(q, n) \in Seq(Create) /\ SubSeq(q, n + 1, Len(q)) \in Seq(Create)
  /\ Lined(Moved(s, q, n, v), Turned(q, n), v)
  /\ Lined(Moved(s, q, n, v), SubSeq(q, n + 1, Len(q)), w)
  /\ \A c \in Create : Moved(s, q, n, v)[c] = s[c] \/ (s[c] = w /\ Moved(s, q, n, v)[c] = v)

\* A write of l keys of p is out for j, and for nobody else; perhaps it is done.
Issued(j, p, l) ==
  /\ left' \in [Job -> Nat] /\ write' \in [Job -> {"none", "posted", "written", "failed"}]
  /\ stored' \in [Pool -> Nat] /\ left'[j] = l /\ write'[j] \in {"posted", "written", "failed"}
  /\ \A i \in Job : i # j => left'[i] = left[i] /\ write'[i] = write[i]
  /\ \A q \in Pool : /\ stored'[q] >= stored[q]
                     /\ q = p /\ write'[j] = "written" =>
                          stored'[q] >= stored[q] + Lesser(l, MaxKeys)
-----------------------------------------------------------------------------

\* The sizes.
LEMMA Sizes ==
  /\ Batch \in Nat \ {0} /\ Low \in Nat \ {0} /\ MaxKeys \in Nat \ {0} /\ CountRange \in Nat \ {0}
  /\ Low \in 0 .. CountRange - 1
<1>1. /\ Batch \in Nat \ {0} /\ Low \in Nat \ {0} /\ MaxKeys \in Nat \ {0}
      /\ CountRange \in Nat \ {0} /\ Low < CountRange
  BY Zenon, SizesAssumption
<1> QED
  BY <1>1

\* A uint32_t: it keeps what fits, and is never more than what it was given.
LEMMA Wraps ==
  ASSUME NEW n \in Nat
  PROVE  /\ n % CountRange \in 0 .. CountRange - 1 /\ n % CountRange <= n
         /\ n < CountRange => n % CountRange = n
<1>1. CountRange \in Nat \ {0}
  BY Zenon, SizesAssumption
<1> QED
  BY <1>1

\* The types that most steps need.
LEMMA Funs ==
  ASSUME Base
  PROVE  /\ create \in [Create -> {"idle", "asleep", "pushed", "posted", "have", "returning"}]
         /\ ask \in [Create -> [Pool -> Nat]] /\ queued \in [Create -> [Pool -> Nat]]
         /\ got \in [Create -> [Pool -> Nat]] /\ served \in [Create -> Nat]
         /\ pending \in [Create -> Int] /\ target \in [Create -> Pool \cup {Nobody}]
         /\ left \in [Job -> Nat] /\ write \in [Job -> {"none", "posted", "written", "failed"}]
         /\ stored \in [Pool -> Nat] /\ immediate_completion \in BOOLEAN
         /\ refill \in [Pool -> {"threshold", "waiting", "batch", "store", "retry"}]
         /\ pusher \in Job \cup {Nobody} /\ sleepers \in Seq(Create) /\ pushing \in Seq(Create)
         /\ poolCount \in [Pool -> 0 .. CountRange - 1]
BY Zenon DEF Base, TypeOK

LEMMA Nums ==
  ASSUME Base
  PROVE  /\ queued \in [Create -> [Pool -> Nat]] /\ got \in [Create -> [Pool -> Nat]]
         /\ stored \in [Pool -> Nat] /\ served \in [Create -> Nat]
BY Zenon, Funs

LEMMA Amounts ==
  ASSUME Base, NEW c \in Create, NEW q \in Pool
  PROVE  queued[c][q] \in Nat /\ got[c][q] \in Nat /\ ask[c][q] \in Nat
<1>1. queued[c] \in [Pool -> Nat] /\ got[c] \in [Pool -> Nat] /\ ask[c] \in [Pool -> Nat]
  BY Zenon, Funs
<1> QED
  BY Zenon, <1>1

LEMMA SameAmounts ==
  ASSUME NEW f \in [Pool -> Nat], NEW g \in [Pool -> Nat], \A p \in Pool : f[p] = g[p] PROVE f = g
OBVIOUS

LEMMA PoolTotals ==
  ASSUME TotalLaws
  PROVE  \A f, g \in [Pool -> Nat] : \A x \in Pool :
           (\A y \in Pool \ {x} : f[y] = g[y]) => Total(g) = Total(f) - f[x] + g[x]
BY Zenon DEF TotalLaws

\* The names of pools and requests.
LEMMA Names ==
  /\ Pool \subseteq Job /\ Create \subseteq Job /\ Pool \cap Create = {} /\ Nobody \notin Job
  /\ NoHandles \in [Pool -> Nat] /\ \A p \in Pool : NoHandles[p] = 0
  /\ Ask \subseteq [Pool -> Nat]
  /\ \A c \in Create : c \notin Pool
<1>1. NoHandles \in [Pool -> Nat] /\ \A p \in Pool : NoHandles[p] = 0
  BY DEF NoHandles
<1> QED
  BY Zenon, <1>1, NamesAssumption, AskAssumption DEF Job

\* Nothing of a request is under way at first.
LEMMA InitBase == ASSUME Init PROVE Base
<1>1. TypeOK
  <2>1. poolCount \in [Pool -> 0 .. CountRange - 1] /\ stored \in [Pool -> Nat]
    BY Sizes DEF Init
  <2>2. 0 \in Nat /\ 0 \in Int /\ immediate_completion \in BOOLEAN
    BY ImmediateAssumption DEF Init
  <2>3. <<>> \in Seq(Create)
    OBVIOUS
  <2> QED
    BY Zenon, <2>1, <2>2, <2>3, Names DEF Init, TypeOK
<1>2. Lines
  BY DEF Init, Lines, Lined
<1>3. \A j \in Job : Quiet(j) /\ JobOk(j)
  BY Zenon, Names DEF Init, Quiet, JobOk
<1>4. \A c \in Create : GetOk(c)
  <2> SUFFICES ASSUME NEW c \in Create PROVE GetOk(c)
    BY Zenon
  <2>1. /\ ask[c] = NoHandles /\ queued[c] = NoHandles /\ got[c] = NoHandles /\ served[c] = 0
        /\ create[c] = "idle" /\ left[c] = 0
    BY Zenon, Names DEF Init
  <2>2. \A p \in Pool : Holding(c, p) <= ask[c][p]
    BY <2>1, Names DEF Holding, GivingBack
  <2> QED
    BY Zenon, <1>3, <2>1, <2>2, Names DEF GetOk
<1> QED
  BY Zenon, <1>1, <1>2, <1>3, <1>4, Names DEF Base, Placed

\* The decrements of a get: at most one of each pool, which is stocked.
LEMMA Decrements ==
  ASSUME OneOfEach, Base, NEW a \in Ask \cup {NoHandles}
  PROVE  /\ a \in [Pool -> Nat] /\ \A p \in Pool : a[p] \in {0, 1}
         /\ Stocked => \A p \in Pool : /\ poolCount[p] - a[p] \in 0 .. CountRange - 1
                                       /\ Less(p, a[p]) = poolCount[p] - a[p]
<1>1. a \in [Pool -> Nat] /\ \A p \in Pool : a[p] \in {0, 1}
  BY Names DEF OneOfEach
<1>2. ASSUME Stocked, NEW p \in Pool
      PROVE  poolCount[p] - a[p] \in 0 .. CountRange - 1 /\ Less(p, a[p]) = poolCount[p] - a[p]
  <2>1. poolCount[p] \in 0 .. CountRange - 1 /\ poolCount[p] >= 1 /\ a[p] \in {0, 1}
    BY Zenon, <1>1, <1>2, Funs DEF Stocked
  <2>2. /\ poolCount[p] - a[p] \in Nat /\ poolCount[p] - a[p] \in 0 .. CountRange - 1
        /\ poolCount[p] - a[p] < CountRange
    BY <2>1, Sizes
  <2> QED
    BY Zenon, <2>2, Wraps DEF Less
<1> QED
  BY Zenon, <1>1, <1>2

\* The keys of one write.
LEMMA Keys ==
  ASSUME NEW l \in Nat
  PROVE  /\ Lesser(l, MaxKeys) \in 0 .. l
         /\ l > 0 => Lesser(l, MaxKeys) > 0
BY Sizes DEF Lesser

\* What the keys of j are, once written.
LEMMA PostedKeys ==
  ASSUME Base, NEW j \in Job
  PROVE  Posted(j) \in Nat /\ Posted(j) \in 0 .. left[j] /\ (left[j] > 0 => Posted(j) > 0)
<1>1. left[j] \in Nat
  BY Zenon, Funs
<1>2. Lesser(left[j], MaxKeys) \in 0 .. left[j] /\ (left[j] > 0 => Lesser(left[j], MaxKeys) > 0)
  BY Zenon, <1>1, Keys
<1> QED
  BY <1>1, <1>2 DEF Posted

\* The pool of a fill.
LEMMA FillPools ==
  ASSUME Base, NEW j \in Job, write[j] # "none" \/ pusher = j
  PROVE  FillPool(j) \in Pool
<1>1. CASE j \in Pool
  BY Zenon, <1>1 DEF FillPool
<1>2. CASE j \in Create
  BY Zenon, <1>2, Names DEF FillPool, Base, Placed, GetOk, Quiet
<1> QED
  BY Zenon, <1>1, <1>2 DEF Job

\* What the posting of a write changes: at least the keys it writes come into the storage.
LEMMA Posting ==
  ASSUME Base, NEW j \in Job, NEW p \in Pool, NEW l \in Nat \ {0}, PostWrite(j, p, l)
  PROVE  Issued(j, p, l)
<1>1. /\ left' = [left EXCEPT ![j] = l] /\ l \in Nat
      /\ left' \in [Job -> Nat] /\ left'[j] = l /\ \A i \in Job : i # j => left'[i] = left[i]
  BY Zenon, Funs DEF PostWrite
<1> USE DEF Issued
<1>2. Lesser(l, MaxKeys) \in Nat
  BY Keys
<1>3. CASE write' = [write EXCEPT ![j] = "posted"] /\ stored' = stored
  <2>1. \A q \in Pool : stored'[q] >= stored[q]
    BY <1>3, Funs
  <2> QED
    BY Zenon, <1>1, <1>3, <2>1, Funs
<1>4. CASE /\ write' = [write EXCEPT ![j] = "written"]
           /\ stored' = [stored EXCEPT ![p] = @ + Lesser(l, MaxKeys)]
  <2>1. /\ stored' \in [Pool -> Nat]
        /\ \A q \in Pool : stored'[q] >= stored[q] /\ (q = p => stored'[q] >= stored[q] + Lesser(l, MaxKeys))
    BY <1>2, <1>4, Funs
  <2> QED
    BY Zenon, <1>1, <1>4, <2>1, Funs
<1>5. CASE /\ write' = [write EXCEPT ![j] = "failed"]
           /\ \E k \in 0 .. Lesser(l, MaxKeys) - 1 : stored' = [stored EXCEPT ![p] = @ + k]
  <2>1. /\ stored' \in [Pool -> Nat]
        /\ \A q \in Pool : stored'[q] >= stored[q]
    BY <1>2, <1>5, Nums
  <2>2. write'[j] = "failed"
    BY Zenon, <1>5, Funs
  <2> QED
    BY Zenon, <1>1, <1>5, <2>1, <2>2, Funs
<1> QED
  BY Zenon, <1>3, <1>4, <1>5 DEF PostWrite

LEMMA PushHead ==
  ASSUME Base, PushSleeper PROVE \E c \in Create : c = Head(pushing) /\ create[c] = "pushed"
<1>1. pushing # <<>> /\ Lined(create, pushing, "pushed") /\ pushing \in Seq(Create)
  BY Zenon, Funs DEF PushSleeper, Base, Lines
<1>2. Head(pushing) = pushing[1] /\ 1 \in 1..Len(pushing) /\ pushing[1] \in Create
  BY <1>1
<1> QED
  BY Zenon, <1>1, <1>2 DEF Lined

\* Every step keeps the types and the places.
LEMMA NextBase ==
  OneOfEach /\ TotalLaws /\ Base /\ [Next]_vars
    => Base'
\* A request that is not touched, but for its fill, stays as it is.
<1>GetStays.
      ASSUME NEW d \in Create, GetOk(d), Quiet(d) => Quiet(d)',
             UNCHANGED <<ask[d], queued[d], got[d], served[d], pending[d], create[d], target[d],
                         left[d], immediate_completion>>
      PROVE  GetOk(d)'
  <2> USE <1>GetStays
  <2>1. \A p \in Pool : Holding(d, p)' = Holding(d, p)
    BY Zenon DEF Holding, GivingBack
  <2> QED
    BY Zenon, <2>1 DEF GetOk
<1>GetKept.
      ASSUME NEW d \in Create, GetOk(d), pusher' = d => pusher = d,
             UNCHANGED <<ask[d], queued[d], got[d], served[d], pending[d], create[d], target[d],
                         left[d], write[d], immediate_completion>>
      PROVE  GetOk(d)'
  <2> USE <1>GetKept
  <2>1. Quiet(d) => Quiet(d)'
    BY Zenon DEF Quiet
  <2> QED
    BY Zenon, <2>1, <1>GetStays
\* So does a job.
<1>JobKept.
      ASSUME NEW j \in Job, pusher' = j => pusher = j, UNCHANGED <<left[j], write[j]>>
      PROVE  /\ JobOk(j) => JobOk(j)'
             /\ Quiet(j) => Quiet(j)'
  BY Zenon, <1>JobKept DEF JobOk, Quiet
\* A line whose requests stay where they are stays one.
<1>LineKept.
      ASSUME NEW s, NEW t, NEW w, NEW q \in Seq(Create), Lined(s, q, w),
             \A c \in Create : s[c] = w => t[c] = w
      PROVE  Lined(t, q, w)
  BY <1>LineKept DEF Lined
\* A request comes to the head of a line.
<1>LineGrows.
      ASSUME NEW s, NEW t, NEW w, NEW q \in Seq(Create), Lined(s, q, w), NEW c \in Create, s[c] # w,
             t[c] = w, \A d \in Create : s[d] = w => t[d] = w
      PROVE  Lined(t, <<c>> \o q, w) /\ <<c>> \o q \in Seq(Create)
  <2> USE <1>LineGrows
  <2>1. \A i \in 1..Len(q) : q[i] # c /\ t[q[i]] = w
    BY DEF Lined
  <2>2. /\ Len(<<c>> \o q) = Len(q) + 1 /\ Len(q) \in Nat /\ (<<c>> \o q)[1] = c
        /\ \A i \in 2..Len(q) + 1 : (<<c>> \o q)[i] = q[i - 1]
        /\ <<c>> \o q \in Seq(Create)
    OBVIOUS
  <2>3. \A i \in 1..Len(q) + 1 : t[(<<c>> \o q)[i]] = w
    BY <2>1, <2>2
  <2>4. \A i, k \in 1..Len(q) + 1 : (<<c>> \o q)[i] = (<<c>> \o q)[k] => i = k
    BY <2>1, <2>2 DEF Lined
  <2> QED
    BY Zenon, <2>2, <2>3, <2>4 DEF Lined
\* The head of a line leaves it.
<1>LineShrinks.
      ASSUME NEW s, NEW t, NEW w, NEW q \in Seq(Create), Lined(s, q, w), q # <<>>,
             \A d \in Create : s[d] = w /\ d # Head(q) => t[d] = w
      PROVE  /\ Lined(t, Tail(q), w) /\ Tail(q) \in Seq(Create)
             /\ Head(q) \in Create /\ s[Head(q)] = w
  <2> USE <1>LineShrinks
  <2>1. /\ Len(q) \in Nat \ {0} /\ Len(Tail(q)) = Len(q) - 1 /\ Head(q) = q[1]
        /\ \A i \in 1..Len(q) - 1 : Tail(q)[i] = q[i + 1]
        /\ Tail(q) \in Seq(Create)
    OBVIOUS
  <2>2. \A i \in 1..Len(q) - 1 : q[i + 1] # q[1] /\ s[q[i + 1]] = w /\ q[i + 1] \in Create
    BY <2>1 DEF Lined
  <2>3. Lined(t, Tail(q), w)
    BY <2>1, <2>2 DEF Lined
  <2>4. q[1] \in Create /\ s[q[1]] = w
    BY <2>1 DEF Lined
  <2> QED
    BY Zenon, <2>1, <2>3, <2>4
<1>LineSplits.
      ASSUME NEW s, NEW w, NEW v, NEW q \in Seq(Create), Lined(s, q, w), NEW n \in 0..Len(q),
             v # w
      PROVE  Parted(s, q, n, v, w)
  <2> USE <1>LineSplits
  <2> DEFINE t == Moved(s, q, n, v)
             r == Turned(q, n)
             u == SubSeq(q, n + 1, Len(q))
  <2>0. /\ r = [i \in 1 .. n |-> q[n + 1 - i]] /\ u = SubSeq(q, n + 1, Len(q))
        /\ t = [c \in Create |-> IF c \in {q[i] : i \in 1 .. n} THEN v ELSE s[c]]
    BY Zenon DEF Turned, Moved
  <2> HIDE DEF t, r, u
  <2>1. Len(q) \in Nat /\ \A i \in 1..Len(q) : q[i] \in Create
    OBVIOUS
  <2>2. \A i \in 1..n : q[i] \in Create /\ s[q[i]] = w /\ t[q[i]] = v
    BY <2>1, <2>0 DEF Lined
  <2>3. u \in Seq(Create) /\ Len(u) = Len(q) - n /\ \A i \in 1..Len(q) - n : u[i] = q[i + n]
    BY <2>1, <2>0
  <2>4. r \in [1..n -> Create] /\ n \in Nat
    BY <2>1, <2>0
  <2>5. r \in Seq(Create) /\ Len(r) = n
    BY <2>4
  <2>6. \A i \in 1..n : r[i] = q[n + 1 - i] /\ n + 1 - i \in 1..n /\ n + 1 - i \in 1..Len(q)
    BY <2>1, <2>0
  <2>7. Lined(t, r, v)
    <3>1. ASSUME NEW i \in 1..n PROVE t[r[i]] = v
      <4>1. r[i] = q[n + 1 - i] /\ n + 1 - i \in 1..n
        BY Zenon, <2>6
      <4> QED
        BY Zenon, <2>2, <4>1
    <3>3. ASSUME NEW i \in 1..n, NEW k \in 1..n, r[i] = r[k] PROVE i = k
      <4>1. /\ q[n + 1 - i] = q[n + 1 - k] /\ n + 1 - i \in 1..Len(q) /\ n + 1 - k \in 1..Len(q)
        BY Zenon, <2>6, <3>3
      <4>2. n + 1 - i = n + 1 - k
        BY Zenon, <4>1 DEF Lined
      <4> QED
        BY <2>4, <4>2
    <3> QED
      BY Zenon, <2>5, <3>1, <3>3 DEF Lined
  <2>8. \A i \in 1..Len(q) - n : i + n \in 1..Len(q) /\ \A k \in 1..n : k # i + n /\ k \in 1..Len(q)
    BY <2>1
  <2>9. \A i \in 1..Len(q) - n : q[i + n] \notin {q[k] : k \in 1..n}
    BY Zenon, <2>8 DEF Lined
  <2>10. Lined(t, u, w)
    <3> SUFFICES ASSUME NEW i \in 1..Len(q) - n
                 PROVE  t[u[i]] = w /\ \A k \in 1..Len(q) - n : u[i] = u[k] => i = k
      BY Zenon, <2>3 DEF Lined
    <3>1. t[u[i]] = w
      <4>1. i + n \in 1..Len(q) /\ u[i] = q[i + n] /\ q[i + n] \in Create
        BY Zenon, <2>1, <2>3, <2>8
      <4>2. s[q[i + n]] = w /\ q[i + n] \notin {q[k] : k \in 1..n}
        BY Zenon, <2>9, <4>1 DEF Lined
      <4> QED
        BY Zenon, <2>0, <4>1, <4>2
    <3>2. ASSUME NEW k \in 1..Len(q) - n, u[i] = u[k] PROVE i = k
      <4>1. q[i + n] = q[k + n] /\ i + n \in 1..Len(q) /\ k + n \in 1..Len(q)
        BY Zenon, <2>3, <2>8, <3>2
      <4>2. i + n = k + n
        BY Zenon, <4>1 DEF Lined
      <4> QED
        BY <2>1, <4>2
    <3> QED
      BY Zenon, <3>1, <3>2
  <2>11. \A c \in Create : t[c] = s[c] \/ (s[c] = w /\ t[c] = v)
    BY Zenon, <2>0, <2>2
  <2> QED
    BY Zenon, <2>3, <2>5, <2>7, <2>10, <2>11 DEF t, r, u, Parted
\* What a get that is tried changes, but for the lines.
<1>TryPostBase.
      ASSUME OneOfEach, TotalLaws, Base, NEW c \in Create, NEW a \in Ask \cup {NoHandles},
             create[c] \in {"idle", "pushed"}, TryPost(c, a), UNCHANGED <<pusher, served, fillVars>>
      PROVE  /\ Placed'
             /\ create' \in [Create -> {"idle", "asleep", "pushed", "posted", "have", "returning"}]
             /\ poolCount' \in [Pool -> 0 .. CountRange - 1] /\ stored' \in [Pool -> Nat]
             /\ refill' \in [Pool -> {"threshold", "waiting", "batch", "store", "retry"}]
             /\ ask' \in [Create -> [Pool -> Nat]] /\ queued' \in [Create -> [Pool -> Nat]]
             /\ got' \in [Create -> [Pool -> Nat]] /\ pending' \in [Create -> Int]
             /\ \/ create' = [create EXCEPT ![c] = "asleep"] /\ sleepers' = <<c>> \o sleepers
                \/ create'[c] \in {"idle", "posted"} /\ sleepers' = sleepers
                   /\ \A d \in Create : d # c => create'[d] = create[d]
  <2> USE <1>TryPostBase
  <2>1. /\ a \in [Pool -> Nat]
        /\ Total(a) \in Nat
    BY Zenon, Decrements, Names DEF TotalLaws
  <2>2. /\ GetOk(c) /\ got[c] = NoHandles /\ queued[c] = NoHandles /\ served[c] = 0 /\ Quiet(c)
    BY Zenon DEF Base, Placed, GetOk
  <2>3. /\ UNCHANGED <<pusher, served, target, left, write, immediate_completion>>
    BY Zenon DEF fillVars
  <2>4. ASSUME NEW d \in Create, d # c,
               UNCHANGED <<ask[d], queued[d], got[d], pending[d], create[d]>>
        PROVE  GetOk(d)'
    <3>1. GetOk(d)
      BY Zenon DEF Base, Placed
    <3> QED
      BY Zenon, <2>3, <2>4, <3>1, <1>GetKept
  <2>5. \A j \in Job : JobOk(j)' /\ (Quiet(j) => Quiet(j)')
    BY Zenon, <2>3, <1>JobKept DEF Base, Placed
  <2>6. CASE Sleep(c, a)
    <3>1. /\ ask' = [ask EXCEPT ![c] = a] /\ create' = [create EXCEPT ![c] = "asleep"]
          /\ sleepers' = <<c>> \o sleepers
          /\ UNCHANGED <<poolCount, stored, refill, queued, pending, got>>
      BY Zenon, <2>6 DEF Sleep
    <3>2. /\ ask' \in [Create -> [Pool -> Nat]] /\ ask'[c] = a /\ create'[c] = "asleep"
          /\ create' \in [Create -> {"idle", "asleep", "pushed", "posted", "have", "returning"}]
          /\ \A d \in Create : d # c => ask'[d] = ask[d] /\ create'[d] = create[d]
      BY Zenon, <2>1, <3>1, Funs
    <3>3. \A p \in Pool : Holding(c, p)' <= ask'[c][p]
      BY <2>1, <2>2, <2>3, <3>1, <3>2, Names DEF Holding, GivingBack, Quiet
    <3>4. GetOk(c)'
      BY Zenon, <2>2, <2>3, <2>5, <3>1, <3>2, <3>3, Names DEF GetOk
    <3>5. \A d \in Create : GetOk(d)'
      BY Zenon, <2>4, <3>1, <3>2, <3>4
    <3>6. Placed'
      BY Zenon, <2>5, <3>1, <3>5, Names DEF Base, Placed
    <3> QED
      BY Zenon, <3>1, <3>2, <3>6, Funs
  <2>7. CASE Refuse(c)
    <3>1. /\ ask' = [ask EXCEPT ![c] = NoHandles] /\ create' = [create EXCEPT ![c] = "idle"]
          /\ UNCHANGED <<poolCount, stored, sleepers, refill, queued, pending, got>>
      BY Zenon, <2>7 DEF Refuse
    <3>2. /\ ask' \in [Create -> [Pool -> Nat]] /\ ask'[c] = NoHandles /\ create'[c] = "idle"
          /\ create' \in [Create -> {"idle", "asleep", "pushed", "posted", "have", "returning"}]
          /\ \A d \in Create : d # c => ask'[d] = ask[d] /\ create'[d] = create[d]
      BY Zenon, <3>1, Funs, Names
    <3>3. \A p \in Pool : Holding(c, p)' <= ask'[c][p]
      BY <2>2, <2>3, <3>1, <3>2, Names DEF Holding, GivingBack, Quiet
    <3>4. GetOk(c)'
      BY Zenon, <2>2, <2>3, <2>5, <3>1, <3>2, <3>3, Names DEF GetOk
    <3>5. \A d \in Create : GetOk(d)'
      BY Zenon, <2>4, <3>1, <3>2, <3>4
    <3>6. Placed'
      BY Zenon, <2>5, <3>1, <3>5, Names DEF Base, Placed
    <3> QED
      BY Zenon, <3>1, <3>2, <3>6, Funs
  <2>8. CASE Post(c, a)
    <3>1. /\ Stocked /\ poolCount' = [p \in Pool |-> Less(p, a[p])]
          /\ refill' = [p \in Pool |-> IF p \in WokenRefillers(a) THEN "batch" ELSE refill[p]]
          /\ ask' = [ask EXCEPT ![c] = a] /\ create' = [create EXCEPT ![c] = "posted"]
          /\ sleepers' = sleepers
      BY Zenon, <2>8 DEF Post
    <3>2. /\ ask' \in [Create -> [Pool -> Nat]] /\ ask'[c] = a /\ create'[c] = "posted"
          /\ create' \in [Create -> {"idle", "asleep", "pushed", "posted", "have", "returning"}]
          /\ \A d \in Create : d # c => ask'[d] = ask[d] /\ create'[d] = create[d]
          /\ refill' \in [Pool -> {"threshold", "waiting", "batch", "store", "retry"}]
          /\ \A p \in Pool : refill'[p] # "store" => refill[p] # "store"
      BY Zenon, <2>1, <3>1, Funs DEF WokenRefillers
    <3>3. poolCount' \in [Pool -> 0 .. CountRange - 1]
      BY Zenon, <3>1, Decrements
    <3>4. ASSUME GetOk(c)', \A d \in Create : d # c => UNCHANGED <<queued[d], got[d], pending[d]>>
          PROVE  Placed'
      <4>1. \A d \in Create : GetOk(d)'
        BY Zenon, <2>4, <3>2, <3>4
      <4> QED
        BY Zenon, <2>5, <3>2, <4>1, Names DEF Base, Placed
    <3>5. CASE ~immediate_completion
      <4>1. /\ queued' = [queued EXCEPT ![c] = a] /\ pending' = [pending EXCEPT ![c] = Total(a)]
            /\ UNCHANGED <<stored, got>>
        BY Zenon, <2>8, <3>5 DEF Post
      <4>2. /\ queued' \in [Create -> [Pool -> Nat]] /\ pending' \in [Create -> Int]
            /\ queued'[c] = a /\ pending'[c] = Total(a) + 0 /\ got'[c] = NoHandles
            /\ \A d \in Create : d # c => UNCHANGED <<queued[d], got[d], pending[d]>>
        BY <2>1, <2>2, <4>1, Funs
      <4>3. \A p \in Pool : Holding(c, p)' <= ask'[c][p]
        BY <2>1, <2>2, <2>3, <3>2, <4>2, Names DEF Holding, GivingBack, Quiet
      <4>4. GetOk(c)'
        BY Zenon, <2>2, <2>3, <2>5, <3>2, <3>5, <4>2, <4>3, Names DEF GetOk
      <4> QED
        BY Zenon, <3>1, <3>2, <3>3, <3>4, <4>1, <4>2, <4>4, Funs
    <3>6. CASE immediate_completion
      <4>1. /\ got' = [got EXCEPT ![c] = [p \in Pool |-> Lesser(a[p], stored[p])]]
            /\ stored' = [p \in Pool |-> stored[p] - Lesser(a[p], stored[p])]
            /\ pending' = [pending EXCEPT ![c] = 0 - Total(a)] /\ queued' = queued
        BY Zenon, <2>8, <3>6 DEF Post
      <4>2. ASSUME NEW p \in Pool
            PROVE  /\ Lesser(a[p], stored[p]) \in Nat /\ Lesser(a[p], stored[p]) <= a[p]
                   /\ stored[p] - Lesser(a[p], stored[p]) \in Nat
        <5>1. a[p] \in Nat /\ stored[p] \in Nat
          BY Zenon, <2>1, Funs
        <5> QED
          BY <5>1 DEF Lesser
      <4>3. /\ got' \in [Create -> [Pool -> Nat]] /\ stored' \in [Pool -> Nat]
            /\ got'[c] = [p \in Pool |-> Lesser(a[p], stored[p])]
            /\ \A d \in Create : d # c => UNCHANGED <<queued[d], got[d], pending[d]>>
        BY Zenon, <4>1, <4>2, Funs
      <4>4. pending' \in [Create -> Int]
        BY <2>1, <4>1, Funs
      <4>5. \A p \in Pool : got'[c][p] \in Nat /\ got'[c][p] <= a[p]
        BY Zenon, <4>2, <4>3
      <4>6. \A p \in Pool : Holding(c, p)' <= ask'[c][p]
        BY <2>1, <2>2, <2>3, <3>2, <4>1, <4>5, Names DEF Holding, GivingBack, Quiet
      <4>7. GetOk(c)'
        BY Zenon, <2>2, <2>3, <2>5, <3>2, <3>6, <4>1, <4>6, Names DEF GetOk
      <4> QED
        BY Zenon, <3>1, <3>2, <3>3, <3>4, <4>1, <4>3, <4>4, <4>7, Funs
    <3> QED
      BY Zenon, <3>5, <3>6
  <2> QED
    BY Zenon, <2>6, <2>7, <2>8 DEF TryPost
\* A get that comes, or one that is tried again.
<1>GetHandlesBase. ASSUME OneOfEach, TotalLaws, Base, NEW c \in Create, NEW a \in Ask, GetHandles(c, a) PROVE Base'
  <2> USE <1>GetHandlesBase
  <2>1. /\ create[c] = "idle" /\ TryPost(c, a)
        /\ UNCHANGED <<pusher, served, fillVars>> /\ UNCHANGED <<pushing, target, left, write, immediate_completion>>
    BY Zenon DEF GetHandles, fillVars
  <2>2. /\ Placed'
        /\ create' \in [Create -> {"idle", "asleep", "pushed", "posted", "have", "returning"}]
        /\ poolCount' \in [Pool -> 0 .. CountRange - 1] /\ stored' \in [Pool -> Nat]
        /\ refill' \in [Pool -> {"threshold", "waiting", "batch", "store", "retry"}]
        /\ ask' \in [Create -> [Pool -> Nat]] /\ queued' \in [Create -> [Pool -> Nat]]
        /\ got' \in [Create -> [Pool -> Nat]] /\ pending' \in [Create -> Int]
    BY Zenon, <2>1, <1>TryPostBase
  <2>3. /\ \/ create' = [create EXCEPT ![c] = "asleep"] /\ sleepers' = <<c>> \o sleepers
           \/ create'[c] \in {"idle", "posted"} /\ sleepers' = sleepers
              /\ \A d \in Create : d # c => create'[d] = create[d]
    BY Zenon, <2>1, <1>TryPostBase
  <2>4. \A d \in Create : d # c => create'[d] = create[d]
    BY Zenon, <2>3, Funs
  <2>5. Lined(create', pushing', "pushed")
    BY Zenon, <2>1, <2>4, <1>LineKept, Funs DEF Base, Lines
  <2>6. Lined(create', sleepers', "asleep") /\ sleepers' \in Seq(Create)
    <3>1. CASE create' = [create EXCEPT ![c] = "asleep"] /\ sleepers' = <<c>> \o sleepers
      <4>1. create[c] # "asleep" /\ create'[c] = "asleep" /\ Lined(create, sleepers, "asleep")
        BY Zenon, <2>1, <3>1, Funs DEF Base, Lines
      <4>2. \A d \in Create : create[d] = "asleep" => create'[d] = "asleep"
        BY Zenon, <2>4, <4>1
      <4>3. sleepers \in Seq(Create)
        BY Zenon, Funs
      <4>4. Lined(create', <<c>> \o sleepers, "asleep") /\ <<c>> \o sleepers \in Seq(Create)
        BY <4>1, <4>2, <4>3, <1>LineGrows
      <4> QED
        BY Zenon, <3>1, <4>4
    <3>2. CASE sleepers' = sleepers
      BY Zenon, <2>1, <2>4, <3>2, <1>LineKept, Funs DEF Base, Lines
    <3> QED
      BY Zenon, <2>3, <3>1, <3>2
  <2>7. TypeOK'
    BY Zenon, <2>1, <2>2, <2>6, Funs DEF TypeOK
  <2> QED
    BY Zenon, <2>1, <2>2, <2>5, <2>6, <2>7 DEF Base, Lines
<1>PushSleeperBase. ASSUME OneOfEach, TotalLaws, Base, PushSleeper PROVE Base'
  <2> USE <1>PushSleeperBase
  <2>1. PICK c \in Create : c = Head(pushing) /\ create[c] = "pushed"
    BY Zenon, PushHead
  <2>2. PICK a \in Ask \cup {NoHandles} : a = ask[c]
    BY Zenon DEF Base, Placed, GetOk
  <2>3. /\ TryPost(c, a) /\ pushing # <<>> /\ pushing' = Tail(pushing)
        /\ UNCHANGED <<pusher, served, fillVars>> /\ UNCHANGED <<target, left, write, immediate_completion>>
    BY Zenon, <2>1, <2>2 DEF PushSleeper, fillVars
  <2>4. /\ Placed'
        /\ create' \in [Create -> {"idle", "asleep", "pushed", "posted", "have", "returning"}]
        /\ poolCount' \in [Pool -> 0 .. CountRange - 1] /\ stored' \in [Pool -> Nat]
        /\ refill' \in [Pool -> {"threshold", "waiting", "batch", "store", "retry"}]
        /\ ask' \in [Create -> [Pool -> Nat]] /\ queued' \in [Create -> [Pool -> Nat]]
        /\ got' \in [Create -> [Pool -> Nat]] /\ pending' \in [Create -> Int]
    BY Zenon, <2>1, <2>3, <1>TryPostBase
  <2>5. /\ \/ create' = [create EXCEPT ![c] = "asleep"] /\ sleepers' = <<c>> \o sleepers
           \/ create'[c] \in {"idle", "posted"} /\ sleepers' = sleepers
              /\ \A d \in Create : d # c => create'[d] = create[d]
    BY Zenon, <2>1, <2>3, <1>TryPostBase
  <2>6. \A d \in Create : d # c => create'[d] = create[d]
    BY Zenon, <2>5, Funs
  <2>7. Lined(create', pushing', "pushed") /\ pushing' \in Seq(Create)
    <3>1. \A d \in Create : create[d] = "pushed" /\ d # Head(pushing) => create'[d] = "pushed"
      BY Zenon, <2>1, <2>6
    <3>2. Lined(create, pushing, "pushed") /\ pushing \in Seq(Create)
      BY Zenon, Funs DEF Base, Lines
    <3> QED
      BY ZenonT(30), <2>3, <3>1, <3>2, <1>LineShrinks
  <2>8. Lined(create', sleepers', "asleep") /\ sleepers' \in Seq(Create)
    <3>1. CASE create' = [create EXCEPT ![c] = "asleep"] /\ sleepers' = <<c>> \o sleepers
      <4>1. create[c] # "asleep" /\ create'[c] = "asleep" /\ Lined(create, sleepers, "asleep")
        BY Zenon, <2>1, <3>1, Funs DEF Base, Lines
      <4>2. \A d \in Create : create[d] = "asleep" => create'[d] = "asleep"
        BY Zenon, <2>6, <4>1
      <4>3. sleepers \in Seq(Create)
        BY Zenon, Funs
      <4>4. Lined(create', <<c>> \o sleepers, "asleep") /\ <<c>> \o sleepers \in Seq(Create)
        BY <4>1, <4>2, <4>3, <1>LineGrows
      <4> QED
        BY Zenon, <3>1, <4>4
    <3>2. CASE sleepers' = sleepers
      BY ZenonT(30), <2>1, <2>6, <3>2, <1>LineKept, Funs DEF Base, Lines
    <3> QED
      BY Zenon, <2>5, <3>1, <3>2
  <2>9. TypeOK'
    BY Zenon, <2>3, <2>4, <2>7, <2>8, Funs DEF TypeOK
  <2>10. pusher' # Nobody
    BY Zenon, <2>3 DEF Base, Lines
  <2> QED
    BY Zenon, <2>4, <2>7, <2>8, <2>9, <2>10 DEF Base, Lines
\* The requests.
<1>ForgetOk.
      ASSUME Base, NEW c \in Create, Forget(c), UNCHANGED <<queued, served, pusher>>, left[c] = 0,
             write[c] = "none", pusher # c, left'[c] = 0, write'[c] = "none",
             create[c] \in {"have", "returning"}
      PROVE  GetOk(c)'
  <2> USE <1>ForgetOk
  <2>1. /\ create'[c] = "idle" /\ ask'[c] = NoHandles /\ got'[c] = NoHandles
        /\ queued'[c] = NoHandles /\ served'[c] = 0
    BY Zenon, Funs DEF Forget, Base, Placed, GetOk
  <2>2. Quiet(c)'
    BY Zenon DEF Quiet
  <2>3. \A p \in Pool : Holding(c, p)' <= ask'[c][p]
    BY <2>1, Names DEF Holding, GivingBack
  <2> QED
    BY Zenon, <2>1, <2>2, <2>3 DEF GetOk
<1>FinishBase. ASSUME Base, NEW c \in Create, Finish(c) PROVE Base'
  <2> USE <1>FinishBase
  <2>1. /\ create[c] = "have" /\ Forget(c)
        /\ UNCHANGED <<poolCount, stored, sleepers, pushing, pusher, refill, queued, served, pending,
                       target, left, write, immediate_completion>>
    BY Zenon DEF Finish, fillVars
  <2>2. /\ create' = [create EXCEPT ![c] = "idle"] /\ ask' = [ask EXCEPT ![c] = NoHandles]
        /\ got' = [got EXCEPT ![c] = NoHandles]
    BY Zenon, <2>1 DEF Forget
  <2>3. TypeOK'
    <3>1. create' \in [Create -> {"idle", "asleep", "pushed", "posted", "have", "returning"}]
      BY Zenon, <2>2, Funs
    <3>2. ask' \in [Create -> [Pool -> Nat]] /\ got' \in [Create -> [Pool -> Nat]]
      BY Zenon, <2>2, Names, Funs
    <3> QED
      BY Zenon, <2>1, <3>1, <3>2, Funs DEF TypeOK
  <2>4. GetOk(c)'
    BY Zenon, <2>1, <1>ForgetOk DEF Base, Placed, GetOk, Quiet
  <2>5. \A d \in Create : GetOk(d)'
    BY Zenon, <2>1, <2>2, <2>4, <1>GetKept, Funs DEF Base, Placed
  <2>6. Lines'
    BY Zenon, <2>1, <2>2, <1>LineKept, Funs DEF Base, Lines
  <2> QED
    BY Zenon, <2>1, <2>3, <2>5, <2>6, <1>JobKept, Names DEF Base, Placed
<1>GiveBackBase. ASSUME Base, NEW c \in Create, GiveBack(c) PROVE Base'
  <2> USE <1>GiveBackBase
  <2>1. /\ create[c] = "have" /\ create' = [create EXCEPT ![c] = "returning"]
        /\ UNCHANGED <<poolCount, stored, sleepers, pushing, pusher, refill, ask, queued, served,
                       pending, got, target, left, write, immediate_completion>>
    BY Zenon DEF GiveBack, fillVars, getVars
  <2>2. TypeOK'
    BY Zenon, <2>1, Funs DEF TypeOK
  <2>3. GetOk(c)'
    <3>1. GetOk(c) /\ create'[c] = "returning"
      BY Zenon, <2>1, Funs DEF Base, Placed
    <3> QED
      BY Zenon, <2>1, <3>1 DEF GetOk, Holding, GivingBack, Quiet
  <2>4. \A d \in Create : GetOk(d)'
    BY Zenon, <2>1, <2>3, <1>GetKept, Funs DEF Base, Placed
  <2>5. Lines'
    BY Zenon, <2>1, <1>LineKept, Funs DEF Base, Lines
  <2> QED
    BY Zenon, <2>1, <2>2, <2>4, <2>5, <1>JobKept, Names DEF Base, Placed
<1>ReplaceBase. ASSUME Base, NEW c \in Create, Replace(c) PROVE Base'
  <2> USE <1>ReplaceBase
  <2>1. /\ create[c] = "returning" /\ write[c] = "none" /\ left[c] = 0 /\ pusher # c
        /\ UNCHANGED <<poolCount, sleepers, pushing, pusher, refill, queued, served, pending,
                       immediate_completion>>
    BY Zenon DEF Replace
  <2>2. CASE \E p \in Pool : /\ got[c][p] > 0 /\ got' = [got EXCEPT ![c][p] = @ - 1]
                             /\ target' = [target EXCEPT ![c] = p] /\ PostWrite(c, p, 1)
                             /\ UNCHANGED <<create, ask>>
    <3>1. PICK p \in Pool : /\ got[c][p] > 0 /\ got' = [got EXCEPT ![c][p] = @ - 1]
                            /\ target' = [target EXCEPT ![c] = p] /\ PostWrite(c, p, 1)
                            /\ UNCHANGED <<create, ask>>
      BY Zenon, <2>2
    <3>2. 1 \in Nat \ {0}
      OBVIOUS
    <3>3. /\ left' \in [Job -> Nat] /\ write' \in [Job -> {"none", "posted", "written", "failed"}]
          /\ stored' \in [Pool -> Nat] /\ left'[c] = 1 /\ write'[c] \in {"posted", "written", "failed"}
          /\ \A i \in Job : i # c => left'[i] = left[i] /\ write'[i] = write[i]
      <4>1. c \in Job
        BY Zenon, Names
      <4>2. Issued(c, p, 1)
        BY Zenon, <3>1, <3>2, <4>1, Posting
      <4> QED
        BY Zenon, <4>2 DEF Issued
    <3>4. /\ got' \in [Create -> [Pool -> Nat]] /\ got'[c][p] = got[c][p] - 1
          /\ \A q \in Pool : q # p => got'[c][q] = got[c][q]
      BY <3>1, Funs
    <3>5. /\ \A d \in Create : d # c => got'[d] = got[d] /\ target'[d] = target[d]
          /\ target' \in [Create -> Pool \cup {Nobody}] /\ target'[c] = p
      BY Zenon, <3>1, Funs
    <3>6. TypeOK'
      BY Zenon, <2>1, <3>1, <3>3, <3>4, <3>5, Funs DEF TypeOK
    <3>7. GetOk(c)'
      <4>1. GetOk(c)
        BY Zenon DEF Base, Placed
      <4>2. \A q \in Pool : queued[c][q] \in Nat /\ got[c][q] \in Nat /\ ask[c][q] \in Nat
        BY Zenon, Amounts
      <4>3. \A q \in Pool : queued[c][q] + got[c][q] <= ask[c][q]
        BY <2>1, <4>1, <4>2 DEF GetOk, Holding, GivingBack
      <4>4. \A q \in Pool : Holding(c, q)' <= ask'[c][q]
        BY <2>1, <3>1, <3>3, <3>4, <3>5, <4>2, <4>3 DEF Holding, GivingBack
      <4> QED
        BY Zenon, <2>1, <3>1, <3>5, <4>1, <4>4 DEF GetOk
    <3>8. \A d \in Create : GetOk(d)'
      BY Zenon, <2>1, <3>1, <3>3, <3>5, <3>7, <1>GetKept, Names DEF Base, Placed
    <3>9. JobOk(c)'
      BY <2>1, <3>3 DEF JobOk
    <3>10. \A j \in Job : JobOk(j)' /\ (j # c /\ Quiet(j) => Quiet(j)')
      BY Zenon, <2>1, <3>3, <3>9, <1>JobKept DEF Base, Placed
    <3>11. Lines'
      BY Zenon, <2>1, <3>1 DEF Base, Lines
    <3> QED
      BY Zenon, <2>1, <3>6, <3>8, <3>10, <3>11, Names DEF Base, Placed
  <2>3. CASE /\ Forget(c) /\ target' = [target EXCEPT ![c] = Nobody]
             /\ UNCHANGED <<stored, left, write>>
    <3>1. /\ create' = [create EXCEPT ![c] = "idle"] /\ ask' = [ask EXCEPT ![c] = NoHandles]
          /\ got' = [got EXCEPT ![c] = NoHandles]
      BY Zenon, <2>3 DEF Forget
    <3>2. TypeOK'
      <4>1. create' \in [Create -> {"idle", "asleep", "pushed", "posted", "have", "returning"}]
        BY Zenon, <3>1, Funs
      <4>2. ask' \in [Create -> [Pool -> Nat]] /\ got' \in [Create -> [Pool -> Nat]]
        BY Zenon, <3>1, Names, Funs
      <4>3. target' \in [Create -> Pool \cup {Nobody}]
        BY Zenon, <2>3, Funs
      <4> QED
        BY Zenon, <2>1, <2>3, <4>1, <4>2, <4>3, Funs DEF TypeOK
    <3>3. GetOk(c)'
      BY Zenon, <2>1, <2>3, <1>ForgetOk
    <3>4. \A d \in Create : GetOk(d)'
      BY Zenon, <2>1, <2>3, <3>1, <3>3, <1>GetKept, Funs DEF Base, Placed
    <3>5. Lines'
      BY Zenon, <2>1, <3>1, <1>LineKept, Funs DEF Base, Lines
    <3> QED
      BY Zenon, <2>1, <2>3, <3>2, <3>4, <3>5, <1>JobKept, Names DEF Base, Placed
  <2> QED
    BY Zenon, <2>2, <2>3 DEF Replace
\* The storage thread.
<1>ServeGetBase. ASSUME TotalLaws, Base, NEW c \in Create, NEW p \in Pool, ServeGet(c, p) PROVE Base'
  <2> USE <1>ServeGetBase
  <2>1. /\ queued[c][p] > 0 /\ queued' = [queued EXCEPT ![c][p] = @ - 1]
        /\ served' = [served EXCEPT ![c] = @ + 1]
        /\ \/ stored[p] > 0 /\ stored' = [stored EXCEPT ![p] = @ - 1] /\ got' = [got EXCEPT ![c][p] = @ + 1]
           \/ UNCHANGED <<stored, got>>
        /\ UNCHANGED <<poolCount, sleepers, pushing, pusher, refill, create, ask, pending, target, left,
                       write, immediate_completion>>
    BY Zenon DEF ServeGet, fillVars
  <2>2. /\ queued' \in [Create -> [Pool -> Nat]] /\ queued'[c][p] = queued[c][p] - 1
        /\ queued'[c] \in [Pool -> Nat] /\ queued[c] \in [Pool -> Nat]
        /\ \A q \in Pool : q # p => queued'[c][q] = queued[c][q]
        /\ \A d \in Create : d # c => queued'[d] = queued[d]
    <3>1. queued' \in [Create -> [Pool -> Nat]] /\ queued'[c][p] = queued[c][p] - 1
      BY <2>1, Nums
    <3>2. queued'[c] \in [Pool -> Nat] /\ queued[c] \in [Pool -> Nat]
      BY Zenon, <3>1, Funs
    <3>3. /\ \A q \in Pool : q # p => queued'[c][q] = queued[c][q]
          /\ \A d \in Create : d # c => queued'[d] = queued[d]
      BY Zenon, <2>1, Funs
    <3> QED
      BY Zenon, <3>1, <3>2, <3>3
  <2>3. /\ served' \in [Create -> Nat] /\ served'[c] = served[c] + 1 /\ served[c] \in Nat
        /\ \A d \in Create : d # c => served'[d] = served[d]
    BY <2>1, Nums
  <2>4. /\ stored' \in [Pool -> Nat] /\ got' \in [Create -> [Pool -> Nat]]
        /\ \A d \in Create : d # c => got'[d] = got[d]
        /\ \A q \in Pool : q # p => got'[c][q] = got[c][q]
        /\ got'[c][p] \in {got[c][p], got[c][p] + 1}
    <3>1. CASE UNCHANGED <<stored, got>>
      BY Zenon, <3>1, Funs
    <3>2. CASE stored[p] > 0 /\ stored' = [stored EXCEPT ![p] = @ - 1] /\ got' = [got EXCEPT ![c][p] = @ + 1]
      <4>1. stored' \in [Pool -> Nat]
        BY <3>2, Nums
      <4>2. /\ got' \in [Create -> [Pool -> Nat]] /\ got'[c][p] = got[c][p] + 1
            /\ \A d \in Create : d # c => got'[d] = got[d]
            /\ \A q \in Pool : q # p => got'[c][q] = got[c][q]
        BY <3>2, Nums
      <4> QED
        BY Zenon, <4>1, <4>2
    <3> QED
      BY Zenon, <2>1, <3>1, <3>2
  <2>5. TypeOK'
    <3>1. UNCHANGED <<poolCount, sleepers, pushing, pusher, refill, create, ask, pending, target, left,
                      write, immediate_completion>>
      BY Zenon, <2>1
    <3>2. /\ queued' \in [Create -> [Pool -> Nat]] /\ got' \in [Create -> [Pool -> Nat]]
          /\ served' \in [Create -> Nat] /\ stored' \in [Pool -> Nat]
      BY Zenon, <2>2, <2>3, <2>4
    <3> QED
      BY Zenon, <3>1, <3>2, Funs DEF TypeOK
  <2>6. GetOk(c) /\ create[c] = "posted" /\ ~immediate_completion
    <3>1. GetOk(c)
      BY Zenon DEF Base, Placed
    <3>2. queued[c] # NoHandles
      BY <2>1, Names
    <3> QED
      BY Zenon, <3>1, <3>2 DEF GetOk
  <2>7. Total(queued'[c]) = Total(queued[c]) - queued[c][p] + queued'[c][p]
    BY Zenon, <2>2, PoolTotals
  <2>8. Total(queued[c]) \in Nat /\ queued[c][p] \in Nat
    BY Zenon, <2>2 DEF TotalLaws
  <2>9. pending'[c] = Total(queued'[c]) + served'[c]
    <3>1. pending[c] = Total(queued[c]) + served[c]
      BY Zenon, <2>6 DEF GetOk
    <3> QED
      BY <2>1, <2>2, <2>3, <2>7, <2>8, <3>1
  <2>10. \A q \in Pool : Holding(c, q)' <= ask'[c][q]
    <3>1. \A q \in Pool : /\ queued[c][q] \in Nat /\ got[c][q] \in Nat /\ ask[c][q] \in Nat
                          /\ GivingBack(c, q) \in Nat /\ Holding(c, q) <= ask[c][q]
      <4>1. 0 \in Nat /\ left[c] \in Nat
        BY Funs, Names
      <4> QED
        BY Zenon, <2>6, <4>1, Amounts DEF GetOk, GivingBack
    <3>2. \A q \in Pool : GivingBack(c, q)' = GivingBack(c, q)
      BY Zenon, <2>1 DEF GivingBack
    <3>3. \A q \in Pool : queued'[c][q] + got'[c][q] <= queued[c][q] + got[c][q]
      BY <2>2, <2>4, <3>1
    <3>4. \A q \in Pool : queued'[c][q] \in Nat /\ got'[c][q] \in Nat
      BY Zenon, <2>2, <2>4
    <3> QED
      BY <2>1, <3>1, <3>2, <3>3, <3>4 DEF Holding
  <2>11. GetOk(c)'
    BY Zenon, <2>1, <2>6, <2>9, <2>10 DEF GetOk, Quiet
  <2>12. \A d \in Create : GetOk(d)'
    BY Zenon, <2>1, <2>2, <2>3, <2>4, <2>11, <1>GetKept DEF Base, Placed
  <2>13. Lines'
    BY Zenon, <2>1 DEF Base, Lines
  <2> QED
    BY Zenon, <2>1, <2>5, <2>12, <2>13, <1>JobKept, Names DEF Base, Placed
\* A write that is served, well or not, is still the write of its job.
<1>ServesBase.
      ASSUME Base, NEW j \in Job, write[j] = "posted", NEW w \in {"written", "failed"},
             write' = [write EXCEPT ![j] = w], stored' \in [Pool -> Nat],
             UNCHANGED <<poolCount, sleepers, pushing, pusher, refill, create,
                         getVars, target, left, immediate_completion>>
      PROVE  Base'
  <2> USE <1>ServesBase
  <2>1. UNCHANGED <<ask, queued, served, pending, got>>
    BY Zenon DEF getVars
  <2>2. /\ write' \in [Job -> {"none", "posted", "written", "failed"}]
        /\ \A i \in Job : write[i] = "none" <=> write'[i] = "none"
    BY Zenon, Funs
  <2>3. TypeOK'
    BY Zenon, <2>1, <2>2, Funs DEF TypeOK
  <2>4. \A i \in Job : Quiet(i) => Quiet(i)'
    BY Zenon, <2>2 DEF Quiet
  <2>5. \A i \in Job : JobOk(i)'
    BY Zenon, <2>2 DEF JobOk, Base, Placed
  <2>6. \A d \in Create : GetOk(d)'
    BY Zenon, <2>1, <2>4, <1>GetStays, Names DEF Base, Placed
  <2>7. Lines'
    BY Zenon DEF Base, Lines
  <2> QED
    BY Zenon, <2>3, <2>4, <2>5, <2>6, <2>7, Names DEF Base, Placed
<1>ServeWriteBase. ASSUME Base, NEW j \in Job, ServeWrite(j) \/ FailWrite(j) PROVE Base'
  <2> USE <1>ServeWriteBase
  <2>1. PICK p \in Pool : p = FillPool(j)
    BY Zenon, FillPools DEF ServeWrite, FailWrite
  <2>2. PICK n \in Nat : n = Posted(j)
    <3>1. left[j] \in Nat
      BY Zenon, Funs
    <3>2. Lesser(left[j], MaxKeys) \in Nat
      BY <3>1, Keys
    <3> QED
      BY Zenon, <3>2 DEF Posted
  <2>3. CASE ServeWrite(j)
    <3>1. stored' = [stored EXCEPT ![p] = @ + n]
      BY Zenon, <2>1, <2>2, <2>3 DEF ServeWrite
    <3>2. stored' \in [Pool -> Nat]
      BY <3>1, Nums
    <3> QED
      BY Zenon, <2>3, <3>2, <1>ServesBase DEF ServeWrite
  <2>4. CASE FailWrite(j)
    <3>1. \E k \in 0 .. n - 1 : stored' = [stored EXCEPT ![p] = @ + k]
      BY Zenon, <2>1, <2>2, <2>4 DEF FailWrite
    <3>2. stored' \in [Pool -> Nat]
      BY <3>1, Nums
    <3> QED
      BY Zenon, <2>4, <3>2, <1>ServesBase DEF FailWrite
  <2> QED
    BY Zenon, <2>3, <2>4
\* The callback of a get.
<1>GetCallbackBase. ASSUME TotalLaws, Base, NEW c \in Create, GetCallback(c) PROVE Base'
  <2> USE <1>GetCallbackBase
  <2>1. /\ served[c] > 0 /\ served' = [served EXCEPT ![c] = @ - 1]
        /\ pending' = [pending EXCEPT ![c] = @ - 1]
        /\ create' = [create EXCEPT ![c] = IF pending[c] - 1 = 0 THEN "have" ELSE create[c]]
        /\ UNCHANGED <<poolCount, stored, sleepers, pushing, pusher, refill, ask, queued, got, target,
                       left, write, immediate_completion>>
    BY Zenon DEF GetCallback, Completed, JobDone, fillVars
  <2>2. GetOk(c) /\ create[c] = "posted" /\ ~immediate_completion
    <3>1. served[c] # 0
      BY <2>1
    <3> QED
      BY Zenon, <3>1 DEF Base, Placed, GetOk
  <2>3. /\ served' \in [Create -> Nat] /\ served'[c] = served[c] - 1 /\ served[c] \in Nat
        /\ pending' \in [Create -> Int] /\ pending'[c] = pending[c] - 1 /\ pending[c] \in Int
    BY <2>1, Funs
  <2>4. /\ create' \in [Create -> {"idle", "asleep", "pushed", "posted", "have", "returning"}]
        /\ create'[c] = IF pending[c] - 1 = 0 THEN "have" ELSE "posted"
        /\ \A d \in Create : d # c => UNCHANGED <<served[d], pending[d], create[d]>>
    BY Zenon, <2>1, <2>2, Funs
  <2>5. TypeOK'
    BY Zenon, <2>1, <2>3, <2>4, Funs DEF TypeOK
  <2>6. /\ Total(queued[c]) \in Nat /\ pending[c] = Total(queued[c]) + served[c]
        /\ Total(queued[c]) = 0 => \A p \in Pool : queued[c][p] = 0
    <3>1. queued[c] \in [Pool -> Nat]
      BY Zenon, Funs
    <3> QED
      BY Zenon, <2>2, <3>1 DEF TotalLaws, GetOk
  <2>7. pending'[c] = Total(queued[c]) + served'[c]
    BY <2>3, <2>6
  <2>8. pending[c] - 1 = 0 => served'[c] = 0 /\ queued[c] = NoHandles
    <3>1. pending[c] - 1 = 0 => served'[c] = 0 /\ Total(queued[c]) = 0
      BY <2>1, <2>3, <2>6
    <3>2. queued[c] \in [Pool -> Nat]
      BY Zenon, Funs
    <3>3. (\A p \in Pool : queued[c][p] = 0) => queued[c] = NoHandles
      BY Zenon, <3>2 DEF NoHandles
    <3> QED
      BY Zenon, <2>6, <3>1, <3>3
  <2>9. Quiet(c) /\ Quiet(c)' /\ \A p \in Pool : Holding(c, p)' = Holding(c, p)
    BY Zenon, <2>1, <2>2 DEF GetOk, Quiet, Holding, GivingBack
  <2>10. GetOk(c)'
    BY Zenon, <2>1, <2>2, <2>4, <2>7, <2>8, <2>9 DEF GetOk
  <2>11. \A d \in Create : GetOk(d)'
    BY Zenon, <2>1, <2>4, <2>10, <1>GetKept DEF Base, Placed
  <2>12. Lines'
    BY Zenon, <2>1, <2>2, <2>4, <1>LineKept, Funs DEF Base, Lines
  <2> QED
    BY Zenon, <2>1, <2>5, <2>11, <2>12, <1>JobKept, Names DEF Base, Placed
\* The callback of a fill.
<1>FillCallbackBase. ASSUME Base, NEW j \in Job, FillCallback(j) PROVE Base'
  <2> USE <1>FillCallbackBase
  <2>1. PICK n \in Nat : n = Posted(j) /\ n <= left[j]
    BY PostedKeys, Funs
  <2>2. PICK p \in Pool : p = FillPool(j)
    BY Zenon, FillPools DEF FillCallback
  <2>3. /\ pusher = Nobody /\ write[j] = "written"
        /\ poolCount' = [poolCount EXCEPT ![p] = (@ + n) % CountRange]
        /\ left' = [left EXCEPT ![j] = @ - n] /\ write' = [write EXCEPT ![j] = "none"]
        /\ pusher' = j
        /\ UNCHANGED <<stored, refill, ask, queued, served, pending, got, target, immediate_completion>>
    BY Zenon, <2>1, <2>2 DEF FillCallback, CallbackFree, Grown, getVars
  <2>4. PICK m \in 0 .. Len(sleepers) :
          /\ pushing' = Turned(sleepers, m) /\ sleepers' = SubSeq(sleepers, m + 1, Len(sleepers))
          /\ create' = Moved(create, sleepers, m, "pushed")
    <3> DEFINE m == Lesser(Len(sleepers), Posted(j))
    <3>1. Len(sleepers) \in Nat
      BY Funs
    <3>2. m \in 0 .. Len(sleepers)
      BY <2>1, <3>1 DEF Lesser
    <3> QED
      BY Zenon, <3>2 DEF FillCallback, Unlisted, First, Turned, Moved
  <2>5. /\ pushing' \in Seq(Create) /\ sleepers' \in Seq(Create)
        /\ Lined(create', pushing', "pushed") /\ Lined(create', sleepers', "asleep")
        /\ \A c \in Create : create'[c] = create[c] \/ (create[c] = "asleep" /\ create'[c] = "pushed")
    <3>1. Lined(create, sleepers, "asleep") /\ sleepers \in Seq(Create)
      BY Zenon, Funs DEF Base, Lines
    <3> QED
      <4>1. "pushed" # "asleep"
        OBVIOUS
      <4>2. Parted(create, sleepers, m, "pushed", "asleep")
        BY Zenon, <3>1, <4>1, <1>LineSplits
      <4> QED
        BY Zenon, <2>4, <4>2 DEF Parted
  <2>6. create' \in [Create -> {"idle", "asleep", "pushed", "posted", "have", "returning"}]
    BY Zenon, <2>4, Funs DEF Moved
  <2>7. poolCount' \in [Pool -> 0 .. CountRange - 1]
    <3>1. poolCount[p] + n \in Nat
      BY Sizes, Funs
    <3>2. (poolCount[p] + n) % CountRange \in 0 .. CountRange - 1
      BY Zenon, <3>1, Wraps
    <3> QED
      BY Zenon, <2>3, <3>2, Funs
  <2>8. /\ left' \in [Job -> Nat] /\ left'[j] = left[j] - n
        /\ \A i \in Job : i # j => left'[i] = left[i]
    BY <2>1, <2>3, Funs
  <2>9. /\ write' \in [Job -> {"none", "posted", "written", "failed"}] /\ write'[j] = "none"
        /\ \A i \in Job : i # j => write'[i] = write[i]
    BY Zenon, <2>3, Funs
  <2>10. TypeOK'
    BY Zenon, <2>3, <2>5, <2>6, <2>7, <2>8, <2>9, Funs DEF TypeOK
  <2>11. ~Quiet(j) /\ \A i \in Job : JobOk(i)' /\ (Quiet(i) => Quiet(i)')
    <3>1. ~Quiet(j) /\ JobOk(j)'
      BY Zenon, <2>3, <2>9 DEF JobOk, Quiet
    <3> QED
      BY Zenon, <2>3, <2>8, <2>9, <3>1, <1>JobKept DEF Base, Placed
  <2>12. ASSUME NEW c \in Create PROVE GetOk(c)'
    <3>1. GetOk(c) /\ (Quiet(c) => Quiet(c)')
      BY Zenon, <2>11, Names DEF Base, Placed
    <3>2. \A q \in Pool : Holding(c, q)' <= ask'[c][q]
      <4>1. left'[c] \in Nat /\ left[c] \in Nat /\ left'[c] <= left[c]
        <5>1. left'[c] \in Nat /\ left[c] \in Nat /\ left[j] \in Nat
          BY Zenon, <2>8, Funs, Names
        <5>2. left'[c] \in {left[c], left[c] - n}
          BY Zenon, <2>8, Names
        <5> QED
          BY <5>1, <5>2
      <4>2. \A q \in Pool : /\ queued[c][q] \in Nat /\ got[c][q] \in Nat /\ ask[c][q] \in Nat
                            /\ Holding(c, q) <= ask[c][q]
        BY Zenon, <3>1, Amounts DEF GetOk
      <4>3. \A q \in Pool : GivingBack(c, q) \in Nat /\ GivingBack(c, q)' \in Nat
                            /\ GivingBack(c, q)' <= GivingBack(c, q)
        BY <2>3, <4>1 DEF GivingBack
      <4>4. \A q \in Pool : Holding(c, q)' = queued[c][q] + got[c][q] + GivingBack(c, q)'
        BY Zenon, <2>3 DEF Holding
      <4> QED
        BY <2>3, <4>2, <4>3, <4>4 DEF Holding
    <3>3. create'[c] = create[c] \/ (create[c] = "asleep" /\ create'[c] = "pushed")
      BY Zenon, <2>5
    <3> QED
      BY Zenon, <2>3, <3>1, <3>2, <3>3 DEF GetOk
  <2>13. Lines'
    BY Zenon, <2>3, <2>5, Names DEF Lines
  <2> QED
    BY Zenon, <2>3, <2>10, <2>11, <2>12, <2>13, Names DEF Base, Placed
\* A fill that failed is over.
<1>FillFailedBase. ASSUME Base, NEW j \in Job, FillFailed(j) PROVE Base'
  <2> USE <1>FillFailedBase
  <2>1. /\ pusher = Nobody /\ write[j] = "failed"
        /\ left' = [left EXCEPT ![j] = 0] /\ write' = [write EXCEPT ![j] = "none"]
        /\ refill' = [p \in Pool |-> IF p = j THEN "retry" ELSE refill[p]]
        /\ UNCHANGED <<poolCount, stored, sleepers, pushing, pusher, create, ask, queued, served,
                       pending, got, target, immediate_completion>>
    BY Zenon DEF FillFailed, CallbackFree, Filled, getVars
  <2>2. /\ left' \in [Job -> Nat] /\ left'[j] = 0 /\ \A i \in Job : i # j => left'[i] = left[i]
    BY <2>1, Funs
  <2>3. /\ write' \in [Job -> {"none", "posted", "written", "failed"}] /\ write'[j] = "none"
        /\ \A i \in Job : i # j => write'[i] = write[i]
        /\ refill' \in [Pool -> {"threshold", "waiting", "batch", "store", "retry"}]
    BY Zenon, <2>1, Funs
  <2>4. TypeOK'
    BY Zenon, <2>1, <2>2, <2>3, Funs DEF TypeOK
  <2>5. Quiet(j)' /\ JobOk(j)' /\ ~Quiet(j)
    BY Zenon, <2>1, <2>2, <2>3, Names DEF Quiet, JobOk
  <2>6. \A i \in Job : JobOk(i)' /\ (Quiet(i) => Quiet(i)')
    BY Zenon, <2>1, <2>2, <2>3, <2>5, <1>JobKept DEF Base, Placed
  <2>7. ASSUME NEW c \in Create PROVE GetOk(c)'
    <3>1. GetOk(c)
      BY Zenon DEF Base, Placed
    <3>2. CASE c # j
      BY Zenon, <2>1, <2>2, <2>6, <3>1, <3>2, <1>GetStays, Names
    <3>3. CASE c = j
      <4>1. \A q \in Pool : /\ queued[c][q] \in Nat /\ got[c][q] \in Nat /\ ask[c][q] \in Nat
                            /\ Holding(c, q) <= ask[c][q]
        BY Zenon, <3>1, Amounts DEF GetOk
      <4>2. \A q \in Pool : GivingBack(c, q) \in Nat /\ GivingBack(c, q)' = 0
        BY <2>1, <2>2, <3>3, Funs, Names DEF GivingBack
      <4>3. \A q \in Pool : Holding(c, q)' = queued[c][q] + got[c][q] + GivingBack(c, q)'
        BY Zenon, <2>1 DEF Holding
      <4>4. \A q \in Pool : Holding(c, q)' <= ask'[c][q]
        BY <2>1, <4>1, <4>2, <4>3 DEF Holding
      <4> QED
        BY Zenon, <2>1, <2>5, <3>1, <3>3, <4>4 DEF GetOk
    <3> QED
      BY Zenon, <3>2, <3>3
  <2>8. Lines'
    BY Zenon, <2>1 DEF Base, Lines
  <2>9. \A p \in Pool : refill'[p] # "store" => Quiet(p)'
    BY Zenon, <2>1, <2>5, <2>6, Names DEF Base, Placed
  <2> QED
    BY Zenon, <2>4, <2>6, <2>7, <2>8, <2>9, Names DEF Base, Placed
\* The rest of the callback.
<1>FillContinueBase. ASSUME Base, FillContinue PROVE Base'
  <2> USE <1>FillContinueBase
  <2>1. PICK j \in Job : j = pusher
    BY Zenon, Funs DEF FillContinue
  <2>2. PICK p \in Pool : p = FillPool(j)
    BY Zenon, <2>1, FillPools
  <2>3. /\ pushing = <<>> /\ pusher' = Nobody
        /\ UNCHANGED <<poolCount, sleepers, pushing, create, ask, queued, served, pending, got, target,
                       immediate_completion>>
    BY Zenon DEF FillContinue, getVars
  <2>4. write[j] = "none" /\ ~Quiet(j) /\ j # Nobody /\ \A i \in Job : i # Nobody
    BY Zenon, <2>1, Names DEF Base, Placed, JobOk, Quiet
  <2>5. Lines'
    BY Zenon, <2>3 DEF Base, Lines
  <2>6. CASE left[j] = 0 /\ refill' = [q \in Pool |-> IF q = j THEN "threshold" ELSE refill[q]]
             /\ UNCHANGED <<stored, left, write>>
    <3>1. refill' \in [Pool -> {"threshold", "waiting", "batch", "store", "retry"}]
      BY Zenon, <2>6, Funs
    <3>2. TypeOK'
      BY Zenon, <2>3, <2>6, <3>1, Funs DEF TypeOK
    <3>3. \A i \in Job : JobOk(i)' /\ (Quiet(i) => Quiet(i)')
      BY Zenon, <2>3, <2>4, <2>6, <1>JobKept DEF Base, Placed
    <3>4. Quiet(j)'
      BY Zenon, <2>3, <2>4, <2>6 DEF Quiet
    <3>5. \A c \in Create : GetOk(c)'
      BY Zenon, <2>3, <2>6, <3>3, <1>GetStays, Names DEF Base, Placed
    <3>6. \A q \in Pool : refill'[q] # "store" => Quiet(q)'
      BY Zenon, <2>6, <3>3, <3>4, Names DEF Base, Placed
    <3> QED
      BY Zenon, <2>5, <3>2, <3>3, <3>5, <3>6 DEF Base, Placed
  <2>7. CASE left[j] > 0 /\ PostWrite(j, p, left[j]) /\ UNCHANGED refill
    <3>1. left[j] \in Nat \ {0}
      BY <2>7, Funs
    <3>2. /\ left' \in [Job -> Nat] /\ write' \in [Job -> {"none", "posted", "written", "failed"}]
          /\ stored' \in [Pool -> Nat] /\ left'[j] = left[j] /\ write'[j] \in {"posted", "written", "failed"}
          /\ \A i \in Job : i # j => left'[i] = left[i] /\ write'[i] = write[i]
      BY Zenon, <2>7, <3>1, Posting DEF Issued
    <3>3. TypeOK'
      BY Zenon, <2>3, <2>7, <3>2, Funs DEF TypeOK
    <3>4. JobOk(j)'
      BY Zenon, <2>3, <2>4, <2>7, <3>2 DEF JobOk
    <3>5. \A i \in Job : JobOk(i)' /\ (Quiet(i) => Quiet(i)')
      BY Zenon, <2>3, <2>4, <3>2, <3>4, <1>JobKept DEF Base, Placed
    <3>6. \A c \in Create : left'[c] = left[c]
      BY Zenon, <3>2, Names
    <3>7. \A c \in Create : GetOk(c)'
      BY Zenon, <2>3, <3>5, <3>6, <1>GetStays, Names DEF Base, Placed
    <3> QED
      BY Zenon, <2>5, <2>7, <3>3, <3>5, <3>7, Names DEF Base, Placed
  <2> QED
    BY Zenon, <2>1, <2>2, <2>6, <2>7 DEF FillContinue, Filled
\* The refiller.
<1>RefillsBase.
      ASSUME Base, NEW p \in Pool, NEW r \in {"threshold", "batch", "waiting"}, refill[p] # "store",
             refill' = [refill EXCEPT ![p] = r],
             UNCHANGED <<poolCount, stored, sleepers, pushing, pusher, create, getVars, fillVars>>
      PROVE  Base'
  <2> USE <1>RefillsBase
  <2>1. UNCHANGED <<ask, queued, served, pending, got, target, left, write, immediate_completion>>
    BY Zenon DEF getVars, fillVars
  <2>2. /\ refill' \in [Pool -> {"threshold", "waiting", "batch", "store", "retry"}]
        /\ \A q \in Pool : refill'[q] # "store" => refill[q] # "store"
    BY Zenon, Funs
  <2>3. TypeOK'
    BY Zenon, <2>1, <2>2, Funs DEF TypeOK
  <2>4. \A i \in Job : JobOk(i)' /\ (Quiet(i) => Quiet(i)')
    BY Zenon, <2>1, <1>JobKept DEF Base, Placed
  <2>5. \A c \in Create : GetOk(c)'
    BY Zenon, <2>1, <1>GetKept DEF Base, Placed
  <2>6. Lines'
    BY Zenon DEF Base, Lines
  <2> QED
    BY Zenon, <2>2, <2>3, <2>4, <2>5, <2>6, Names DEF Base, Placed
<1>CheckLevelBase. ASSUME Base, NEW p \in Pool, CheckLevel(p) \/ RetryTimer(p) PROVE Base'
  <2> USE <1>CheckLevelBase
  <2>1. \E r \in {"threshold", "batch", "waiting"} : refill' = [refill EXCEPT ![p] = r]
    BY Zenon DEF CheckLevel, RetryTimer
  <2>2. /\ refill[p] # "store"
        /\ UNCHANGED <<poolCount, stored, sleepers, pushing, pusher, create, getVars, fillVars>>
    BY Zenon DEF CheckLevel, RetryTimer
  <2> QED
    BY Zenon, <2>1, <2>2, <1>RefillsBase
<1>BatchCreatedBase. ASSUME Base, NEW p \in Pool, BatchCreated(p) PROVE Base'
  <2> USE <1>BatchCreatedBase
  <2>1. /\ refill[p] = "batch" /\ refill' = [refill EXCEPT ![p] = "store"] /\ PostWrite(p, p, Batch)
        /\ UNCHANGED <<poolCount, sleepers, pushing, pusher, create, ask, queued, served, pending, got,
                       target, immediate_completion>>
    BY Zenon DEF BatchCreated, getVars
  <2>2. /\ left' \in [Job -> Nat] /\ write' \in [Job -> {"none", "posted", "written", "failed"}]
        /\ stored' \in [Pool -> Nat] /\ left'[p] = Batch /\ write'[p] \in {"posted", "written", "failed"}
        /\ \A i \in Job : i # p => left'[i] = left[i] /\ write'[i] = write[i]
    <3>1. p \in Job /\ Batch \in Nat \ {0}
      BY Zenon, Sizes, Names
    <3>2. Issued(p, p, Batch)
      BY Zenon, <2>1, <3>1, Posting
    <3> QED
      BY Zenon, <3>2 DEF Issued
  <2>3. /\ refill' \in [Pool -> {"threshold", "waiting", "batch", "store", "retry"}]
        /\ \A q \in Pool : refill'[q] # "store" => q # p /\ refill[q] # "store"
    BY Zenon, <2>1, Funs
  <2>4. TypeOK'
    BY Zenon, <2>1, <2>2, <2>3, Funs DEF TypeOK
  <2>5. pusher # p
    BY Zenon, <2>1 DEF Base, Placed, Quiet
  <2>6. JobOk(p)'
    <3>1. Batch > 0
      BY Sizes
    <3> QED
      BY Zenon, <2>1, <2>2, <2>5, <3>1 DEF JobOk
  <2>7. \A i \in Job : JobOk(i)' /\ (i # p /\ Quiet(i) => Quiet(i)')
    BY Zenon, <2>1, <2>2, <2>6, <1>JobKept DEF Base, Placed
  <2>8. \A c \in Create : c \in Job /\ c # p
    BY Zenon, Names
  <2>9. \A c \in Create : GetOk(c)'
    BY Zenon, <2>1, <2>2, <2>8, <1>GetKept DEF Base, Placed
  <2>10. Lines'
    BY Zenon, <2>1 DEF Base, Lines
  <2> QED
    BY Zenon, <2>3, <2>4, <2>7, <2>9, <2>10, Names DEF Base, Placed
<1>SignalErrorBase. ASSUME Base, NEW p \in Pool, SignalError(p) PROVE Base'
  <2> USE <1>SignalErrorBase
  <2>1. /\ create' = [c \in Create |-> IF c \in First(Len(sleepers)) THEN "idle" ELSE create[c]]
        /\ ask' = [c \in Create |-> IF c \in First(Len(sleepers)) THEN NoHandles ELSE ask[c]]
        /\ sleepers' = <<>>
        /\ UNCHANGED <<poolCount, stored, pushing, pusher, refill, queued, served, pending, got, target,
                       left, write, immediate_completion>>
    BY Zenon DEF SignalError, fillVars
  <2>2. \A c \in Create : c \in First(Len(sleepers)) => create[c] = "asleep"
    <3>1. \A i \in 1 .. Len(sleepers) : create[sleepers[i]] = "asleep"
      BY Zenon DEF Base, Lines, Lined
    <3> QED
      BY Zenon, <3>1 DEF First
  <2>3. /\ create' \in [Create -> {"idle", "asleep", "pushed", "posted", "have", "returning"}]
        /\ ask' \in [Create -> [Pool -> Nat]]
        /\ \A c \in Create : \/ create'[c] = create[c] /\ ask'[c] = ask[c]
                             \/ create[c] = "asleep" /\ create'[c] = "idle" /\ ask'[c] = NoHandles
    BY Zenon, <2>1, <2>2, Funs, Names
  <2>4. <<>> \in Seq(Create) /\ Lined(create', <<>>, "asleep")
    BY DEF Lined
  <2>5. TypeOK'
    BY Zenon, <2>1, <2>3, <2>4, Funs DEF TypeOK
  <2>6. \A i \in Job : JobOk(i)' /\ (Quiet(i) => Quiet(i)')
    BY Zenon, <2>1, <1>JobKept DEF Base, Placed
  <2>7. ASSUME NEW c \in Create PROVE GetOk(c)'
    <3>1. GetOk(c)
      BY Zenon DEF Base, Placed
    <3>2. CASE create'[c] = create[c] /\ ask'[c] = ask[c]
      BY Zenon, <2>1, <3>1, <3>2, <1>GetKept
    <3>3. CASE create[c] = "asleep" /\ create'[c] = "idle" /\ ask'[c] = NoHandles
      <4>1. /\ queued[c] = NoHandles /\ got[c] = NoHandles /\ served[c] = 0 /\ Quiet(c) /\ Quiet(c)'
        BY Zenon, <2>6, <3>1, <3>3, Names DEF GetOk
      <4>2. \A q \in Pool : Holding(c, q)' <= ask'[c][q]
        <5>1. \A q \in Pool : /\ queued'[c][q] = 0 /\ got'[c][q] = 0 /\ ask'[c][q] = 0
                              /\ GivingBack(c, q)' = 0
          BY Zenon, <2>1, <3>3, <4>1, Names DEF GivingBack, Quiet
        <5> QED
          BY <5>1 DEF Holding
      <4> QED
        BY Zenon, <2>1, <3>1, <3>3, <4>1, <4>2 DEF GetOk
    <3> QED
      BY Zenon, <2>3, <3>2, <3>3
  <2>8. \A c \in Create : create[c] = "pushed" => create'[c] = "pushed"
    BY Zenon, <2>3
  <2>9. Lines'
    BY Zenon, <2>1, <2>4, <2>8, <1>LineKept, Funs DEF Base, Lines
  <2> QED
    BY Zenon, <2>1, <2>5, <2>6, <2>7, <2>9, Names DEF Base, Placed
\* Every step keeps the types and the places.
<1>NextBase. ASSUME OneOfEach, TotalLaws, Base, [Next]_vars PROVE Base'
  <2> USE <1>NextBase
  <2>1. CASE UNCHANGED vars
    BY Zenon, <2>1 DEF vars, getVars, fillVars, Base, TypeOK, Placed, GetOk, JobOk, Quiet, Holding,
       GivingBack, Lines
  <2>2. CASE Next
    BY Zenon, <2>2, <1>GetHandlesBase, <1>PushSleeperBase, <1>FinishBase, <1>GiveBackBase, <1>ReplaceBase, <1>ServeGetBase,
       <1>ServeWriteBase, <1>GetCallbackBase, <1>FillCallbackBase, <1>FillFailedBase, <1>FillContinueBase,
       <1>CheckLevelBase, <1>BatchCreatedBase, <1>SignalErrorBase
       DEF Next, Requests, Storage, Callbacks, Refillers
  <2> QED
    BY Zenon, <2>1, <2>2
<1> QED
  BY Zenon, <1>NextBase

-----------------------------------------------------------------------------
(* The handles behind the count, and those with the requests.               *)

LEMMA ReportsNat == ASSUME Base, NEW j \in Job, NEW p \in Pool PROVE Reports(j, p) \in Nat
<1>1. Posted(j) \in Nat /\ 0 \in Nat
  BY PostedKeys
<1> QED
  BY Zenon, <1>1 DEF Reports

\* The sums, and how they change when one request or one job does.
LEMMA QueuedNat == ASSUME Base, NEW p \in Pool PROVE [d \in Create |-> queued[d][p]] \in [Create -> Nat]
<1>1. \A d \in Create : queued[d] \in [Pool -> Nat]
  BY Zenon, Funs
<1>2. \A d \in Create : queued[d][p] \in Nat
  BY Zenon, <1>1
<1> QED
  BY Zenon, <1>2

LEMMA QueuedSum ==
  ASSUME TotalLaws, Base, Base', NEW c \in Create, \A d \in Create : d # c => queued'[d] = queued[d],
         NEW p \in Pool
  PROVE  /\ QueuedGets(p) \in Nat /\ queued[c][p] \in Nat /\ queued'[c][p] \in Nat
         /\ QueuedGets(p)' = QueuedGets(p) - queued[c][p] + queued'[c][p]
         /\ queued[c][p] <= QueuedGets(p)
<1> DEFINE f == [d \in Create |-> queued[d][p]]
           g == [d \in Create |-> queued'[d][p]]
<1>1. queued \in [Create -> [Pool -> Nat]] /\ queued' \in [Create -> [Pool -> Nat]]
  BY Zenon DEF Base, TypeOK
<1>2. f \in [Create -> Nat] /\ g \in [Create -> Nat] /\ f[c] = queued[c][p] /\ g[c] = queued'[c][p]
  BY Zenon, <1>1
<1>3. \A d \in Create \ {c} : f[d] = g[d]
  BY Zenon
<1>4. QueuedGets(p) = Total(f) /\ QueuedGets(p)' = Total(g)
  BY Zenon DEF QueuedGets
<1> HIDE DEF f, g
<1>5. Total(f) \in Nat /\ Total(g) = Total(f) - f[c] + g[c] /\ f[c] <= Total(f)
  BY Zenon, <1>2, <1>3 DEF TotalLaws
<1>6. f[c] \in Nat /\ g[c] \in Nat
  BY Zenon, <1>2
<1> QED
  BY Zenon, <1>2, <1>4, <1>5, <1>6

LEMMA ReportedSum ==
  ASSUME TotalLaws, Base, Base', NEW p \in Pool, NEW j \in Job,
         \A i \in Job : i # j => Reports(i, p)' = Reports(i, p)
  PROVE  /\ Unreported(p) \in Nat /\ Reports(j, p) \in Nat /\ Reports(j, p)' \in Nat
         /\ Unreported(p)' = Unreported(p) - Reports(j, p) + Reports(j, p)'
<1> DEFINE f == [i \in Job |-> Reports(i, p)]
           g == [i \in Job |-> Reports(i, p)']
<1>1. \A i \in Job : Reports(i, p) \in Nat
  BY Zenon, ReportsNat
<1>2. \A i \in Job : Reports(i, p)' \in Nat
  <2>1. \A i \in Job : left'[i] \in Nat
    BY Zenon DEF Base, TypeOK
  <2>2. \A i \in Job : Posted(i)' \in Nat /\ 0 \in Nat
    BY <2>1, Keys DEF Posted
  <2> QED
    BY Zenon, <2>2 DEF Reports
<1>3. f \in [Job -> Nat] /\ g \in [Job -> Nat] /\ f[j] = Reports(j, p) /\ g[j] = Reports(j, p)'
  BY Zenon, <1>1, <1>2
<1>4. \A i \in Job \ {j} : f[i] = g[i]
  BY Zenon
<1>5. Unreported(p) = Total(f) /\ Unreported(p)' = Total(g)
  BY Zenon DEF Unreported, Reports
<1> HIDE DEF f, g
<1>6. Total(f) \in Nat /\ Total(g) = Total(f) - f[j] + g[j]
  BY Zenon, <1>3, <1>4 DEF TotalLaws
<1> QED
  BY Zenon, <1>1, <1>2, <1>3, <1>5, <1>6

\* What a job has to report changes only with its write, what is left and its pool.
LEMMA ReportsKept ==
  ASSUME NEW i \in Job, UNCHANGED <<write[i], left[i], target[i]>>
  PROVE  \A p \in Pool : Reports(i, p)' = Reports(i, p)
BY Zenon DEF Reports, FillPool, Posted

\* Every step keeps the handles behind the count.
LEMMA NextBacked ==
  OneOfEach /\ TotalLaws /\ Base /\ Base' /\ CountBacked /\ [Next]_vars
    => CountBacked'
\* A step of one job keeps CountBacked if the storage gains what the count and the keys to
\* be reported do.
<1>BackedByJob.
      ASSUME TotalLaws, Base, Base', CountBacked, NEW j \in Job, queued' = queued,
             \A p \in Pool : \A i \in Job : i # j => Reports(i, p)' = Reports(i, p),
             \A p \in Pool : stored'[p] - poolCount'[p] - Reports(j, p)'
                               >= stored[p] - poolCount[p] - Reports(j, p)
      PROVE  CountBacked'
  <2> USE <1>BackedByJob
  <2> SUFFICES ASSUME NEW p \in Pool
               PROVE  stored'[p] >= poolCount'[p] + QueuedGets(p)' + Unreported(p)'
    BY Zenon DEF CountBacked
  <2>1. QueuedGets(p)' = QueuedGets(p)
    BY Zenon DEF QueuedGets
  <2>2. /\ Unreported(p) \in Nat /\ Reports(j, p) \in Nat /\ Reports(j, p)' \in Nat
        /\ Unreported(p)' = Unreported(p) - Reports(j, p) + Reports(j, p)'
    BY Zenon, ReportedSum
  <2>3. /\ stored[p] >= poolCount[p] + QueuedGets(p) + Unreported(p)
        /\ stored'[p] - poolCount'[p] - Reports(j, p)' >= stored[p] - poolCount[p] - Reports(j, p)
    BY Zenon DEF CountBacked
  <2>4. stored[p] \in Nat /\ stored'[p] \in Nat /\ poolCount[p] \in Int /\ poolCount'[p] \in Int
    BY DEF Base, TypeOK
  <2>5. QueuedGets(p) \in Nat
    <3>1. [d \in Create |-> queued[d][p]] \in [Create -> Nat]
      BY Zenon, QueuedNat
    <3> QED
      BY Zenon, <3>1 DEF TotalLaws, QueuedGets
  <2> QED
    BY <2>1, <2>2, <2>3, <2>4, <2>5
\* A request takes handles, or does not.
<1>TryPostBacked.
      ASSUME OneOfEach, TotalLaws, Base, Base', CountBacked, NEW c \in Create,
             NEW a \in Ask \cup {NoHandles}, create[c] \in {"idle", "pushed"}, TryPost(c, a),
             UNCHANGED fillVars
      PROVE  CountBacked'
  <2> USE <1>TryPostBacked
  <2> SUFFICES ASSUME NEW p \in Pool
               PROVE  stored'[p] >= poolCount'[p] + QueuedGets(p)' + Unreported(p)'
    BY Zenon DEF CountBacked
  <2>1. Unreported(p)' = Unreported(p)
    <3>1. UNCHANGED <<write, left, target>>
      BY Zenon DEF fillVars
    <3> QED
      BY Zenon, <3>1 DEF Unreported, FillPool, Posted
  <2>2. PICK i \in Job : TRUE
    BY Zenon, Names
  <2>3. Unreported(p) \in Nat /\ stored[p] >= poolCount[p] + QueuedGets(p) + Unreported(p)
    <3>1. \A k \in Job : UNCHANGED <<write[k], left[k], target[k]>>
      BY Zenon DEF fillVars
    <3> QED
      BY Zenon, <2>2, <3>1, ReportedSum, ReportsKept DEF CountBacked
  <2>4. queued[c] = NoHandles /\ queued[c][p] = 0
    BY Zenon, Names DEF Base, Placed, GetOk
  <2>5. stored[p] \in Nat /\ poolCount[p] \in Nat /\ a[p] \in {0, 1}
    BY Funs, Decrements
  <2>6. CASE Sleep(c, a) \/ Refuse(c)
    <3>1. UNCHANGED <<queued, stored, poolCount>>
      BY Zenon, <2>6 DEF Sleep, Refuse
    <3>2. QueuedGets(p)' = QueuedGets(p)
      BY Zenon, <3>1 DEF QueuedGets
    <3> QED
      BY Zenon, <2>1, <2>3, <3>1, <3>2
  <2>7. CASE Post(c, a)
    <3>1. /\ Stocked /\ poolCount' = [q \in Pool |-> Less(q, a[q])]
      BY Zenon, <2>7 DEF Post
    <3>2. poolCount'[p] = poolCount[p] - a[p]
      BY Zenon, <3>1, Decrements
    <3>3. CASE ~immediate_completion
      <4>1. queued' = [queued EXCEPT ![c] = a] /\ stored' = stored
        BY Zenon, <2>7, <3>3 DEF Post
      <4>2. queued'[c] = a /\ \A d \in Create : d # c => queued'[d] = queued[d]
        BY Zenon, <4>1, Funs
      <4>3. /\ QueuedGets(p) \in Nat /\ QueuedGets(p)' = QueuedGets(p) - queued[c][p] + queued'[c][p]
        BY Zenon, <4>2, QueuedSum
      <4> QED
        BY <2>1, <2>3, <2>4, <2>5, <3>2, <4>1, <4>2, <4>3
    <3>4. CASE immediate_completion
      <4>1. queued' = queued /\ stored' = [q \in Pool |-> stored[q] - Lesser(a[q], stored[q])]
        BY Zenon, <2>7, <3>4 DEF Post
      <4>2. QueuedGets(p)' = QueuedGets(p) /\ QueuedGets(p) \in Nat
        BY Zenon, <4>1, QueuedSum DEF QueuedGets
      <4>3. stored'[p] = stored[p] - Lesser(a[p], stored[p])
        BY Zenon, <4>1
      <4>5. stored'[p] >= stored[p] - a[p]
        BY <2>5, <4>3 DEF Lesser
      <4>6. stored'[p] \in Nat
        BY Zenon DEF Base, TypeOK
      <4> QED
        BY <2>1, <2>3, <2>5, <3>2, <4>2, <4>5, <4>6
    <3> QED
      BY Zenon, <3>3, <3>4
  <2> QED
    BY Zenon, <2>6, <2>7 DEF TryPost
\* The storage serves a get.
<1>ServeGetBacked.
      ASSUME TotalLaws, Base, Base', CountBacked, NEW c \in Create, NEW q \in Pool, ServeGet(c, q)
      PROVE  CountBacked'
  <2> USE <1>ServeGetBacked
  <2> SUFFICES ASSUME NEW p \in Pool
               PROVE  stored'[p] >= poolCount'[p] + QueuedGets(p)' + Unreported(p)'
    BY Zenon DEF CountBacked
  <2>1. /\ queued[c][q] > 0 /\ queued' = [queued EXCEPT ![c][q] = @ - 1]
        /\ stored' = [stored EXCEPT ![q] = @ - 1] \/ stored' = stored
        /\ UNCHANGED <<poolCount, target, left, write>>
    BY Zenon DEF ServeGet, fillVars
  <2>2. Unreported(p)' = Unreported(p)
    BY Zenon, <2>1 DEF Unreported, FillPool, Posted
  <2>3. Unreported(p) \in Nat /\ stored[p] >= poolCount[p] + QueuedGets(p) + Unreported(p)
    BY Zenon, <2>1, ReportedSum, ReportsKept, Names DEF CountBacked
  <2>4. stored[p] \in Nat /\ poolCount[p] \in Nat /\ stored[q] \in Nat
    BY Funs
  <2>5. \A d \in Create : d # c => queued'[d] = queued[d]
    BY Zenon, <2>1, Funs
  <2>6. /\ QueuedGets(p) \in Nat /\ queued[c][p] \in Nat
        /\ QueuedGets(p)' = QueuedGets(p) - queued[c][p] + queued'[c][p]
    BY Zenon, <2>5, QueuedSum
  <2>7. /\ queued'[c][p] = IF p = q THEN queued[c][p] - 1 ELSE queued[c][p]
        /\ stored'[p] >= IF p = q THEN stored[p] - 1 ELSE stored[p]
        /\ stored'[p] \in Int
    <3>1. CASE p = q
      BY <2>1, <3>1, Nums
    <3>2. CASE p # q
      BY <2>1, <3>2, Nums
    <3> QED
      BY Zenon, <3>1, <3>2
  <2> QED
    BY <2>1, <2>2, <2>3, <2>4, <2>6, <2>7
\* A write is posted, and perhaps done, where none was out.
<1>PostingBacked.
      ASSUME TotalLaws, Base, Base', CountBacked, NEW j \in Job, NEW p \in Pool, NEW l \in Nat \ {0},
             PostWrite(j, p, l), write[j] = "none", FillPool(j)' = p, UNCHANGED <<queued, poolCount>>,
             \A i \in Create : i # j => target'[i] = target[i]
      PROVE  CountBacked'
  <2> USE <1>PostingBacked
  <2>1. /\ stored' \in [Pool -> Nat] /\ left'[j] = l
        /\ \A i \in Job : i # j => left'[i] = left[i] /\ write'[i] = write[i]
        /\ \A q \in Pool : /\ stored'[q] >= stored[q]
                           /\ q = p /\ write'[j] = "written" =>
                                stored'[q] >= stored[q] + Lesser(l, MaxKeys)
    BY Zenon, Posting DEF Issued
  <2>2. \A i \in Job : i # j => FillPool(i)' = FillPool(i)
    BY Zenon DEF FillPool, Job
  <2>3. \A q \in Pool : \A i \in Job : i # j => Reports(i, q)' = Reports(i, q)
    BY Zenon, <2>1, <2>2 DEF Reports, Posted
  <2>4. \A q \in Pool : Reports(j, q) = 0
    BY Zenon DEF Reports
  <2>5. \A q \in Pool : Reports(j, q)' = IF write'[j] = "written" /\ q = p THEN Lesser(l, MaxKeys) ELSE 0
    BY Zenon, <2>1 DEF Reports, Posted
  <2>6. l \in Nat
    OBVIOUS
  <2>7. Lesser(l, MaxKeys) \in Nat
    BY <2>6, Keys
  <2>8. \A q \in Pool : stored'[q] \in Nat /\ stored[q] \in Nat /\ poolCount[q] \in Nat
    BY <2>1, Funs
  <2>9. \A q \in Pool : stored'[q] - poolCount'[q] - Reports(j, q)'
                          >= stored[q] - poolCount[q] - Reports(j, q)
    BY <2>1, <2>4, <2>5, <2>7, <2>8
  <2> QED
    BY Zenon, <2>3, <2>9, <1>BackedByJob
\* The other steps of the fills.
<1>WritesBacked.
      ASSUME TotalLaws, Base, Base', CountBacked, NEW j \in Job,
             ServeWrite(j) \/ FailWrite(j) \/ FillCallback(j) \/ FillFailed(j)
      PROVE  CountBacked'
  <2> USE <1>WritesBacked
  <2>1. /\ write[j] # "none" /\ UNCHANGED <<queued, target>>
    BY Zenon DEF ServeWrite, FailWrite, FillCallback, FillFailed, getVars
  <2>2. PICK p \in Pool : p = FillPool(j)
    BY Zenon, <2>1, FillPools
  <2>3. FillPool(j)' = p /\ \A i \in Job : FillPool(i)' = FillPool(i)
    BY Zenon, <2>1, <2>2 DEF FillPool
  <2>4. PICK n \in Nat : n = Posted(j)
    BY Zenon, PostedKeys
  <2>5. \A i \in Job : i # j => left'[i] = left[i] /\ write'[i] = write[i]
    BY Zenon, Funs DEF ServeWrite, FailWrite, FillCallback, FillFailed
  <2>6. \A q \in Pool : \A i \in Job : i # j => Reports(i, q)' = Reports(i, q)
    BY Zenon, <2>3, <2>5 DEF Reports, Posted
  <2>7. \A q \in Pool : stored[q] \in Nat /\ poolCount[q] \in Nat
    BY Funs
  <2>8. CASE ServeWrite(j)
    <3>1. /\ write[j] = "posted" /\ write'[j] = "written" /\ stored' = [stored EXCEPT ![p] = @ + n]
          /\ left' = left /\ poolCount' = poolCount
      BY Zenon, <2>2, <2>4, <2>8, Funs DEF ServeWrite
    <3>2. \A q \in Pool : Reports(j, q) = 0 /\ Reports(j, q)' = IF q = p THEN n ELSE 0
      BY Zenon, <2>3, <2>4, <3>1 DEF Reports, Posted
    <3>3. \A q \in Pool : stored'[q] = IF q = p THEN stored[q] + n ELSE stored[q]
      BY Zenon, <3>1, Funs
    <3>4. \A q \in Pool : stored'[q] - poolCount'[q] - Reports(j, q)'
                            >= stored[q] - poolCount[q] - Reports(j, q)
      BY <2>7, <3>1, <3>2, <3>3
    <3> QED
      BY Zenon, <2>1, <2>6, <3>4, <1>BackedByJob
  <2>9. CASE FailWrite(j)
    <3>1. PICK k \in 0 .. n - 1 : stored' = [stored EXCEPT ![p] = @ + k]
      BY Zenon, <2>2, <2>4, <2>9 DEF FailWrite
    <3>2. write[j] = "posted" /\ write'[j] = "failed" /\ poolCount' = poolCount
      BY Zenon, <2>9, Funs DEF FailWrite
    <3>3. \A q \in Pool : Reports(j, q) = 0 /\ Reports(j, q)' = 0
      BY Zenon, <3>2 DEF Reports
    <3>4. \A q \in Pool : stored'[q] = IF q = p THEN stored[q] + k ELSE stored[q]
      BY Zenon, <3>1, Funs
    <3>5. \A q \in Pool : stored'[q] - poolCount'[q] - Reports(j, q)'
                            >= stored[q] - poolCount[q] - Reports(j, q)
      BY <2>7, <3>2, <3>3, <3>4
    <3> QED
      BY Zenon, <2>1, <2>6, <3>5, <1>BackedByJob
  <2>10. CASE FillCallback(j)
    <3>1. /\ write[j] = "written" /\ write'[j] = "none" /\ stored' = stored
          /\ poolCount' = [poolCount EXCEPT ![p] = (@ + n) % CountRange]
      BY Zenon, <2>2, <2>4, <2>10, Funs DEF FillCallback, Grown
    <3>2. \A q \in Pool : Reports(j, q)' = 0 /\ Reports(j, q) = IF q = p THEN n ELSE 0
      BY ZenonT(30), <2>2, <2>4, <3>1 DEF Reports
    <3>3. poolCount[p] + n \in Nat
      BY <2>7
    <3>4. (poolCount[p] + n) % CountRange <= poolCount[p] + n /\ (poolCount[p] + n) % CountRange \in Nat
      BY <3>3, Wraps
    <3>5. \A q \in Pool : poolCount'[q] = IF q = p THEN (poolCount[p] + n) % CountRange ELSE poolCount[q]
      BY Zenon, <3>1, Funs
    <3> DEFINE v == (poolCount[p] + n) % CountRange
    <3>6. v <= poolCount[p] + n /\ v \in Nat /\ \A q \in Pool : poolCount'[q] = IF q = p THEN v ELSE poolCount[q]
      BY Zenon, <3>4, <3>5
    <3> HIDE DEF v
    <3>7. \A q \in Pool : stored'[q] - poolCount'[q] - Reports(j, q)'
                            >= stored[q] - poolCount[q] - Reports(j, q)
      BY <2>7, <3>1, <3>2, <3>6
    <3> QED
      BY Zenon, <2>1, <2>6, <3>7, <1>BackedByJob
  <2>11. CASE FillFailed(j)
    <3>1. write[j] = "failed" /\ write'[j] = "none" /\ poolCount' = poolCount /\ stored' = stored
      BY Zenon, <2>11, Funs DEF FillFailed
    <3>2. \A q \in Pool : Reports(j, q) = 0 /\ Reports(j, q)' = 0
      BY Zenon, <3>1 DEF Reports
    <3>3. \A q \in Pool : stored'[q] - poolCount'[q] - Reports(j, q)'
                            >= stored[q] - poolCount[q] - Reports(j, q)
      BY <2>7, <3>1, <3>2
    <3> QED
      BY Zenon, <2>1, <2>6, <3>3, <1>BackedByJob
  <2> QED
    BY Zenon, <2>8, <2>9, <2>10, <2>11
\* A step that leaves counts, storage and writes alone.
<1>BackedKept.
      ASSUME CountBacked, UNCHANGED <<poolCount, stored, queued, target, left, write>>
      PROVE  CountBacked'
  BY Zenon, <1>BackedKept DEF CountBacked, QueuedGets, Unreported, FillPool, Posted
\* Every step keeps the handles behind the count.
<1>NextBacked. ASSUME OneOfEach, TotalLaws, Base, Base', CountBacked, [Next]_vars PROVE CountBacked'
  <2> USE <1>NextBacked
  <2>1. CASE UNCHANGED vars
    BY Zenon, <2>1, <1>BackedKept DEF vars, getVars, fillVars
  <2>2. ASSUME NEW c \in Create, NEW a \in Ask, GetHandles(c, a) PROVE CountBacked'
    BY Zenon, <2>2, <1>TryPostBacked DEF GetHandles
  <2>3. ASSUME NEW c \in Create, Finish(c) \/ GiveBack(c) \/ GetCallback(c) PROVE CountBacked'
    BY Zenon, <2>3, <1>BackedKept DEF Finish, GiveBack, GetCallback, getVars, fillVars
  <2>4. ASSUME NEW c \in Create, Replace(c) PROVE CountBacked'
    <3>1. write[c] = "none" /\ UNCHANGED <<queued, poolCount>>
      BY Zenon, <2>4 DEF Replace
    <3>2. ASSUME NEW p \in Pool, target' = [target EXCEPT ![c] = p], PostWrite(c, p, 1) PROVE CountBacked'
      <4>1. FillPool(c)' = p /\ \A i \in Create : i # c => target'[i] = target[i]
        BY Zenon, <3>2, Funs, Names DEF FillPool
      <4>2. 1 \in Nat \ {0}
        OBVIOUS
      <4> QED
        BY Zenon, <3>1, <3>2, <4>1, <4>2, <1>PostingBacked, Names
    <3>3. ASSUME target' = [target EXCEPT ![c] = Nobody], UNCHANGED <<stored, left, write>>
          PROVE  CountBacked'
      <4>1. \A i \in Job : i # c => FillPool(i)' = FillPool(i)
        BY Zenon, <3>3, Funs DEF FillPool, Job
      <4>2. \A q \in Pool : \A i \in Job : i # c => Reports(i, q)' = Reports(i, q)
        BY Zenon, <3>3, <4>1 DEF Reports, Posted
      <4>3. \A q \in Pool : Reports(c, q)' = 0 /\ Reports(c, q) = 0
        BY Zenon, <3>1, <3>3 DEF Reports
      <4>4. \A q \in Pool : stored[q] \in Nat /\ poolCount[q] \in Nat
        BY Funs
      <4>5. \A q \in Pool : stored'[q] - poolCount'[q] - Reports(c, q)'
                              >= stored[q] - poolCount[q] - Reports(c, q)
        BY <3>1, <3>3, <4>3, <4>4
      <4> QED
        BY Zenon, <3>1, <4>2, <4>5, <1>BackedByJob, Names
    <3> QED
      BY Zenon, <2>4, <3>2, <3>3 DEF Replace
  <2>5. ASSUME NEW c \in Create, NEW p \in Pool, ServeGet(c, p) PROVE CountBacked'
    BY Zenon, <2>5, <1>ServeGetBacked
  <2>6. ASSUME NEW j \in Job, ServeWrite(j) \/ FailWrite(j) \/ FillCallback(j) \/ FillFailed(j)
        PROVE  CountBacked'
    BY Zenon, <2>6, <1>WritesBacked
  <2>7. ASSUME PushSleeper PROVE CountBacked'
    <3>1. PICK c \in Create : c = Head(pushing) /\ create[c] = "pushed"
      BY Zenon, <2>7, PushHead
    <3>2. PICK a \in Ask \cup {NoHandles} : a = ask[c]
      BY Zenon DEF Base, Placed, GetOk
    <3>3. TryPost(c, a) /\ UNCHANGED fillVars
      BY Zenon, <2>7, <3>1, <3>2 DEF PushSleeper
    <3> QED
      BY Zenon, <3>1, <3>3, <1>TryPostBacked
  <2>8. ASSUME FillContinue PROVE CountBacked'
    <3>1. PICK j \in Job : j = pusher
      BY Zenon, <2>8, Funs DEF FillContinue
    <3>2. PICK p \in Pool : p = FillPool(j)
      BY Zenon, <3>1, FillPools
    <3>3. /\ UNCHANGED <<queued, poolCount, target>> /\ write[j] = "none" /\ FillPool(j)' = p
      BY Zenon, <2>8, <3>1, <3>2 DEF FillContinue, FillPool, getVars, Base, Placed, JobOk
    <3>4. CASE UNCHANGED <<stored, left, write>>
      BY Zenon, <3>3, <3>4, <1>BackedKept
    <3>5. CASE left[j] > 0 /\ PostWrite(j, p, left[j])
      <4>1. left[j] \in Nat \ {0}
        BY <3>5, Funs
      <4> QED
        BY Zenon, <3>3, <3>5, <4>1, <1>PostingBacked
    <3> QED
      BY Zenon, <2>8, <3>1, <3>2, <3>4, <3>5 DEF FillContinue
  <2>9. ASSUME NEW p \in Pool, CheckLevel(p) \/ RetryTimer(p) \/ SignalError(p) PROVE CountBacked'
    BY Zenon, <2>9, <1>BackedKept DEF CheckLevel, RetryTimer, SignalError, getVars, fillVars
  <2>10. ASSUME NEW p \in Pool, BatchCreated(p) PROVE CountBacked'
    <3>1. /\ PostWrite(p, p, Batch) /\ UNCHANGED <<queued, poolCount, target>> /\ refill[p] = "batch"
      BY Zenon, <2>10 DEF BatchCreated, getVars
    <3>2. write[p] = "none" /\ FillPool(p)' = p
      BY Zenon, <3>1 DEF Base, Placed, Quiet, FillPool
    <3> QED
      BY Zenon, <3>1, <3>2, <1>PostingBacked, Sizes, Names
  <2> QED
    BY Zenon, <2>1, <2>2, <2>3, <2>4, <2>5, <2>6, <2>7, <2>8, <2>9, <2>10
       DEF Next, Requests, Storage, Callbacks, Refillers
<1> QED
  BY Zenon, <1>NextBacked

LEMMA NextServed ==
  OneOfEach /\ "get" \notin Faults /\ TotalLaws /\ Base /\ Base' /\ CountBacked /\ Served /\ [Next]_vars
    => Served'
\* A request whose handles do not change.
<1>ServedKept.
      ASSUME Served, NEW c \in Create, UNCHANGED <<queued[c], got[c], ask[c]>>,
             create'[c] \in {"posted", "have"} => create[c] \in {"posted", "have"}
      PROVE  \A p \in Pool : create'[c] \in {"posted", "have"} => queued'[c][p] + got'[c][p] = ask'[c][p]
  BY Zenon, <1>ServedKept DEF Served
\* All that is asked for is there when it is taken at once.
<1>TryPostServed.
      ASSUME OneOfEach, TotalLaws, Base, Base', CountBacked, Served, NEW c \in Create,
             NEW a \in Ask \cup {NoHandles}, create[c] \in {"idle", "pushed"}, TryPost(c, a)
      PROVE  Served'
  <2> USE <1>TryPostServed
  <2>1. ASSUME NEW d \in Create, d # c
        PROVE  \A p \in Pool : create'[d] \in {"posted", "have"} => queued'[d][p] + got'[d][p] = ask'[d][p]
    <3>1. UNCHANGED <<queued[d], got[d], ask[d], create[d]>>
      BY ZenonT(30), <2>1, Funs DEF TryPost, Sleep, Refuse, Post
    <3> QED
      BY Zenon, <3>1, <1>ServedKept
  <2>2. CASE Sleep(c, a) \/ Refuse(c)
    <3>1. create'[c] \in {"asleep", "idle"}
      BY Zenon, <2>2, Funs DEF Sleep, Refuse
    <3> QED
      BY Zenon, <2>1, <3>1 DEF Served
  <2>3. CASE Post(c, a)
    <3>1. Stocked /\ ask'[c] = a
      BY Zenon, <2>3, Funs DEF Post
    <3>2. got[c] = NoHandles
      BY Zenon DEF Base, Placed, GetOk
    <3>3. ASSUME NEW p \in Pool PROVE queued'[c][p] + got'[c][p] = ask'[c][p]
      <4>1. a[p] \in {0, 1} /\ stored[p] \in Nat /\ poolCount[p] \in Nat /\ poolCount[p] >= 1
        BY <3>1, Decrements, Funs DEF Stocked
      <4>2. CASE ~immediate_completion
        <5>1. queued'[c] = a /\ got'[c] = NoHandles
          BY Zenon, <2>3, <3>2, <4>2, Funs DEF Post
        <5> QED
          BY <3>1, <4>1, <5>1, Names
      <4>3. CASE immediate_completion
        <5>1. queued' = queued /\ got' = [got EXCEPT ![c] = [q \in Pool |-> Lesser(a[q], stored[q])]]
          BY Zenon, <2>3, <4>3 DEF Post
        <5>2. queued'[c] = NoHandles /\ got'[c][p] = Lesser(a[p], stored[p])
          BY Zenon, <4>3, <5>1, Funs DEF Base, Placed, GetOk
        <5>3. QueuedGets(p) \in Nat /\ Unreported(p) \in Nat /\ stored[p] >= poolCount[p] + QueuedGets(p) + Unreported(p)
          <6>1. [d \in Create |-> queued[d][p]] \in [Create -> Nat]
            BY Zenon, QueuedNat
          <6>2. [i \in Job |-> Reports(i, p)] \in [Job -> Nat]
            BY Zenon, ReportsNat
          <6> QED
            BY Zenon, <6>1, <6>2 DEF TotalLaws, QueuedGets, Unreported, Reports, CountBacked
        <5>4. a[p] \in Int /\ stored[p] \in Int /\ a[p] <= stored[p]
          BY <4>1, <5>3
        <5>5. Lesser(a[p], stored[p]) = a[p]
          BY Zenon, <5>4 DEF Lesser
        <5> QED
          BY <3>1, <4>1, <5>2, <5>5, Names
      <4> QED
        BY Zenon, <4>2, <4>3
    <3> QED
      BY Zenon, <2>1, <3>3 DEF Served
  <2> QED
    BY Zenon, <2>2, <2>3 DEF TryPost
\* The iterate-and-remove finds a handle.
<1>ServeGetServed.
      ASSUME "get" \notin Faults, TotalLaws, Base, Base', CountBacked, Served, NEW c \in Create,
             NEW p \in Pool, ServeGet(c, p)
      PROVE  Served'
  <2> USE <1>ServeGetServed
  <2>1. /\ queued[c][p] > 0 /\ queued' = [queued EXCEPT ![c][p] = @ - 1] /\ UNCHANGED <<ask, create>>
        /\ stored[p] = 0 \/ got' = [got EXCEPT ![c][p] = @ + 1]
        /\ UNCHANGED <<target, left, write>>
    BY Zenon DEF ServeGet, fillVars
  <2>2. \A d \in Create : d # c => queued'[d] = queued[d]
    BY Zenon, <2>1, Funs
  <2>3. stored[p] # 0
    <3>1. QueuedGets(p) \in Nat /\ queued[c][p] \in Nat /\ queued[c][p] <= QueuedGets(p)
      BY Zenon, <2>2, QueuedSum
    <3>2. Unreported(p) \in Nat /\ stored[p] >= poolCount[p] + QueuedGets(p) + Unreported(p)
      BY Zenon, <2>1, ReportedSum, ReportsKept, Names DEF CountBacked
    <3>3. poolCount[p] \in Nat /\ stored[p] \in Nat
      BY Funs
    <3> QED
      BY <2>1, <3>1, <3>2, <3>3
  <2>4. got' = [got EXCEPT ![c][p] = @ + 1]
    BY Zenon, <2>1, <2>3
  <2>5. ASSUME NEW d \in Create, d # c
        PROVE  \A q \in Pool : create'[d] \in {"posted", "have"} => queued'[d][q] + got'[d][q] = ask'[d][q]
    <3>1. UNCHANGED <<queued[d], got[d], ask[d], create[d]>>
      BY Zenon, <2>1, <2>2, <2>4, <2>5, Funs
    <3> QED
      BY Zenon, <3>1, <1>ServedKept
  <2>6. \A q \in Pool : queued'[c][q] + got'[c][q] = queued[c][q] + got[c][q]
    <3>1. \A q \in Pool : queued[c][q] \in Nat /\ got[c][q] \in Nat
      BY Funs
    <3>2. \A q \in Pool : q # p => queued'[c][q] = queued[c][q] /\ got'[c][q] = got[c][q]
      BY Zenon, <2>1, <2>4, Funs
    <3>3. queued'[c][p] = queued[c][p] - 1 /\ got'[c][p] = got[c][p] + 1
      BY Zenon, <2>1, <2>4, Funs
    <3> QED
      BY <3>1, <3>2, <3>3
  <2>7. \A q \in Pool : create'[c] \in {"posted", "have"} => queued'[c][q] + got'[c][q] = ask'[c][q]
    BY Zenon, <2>1, <2>6 DEF Served
  <2> QED
    BY Zenon, <2>5, <2>7 DEF Served
\* A step that leaves the handles of the requests alone, but for those that give up theirs.
<1>ServedSame.
      ASSUME Served,
             \A c \in Create : create'[c] \in {"posted", "have"} =>
                create[c] \in {"posted", "have"} /\ UNCHANGED <<queued[c], got[c], ask[c]>>
      PROVE  Served'
  BY Zenon, <1>ServedSame DEF Served
<1>NextServed.
      ASSUME OneOfEach, "get" \notin Faults, TotalLaws, Base, Base', CountBacked, Served, [Next]_vars
      PROVE  Served'
  <2> USE <1>NextServed
  <2>1. CASE UNCHANGED vars
    BY Zenon, <2>1, <1>ServedSame DEF vars, getVars, fillVars
  <2>2. ASSUME NEW c \in Create, NEW a \in Ask, GetHandles(c, a) PROVE Served'
    BY Zenon, <2>2, <1>TryPostServed DEF GetHandles
  <2>3. ASSUME NEW c \in Create, Finish(c) \/ GiveBack(c) \/ Replace(c) PROVE Served'
    <3>1. \A d \in Create : d # c => UNCHANGED <<create[d], queued[d], got[d], ask[d]>>
      BY Zenon, <2>3, Funs DEF Finish, GiveBack, Replace, Forget, getVars, fillVars
    <3>2. create'[c] \in {"idle", "returning"}
      BY Zenon, <2>3, Funs DEF Finish, GiveBack, Replace, Forget
    <3> QED
      BY Zenon, <3>1, <3>2, <1>ServedSame
  <2>4. ASSUME NEW c \in Create, NEW p \in Pool, ServeGet(c, p) PROVE Served'
    BY Zenon, <2>4, "get" \notin Faults, <1>ServeGetServed
  <2>5. ASSUME NEW j \in Job, ServeWrite(j) \/ FailWrite(j) \/ FillFailed(j) PROVE Served'
    BY Zenon, <2>5, <1>ServedSame DEF ServeWrite, FailWrite, FillFailed, getVars
  <2>6. ASSUME NEW j \in Job, FillCallback(j) PROVE Served'
    <3>1. \A c \in Create : create'[c] \in {"pushed", create[c]}
      BY Zenon, <2>6 DEF FillCallback
    <3>2. UNCHANGED <<queued, got, ask>>
      BY Zenon, <2>6 DEF FillCallback, getVars
    <3> QED
      BY Zenon, <3>1, <3>2, <1>ServedSame
  <2>7. ASSUME NEW c \in Create, GetCallback(c) PROVE Served'
    <3>1. served[c] # 0
      BY <2>7 DEF GetCallback, Completed
    <3>2. create[c] = "posted"
      BY Zenon, <3>1 DEF Base, Placed, GetOk
    <3>3. \A d \in Create : d # c => create'[d] = create[d]
      BY Zenon, <2>7, Funs DEF GetCallback
    <3>4. UNCHANGED <<queued, got, ask>>
      BY Zenon, <2>7 DEF GetCallback
    <3> QED
      BY Zenon, <3>2, <3>3, <3>4, <1>ServedSame
  <2>8. ASSUME PushSleeper PROVE Served'
    <3>1. PICK c \in Create : c = Head(pushing) /\ create[c] = "pushed"
      BY Zenon, <2>8, PushHead
    <3>2. PICK a \in Ask \cup {NoHandles} : a = ask[c]
      BY Zenon DEF Base, Placed, GetOk
    <3>3. TryPost(c, a)
      BY Zenon, <2>8, <3>1, <3>2 DEF PushSleeper
    <3> QED
      BY Zenon, <3>1, <3>3, <1>TryPostServed
  <2>9. ASSUME FillContinue PROVE Served'
    BY Zenon, <2>9, <1>ServedSame DEF FillContinue, getVars
  <2>10. ASSUME NEW p \in Pool, CheckLevel(p) \/ RetryTimer(p) \/ BatchCreated(p) PROVE Served'
    BY Zenon, <2>10, <1>ServedSame DEF CheckLevel, RetryTimer, BatchCreated, getVars
  <2>11. ASSUME NEW p \in Pool, SignalError(p) PROVE Served'
    <3>1. UNCHANGED <<queued, got>>
      BY Zenon, <2>11 DEF SignalError
    <3>2. \A c \in Create : \/ create'[c] = create[c] /\ ask'[c] = ask[c]
                            \/ create'[c] = "idle"
      BY Zenon, <2>11 DEF SignalError
    <3> QED
      BY Zenon, <3>1, <3>2, <1>ServedSame
  <2> QED
    BY Zenon, <2>1, <2>2, <2>3, <2>4, <2>5, <2>6, <2>7, <2>8, <2>9, <2>10, <2>11
       DEF Next, Requests, Storage, Callbacks, Refillers
<1> QED
  BY Zenon, <1>NextServed

LEMMA HoldingNat == ASSUME Base, NEW c \in Create, NEW p \in Pool
                    PROVE  Holding(c, p) \in Nat /\ GivingBack(c, p) \in Nat
<1>1. queued[c][p] \in Nat /\ got[c][p] \in Nat /\ left[c] \in Nat /\ 0 \in Nat
  BY Funs, Names
<1>2. GivingBack(c, p) \in Nat
  BY Zenon, <1>1 DEF GivingBack
<1> QED
  BY <1>1, <1>2 DEF Holding

\* The handles with the requests: at most one of a pool with each.
LEMMA HeldSum ==
  ASSUME TotalLaws, Base, NEW p \in Pool
  PROVE  /\ Held(p) \in [Create -> Nat] /\ Total(Held(p)) \in Nat
         /\ \A c \in Create : Holding(c, p) <= Total(Held(p))
         /\ CreateLaw /\ OneOfEach => Total(Held(p)) <= Cardinality(Create)
<1>1. Held(p) \in [Create -> Nat] /\ \A c \in Create : Held(p)[c] = Holding(c, p)
  BY Zenon, HoldingNat DEF Held
<1>2. Total(Held(p)) \in Nat /\ \A c \in Create : Holding(c, p) <= Total(Held(p))
  BY Zenon, <1>1 DEF TotalLaws
<1>3. ASSUME OneOfEach, NEW c \in Create PROVE Holding(c, p) <= 1
  <2>1. Holding(c, p) <= ask[c][p] /\ ask[c] \in Ask \cup {NoHandles}
    BY Zenon DEF Base, Placed, GetOk
  <2>2. ask[c][p] \in {0, 1}
    BY Zenon, <1>3, <2>1, Decrements
  <2> QED
    BY <2>1, <2>2, HoldingNat
<1> QED
  BY Zenon, <1>1, <1>2, <1>3 DEF CreateLaw

\* Every step keeps the supply bounded and the refillers awake.
LEMMA NextFed ==
  \A p \in Pool : OneOfEach /\ WideCount /\ TotalLaws /\ CreateLaw /\ Base /\ Base' /\ [Next]_vars /\ Fed(p)
    => Fed(p)'
\* The same of the next state.
<1>HeldNext.
      ASSUME TotalLaws, Base', NEW p \in Pool
      PROVE  /\ \A d \in Create : Holding(d, p)' \in Nat
             /\ Total(Held(p))' = Total([d \in Create |-> Holding(d, p)']) /\ Total(Held(p))' \in Nat
             /\ CreateLaw /\ OneOfEach => Total(Held(p))' <= Cardinality(Create)
  <2> USE <1>HeldNext
  <2> DEFINE g == [d \in Create |-> Holding(d, p)']
  <2>1. \A d \in Create : Holding(d, p)' \in Nat
    <3>1. /\ queued' \in [Create -> [Pool -> Nat]] /\ got' \in [Create -> [Pool -> Nat]]
          /\ left' \in [Job -> Nat]
      BY Zenon DEF Base, TypeOK
    <3>2. \A d \in Create : queued'[d][p] \in Nat /\ got'[d][p] \in Nat /\ left'[d] \in Nat /\ 0 \in Nat
      BY <3>1, Names
    <3>3. \A d \in Create : GivingBack(d, p)' \in Nat
      BY Zenon, <3>2 DEF GivingBack
    <3> QED
      BY <3>2, <3>3 DEF Holding
  <2>2. g \in [Create -> Nat] /\ \A d \in Create : g[d] = Holding(d, p)'
    BY Zenon, <2>1
  <2>3. Total(Held(p))' = Total(g)
    <3>1. Held(p)' = g
      BY Zenon DEF Held
    <3> QED
      BY Zenon, <3>1 DEF Total, Each
  <2>4. ASSUME OneOfEach, NEW c \in Create PROVE Holding(c, p)' <= 1
    <3>1. Holding(c, p)' <= ask'[c][p] /\ ask'[c] \in Ask \cup {NoHandles}
      BY Zenon DEF Base, Placed, GetOk
    <3>2. ask'[c][p] \in Nat /\ ask'[c][p] <= 1
      BY <2>4, <3>1, Names DEF OneOfEach
    <3> QED
      BY <2>1, <3>1, <3>2
  <2> HIDE DEF g
  <2>5. Total(g) \in Nat
    BY Zenon, <2>2 DEF TotalLaws
  <2>6. CreateLaw /\ OneOfEach => Total(g) <= Cardinality(Create)
    BY Zenon, <2>2, <2>4 DEF CreateLaw
  <2> QED
    BY Zenon, <2>1, <2>3, <2>5, <2>6 DEF g
\* A step of one request changes the sum by what it has more or less.
<1>HeldChange.
      ASSUME TotalLaws, Base, Base', NEW p \in Pool, NEW c \in Create,
             \A d \in Create : d # c => Holding(d, p)' = Holding(d, p)
      PROVE  Total(Held(p))' = Total(Held(p)) - Holding(c, p) + Holding(c, p)'
  <2> USE <1>HeldChange
  <2> DEFINE g == [d \in Create |-> Holding(d, p)']
  <2>1. (\A d \in Create : Holding(d, p)' \in Nat) /\ Total(Held(p))' = Total(g)
    BY Zenon, <1>HeldNext
  <2>2. Held(p) \in [Create -> Nat] /\ \A d \in Create : Held(p)[d] = Holding(d, p)
    BY Zenon, HoldingNat DEF Held
  <2>3. g \in [Create -> Nat] /\ \A d \in Create : g[d] = Holding(d, p)'
    BY Zenon, <2>1
  <2> HIDE DEF g
  <2>4. \A d \in Create \ {c} : Held(p)[d] = g[d]
    BY Zenon, <2>2, <2>3
  <2>5. Total(g) = Total(Held(p)) - Held(p)[c] + g[c]
    BY Zenon, <2>2, <2>3, <2>4 DEF TotalLaws
  <2> QED
    BY Zenon, <2>1, <2>2, <2>3, <2>5
<1>HeldSame.
      ASSUME NEW p \in Pool, \A d \in Create : Holding(d, p)' = Holding(d, p)
      PROVE  Total(Held(p))' = Total(Held(p))
  <2> USE <1>HeldSame
  <2>1. Held(p)' = Held(p)
    BY Zenon DEF Held
  <2> QED
    BY Zenon, <2>1 DEF Total, Each
\* The numbers of a pool.
<1>Numbers.
      ASSUME TotalLaws, Base, Base', NEW p \in Pool
      PROVE  /\ poolCount[p] \in Nat /\ poolCount'[p] \in Nat /\ left[p] \in Nat /\ left'[p] \in Nat
             /\ Total(Held(p)) \in Nat /\ Total(Held(p))' \in Nat
             /\ poolCount[p] < CountRange
  <2> USE <1>Numbers
  <2>1. /\ poolCount \in [Pool -> 0 .. CountRange - 1] /\ poolCount' \in [Pool -> 0 .. CountRange - 1]
        /\ left \in [Job -> Nat] /\ left' \in [Job -> Nat]
    BY Zenon DEF Base, TypeOK
  <2>2. poolCount[p] \in 0 .. CountRange - 1 /\ poolCount'[p] \in 0 .. CountRange - 1
    BY Zenon, <2>1
  <2>3. left[p] \in Nat /\ left'[p] \in Nat
    BY Zenon, <2>1, Names
  <2>4. Total(Held(p)) \in Nat /\ Total(Held(p))' \in Nat
    BY Zenon, HeldSum, <1>HeldNext
  <2> QED
    BY <2>2, <2>3, <2>4, Sizes
\* A step that adds nothing to the supply and starts no batch.
<1>FedKept.
      ASSUME TotalLaws, CreateLaw, Base, Base', NEW p \in Pool, Fed(p),
             poolCount'[p] + Total(Held(p))' + left'[p] <= poolCount[p] + Total(Held(p)) + left[p],
             refill'[p] = "batch" => refill[p] = "batch",
             refill'[p] = "waiting" => poolCount'[p] >= Low
      PROVE  Fed(p)'
  <2> USE <1>FedKept
  <2>1. PICK b, e : /\ b = IF refill[p] = "batch" THEN 0 ELSE Batch
                    /\ e = IF refill'[p] = "batch" THEN 0 ELSE Batch
    OBVIOUS
  <2>2. b \in Nat /\ e \in Nat /\ b <= e
    BY <2>1, Sizes
  <2>3. poolCount[p] + Total(Held(p)) + left[p] <= Low - 1 + Cardinality(Create) + b
    BY Zenon, <2>1 DEF Fed, Supplied, Supply
  <2>4. poolCount'[p] + Total(Held(p))' + left'[p] <= Low - 1 + Cardinality(Create) + e
    BY <2>2, <2>3, <1>Numbers, Sizes DEF CreateLaw
  <2>5. Supplied(p)'
    BY Zenon, <2>1, <2>4 DEF Supplied, Supply
  <2> QED
    BY Zenon, <2>5 DEF Fed
<1>FedByOne.
      ASSUME TotalLaws, CreateLaw, Base, Base', NEW p \in Pool, Fed(p), NEW c \in Create,
             \A d \in Create : d # c => Holding(d, p)' = Holding(d, p),
             poolCount'[p] + Holding(c, p)' + left'[p] <= poolCount[p] + Holding(c, p) + left[p],
             refill'[p] = "batch" => refill[p] = "batch",
             refill'[p] = "waiting" => poolCount'[p] >= Low
      PROVE  Fed(p)'
  <2> USE <1>FedByOne
  <2>1. Total(Held(p))' = Total(Held(p)) - Holding(c, p) + Holding(c, p)'
    BY Zenon, <1>HeldChange
  <2>2. Holding(c, p)' \in Nat /\ Holding(c, p) \in Nat
    BY Zenon, <1>HeldNext, HoldingNat
  <2>3. poolCount'[p] + Total(Held(p))' + left'[p] <= poolCount[p] + Total(Held(p)) + left[p]
    BY <2>1, <2>2, <1>Numbers
  <2> QED
    BY Zenon, <2>3, <1>FedKept
<1>FedByNone.
      ASSUME TotalLaws, CreateLaw, Base, Base', NEW p \in Pool, Fed(p),
             \A d \in Create : Holding(d, p)' = Holding(d, p),
             poolCount'[p] + left'[p] <= poolCount[p] + left[p],
             refill'[p] = "batch" => refill[p] = "batch",
             refill'[p] = "waiting" => poolCount'[p] >= Low
      PROVE  Fed(p)'
  <2> USE <1>FedByNone
  <2>1. Total(Held(p))' = Total(Held(p))
    BY Zenon, <1>HeldSame
  <2>2. poolCount'[p] + Total(Held(p))' + left'[p] <= poolCount[p] + Total(Held(p)) + left[p]
    BY <2>1, <1>Numbers
  <2> QED
    BY Zenon, <2>2, <1>FedKept
\* A batch is asked for when the count is low and nothing is left of the last one.
<1>FedAnew.
      ASSUME OneOfEach, TotalLaws, CreateLaw, Base, Base', NEW p \in Pool, refill'[p] = "batch",
             poolCount'[p] < Low, left'[p] = 0
      PROVE  Fed(p)'
  <2> USE <1>FedAnew
  <2>1. Total(Held(p))' <= Cardinality(Create)
    BY Zenon, <1>HeldNext
  <2>2. poolCount'[p] + Total(Held(p))' + left'[p] <= Low - 1 + Cardinality(Create) + 0
    BY <2>1, <1>Numbers, Sizes DEF CreateLaw
  <2>3. Supplied(p)'
    BY Zenon, <2>2 DEF Supplied, Supply
  <2> QED
    BY Zenon, <2>3 DEF Fed
\* A step that touches no handle.
<1>FedFrame.
      ASSUME TotalLaws, CreateLaw, Base, Base', NEW p \in Pool, Fed(p),
             UNCHANGED <<queued, got, target, left, poolCount>>,
             refill'[p] = "batch" => refill[p] = "batch",
             refill'[p] = "waiting" => refill[p] = "waiting"
      PROVE  Fed(p)'
  <2> USE <1>FedFrame
  <2>1. \A d \in Create : Holding(d, p)' = Holding(d, p)
    BY Zenon DEF Holding, GivingBack
  <2>2. poolCount'[p] + left'[p] <= poolCount[p] + left[p]
    BY <1>Numbers
  <2> QED
    BY Zenon, <2>1, <2>2, <1>FedByNone DEF Fed
\* A get moves handles from the count to the request, and wakes a refiller below the threshold.
<1>PostFed.
      ASSUME OneOfEach, TotalLaws, CreateLaw, Base, Base', NEW c \in Create,
             NEW a \in Ask \cup {NoHandles}, create[c] \in {"idle", "pushed"}, Post(c, a),
             UNCHANGED fillVars, NEW p \in Pool, Fed(p)
      PROVE  Fed(p)'
  <2> USE <1>PostFed
  <2>1. /\ Stocked /\ poolCount' = [q \in Pool |-> Less(q, a[q])]
        /\ refill' = [q \in Pool |-> IF q \in WokenRefillers(a) THEN "batch" ELSE refill[q]]
        /\ UNCHANGED <<target, left>>
    BY Zenon DEF Post, fillVars
  <2>2. /\ a[p] \in {0, 1} /\ poolCount'[p] = poolCount[p] - a[p] /\ Less(p, a[p]) = poolCount[p] - a[p]
    BY Zenon, <2>1, Decrements
  <2>3. got[c] = NoHandles /\ queued[c] = NoHandles /\ left[c] = 0
    BY Zenon DEF Base, Placed, GetOk, Quiet
  <2>4. \A d \in Create : d # c => queued'[d] = queued[d] /\ got'[d] = got[d]
    BY Zenon, Funs DEF Post
  <2>5. \A d \in Create : d # c => Holding(d, p)' = Holding(d, p)
    BY Zenon, <2>1, <2>4 DEF Holding, GivingBack
  <2>6. GivingBack(c, p) = 0 /\ GivingBack(c, p)' = 0
    BY Zenon, <2>1, <2>3 DEF GivingBack
  <2>7. Holding(c, p) = 0
    BY <2>3, <2>6, Names DEF Holding
  <2>8. Holding(c, p)' <= a[p] /\ Holding(c, p)' \in Nat
    <3>1. stored[p] \in Nat
      BY Zenon, Funs
    <3>2. CASE queued'[c] = a /\ got'[c] = NoHandles
      BY <2>2, <2>6, <3>2, Names DEF Holding
    <3>3. CASE queued'[c] = NoHandles /\ got'[c][p] = Lesser(a[p], stored[p])
      BY <2>2, <2>6, <3>1, <3>3, Names DEF Holding, Lesser
    <3>4. CASE ~immediate_completion
      <4>1. queued' = [queued EXCEPT ![c] = a] /\ got' = got
        BY Zenon, <3>4 DEF Post
      <4> QED
        BY Zenon, <2>3, <3>2, <4>1, Funs
    <3>5. CASE immediate_completion
      <4>1. got' = [got EXCEPT ![c] = [q \in Pool |-> Lesser(a[q], stored[q])]] /\ queued' = queued
        BY Zenon, <3>5 DEF Post
      <4>2. got'[c] = [q \in Pool |-> Lesser(a[q], stored[q])]
        BY Zenon, <4>1, Funs
      <4> QED
        BY Zenon, <2>3, <3>3, <4>1, <4>2
    <3> QED
      BY Zenon, <3>4, <3>5
  <2>9. poolCount'[p] + Holding(c, p)' + left'[p] <= poolCount[p] + Holding(c, p) + left[p]
    BY <2>1, <2>2, <2>7, <2>8, <1>Numbers
  <2>10. CASE p \in WokenRefillers(a)
    <3>1. refill[p] = "waiting" /\ \E k \in 1 .. a[p] : Less(p, k) < Low
      BY Zenon, <2>10 DEF WokenRefillers
    <3>2. a[p] = 1 /\ Less(p, a[p]) < Low
      BY <2>2, <3>1
    <3>3. refill'[p] = "batch" /\ poolCount'[p] < Low
      BY Zenon, <2>1, <2>2, <2>10, <3>2
    <3>4. left'[p] = 0
      BY Zenon, <2>1, <3>1 DEF Base, Placed, Quiet
    <3> QED
      BY Zenon, <3>3, <3>4, <1>FedAnew
  <2>11. CASE p \notin WokenRefillers(a)
    <3>1. refill'[p] = refill[p]
      BY Zenon, <2>1, <2>11
    <3>2. refill[p] = "waiting" => poolCount'[p] >= Low
      <4>1. CASE a[p] = 0
        <5>1. refill[p] = "waiting" => poolCount[p] >= Low
          BY Zenon DEF Fed
        <5> QED
          BY <2>2, <4>1, <5>1, <1>Numbers
      <4>2. CASE a[p] = 1
        <5>1. 1 \in 1 .. a[p]
          BY <4>2
        <5>2. refill[p] = "waiting" => ~(Less(p, a[p]) < Low)
          BY Zenon, <2>11, <4>2, <5>1 DEF WokenRefillers
        <5> QED
          BY <2>2, <5>2, <1>Numbers, Sizes
      <4>3. a[p] = 0 \/ a[p] = 1
        BY Zenon, <2>2
      <4> QED
        BY ZenonT(30), <4>1, <4>2, <4>3
    <3> QED
      BY Zenon, <2>5, <2>9, <3>1, <3>2, <1>FedByOne
  <2> QED
    BY Zenon, <2>10, <2>11
<1>TryPostFed.
      ASSUME OneOfEach, TotalLaws, CreateLaw, Base, Base', NEW c \in Create,
             NEW a \in Ask \cup {NoHandles}, create[c] \in {"idle", "pushed"}, TryPost(c, a),
             UNCHANGED fillVars, NEW p \in Pool, Fed(p)
      PROVE  Fed(p)'
  <2> USE <1>TryPostFed
  <2>1. CASE Post(c, a)
    BY Zenon, <2>1, <1>PostFed
  <2>2. CASE Sleep(c, a) \/ Refuse(c)
    <3>1. UNCHANGED <<queued, got, target, left, poolCount, refill>>
      BY Zenon, <2>2 DEF Sleep, Refuse, fillVars
    <3> QED
      BY Zenon, <3>1, <1>FedFrame
  <2> QED
    BY Zenon, <2>1, <2>2 DEF TryPost
\* What a request has becomes no more by a step of its own or of the storage.
<1>HolderFed.
      ASSUME TotalLaws, CreateLaw, Base, Base', NEW c \in Create,
             Finish(c) \/ Replace(c) \/ (\E q \in Pool : ServeGet(c, q)), NEW p \in Pool, Fed(p)
      PROVE  Fed(p)'
  <2> USE <1>HolderFed
  <2>1. UNCHANGED <<poolCount, refill>>
    BY Zenon DEF Finish, Replace, ServeGet
  <2>2. \A q \in Pool : /\ queued[c][q] \in Nat /\ got[c][q] \in Nat
                        /\ queued'[c][q] \in Nat /\ got'[c][q] \in Nat
    <3>1. /\ queued' \in [Create -> [Pool -> Nat]] /\ got' \in [Create -> [Pool -> Nat]]
      BY Zenon DEF Base, TypeOK
    <3> QED
      BY <3>1, Funs
  <2>3. ASSUME \A d \in Create : d # c => UNCHANGED <<queued[d], got[d], target[d], left[d]>>,
               left'[p] = left[p], Holding(c, p)' <= Holding(c, p)
        PROVE  Fed(p)'
    <3>1. \A d \in Create : d # c => Holding(d, p)' = Holding(d, p)
      BY Zenon, <2>3 DEF Holding, GivingBack
    <3>2. Holding(c, p)' \in Nat /\ Holding(c, p) \in Nat
      BY Zenon, <1>HeldNext, HoldingNat
    <3>3. poolCount'[p] + Holding(c, p)' + left'[p] <= poolCount[p] + Holding(c, p) + left[p]
      BY <2>1, <2>3, <3>2, <1>Numbers
    <3> QED
      BY Zenon, <2>1, <3>1, <3>3, <1>FedByOne DEF Fed
  <2>4. CASE Finish(c)
    <3>1. /\ \A d \in Create : d # c => UNCHANGED <<queued[d], got[d], target[d], left[d]>>
          /\ left' = left /\ target' = target /\ queued' = queued /\ got'[c] = NoHandles
      BY Zenon, <2>4, Funs DEF Finish, Forget, fillVars
    <3>2. GivingBack(c, p)' = GivingBack(c, p)
      BY ZenonT(30), <3>1 DEF GivingBack
    <3>3. Holding(c, p)' <= Holding(c, p)
      BY <2>2, <3>1, <3>2, HoldingNat, Names DEF Holding
    <3> QED
      BY Zenon, <2>3, <3>1, <3>3
  <2>5. CASE \E q \in Pool : ServeGet(c, q)
    <3>1. PICK q \in Pool : ServeGet(c, q)
      BY Zenon, <2>5
    <3>2. /\ queued' = [queued EXCEPT ![c][q] = @ - 1] /\ UNCHANGED <<left, target>>
          /\ got' = got \/ got' = [got EXCEPT ![c][q] = @ + 1]
      BY Zenon, <3>1 DEF ServeGet, fillVars
    <3>3. /\ \A d \in Create : d # c => UNCHANGED <<queued[d], got[d], target[d], left[d]>>
          /\ left'[p] = left[p]
      BY Zenon, <3>2, Funs
    <3>4. GivingBack(c, p)' = GivingBack(c, p)
      BY Zenon, <3>2 DEF GivingBack
    <3>5. queued'[c][p] + got'[c][p] <= queued[c][p] + got[c][p]
      <4>1. CASE p # q
        <5>1. queued'[c][p] = queued[c][p] /\ got'[c][p] = got[c][p]
          BY <3>2, <4>1, Nums
        <5> QED
          BY <2>2, <5>1
      <4>2. CASE p = q
        <5>1. queued'[c][p] = queued[c][p] - 1 /\ got'[c][p] \in {got[c][p], got[c][p] + 1}
          BY <3>2, <4>2, Nums
        <5> QED
          BY <2>2, <5>1
      <4> QED
        BY Zenon, <4>1, <4>2
    <3>6. Holding(c, p)' <= Holding(c, p)
      BY <2>2, <3>4, <3>5, HoldingNat DEF Holding
    <3> QED
      BY Zenon, <2>3, <3>3, <3>6
  <2>6. CASE Replace(c)
    <3>1. left[c] = 0 /\ queued' = queued /\ GivingBack(c, p) = 0
      BY Zenon, <2>6 DEF Replace, GivingBack
    <3>2. ASSUME NEW q \in Pool, got[c][q] > 0, got' = [got EXCEPT ![c][q] = @ - 1],
                 target' = [target EXCEPT ![c] = q], PostWrite(c, q, 1)
          PROVE  Fed(p)'
      <4>1. left' = [left EXCEPT ![c] = 1]
        BY Zenon, <3>2 DEF PostWrite
      <4>2. left'[c] = 1 /\ \A i \in Job : i # c => left'[i] = left[i]
        BY Zenon, <4>1, Funs, Names
      <4>3. left'[p] = left[p] /\ target'[c] = q
        <5>1. p \in Job /\ p # c
          BY Zenon, Names
        <5> QED
          BY Zenon, <3>2, <4>2, <5>1, Funs
      <4>4. \A d \in Create : d # c => UNCHANGED <<queued[d], got[d], target[d], left[d]>>
        BY Zenon, <3>1, <3>2, <4>2, Funs, Names
      <4>5. Holding(c, p)' <= Holding(c, p)
        <5>1. CASE p = q
          <6>1. got'[c][p] = got[c][p] - 1
            BY Zenon, <3>2, <5>1, Funs
          <6>2. GivingBack(c, p)' = 1
            BY Zenon, <4>2, <4>3, <5>1 DEF GivingBack
          <6> QED
            BY <2>2, <3>1, <6>1, <6>2 DEF Holding
        <5>2. CASE p # q
          <6>1. got'[c][p] = got[c][p]
            BY Zenon, <3>2, <5>2, Funs
          <6>2. GivingBack(c, p)' = 0
            BY Zenon, <4>3, <5>2 DEF GivingBack
          <6> QED
            BY <2>2, <3>1, <6>1, <6>2 DEF Holding
        <5> QED
          BY Zenon, <5>1, <5>2
      <4> QED
        BY Zenon, <2>3, <4>3, <4>4, <4>5
    <3>3. ASSUME Forget(c), target' = [target EXCEPT ![c] = Nobody], left' = left PROVE Fed(p)'
      <4>1. \A d \in Create : d # c => UNCHANGED <<queued[d], got[d], target[d], left[d]>>
        BY Zenon, <3>1, <3>3, Funs DEF Forget
      <4>2. got'[c] = NoHandles /\ GivingBack(c, p)' = 0
        BY Zenon, <3>1, <3>3, Funs DEF Forget, GivingBack
      <4>3. Holding(c, p)' <= Holding(c, p)
        BY <2>2, <3>1, <4>2, Names DEF Holding
      <4> QED
        BY Zenon, <2>3, <3>3, <4>1, <4>3
    <3> QED
      BY Zenon, <2>6, <3>2, <3>3 DEF Replace
  <2> QED
    BY Zenon, <2>4, <2>5, <2>6
\* The callback of a fill: the count grows by no more than what was left to write becomes less,
\* and does not wrap round.
<1>FillCallbackFed.
      ASSUME WideCount, TotalLaws, CreateLaw, Base, Base', NEW j \in Job, FillCallback(j), NEW p \in Pool, Fed(p)
      PROVE  Fed(p)'
  <2> USE <1>FillCallbackFed
  <2>1. PICK n \in Nat : n = Posted(j) /\ n <= left[j]
    BY PostedKeys, Funs
  <2>2. FillPool(j) \in Pool
    BY Zenon, FillPools DEF FillCallback
  <2>3. /\ poolCount' = [poolCount EXCEPT ![FillPool(j)] = (@ + n) % CountRange]
        /\ left' = [left EXCEPT ![j] = @ - n]
        /\ UNCHANGED <<queued, got, target, refill>>
    BY Zenon, <2>1 DEF FillCallback, Grown, getVars
  <2>4. left'[j] = left[j] - n /\ left[j] \in Nat /\ \A i \in Job : i # j => left'[i] = left[i]
    BY Zenon, <2>3, Funs
  <2>5. \A d \in Create : d # j => Holding(d, p)' = Holding(d, p)
    BY Zenon, <2>3, <2>4, Names DEF Holding, GivingBack
  <2>6. poolCount[p] + Total(Held(p)) + left[p] < CountRange
    <3>1. PICK b : b = IF refill[p] = "batch" THEN 0 ELSE Batch
      OBVIOUS
    <3>2. b \in Nat /\ b <= Batch
      BY <3>1, Sizes
    <3>3. poolCount[p] + Total(Held(p)) + left[p] <= Low - 1 + Cardinality(Create) + b
      BY Zenon, <3>1 DEF Fed, Supplied, Supply
    <3> QED
      BY <3>2, <3>3, <1>Numbers, Sizes DEF WideCount, CreateLaw
  <2>7. refill[p] = "waiting" => poolCount[p] >= Low
    BY Zenon DEF Fed
  <2>8. CASE p # FillPool(j)
    <3>1. poolCount'[p] = poolCount[p]
      BY Zenon, <2>3, <2>8, Funs
    <3>2. left'[p] = left[p]
      BY Zenon, <2>4, <2>8, Names DEF FillPool
    <3>3. \A d \in Create : Holding(d, p)' = Holding(d, p)
      BY Zenon, <2>3, <2>5, <2>8, Names DEF FillPool, Holding, GivingBack
    <3>4. poolCount'[p] + left'[p] <= poolCount[p] + left[p]
      BY <3>1, <3>2, <1>Numbers
    <3> QED
      BY Zenon, <2>3, <2>7, <3>1, <3>3, <3>4, <1>FedByNone
  <2>9. ASSUME p = FillPool(j), poolCount[p] + n < CountRange PROVE poolCount'[p] = poolCount[p] + n
    <3>1. poolCount[p] + n \in Nat
      BY <1>Numbers
    <3>2. (poolCount[p] + n) % CountRange = poolCount[p] + n
      BY Zenon, <2>9, <3>1, Wraps
    <3> QED
      BY Zenon, <2>3, <2>9, <3>2, Funs
  <2>10. CASE p = FillPool(j) /\ j \in Pool
    <3>1. p = j
      BY Zenon, <2>10 DEF FillPool
    <3>2. poolCount[p] + n < CountRange
      BY <2>1, <2>6, <3>1, <1>Numbers, Sizes
    <3>3. poolCount'[p] = poolCount[p] + n
      BY Zenon, <2>9, <2>10, <3>2
    <3>4. poolCount'[p] + left'[p] <= poolCount[p] + left[p]
      BY <2>4, <3>1, <3>3, <1>Numbers
    <3>5. \A d \in Create : Holding(d, p)' = Holding(d, p)
      BY Zenon, <2>5, <3>1, Names
    <3>6. refill'[p] = "waiting" => poolCount'[p] >= Low
      BY <2>3, <2>7, <3>3, <1>Numbers, Sizes
    <3> QED
      BY Zenon, <2>3, <3>4, <3>5, <3>6, <1>FedByNone
  <2>11. CASE p = FillPool(j) /\ j \in Create
    <3>1. target[j] = p /\ j # p
      BY Zenon, <2>11, Names DEF FillPool
    <3>2. GivingBack(j, p) = left[j] /\ GivingBack(j, p)' = left[j] - n
      BY Zenon, <2>3, <2>4, <3>1 DEF GivingBack
    <3>3. queued[j][p] \in Nat /\ got[j][p] \in Nat
      BY Zenon, <2>11, Amounts
    <3>4. Holding(j, p)' = Holding(j, p) - n /\ n <= Holding(j, p) /\ Holding(j, p) \in Nat
      <4>1. Holding(j, p) = queued[j][p] + got[j][p] + left[j]
        BY Zenon, <3>2 DEF Holding
      <4>2. Holding(j, p)' = queued[j][p] + got[j][p] + (left[j] - n)
        BY Zenon, <2>3, <3>2 DEF Holding
      <4>3. n \in Nat /\ n <= left[j] /\ left[j] \in Nat
        BY Zenon, <2>1, <2>4
      <4> QED
        BY <3>3, <4>1, <4>2, <4>3
    <3>5. Holding(j, p) <= Total(Held(p))
      BY Zenon, <2>11, HeldSum
    <3>6. poolCount[p] + n < CountRange
      BY <2>6, <3>4, <3>5, <1>Numbers, Sizes
    <3>7. poolCount'[p] = poolCount[p] + n /\ left'[p] = left[p]
      BY Zenon, <2>4, <2>9, <2>11, <3>1, <3>6, Names
    <3>8. poolCount'[p] + Holding(j, p)' + left'[p] <= poolCount[p] + Holding(j, p) + left[p]
      BY <3>4, <3>7, <1>Numbers
    <3>9. refill'[p] = "waiting" => poolCount'[p] >= Low
      BY <2>3, <2>7, <3>7, <1>Numbers, Sizes
    <3> QED
      BY Zenon, <2>3, <2>5, <2>11, <3>8, <3>9, <1>FedByOne
  <2> QED
    BY Zenon, <2>8, <2>10, <2>11 DEF Job
\* What a failed fill has not written is lost.
<1>FillFailedFed.
      ASSUME TotalLaws, CreateLaw, Base, Base', NEW j \in Job, FillFailed(j), NEW p \in Pool, Fed(p)
      PROVE  Fed(p)'
  <2> USE <1>FillFailedFed
  <2>1. /\ left' = [left EXCEPT ![j] = 0] /\ UNCHANGED <<poolCount, queued, got, target>>
        /\ refill' = [q \in Pool |-> IF q = j THEN "retry" ELSE refill[q]]
    BY Zenon DEF FillFailed, Filled, getVars
  <2>2. left'[j] = 0 /\ \A i \in Job : i # j => left'[i] = left[i]
    BY Zenon, <2>1, Funs
  <2>3. \A d \in Create : d # j => Holding(d, p)' = Holding(d, p)
    BY Zenon, <2>1, <2>2, Names DEF Holding, GivingBack
  <2>4. refill'[p] \in {"retry", refill[p]}
    BY Zenon, <2>1
  <2>5. /\ refill'[p] = "batch" => refill[p] = "batch"
        /\ refill'[p] = "waiting" => poolCount'[p] >= Low
    BY Zenon, <2>1, <2>4 DEF Fed
  <2>6. left'[p] <= left[p]
    <3>1. left'[p] \in {0, left[p]}
      BY Zenon, <2>2, Names
    <3> QED
      BY <3>1, <1>Numbers
  <2>7. CASE j \in Pool
    <3>1. poolCount'[p] + left'[p] <= poolCount[p] + left[p]
      BY <2>1, <2>6, <1>Numbers
    <3> QED
      BY Zenon, <2>3, <2>5, <2>7, <3>1, <1>FedByNone, Names
  <2>8. CASE j \in Create
    <3>1. queued[j][p] \in Nat /\ got[j][p] \in Nat /\ GivingBack(j, p) \in Nat
      BY Zenon, <2>8, Amounts, HoldingNat
    <3>2. GivingBack(j, p)' = 0
      BY Zenon, <2>2 DEF GivingBack
    <3>3. Holding(j, p)' <= Holding(j, p) /\ Holding(j, p)' \in Nat /\ Holding(j, p) \in Nat
      BY <2>1, <3>1, <3>2 DEF Holding
    <3>4. poolCount'[p] + Holding(j, p)' + left'[p] <= poolCount[p] + Holding(j, p) + left[p]
      BY <2>1, <2>6, <3>3, <1>Numbers
    <3> QED
      BY Zenon, <2>3, <2>5, <2>8, <3>4, <1>FedByOne
  <2> QED
    BY Zenon, <2>7, <2>8 DEF Job
\* A batch comes when nothing is left of the last one.
<1>BatchCreatedFed.
      ASSUME TotalLaws, CreateLaw, Base, Base', NEW q \in Pool, BatchCreated(q), NEW p \in Pool, Fed(p)
      PROVE  Fed(p)'
  <2> USE <1>BatchCreatedFed
  <2>1. /\ refill[q] = "batch" /\ refill' = [refill EXCEPT ![q] = "store"]
        /\ left' = [left EXCEPT ![q] = Batch] /\ UNCHANGED <<poolCount, queued, got, target>>
    BY Zenon DEF BatchCreated, PostWrite, getVars
  <2>2. left'[q] = Batch /\ \A i \in Job : i # q => left'[i] = left[i]
    BY Zenon, <2>1, Funs, Names
  <2>3. \A d \in Create : Holding(d, p)' = Holding(d, p)
    BY Zenon, <2>1, <2>2, Names DEF Holding, GivingBack
  <2>4. CASE p # q
    <3>1. left'[p] = left[p] /\ refill'[p] = refill[p]
      BY Zenon, <2>1, <2>2, <2>4, Names, Funs
    <3>2. poolCount'[p] + left'[p] <= poolCount[p] + left[p]
      BY <2>1, <3>1, <1>Numbers
    <3> QED
      BY Zenon, <2>1, <2>3, <3>1, <3>2, <1>FedByNone DEF Fed
  <2>5. CASE p = q
    <3>1. left[p] = 0 /\ left'[p] = Batch /\ refill'[p] = "store"
      BY Zenon, <2>1, <2>2, <2>5, Funs DEF Base, Placed, Quiet
    <3>2. Total(Held(p))' = Total(Held(p))
      BY Zenon, <2>3, <1>HeldSame
    <3>3. poolCount[p] + Total(Held(p)) + left[p] <= Low - 1 + Cardinality(Create) + 0
      BY Zenon, <2>1, <2>5 DEF Fed, Supplied, Supply
    <3>4. poolCount'[p] + Total(Held(p))' + left'[p] <= Low - 1 + Cardinality(Create) + Batch
      BY <2>1, <3>1, <3>2, <3>3, <1>Numbers, Sizes DEF CreateLaw
    <3>5. Supplied(p)'
      BY Zenon, <3>1, <3>4 DEF Supplied, Supply
    <3> QED
      BY Zenon, <3>1, <3>5 DEF Fed
  <2> QED
    BY Zenon, <2>4, <2>5
\* Every step keeps the supply bounded and the refillers awake.
<1>NextFed.
      ASSUME OneOfEach, WideCount, TotalLaws, CreateLaw, Base, Base', [Next]_vars, NEW p \in Pool, Fed(p)
      PROVE  Fed(p)'
  <2> USE <1>NextFed
  <2>1. CASE UNCHANGED vars
    BY Zenon, <2>1, <1>FedFrame DEF vars, getVars, fillVars
  <2>2. ASSUME NEW c \in Create, NEW a \in Ask, GetHandles(c, a) PROVE Fed(p)'
    BY Zenon, <2>2, <1>TryPostFed DEF GetHandles
  <2>3. ASSUME NEW c \in Create, Finish(c) \/ Replace(c) \/ (\E q \in Pool : ServeGet(c, q)) PROVE Fed(p)'
    BY Zenon, <2>3, <1>HolderFed
  <2>4. ASSUME NEW c \in Create, GiveBack(c) \/ GetCallback(c) PROVE Fed(p)'
    BY Zenon, <2>4, <1>FedFrame DEF GiveBack, GetCallback, getVars, fillVars
  <2>5. ASSUME NEW j \in Job, ServeWrite(j) \/ FailWrite(j) PROVE Fed(p)'
    BY Zenon, <2>5, <1>FedFrame DEF ServeWrite, FailWrite, getVars
  <2>6. ASSUME NEW j \in Job, FillCallback(j) PROVE Fed(p)'
    BY Zenon, <2>6, <1>FillCallbackFed
  <2>7. ASSUME NEW j \in Job, FillFailed(j) PROVE Fed(p)'
    BY Zenon, <2>7, <1>FillFailedFed
  <2>8. ASSUME PushSleeper PROVE Fed(p)'
    <3>1. PICK c \in Create : c = Head(pushing) /\ create[c] = "pushed"
      BY Zenon, <2>8, PushHead
    <3>2. PICK a \in Ask \cup {NoHandles} : a = ask[c]
      BY Zenon DEF Base, Placed, GetOk
    <3>3. TryPost(c, a) /\ UNCHANGED fillVars
      BY Zenon, <2>8, <3>1, <3>2 DEF PushSleeper
    <3> QED
      BY Zenon, <3>1, <3>3, <1>TryPostFed
  <2>9. ASSUME FillContinue PROVE Fed(p)'
    <3>1. UNCHANGED <<queued, got, target, poolCount>>
      BY Zenon, <2>9 DEF FillContinue, getVars
    <3>2. left' = left
      BY Zenon, <2>9, Funs DEF FillContinue, PostWrite
    <3>3. refill'[p] \in {"threshold", refill[p]}
      BY Zenon, <2>9 DEF FillContinue, Filled
    <3> QED
      BY Zenon, <3>1, <3>2, <3>3, <1>FedFrame
  <2>10. ASSUME NEW q \in Pool, CheckLevel(q) PROVE Fed(p)'
    <3>1. /\ refill[q] = "threshold" /\ UNCHANGED <<queued, got, target, left, poolCount>>
          /\ refill' = [refill EXCEPT ![q] = IF poolCount[q] < Low THEN "batch" ELSE "waiting"]
      BY Zenon, <2>10 DEF CheckLevel, getVars, fillVars
    <3>2. CASE p # q
      BY Zenon, <3>1, <3>2, <1>FedFrame, Funs
    <3>3. CASE p = q /\ poolCount[p] < Low
      <4>1. refill'[p] = "batch" /\ left'[p] = 0 /\ poolCount'[p] < Low
        BY Zenon, <3>1, <3>3, Funs DEF Base, Placed, Quiet
      <4> QED
        BY Zenon, <4>1, <1>FedAnew
    <3>4. CASE p = q /\ ~(poolCount[p] < Low)
      <4>1. refill'[p] = "waiting" /\ \A d \in Create : Holding(d, p)' = Holding(d, p)
        BY Zenon, <3>1, <3>4, Funs DEF Holding, GivingBack
      <4>2. poolCount'[p] >= Low /\ poolCount'[p] + left'[p] <= poolCount[p] + left[p]
        BY <3>1, <3>4, <1>Numbers, Sizes
      <4> QED
        BY Zenon, <4>1, <4>2, <1>FedByNone
    <3> QED
      BY Zenon, <3>2, <3>3, <3>4
  <2>11. ASSUME NEW q \in Pool, RetryTimer(q) \/ SignalError(q) PROVE Fed(p)'
    <3>1. UNCHANGED <<queued, got, target, left, poolCount>> /\ refill'[p] \in {"threshold", refill[p]}
      BY Zenon, <2>11, Funs DEF RetryTimer, SignalError, getVars, fillVars
    <3> QED
      BY Zenon, <3>1, <1>FedFrame
  <2>12. ASSUME NEW q \in Pool, BatchCreated(q) PROVE Fed(p)'
    BY Zenon, <2>12, <1>BatchCreatedFed
  <2> QED
    BY Zenon, <2>1, <2>2, <2>3, <2>4, <2>5, <2>6, <2>7, <2>8, <2>9, <2>10, <2>11, <2>12
       DEF Next, Requests, Storage, Callbacks, Refillers
<1> QED
  BY Zenon, <1>NextFed

-----------------------------------------------------------------------------
INSTANCE FiniteSetTheorems

\* The laws of sums.
LEMMA Totals == TotalLaws
\* The things that a function counts are finitely many.
<1>EachFinite.
      ASSUME NEW S, IsFiniteSet(S), NEW f \in [S -> Nat]
      PROVE  /\ IsFiniteSet(Each(f)) /\ Total(f) \in Nat
             /\ \A x \in S : IsFiniteSet({x} \X (1 .. f[x])) /\ Cardinality({x} \X (1 .. f[x])) = f[x]
  <2> USE <1>EachFinite
  <2>1. ASSUME NEW x \in S
        PROVE  IsFiniteSet({x} \X (1 .. f[x])) /\ Cardinality({x} \X (1 .. f[x])) = f[x]
    <3>1. f[x] \in Nat /\ IsFiniteSet({x}) /\ Cardinality({x}) = 1
      BY Zenon, FS_Singleton
    <3>2. IsFiniteSet(1 .. f[x]) /\ Cardinality(1 .. f[x]) = IF 1 > f[x] THEN 0 ELSE f[x] - 1 + 1
      BY <3>1, FS_Interval
    <3>3. Cardinality(1 .. f[x]) = f[x]
      BY <3>1, <3>2
    <3>4. IsFiniteSet({x} \X (1 .. f[x])) /\ Cardinality({x} \X (1 .. f[x])) = Cardinality({x}) * Cardinality(1 .. f[x])
      BY Zenon, <3>1, <3>2, FS_Product
    <3> QED
      BY <3>1, <3>3, <3>4
  <2> DEFINE T == {{x} \X (1 .. f[x]) : x \in S}
             g == [x \in S |-> {x} \X (1 .. f[x])]
  <2>2. g \in Surjection(S, T)
    BY Zenon DEF Surjection
  <2>3. IsFiniteSet(T)
    BY Zenon, <2>2, FS_Surjection
  <2>4. \A t \in T : IsFiniteSet(t)
    BY Zenon, <2>1
  <2>5. IsFiniteSet(UNION T)
    BY Zenon, <2>3, <2>4, FS_UNION
  <2>6. Each(f) = UNION T
    BY Zenon DEF Each
  <2>7. Total(f) \in Nat
    BY Zenon, <2>5, <2>6, FS_CardinalityType DEF Total
  <2> QED
    BY Zenon, <2>1, <2>5, <2>6, <2>7
\* One summand apart.
<1>EachApart.
      ASSUME NEW S, IsFiniteSet(S), NEW f \in [S -> Nat], NEW x \in S
      PROVE  LET U == UNION {{y} \X (1 .. f[y]) : y \in S \ {x}}
             IN  IsFiniteSet(U) /\ Total(f) = Cardinality(U) + f[x]
  <2> USE <1>EachApart
  <2> DEFINE U == UNION {{y} \X (1 .. f[y]) : y \in S \ {x}}
             X == {x} \X (1 .. f[x])
  <2>1. Each(f) = U \cup X /\ U \cap X = {}
    BY DEF Each
  <2>2. IsFiniteSet(Each(f)) /\ IsFiniteSet(X) /\ Cardinality(X) = f[x] /\ f[x] \in Nat
    BY Zenon, <1>EachFinite
  <2>3. IsFiniteSet(U)
    BY Zenon, <2>1, <2>2, FS_Subset
  <2>4. Cardinality(U \cup X) = Cardinality(U) + Cardinality(X) - Cardinality(U \cap X)
    BY Zenon, <2>2, <2>3, FS_Union
  <2>5. Cardinality(U \cap X) = 0 /\ Cardinality(U) \in Nat
    BY Zenon, <2>1, <2>3, FS_EmptySet, FS_CardinalityType
  <2>6. Total(f) = Cardinality(U) + f[x]
    BY <2>1, <2>2, <2>4, <2>5 DEF Total
  <2> QED
    BY <2>3, <2>6
<1>1. \A S \in {Create, Job, Pool} : IsFiniteSet(S)
  BY Zenon, FiniteAssumption, FS_Union DEF Job
<1>2. ASSUME NEW S, IsFiniteSet(S), NEW f \in [S -> Nat], NEW x \in S PROVE f[x] <= Total(f)
  <2> DEFINE U == UNION {{y} \X (1 .. f[y]) : y \in S \ {x}}
  <2>1. IsFiniteSet(U) /\ Total(f) = Cardinality(U) + f[x]
    BY Zenon, <1>2, <1>EachApart
  <2>2. Cardinality(U) \in Nat
    BY Zenon, <2>1, FS_CardinalityType
  <2> QED
    BY <2>1, <2>2
<1>3. ASSUME NEW S, IsFiniteSet(S), NEW f \in [S -> Nat] PROVE Total(f) = 0 <=> \A x \in S : f[x] = 0
  <2>1. (\A x \in S : f[x] = 0) => Each(f) = {}
    BY DEF Each
  <2>2. (\A x \in S : f[x] = 0) => Total(f) = 0
    BY Zenon, <2>1, FS_EmptySet DEF Total
  <2> QED
    BY <2>2, <1>2, <1>3
<1>4. ASSUME NEW S, IsFiniteSet(S), NEW f \in [S -> Nat], NEW g \in [S -> Nat], NEW x \in S,
             \A y \in S \ {x} : f[y] = g[y]
      PROVE  Total(g) = Total(f) - f[x] + g[x]
  <2> DEFINE U(h) == UNION {{y} \X (1 .. h[y]) : y \in S \ {x}}
  <2>1. U(f) = U(g)
    BY Zenon, <1>4
  <2>2. IsFiniteSet(U(f)) /\ Total(f) = Cardinality(U(f)) + f[x]
    BY Zenon, <1>4, <1>EachApart
  <2>3. Total(g) = Cardinality(U(g)) + g[x]
    BY Zenon, <1>4, <1>EachApart
  <2>4. Cardinality(U(f)) \in Nat
    BY Zenon, <2>2, FS_CardinalityType
  <2> HIDE DEF U
  <2> QED
    BY <2>1, <2>2, <2>3, <2>4
<1>5. ASSUME NEW S, IsFiniteSet(S), NEW f \in [S -> Nat] PROVE Total(f) \in Nat
  BY Zenon, <1>5, <1>EachFinite
<1> SUFFICES ASSUME NEW S \in {Create, Job, Pool}
             PROVE  /\ \A f \in [S -> Nat] :
                         /\ Total(f) \in Nat
                         /\ Total(f) = 0 <=> \A x \in S : f[x] = 0
                         /\ \A x \in S : f[x] <= Total(f)
                    /\ \A f, g \in [S -> Nat] : \A x \in S :
                         (\A y \in S \ {x} : f[y] = g[y]) => Total(g) = Total(f) - f[x] + g[x]
  BY Zenon DEF TotalLaws
<1>6. IsFiniteSet(S)
  BY Zenon, <1>1
<1>7. \A f \in [S -> Nat] : Total(f) \in Nat /\ (Total(f) = 0 <=> \A x \in S : f[x] = 0)
  BY Zenon, <1>3, <1>5, <1>6
<1>8. \A f \in [S -> Nat] : \A x \in S : f[x] <= Total(f)
  BY Zenon, <1>2, <1>6
<1>9. ASSUME NEW f \in [S -> Nat], NEW g \in [S -> Nat], NEW x \in S, \A y \in S \ {x} : f[y] = g[y]
      PROVE  Total(g) = Total(f) - f[x] + g[x]
  BY ZenonT(30), <1>4, <1>6, <1>9
<1> QED
  BY Zenon, <1>7, <1>8, <1>9

LEMMA CreateSum == CreateLaw
\* Each request with one at most.
<1>AtMostOne.
      ASSUME NEW f \in [Create -> Nat], \A c \in Create : f[c] <= 1
      PROVE  Total(f) <= Cardinality(Create) /\ Cardinality(Create) \in Nat
  <2> USE <1>AtMostOne
  <2>1. Each(f) \subseteq Create \X (1..1)
    BY DEF Each
  <2>2. IsFiniteSet(1..1) /\ Cardinality(1..1) = 1
    <3>1. 1..1 = {1}
      OBVIOUS
    <3> QED
      BY Zenon, <3>1, FS_Singleton
  <2>3. IsFiniteSet(Create \X (1..1)) /\ Cardinality(Create \X (1..1)) = Cardinality(Create) * 1
    BY Zenon, <2>2, FS_Product, FiniteAssumption
  <2>4. Cardinality(Create) \in Nat
    BY Zenon, FS_CardinalityType, FiniteAssumption
  <2>5. Total(f) <= Cardinality(Create \X (1..1))
    BY Zenon, <2>1, <2>3, FS_Subset DEF Total
  <2> QED
    BY <2>3, <2>4, <2>5
<1> QED
  BY Zenon, <1>AtMostOne, FS_CardinalityType, FiniteAssumption DEF CreateLaw

-----------------------------------------------------------------------------
(* The theorems.                                                           *)

\* At first nothing is promised, on the way or given.
LEMMA InitInvs == ASSUME Init PROVE CountBacked /\ Served /\ \A p \in Pool : Fed(p)
<1>1. Base /\ TotalLaws
  BY Zenon, InitBase, Totals
<1>2. \A c \in Create : \A p \in Pool : /\ queued[c][p] = 0 /\ got[c][p] = 0 /\ left[c] = 0
                                        /\ create[c] = "idle"
  BY Zenon, Names DEF Init
<1>3. ASSUME NEW p \in Pool PROVE stored[p] >= poolCount[p] + QueuedGets(p) + Unreported(p)
  <2>1. [c \in Create |-> queued[c][p]] \in [Create -> Nat] /\ [j \in Job |-> Reports(j, p)] \in [Job -> Nat]
    BY Zenon, <1>1, QueuedNat, ReportsNat
  <2>2. \A j \in Job : Reports(j, p) = 0
    BY Zenon DEF Reports, Init
  <2>3. QueuedGets(p) = 0
    BY Zenon, <1>1, <1>2, <2>1 DEF TotalLaws, QueuedGets
  <2>4. Total([j \in Job |-> Reports(j, p)]) = 0
    BY Zenon, <1>1, <2>1, <2>2 DEF TotalLaws
  <2>5. Unreported(p) = 0
    BY Zenon, <2>4 DEF Unreported, Reports
  <2>6. stored[p] = poolCount[p] /\ poolCount[p] \in Nat
    BY <1>1, Funs DEF Init
  <2> QED
    BY <2>3, <2>5, <2>6
<1>4. ASSUME NEW p \in Pool PROVE Fed(p)
  <2>1. \A c \in Create : GivingBack(c, p) = 0
    BY Zenon, <1>2 DEF GivingBack
  <2>2. \A c \in Create : Holding(c, p) = 0
    BY <1>2, <2>1 DEF Holding
  <2>3. Held(p) \in [Create -> Nat] /\ \A c \in Create : Held(p)[c] = 0
    BY Zenon, <1>1, <2>2, HeldSum DEF Held
  <2>4. Total(Held(p)) = 0
    BY Zenon, <1>1, <2>3 DEF TotalLaws
  <2>5. poolCount[p] \in 0 .. Low /\ left[p] = 0 /\ refill[p] = "threshold"
    BY Zenon, Names DEF Init
  <2>6. Cardinality(Create) \in Nat
    BY Zenon, CreateSum DEF CreateLaw
  <2>7. poolCount[p] + Total(Held(p)) + left[p] <= Low - 1 + Cardinality(Create) + Batch
    BY <2>4, <2>5, <2>6, Sizes
  <2> QED
    BY Zenon, <2>5, <2>7 DEF Fed, Supplied, Supply
<1>5. Served
  BY Zenon, <1>2 DEF Served
<1> QED
  BY Zenon, <1>3, <1>4, <1>5 DEF CountBacked

\* What a request or a refiller has posted agrees with where it is: in
\* job_precreate_pool_get_handles() trove_pending counts the operations that are
\* out, a write is out only while handles are left to write, and a request is in
\* the list its state says, once.
THEOREM BaseHolds == ASSUME OneOfEach PROVE Spec => []Base
<1>1. Base /\ [Next]_vars => Base'
  BY Zenon, OneOfEach, Totals, NextBase
<1> QED
  BY <1>1, InitBase, PTL DEF Spec

\* The storage holds every handle that pool_count still offers, those promised to a
\* posted get and those written whose callback has not run: "decrement count to
\* avoid races with other consumers", for any number of pools, requests and handles.
THEOREM CountIsBacked == ASSUME OneOfEach PROVE Spec => []CountBacked
<1>1. Base /\ Base' /\ CountBacked /\ [Next]_vars => CountBacked'
  BY Zenon, OneOfEach, Totals, NextBacked
<1>2. Init => CountBacked
  BY Zenon, InitInvs
<1>3. Spec => []Base
  BY Zenon, OneOfEach, BaseHolds
<1> QED
  BY <1>1, <1>2, <1>3, PTL DEF Spec

\* Where the iterate-and-remove operations do not fail, a get that completes gave
\* the request all the handles it asked for: none of them ran on an empty pool object.
THEOREM AllHandlesGiven == ASSUME OneOfEach, "get" \notin Faults PROVE Spec => []HandlesGiven
<1>1. Base /\ Base' /\ CountBacked /\ Served /\ [Next]_vars => Served'
  BY Zenon, OneOfEach, "get" \notin Faults, Totals, NextServed
<1>2. Init => Served
  BY Zenon, InitInvs
<1>3. Base /\ Served => HandlesGiven
  <2> SUFFICES ASSUME Base, Served, NEW c \in Create, create[c] = "have" PROVE got[c] = ask[c]
    BY Zenon DEF HandlesGiven, Base
  <2>1. queued[c] = NoHandles
    BY Zenon DEF Base, Placed, GetOk
  <2>2. got[c] \in [Pool -> Nat] /\ ask[c] \in [Pool -> Nat]
    BY Zenon, Funs
  <2>3. \A p \in Pool : queued[c][p] + got[c][p] = ask[c][p]
    BY Zenon DEF Served
  <2>4. \A p \in Pool : got[c][p] = ask[c][p]
    BY <2>1, <2>2, <2>3, Names
  <2> QED
    BY Zenon, <2>2, <2>4, SameAmounts
<1>4. Spec => []Base /\ []CountBacked
  BY Zenon, OneOfEach, BaseHolds, CountIsBacked
<1> QED
  BY <1>1, <1>2, <1>3, <1>4, PTL DEF Spec

\* While a uint32_t holds a batch, the threshold and a handle for every request, a
\* refiller never sleeps on a pool that is below its threshold.
THEOREM RefillersAwake == ASSUME OneOfEach, WideCount PROVE Spec => []RefillerAwake
<1> DEFINE AllFed == \A p \in Pool : Fed(p)
<1>1. Base /\ Base' /\ AllFed /\ [Next]_vars => AllFed'
  BY Zenon, OneOfEach, WideCount, Totals, CreateSum, NextFed
<1>2. Init => AllFed
  BY Zenon, InitInvs
<1>3. AllFed => RefillerAwake
  BY Zenon DEF Fed, RefillerAwake
<1>4. Spec => []Base
  BY Zenon, OneOfEach, BaseHolds
<1> HIDE DEF AllFed
<1> QED
  BY <1>1, <1>2, <1>3, <1>4, PTL DEF Spec
=============================================================================
