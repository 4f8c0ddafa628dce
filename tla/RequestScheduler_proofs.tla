----------------------- MODULE RequestScheduler_proofs -----------------------
(***************************************************************************)
(* What the steps of RequestScheduler keep: first of the handles' lists    *)
(* (ListInv), then of modes, timers and clients.  The laws of counting     *)
(* that are needed are an assumption of the lemmas here: the theorems at   *)
(* the end have them from the library of theorems about finite sets.       *)
(***************************************************************************)
EXTENDS RequestScheduler, TLAPS

-----------------------------------------------------------------------------
(* What leaves and what joins a sequence without repetition, and the lists. *)

\* Taking the i-th element out of a sequence moves the later ones up.
LEMMA UnlinkedSeq ==
    ASSUME NEW S, NEW s \in Seq(S), NEW i \in 1..Len(s)
    PROVE  /\ Unlinked(s, i) \in Seq(S)
           /\ Len(Unlinked(s, i)) = Len(s) - 1
           /\ \A j \in 1..(Len(s) - 1) :
                Unlinked(s, i)[j] = IF j < i THEN s[j] ELSE s[j + 1]
<1> DEFINE a == SubSeq(s, 1, i-1)
           b == SubSeq(s, i+1, Len(s))
<1>0. Len(s) \in Nat
  OBVIOUS
<1>1. /\ a \in Seq(S) /\ Len(a) = i - 1
      /\ \A j \in 1..(i-1) : a[j] = s[j]
  BY <1>0, SMTT(40)
<1>2. /\ b \in Seq(S) /\ Len(b) = Len(s) - i
      /\ \A j \in 1..(Len(s) - i) : b[j] = s[i + j]
  BY <1>0, SMTT(40)
<1>3. Unlinked(s, i) = a \o b
  BY Zenon DEF Unlinked
<1> HIDE DEF a, b
<1>4. /\ a \o b \in Seq(S)
      /\ Len(a \o b) = Len(a) + Len(b)
      /\ \A j \in 1..(Len(a) + Len(b)) :
            (a \o b)[j] = IF j <= Len(a) THEN a[j] ELSE b[j - Len(a)]
  <2>1. a \in Seq(S) /\ b \in Seq(S)
    BY Zenon, <1>1, <1>2
  <2> QED
    BY <2>1
<1>5. Len(a) + Len(b) = Len(s) - 1
  BY <1>0, <1>1, <1>2
<1>6. ASSUME NEW j \in 1..(Len(s) - 1)
      PROVE  (a \o b)[j] = IF j < i THEN s[j] ELSE s[j + 1]
  <2>1. CASE j < i
    BY <1>0, <1>1, <1>4, <1>5, <2>1
  <2>2. CASE ~(j < i)
    <3>1. j - (i - 1) \in 1..(Len(s) - i) /\ i + (j - (i - 1)) = j + 1
      BY <1>0, <2>2
    <3>2. b[j - (i - 1)] = s[j + 1]
      BY Zenon, <1>2, <3>1
    <3> QED
      BY <1>0, <1>1, <1>4, <1>5, <2>2, <3>2
  <2> QED
    BY <2>1, <2>2, Zenon
<1> QED
  BY Zenon, <1>3, <1>4, <1>5, <1>6

\* The elements of the sequence q, in TypeOK's terms.
In(e, q) == \E k \in 1..Len(q) : q[k] = e

Once(q) == \A j, k \in 1..Len(q) : q[j] = q[k] => j = k

\* The first n elements of l differ from each other and from those of q.
NewTo(q, l, n) ==
    /\ \A j, k \in 1..n : l[j] = l[k] => j = k
    /\ \A j \in 1..n : ~In(l[j], q)

Joined(t, q, l, n) ==
    \A e : In(e, t) <=> In(e, q) \/ \E j \in 1..n : l[j] = e

\* The first n elements of l are appended to the sequence q.
LEMMA AppendRun ==
    ASSUME NEW S, NEW q \in Seq(S), NEW l \in Seq(S), NEW n \in 0..Len(l),
           Once(q), NewTo(q, l, n)
    PROVE  /\ q \o SubSeq(l, 1, n) \in Seq(S)
           /\ Once(q \o SubSeq(l, 1, n))
           /\ Joined(q \o SubSeq(l, 1, n), q, l, n)
<1> USE DEF NewTo
<1> DEFINE b == SubSeq(l, 1, n)
           t == q \o b
           M == Len(q)
<1>1. Len(l) \in Nat /\ M \in Nat
  OBVIOUS
<1>2. b \in Seq(S) /\ Len(b) = n /\ \A j \in 1..n : b[j] = l[j]
  <2>1. \A j \in 1..n : l[j] \in S
    BY <1>1
  <2> QED
    BY <1>1, <2>1, SMTT(40)
<1> HIDE DEF b
<1>3. /\ t \in Seq(S) /\ Len(t) = M + n
      /\ \A k \in 1..(M + n) : t[k] = IF k <= M THEN q[k] ELSE b[k - M]
  <2>0. b \in Seq(S)
    BY Zenon, <1>2
  <2>1. /\ q \o b \in Seq(S) /\ Len(q \o b) = Len(q) + Len(b)
        /\ \A k \in 1..(Len(q) + Len(b)) :
              (q \o b)[k] = IF k <= Len(q) THEN q[k] ELSE b[k - Len(q)]
    BY <2>0, SMTT(40)
  <2> QED
    BY Zenon, <1>2, <2>1
<1> HIDE DEF t
<1>4. \A k \in 1..M : k \in 1..(M + n) /\ t[k] = q[k]
  BY <1>1, <1>3
<1>5. \A j \in 1..n : M + j \in 1..(M + n) /\ t[M + j] = l[j]
  <2> SUFFICES ASSUME NEW j \in 1..n
               PROVE  M + j \in 1..(M + n) /\ t[M + j] = l[j]
    BY Zenon
  <2>1. M + j \in 1..(M + n) /\ ~(M + j <= M) /\ (M + j) - M = j
    BY <1>1
  <2> QED
    BY Zenon, <1>2, <1>3, <2>1
<1>6. \A k \in 1..(M + n) : k \in 1..M \/ \E j \in 1..n : k = M + j
  <2> SUFFICES ASSUME NEW k \in 1..(M + n), k \notin 1..M
               PROVE  \E j \in 1..n : k = M + j
    BY Zenon
  <2>1. k - M \in 1..n /\ k = M + (k - M)
    BY <1>1
  <2> QED
    BY Zenon, <2>1
<1> HIDE DEF M
<1>7. \A e : In(e, t) <=> In(e, q) \/ \E j \in 1..n : l[j] = e
  <2> SUFFICES ASSUME NEW e
               PROVE  (\E k \in 1..(M + n) : t[k] = e)
                        <=> (\E k \in 1..M : q[k] = e) \/ \E j \in 1..n : l[j] = e
    BY <1>3, Zenon DEF In, M
  <2> QED
    BY <1>4, <1>5, <1>6, SMTT(40)
<1>8. Once(t)
  <2> SUFFICES ASSUME NEW j \in 1..(M + n), NEW k \in 1..(M + n), t[j] = t[k]
               PROVE  j = k
    BY Zenon, <1>3 DEF Once
  <2>1. CASE j \in 1..M /\ k \in 1..M
    BY Zenon, <1>4, <2>1 DEF Once, M
  <2>d. \A i \in 1..M, g \in 1..n : q[i] # l[g]
    BY Zenon DEF In, M
  <2>2. CASE j \in 1..M /\ k \notin 1..M
    <3>1. PICK g \in 1..n : k = M + g
      BY Zenon, <1>6, <2>2
    <3> QED
      BY <1>4, <1>5, <2>2, <2>d, <3>1, SMTT(40)
  <2>3. CASE j \notin 1..M /\ k \in 1..M
    <3>1. PICK g \in 1..n : j = M + g
      BY Zenon, <1>6, <2>3
    <3> QED
      BY <1>4, <1>5, <2>3, <2>d, <3>1, SMTT(40)
  <2>4. CASE j \notin 1..M /\ k \notin 1..M
    BY <1>5, <1>6, <2>4, SMTT(40)
  <2> QED
    BY Zenon, <2>1, <2>2, <2>3, <2>4
<1> QED
  BY <1>3, <1>7, <1>8, Zenon DEF t, b, Joined

\* An element that is not yet in the sequence q is appended to it.
LEMMA AppendOne ==
    ASSUME NEW S, NEW q \in Seq(S), NEW e \in S, Once(q), ~In(e, q)
    PROVE  /\ Append(q, e) \in Seq(S) /\ Once(Append(q, e))
           /\ \A d : In(d, Append(q, e)) <=> In(d, q) \/ d = e
<1> DEFINE M == Len(q)
           t == Append(q, e)
<1>1. /\ M \in Nat /\ t \in Seq(S) /\ Len(t) = M + 1
      /\ t[M + 1] = e /\ \A k \in 1..M : t[k] = q[k]
  OBVIOUS
<1> HIDE DEF t
<1>2. Once(t)
  BY <1>1 DEF Once, In
<1>3. \A d : In(d, t) <=> In(d, q) \/ d = e
  BY <1>1 DEF In
<1> QED
  BY Zenon, <1>1, <1>2, <1>3 DEF t

\* An element is taken out of a sequence that has it once.
LEMMA RemoveOne ==
    ASSUME NEW S, NEW q \in Seq(S), NEW k \in 1..Len(q), Once(q)
    PROVE  /\ Unlinked(q, k) \in Seq(S) /\ Once(Unlinked(q, k))
           /\ \A d : In(d, Unlinked(q, k)) <=> In(d, q) /\ d # q[k]
<1> DEFINE M == Len(q)
           t == Unlinked(q, k)
           P(j) == IF j < k THEN j ELSE j + 1
<1>1. /\ M \in Nat /\ t \in Seq(S) /\ Len(t) = M - 1
      /\ \A j \in 1..(M - 1) : t[j] = IF j < k THEN q[j] ELSE q[j + 1]
  BY UnlinkedSeq
<1> HIDE DEF M, t
<1>2. k \in 1..M
  BY Zenon DEF M
<1>3. \A j \in 1..(M - 1) : P(j) \in 1..M /\ P(j) # k
  BY <1>1, <1>2
<1>4. \A j \in 1..(M - 1) : t[j] = q[P(j)]
  BY Zenon, <1>1, <1>2
<1>5. \A i, j \in 1..(M - 1) : P(i) = P(j) => i = j
  BY <1>1, <1>2
<1>6. \A i \in 1..M : i # k => \E j \in 1..(M - 1) : P(j) = i
  <2> SUFFICES ASSUME NEW i \in 1..M, i # k
               PROVE  \E j \in 1..(M - 1) : P(j) = i
    BY Zenon
  <2>1. CASE i < k
    <3>1. i \in 1..(M - 1) /\ P(i) = i
      BY <1>1, <1>2, <2>1, SMTT(40)
    <3> QED
      BY Zenon, <3>1
  <2>2. CASE ~(i < k)
    <3>1. i - 1 \in 1..(M - 1) /\ P(i - 1) = i
      BY <1>1, <1>2, <2>2, SMTT(40)
    <3> QED
      BY Zenon, <3>1
  <2> QED
    BY Zenon, <2>1, <2>2
<1> HIDE DEF P
<1>7. \A i, j \in 1..M : q[i] = q[j] => i = j
  BY Zenon DEF Once, M
<1>8. Once(t)
  <2> SUFFICES ASSUME NEW i \in 1..(M - 1), NEW j \in 1..(M - 1), t[i] = t[j]
               PROVE  i = j
    BY Zenon, <1>1 DEF Once
  <2> QED
    BY Zenon, <1>3, <1>4, <1>5, <1>7
<1>9. \A d : In(d, t) <=> In(d, q) /\ d # q[k]
  <2> SUFFICES ASSUME NEW d
               PROVE  (\E j \in 1..(M - 1) : t[j] = d)
                         <=> (\E i \in 1..M : q[i] = d) /\ d # q[k]
    BY <1>1, Zenon DEF In, M
  <2>1. ASSUME NEW j \in 1..(M - 1), t[j] = d
        PROVE  (\E i \in 1..M : q[i] = d) /\ d # q[k]
    BY Zenon, <1>2, <1>3, <1>4, <1>7, <2>1
  <2>2. ASSUME NEW i \in 1..M, q[i] = d, d # q[k]
        PROVE  \E j \in 1..(M - 1) : t[j] = d
    BY Zenon, <1>4, <1>6, <2>2
  <2> QED
    BY Zenon, <2>1, <2>2
<1> QED
  BY Zenon, <1>1, <1>8, <1>9 DEF t

\* The elements of q from position m on.
LEMMA Suffix ==
    ASSUME NEW S, NEW q \in Seq(S), NEW m \in 1..(Len(q) + 1), Once(q)
    PROVE  /\ SubSeq(q, m, Len(q)) \in Seq(S) /\ Once(SubSeq(q, m, Len(q)))
           /\ \A d : In(d, SubSeq(q, m, Len(q))) <=> \E k \in m..Len(q) : q[k] = d
<1> DEFINE t == SubSeq(q, m, Len(q))
           N == Len(q)
           M == IF m <= N THEN N - m + 1 ELSE 0
<1>1. N \in Nat /\ M \in Nat
  OBVIOUS
<1>2. t \in Seq(S) /\ Len(t) = M /\ \A j \in 1..M : t[j] = q[m + j - 1]
  <2>1. \A j \in m..N : q[j] \in S
    BY <1>1
  <2> QED
    BY <1>1, <2>1, SMTT(40)
<1>3. \A j \in 1..M : m + j - 1 \in m..N /\ m + j - 1 \in 1..N
  BY <1>1
<1>4. \A k \in m..N : k - m + 1 \in 1..M /\ m + (k - m + 1) - 1 = k
  BY <1>1
<1> HIDE DEF t
<1>5. Once(t)
  <2> SUFFICES ASSUME NEW j \in 1..M, NEW k \in 1..M, t[j] = t[k]
               PROVE  j = k
    BY Zenon, <1>2 DEF Once
  <2>1. m + j - 1 = m + k - 1
    BY Zenon, <1>2, <1>3 DEF Once
  <2> QED
    BY <1>1, <2>1, SMTT(40)
<1>6. \A d : In(d, t) <=> \E k \in m..N : q[k] = d
  <2> SUFFICES ASSUME NEW d
               PROVE  (\E j \in 1..M : t[j] = d) <=> \E k \in m..N : q[k] = d
    BY <1>2, Zenon DEF In
  <2> HIDE DEF M, N
  <2> QED
    BY <1>2, <1>3, <1>4, SMTT(40)
<1> QED
  BY Zenon, <1>2, <1>5, <1>6 DEF t

-----------------------------------------------------------------------------
(* The lists of the handles.                                               *)

\* Steps that leave the lists and who waits in them alone.
LEMMA SameWaiting ==
    ASSUME TypeOK, ListInv, reqList' = reqList, Listed' = Listed,
           \A r \in Listed : /\ op'[r] = op[r]
                             /\ access_type'[r] = access_type[r]
                             /\ state'[r] = "queued" <=> state[r] = "queued"
    PROVE  ListInv'
<1>1. Placed'
  BY DEF ListInv, Placed
<1>2. \A h \in Handle : \A i \in 1..Len(reqList[h]) : reqList[h][i] \in Listed
  BY Zenon DEF ListInv, Placed
<1>3. HeadGoes'
  <2> SUFFICES ASSUME NEW h \in Handle, reqList[h] # <<>>
               PROVE  state'[reqList[h][1]] # "queued"
    BY Zenon DEF HeadGoes
  <2>1. 1 \in 1..Len(reqList[h])
    BY DEF TypeOK
  <2> QED
    BY Zenon, <1>2, <2>1 DEF ListInv, HeadGoes
<1>4. NoOvertaking'
  BY <1>2 DEF ListInv, NoOvertaking
<1>5. AccessKept'
  BY Zenon DEF ListInv, AccessKept
<1>6. Holders'
  BY <1>2 DEF ListInv, Holders
<1> QED
  BY Zenon, <1>1, <1>3, <1>4, <1>5, <1>6 DEF ListInv

\* A posted request goes to the end of its handle's list.
LEMMA PostLists ==
    ASSUME TypeOK, ListInv, NEW r \in Req, NEW o \in Op, NEW h \in Handle,
           Post(r, o, h)
    PROVE  ListInv' /\ Listed' = Listed \cup {r} /\ r \notin Listed
<1> DEFINE l == reqList[h]
           m == Append(l, r)
           N == Len(l)
<1>1. /\ l \in Seq(Req) /\ N \in Nat /\ Len(m) = N + 1
      /\ m[N + 1] = r /\ \A i \in 1..N : m[i] = l[i]
      /\ l # <<>> => N > 0
  BY DEF TypeOK
<1>2. /\ reqList'[h] = m
      /\ \A g \in Handle : g # h => reqList'[g] = reqList[g]
  BY Zenon DEF TypeOK, Post
<1>3. /\ state'[r] = IF Immediate(o, l) THEN "scheduled" ELSE "queued"
      /\ op'[r] = o
      /\ access_type'[r] = PostedAccess(o, l)
      /\ \A q \in Req : q # r => /\ state'[q] = state[q]
                                 /\ op'[q] = op[q]
                                 /\ access_type'[q] = access_type[q]
  BY Zenon DEF TypeOK, Post
<1>4. Listed' = Listed \cup {r} /\ r \notin Listed /\ Listed \subseteq Req
  BY Zenon, <1>3 DEF Listed, Post
<1>5. /\ \A g \in Handle : \A i \in 1..Len(reqList[g]) :
            reqList[g][i] \in Listed /\ reqList[g][i] # r
      /\ \A i \in 1..N : l[i] \in Listed /\ l[i] # r
  BY <1>4 DEF ListInv, Placed
<1>l. \A i, j \in 1..N :
          /\ l[i] = l[j] => i = j
          /\ i < j /\ state[l[i]] = "queued" => state[l[j]] = "queued"
          /\ i # j /\ state[l[i]] # "queued" /\ state[l[j]] # "queued"
                => \/ IsIO(op[l[i]]) /\ IsIO(op[l[j]])
                   \/ access_type[l[i]] = "readonly" /\ access_type[l[j]] = "readonly"
                   \/ op[l[i]] = "dirent" \/ op[l[j]] = "dirent"
  BY DEF ListInv, Placed, NoOvertaking, Holders
<1>g. \A g \in Handle : g # h =>
          /\ \A i \in 1..Len(reqList[g]), j \in 1..N : reqList[g][i] # l[j]
          /\ \A i, j \in 1..Len(reqList[g]) :
                reqList[g][i] = reqList[g][j] => i = j
  BY Zenon DEF ListInv, Placed
<1>n. N \in Nat
  BY Zenon, <1>1
<1> HIDE DEF l, m, N
<1>6. /\ \A g \in Handle : g # h =>
            /\ reqList'[g] = reqList[g]
            /\ \A i \in 1..Len(reqList[g]) : reqList[g][i] # r
      /\ Len(reqList'[h]) = N + 1 /\ reqList'[h][N + 1] = r
      /\ \A i \in 1..N : reqList'[h][i] = l[i]
  BY Zenon, <1>1, <1>2, <1>5
<1>7. Placed'
  <2>1. \A g \in Handle : \A i \in 1..Len(reqList'[g]) : reqList'[g][i] \in Listed'
    <3> SUFFICES ASSUME NEW g \in Handle, NEW i \in 1..Len(reqList'[g])
                 PROVE  reqList'[g][i] \in Listed'
      BY Zenon
    <3>1. CASE g # h
      BY Zenon, <3>1, <1>4, <1>5, <1>6
    <3>2. CASE g = h
      <4>1. i \in 1..N \/ i = N + 1
        BY <3>2, <1>6, <1>n
      <4> QED
        BY Zenon, <3>2, <4>1, <1>4, <1>5, <1>6
    <3> QED
      BY Zenon, <3>1, <3>2
  <2>2. ASSUME NEW g \in Handle, NEW k \in Handle,
               NEW i \in 1..Len(reqList'[g]), NEW j \in 1..Len(reqList'[k]),
               reqList'[g][i] = reqList'[k][j]
        PROVE  g = k /\ i = j
    <3>1. CASE g = h /\ k = h
      <4>1. /\ i \in 1..N \/ i = N + 1
            /\ j \in 1..N \/ j = N + 1
        BY <1>n, <1>6, <3>1
      <4>2. CASE i \in 1..N /\ j \in 1..N
        BY <1>l, <1>6, <2>2, <3>1, <4>2
      <4>3. CASE i = N + 1 /\ j \in 1..N
        BY Zenon, <1>5, <1>6, <2>2, <3>1, <4>3
      <4>4. CASE i \in 1..N /\ j = N + 1
        BY Zenon, <1>5, <1>6, <2>2, <3>1, <4>4
      <4> QED
        BY Zenon, <3>1, <4>1, <4>2, <4>3, <4>4
    <3>2. CASE g = h /\ k # h
      <4>1. /\ i \in 1..N \/ i = N + 1
            /\ reqList'[k][j] = reqList[k][j] /\ j \in 1..Len(reqList[k])
        BY <1>n, <1>6, <3>2
      <4> QED
        BY <1>g, <1>6, <2>2, <3>2, <4>1
    <3>3. CASE g # h /\ k = h
      <4>1. /\ j \in 1..N \/ j = N + 1
            /\ reqList'[g][i] = reqList[g][i] /\ i \in 1..Len(reqList[g])
        BY <1>n, <1>6, <3>3
      <4> QED
        BY <1>g, <1>6, <2>2, <3>3, <4>1
    <3>4. CASE g # h /\ k # h
      BY <1>6, <2>2, <3>4 DEF ListInv, Placed
    <3> QED
      BY Zenon, <3>1, <3>2, <3>3, <3>4
  <2> QED
    BY Zenon, <2>1, <2>2 DEF Placed
<1>8. \A i \in 1..N : /\ state'[l[i]] = state[l[i]]
                      /\ op'[l[i]] = op[l[i]]
                      /\ access_type'[l[i]] = access_type[l[i]]
  BY Zenon, <1>3, <1>4, <1>5
<1>9. \A g \in Handle : g # h => \A i \in 1..Len(reqList[g]) :
          /\ state'[reqList[g][i]] = state[reqList[g][i]]
          /\ op'[reqList[g][i]] = op[reqList[g][i]]
          /\ access_type'[reqList[g][i]] = access_type[reqList[g][i]]
  BY Zenon, <1>3, <1>4, <1>5
<1>10. HeadGoes'
  <2> SUFFICES ASSUME NEW g \in Handle, reqList'[g] # <<>>
               PROVE  state'[reqList'[g][1]] # "queued"
    BY Zenon DEF HeadGoes
  <2>1. CASE g # h
    <3>1. 1 \in 1..Len(reqList[g])
      BY <1>6, <2>1 DEF TypeOK
    <3> QED
      BY <1>6, <1>9, <2>1, <3>1 DEF ListInv, HeadGoes
  <2>2. CASE g = h /\ l = <<>>
    BY <1>1, <1>2, <1>3, <1>6, <2>2 DEF Immediate, m
  <2>3. CASE g = h /\ l # <<>>
    BY <1>1, <1>6, <1>8, <2>3 DEF ListInv, HeadGoes, l
  <2> QED
    BY Zenon, <2>1, <2>2, <2>3
<1>11. NoOvertaking'
  <2> SUFFICES ASSUME NEW g \in Handle, NEW i \in 1..Len(reqList'[g]),
                      NEW j \in 1..Len(reqList'[g]), i < j,
                      state'[reqList'[g][i]] = "queued"
               PROVE  state'[reqList'[g][j]] = "queued"
    BY Zenon DEF NoOvertaking
  <2>1. CASE g # h
    BY <1>6, <1>9, <2>1 DEF ListInv, NoOvertaking
  <2>2. CASE g = h /\ j <= N
    BY <1>n, <1>l, <1>6, <1>8, <2>2
  <2>3. CASE g = h /\ j = N + 1
    <3>1. i \in 1..N /\ state[l[i]] = "queued" /\ N \in 1..N /\ l # <<>>
      BY <1>1, <1>6, <1>8, <2>3 DEF N
    <3>2. state[l[N]] = "queued"
      <4>1. i = N \/ i < N
        BY <1>1, <3>1
      <4> QED
        BY Zenon, <3>1, <4>1 DEF ListInv, NoOvertaking, l, N
    <3>3. ~Immediate(o, l)
      BY Zenon, <3>1, <3>2 DEF Immediate, EndsScheduled, N
    <3> QED
      BY Zenon, <1>3, <1>6, <2>3, <3>3
  <2> QED
    BY <1>1, <1>6, <2>1, <2>2, <2>3
<1>12. AccessKept'
  <2>1. access_type'[r] = "readonly" => AccessType(op'[r]) = "readonly" \/ op'[r] = "dirent"
    BY Zenon, <1>3 DEF PostedAccess
  <2>2. \A q \in Listed : op'[q] = op[q] /\ access_type'[q] = access_type[q]
    BY Zenon, <1>3, <1>4
  <2> QED
    BY Zenon, <1>4, <2>1, <2>2 DEF AccessKept, ListInv
<1>13. Holders'
  <2>1. ASSUME state'[r] # "queued", NEW i \in 1..N
        PROVE  \/ IsIO(o) /\ IsIO(op[l[i]])
               \/ access_type'[r] = "readonly" /\ access_type[l[i]] = "readonly"
               \/ o = "dirent"
    <3>1. l # <<>> /\ Joins(o, l)
      BY <1>1, <1>3, <2>1 DEF Immediate, N
    <3>2. access_type[l[i]] \in {"readonly", "modify"}
      BY Zenon, <1>4, <1>5 DEF TypeOK
    <3>3. AccessType(o) = "readonly" => access_type'[r] = "readonly"
      BY Zenon, <1>3 DEF PostedAccess
    <3> QED
      BY Zenon, <3>1, <3>2, <3>3 DEF Joins, N
  <2> SUFFICES ASSUME NEW g \in Handle, NEW i \in 1..Len(reqList'[g]),
                      NEW j \in 1..Len(reqList'[g]), i # j,
                      state'[reqList'[g][i]] # "queued",
                      state'[reqList'[g][j]] # "queued"
               PROVE  LET a == reqList'[g][i]
                          b == reqList'[g][j]
                      IN  \/ IsIO(op'[a]) /\ IsIO(op'[b])
                          \/ access_type'[a] = "readonly" /\ access_type'[b] = "readonly"
                          \/ op'[a] = "dirent"
                          \/ op'[b] = "dirent"
    BY DEF Holders
  <2>2. CASE g # h
    BY <1>6, <1>9, <2>2 DEF ListInv, Holders
  <2>3. CASE g = h /\ i <= N /\ j <= N
    BY <1>n, <1>l, <1>6, <1>8, <2>3, SMTT(40)
  <2>4. CASE g = h /\ i = N + 1 /\ j <= N
    BY <1>1, <1>3, <1>6, <1>8, <2>1, <2>4, SMTT(40)
  <2>5. CASE g = h /\ i <= N /\ j = N + 1
    BY <1>1, <1>3, <1>6, <1>8, <2>1, <2>5, SMTT(40)
  <2> QED
    BY <1>1, <1>6, <2>2, <2>3, <2>4, <2>5, SMTT(40)
<1> QED
  BY Zenon, <1>4, <1>7, <1>10, <1>11, <1>12, <1>13 DEF ListInv

\* l is the list of h without its element r.
ShortList(h, l, r) ==
    /\ l \in Seq(Req) /\ Len(l) \in Nat /\ r \in Listed
    /\ \A j \in 1..Len(l) : l[j] \in Listed /\ l[j] # r
    /\ \A j, k \in 1..Len(l) :
         /\ l[j] = l[k] => j = k
         /\ j < k /\ state[l[j]] = "queued" => state[l[k]] = "queued"
         /\ j # k /\ state[l[j]] # "queued" /\ state[l[k]] # "queued"
               => \/ IsIO(op[l[j]]) /\ IsIO(op[l[k]])
                  \/ access_type[l[j]] = "readonly" /\ access_type[l[k]] = "readonly"
                  \/ op[l[j]] = "dirent" \/ op[l[k]] = "dirent"
    /\ \A g \in Handle : g # h =>
         \A k \in 1..Len(reqList[g]) :
             /\ reqList[g][k] # r
             /\ \A j \in 1..Len(l) : reqList[g][k] # l[j]
    /\ state[r] = "queued" => l # <<>> /\ state[l[1]] # "queued"

\* What a list looks like after an element left it.
LEMMA Shortened ==
    ASSUME TypeOK, ListInv, NEW h \in Handle, NEW i \in 1..Len(reqList[h]),
           NEW l, l = Unlinked(reqList[h], i), NEW r, r = reqList[h][i]
    PROVE  ShortList(h, l, r)
<1> DEFINE s == reqList[h]
           N == Len(s)
<1>1. s \in Seq(Req) /\ N \in Nat /\ i \in 1..N
  BY DEF TypeOK
<1>2. /\ l \in Seq(Req) /\ Len(l) = N - 1
      /\ \A j \in 1..(N - 1) : l[j] = IF j < i THEN s[j] ELSE s[j + 1]
  BY <1>1, UnlinkedSeq, Zenon
<1>3. /\ \A j, k \in 1..N :
          /\ s[j] = s[k] => j = k
          /\ j < k /\ state[s[j]] = "queued" => state[s[k]] = "queued"
          /\ j # k /\ state[s[j]] # "queued" /\ state[s[k]] # "queued"
                => \/ IsIO(op[s[j]]) /\ IsIO(op[s[k]])
                   \/ access_type[s[j]] = "readonly" /\ access_type[s[k]] = "readonly"
                   \/ op[s[j]] = "dirent" \/ op[s[k]] = "dirent"
      /\ \A j \in 1..N : s[j] \in Listed
      /\ \A g \in Handle : g # h =>
            \A k \in 1..Len(reqList[g]), j \in 1..N : reqList[g][k] # s[j]
      /\ N > 0 => state[s[1]] # "queued"
  <2>1. \A j, k \in 1..N :
          /\ s[j] = s[k] => j = k
          /\ j < k /\ state[s[j]] = "queued" => state[s[k]] = "queued"
          /\ j # k /\ state[s[j]] # "queued" /\ state[s[k]] # "queued"
                => \/ IsIO(op[s[j]]) /\ IsIO(op[s[k]])
                   \/ access_type[s[j]] = "readonly" /\ access_type[s[k]] = "readonly"
                   \/ op[s[j]] = "dirent" \/ op[s[k]] = "dirent"
    BY DEF ListInv, Placed, NoOvertaking, Holders
  <2>2. \A j \in 1..N : s[j] \in Listed
    BY Zenon DEF ListInv, Placed
  <2>3. \A g \in Handle : g # h =>
            \A k \in 1..Len(reqList[g]), j \in 1..N : reqList[g][k] # s[j]
    BY Zenon DEF ListInv, Placed
  <2>4. N > 0 => state[s[1]] # "queued"
    <3>1. N > 0 => s # <<>>
      BY <1>1
    <3> QED
      BY Zenon, <3>1 DEF ListInv, HeadGoes
  <2> QED
    BY Zenon, <2>1, <2>2, <2>3, <2>4
<1>4. r = s[i]
  BY Zenon
<1> DEFINE P(j) == IF j < i THEN j ELSE j + 1
<1>5. /\ \A j \in 1..(N - 1) : P(j) \in 1..N /\ P(j) # i /\ l[j] = s[P(j)]
      /\ \A j, k \in 1..(N - 1) : j < k => P(j) < P(k)
      /\ \A j, k \in 1..(N - 1) : P(j) = P(k) => j = k
  <2> HIDE DEF s, N
  <2>1. \A j \in 1..(N - 1) : P(j) \in 1..N /\ P(j) # i
    BY <1>1
  <2>2. \A j \in 1..(N - 1) : l[j] = s[P(j)]
    BY Zenon, <1>1, <1>2
  <2>3. \A j, k \in 1..(N - 1) : j < k => P(j) < P(k)
    BY <1>1
  <2>4. \A j, k \in 1..(N - 1) : P(j) = P(k) => j = k
    BY <1>1
  <2> QED
    BY Zenon, <2>1, <2>2, <2>3, <2>4
<1> HIDE DEF s, N, P
<1>6. Len(l) = N - 1 /\ Len(l) \in Nat
  BY <1>1, <1>2
<1>7. \A j \in 1..Len(l) : l[j] \in Listed /\ l[j] # r
  <2> SUFFICES ASSUME NEW j \in 1..(N - 1)
               PROVE  l[j] \in Listed /\ l[j] # r
    BY Zenon, <1>6
  <2>1. P(j) \in 1..N /\ P(j) # i /\ l[j] = s[P(j)]
    BY Zenon, <1>5
  <2> QED
    BY <1>1, <1>3, <1>4, <2>1
<1>8. \A j, k \in 1..Len(l) :
          /\ l[j] = l[k] => j = k
          /\ j < k /\ state[l[j]] = "queued" => state[l[k]] = "queued"
          /\ j # k /\ state[l[j]] # "queued" /\ state[l[k]] # "queued"
                => \/ IsIO(op[l[j]]) /\ IsIO(op[l[k]])
                   \/ access_type[l[j]] = "readonly" /\ access_type[l[k]] = "readonly"
                   \/ op[l[j]] = "dirent" \/ op[l[k]] = "dirent"
  <2> SUFFICES ASSUME NEW j \in 1..(N - 1), NEW k \in 1..(N - 1)
               PROVE
          /\ l[j] = l[k] => j = k
          /\ j < k /\ state[l[j]] = "queued" => state[l[k]] = "queued"
          /\ j # k /\ state[l[j]] # "queued" /\ state[l[k]] # "queued"
                => \/ IsIO(op[l[j]]) /\ IsIO(op[l[k]])
                   \/ access_type[l[j]] = "readonly" /\ access_type[l[k]] = "readonly"
                   \/ op[l[j]] = "dirent" \/ op[l[k]] = "dirent"
    BY <1>6
  <2>1. P(j) \in 1..N /\ P(k) \in 1..N /\ l[j] = s[P(j)] /\ l[k] = s[P(k)]
    BY Zenon, <1>5
  <2>2. (j < k => P(j) < P(k)) /\ (P(j) = P(k) => j = k)
    BY Zenon, <1>5
  <2> QED
    BY <1>3, <2>1, <2>2, SMTT(40)
<1>9. \A g \in Handle : g # h =>
          \A k \in 1..Len(reqList[g]) :
              /\ reqList[g][k] # r
              /\ \A j \in 1..Len(l) : reqList[g][k] # l[j]
  <2> SUFFICES ASSUME NEW g \in Handle, g # h, NEW k \in 1..Len(reqList[g])
               PROVE  /\ reqList[g][k] # r
                      /\ \A j \in 1..(N - 1) : reqList[g][k] # l[j]
    BY Zenon, <1>6
  <2>1. \A j \in 1..N : reqList[g][k] # s[j]
    BY Zenon, <1>3
  <2> QED
    BY Zenon, <1>1, <1>4, <1>5, <2>1
<1>10. ASSUME state[r] = "queued"
       PROVE  l # <<>> /\ state[l[1]] # "queued"
  <2>1. i # 1 /\ N > 1
    BY <1>1, <1>3, <1>4, <1>10
  <2>2. Len(l) > 0 /\ l[1] = s[1]
    BY <1>1, <1>5, <1>6, <2>1 DEF P
  <2> QED
    BY <1>1, <1>3, <2>1, <2>2
<1>11. r \in Listed
  BY Zenon, <1>1, <1>3, <1>4
<1> QED
  BY Zenon, <1>2, <1>6, <1>7, <1>8, <1>9, <1>10, <1>11 DEF ShortList

\* The first n of the list l may become ready: none, when l has been let go in
\* part, or a run of waiting requests that may go together.
MayGo(l, n) ==
    /\ n = 0 => l = <<>> \/ state[l[1]] # "queued"
    /\ n > 0 => state[l[1]] = "queued"
    /\ \/ n = 1
       \/ \A j \in 1..n : IsIO(op[l[j]])
       \/ \A j \in 1..n : access_type[l[j]] = "readonly"

\* They did, and r left.
LetGo(l, n, r) ==
    /\ Listed' = Listed \ {r} /\ r \in Listed
    /\ \A j \in 1..n : l[j] \in Listed /\ l[j] # r /\ state[l[j]] = "queued"
    /\ \A j, k \in 1..n : l[j] = l[k] => j = k
    /\ l \in Seq(Req)
    /\ \A q \in Req : state'[q] = IF q = r THEN "free"
                             ELSE IF \E k \in 1..n : l[k] = q THEN "ready"
                             ELSE state[q]

\* Unlink keeps the invariant of the lists.
LEMMA UnlinkLists ==
    ASSUME TypeOK, ListInv, NEW h \in Handle, NEW i \in 1..Len(reqList[h]),
           NEW rq, NEW l, l = Unlinked(reqList[h], i), NEW r, r = reqList[h][i],
           NEW n \in 0..Len(l), Unlink(h, i, n, rq), MayGo(l, n)
    PROVE  ListInv' /\ LetGo(l, n, r)
<1> USE DEF MayGo
<1> DEFINE N == Len(l)
<1>0. ShortList(h, l, r)
  BY Shortened, Zenon
<1>1. l \in Seq(Req) /\ N \in Nat /\ r \in Listed
  BY Zenon, <1>0 DEF ShortList
<1>2. \A j \in 1..N : l[j] \in Listed /\ l[j] # r
  BY Zenon, <1>0 DEF ShortList
<1>3. \A j, k \in 1..N :
         /\ l[j] = l[k] => j = k
         /\ j < k /\ state[l[j]] = "queued" => state[l[k]] = "queued"
         /\ j # k /\ state[l[j]] # "queued" /\ state[l[k]] # "queued"
              => \/ IsIO(op[l[j]]) /\ IsIO(op[l[k]])
                 \/ access_type[l[j]] = "readonly" /\ access_type[l[k]] = "readonly"
                 \/ op[l[j]] = "dirent" \/ op[l[k]] = "dirent"
  BY Zenon, <1>0 DEF ShortList
<1>4. \A g \in Handle : g # h =>
         \A k \in 1..Len(reqList[g]) :
             /\ reqList[g][k] # r
             /\ \A j \in 1..N : reqList[g][k] # l[j]
  BY Zenon, <1>0 DEF ShortList
<1>5. Listed \subseteq Req
  BY Zenon DEF Listed
<1>6. /\ reqList'[h] = l
      /\ \A g \in Handle : g # h => reqList'[g] = reqList[g]
      /\ \A q \in Req : q # r => op'[q] = op[q] /\ access_type'[q] = access_type[q]
  BY Zenon, <1>1, <1>5 DEF Unlink, TypeOK
<1>7. \A q \in Req : state'[q] = IF q = r THEN "free"
                                ELSE IF \E k \in 1..n : l[k] = q THEN "ready"
                                ELSE state[q]
  BY Zenon, <1>1 DEF Unlink
<1>8. n > 0 => \A j \in 1..N : state[l[j]] = "queued"
  BY <1>1, <1>3
<1>9. Listed' = Listed \ {r}
  <2>1. \A k \in 1..n : l[k] \in Listed
    BY <1>1, <1>2
  <2>2. \A q \in Req : q \in Listed' <=> state'[q] \in {"queued", "ready", "scheduled"}
    BY Zenon DEF Listed
  <2>3. \A q \in Req : q \in Listed <=> state[q] \in {"queued", "ready", "scheduled"}
    BY Zenon DEF Listed
  <2>4. Listed' \subseteq Req
    BY Zenon DEF Listed
  <2> QED
    BY <1>5, <1>7, <2>1, <2>2, <2>3, <2>4, SMTT(40)
<1>10. \A j \in 1..N :
         /\ state'[l[j]] = IF j <= n THEN "ready" ELSE state[l[j]]
         /\ op'[l[j]] = op[l[j]] /\ access_type'[l[j]] = access_type[l[j]]
         /\ l[j] \in Listed'
  <2> SUFFICES ASSUME NEW j \in 1..N
               PROVE  /\ state'[l[j]] = IF j <= n THEN "ready" ELSE state[l[j]]
                      /\ op'[l[j]] = op[l[j]] /\ access_type'[l[j]] = access_type[l[j]]
                      /\ l[j] \in Listed'
    BY Zenon
  <2>1. l[j] \in Req /\ l[j] # r
    BY Zenon, <1>2, <1>5
  <2>2. (\E k \in 1..n : l[k] = l[j]) <=> j <= n
    BY <1>1, <1>3, SMTT(40)
  <2> QED
    BY Zenon, <1>2, <1>6, <1>7, <1>9, <2>1, <2>2
<1>11. \A g \in Handle : g # h => \A k \in 1..Len(reqList[g]) :
         LET q == reqList[g][k]
         IN  /\ state'[q] = state[q] /\ op'[q] = op[q]
             /\ access_type'[q] = access_type[q] /\ q \in Listed'
  <2> SUFFICES ASSUME NEW g \in Handle, g # h, NEW k \in 1..Len(reqList[g]),
                      NEW q, q = reqList[g][k]
               PROVE  /\ state'[q] = state[q] /\ op'[q] = op[q]
                      /\ access_type'[q] = access_type[q] /\ q \in Listed'
    BY Zenon
  <2>1. q \in Listed /\ q # r /\ \A j \in 1..N : l[j] # q
    BY <1>4, SMTT(40) DEF ListInv, Placed
  <2>2. ~ \E j \in 1..n : l[j] = q
    BY <1>1, <2>1, SMTT(40)
  <2> QED
    BY <1>5, <1>6, <1>7, <1>9, <2>1, <2>2, SMTT(40)
<1> HIDE DEF N
<1>12. n \in 0..N /\ N \in Nat /\ reqList'[h] = l /\ Len(reqList'[h]) = N
  BY Zenon, <1>1, <1>6 DEF N
<1>13. Placed'
  <2>1. \A g \in Handle : \A k \in 1..Len(reqList'[g]) : reqList'[g][k] \in Listed'
    BY <1>6, <1>10, <1>11, <1>12, SMTT(40)
  <2>2. ASSUME NEW g \in Handle, NEW f \in Handle,
               NEW j \in 1..Len(reqList'[g]), NEW k \in 1..Len(reqList'[f]),
               reqList'[g][j] = reqList'[f][k]
        PROVE  g = f /\ j = k
    <3>1. CASE g = h /\ f = h
      BY <1>3, <1>12, <2>2, <3>1, SMTT(40)
    <3>2. CASE g = h /\ f # h
      BY <1>4, <1>6, <1>12, <2>2, <3>2, SMTT(40)
    <3>3. CASE g # h /\ f = h
      BY <1>4, <1>6, <1>12, <2>2, <3>3, SMTT(40)
    <3>4. CASE g # h /\ f # h
      BY <1>6, <2>2, <3>4 DEF ListInv, Placed
    <3> QED
      BY Zenon, <3>1, <3>2, <3>3, <3>4
  <2> QED
    BY Zenon, <2>1, <2>2 DEF Placed
<1>14. HeadGoes'
  <2> SUFFICES ASSUME NEW g \in Handle, reqList'[g] # <<>>
               PROVE  state'[reqList'[g][1]] # "queued"
    BY Zenon DEF HeadGoes
  <2>1. CASE g # h
    <3>1. 1 \in 1..Len(reqList[g])
      BY <1>6, <2>1, SMTT(40) DEF TypeOK
    <3> QED
      BY <1>6, <1>11, <2>1, <3>1, SMTT(40) DEF ListInv, HeadGoes
  <2>2. CASE g = h
    <3>1. 1 \in 1..N /\ l # <<>>
      BY <1>1, <1>6, <2>2, SMTT(40) DEF N
    <3>2. state'[l[1]] = IF 1 <= n THEN "ready" ELSE state[l[1]]
      BY Zenon, <1>10, <3>1
    <3> QED
      BY <1>6, <1>12, <2>2, <3>1, <3>2, SMTT(40)
  <2> QED
    BY Zenon, <2>1, <2>2
<1>15. NoOvertaking'
  <2> SUFFICES ASSUME NEW g \in Handle, NEW j \in 1..Len(reqList'[g]),
                      NEW k \in 1..Len(reqList'[g]), j < k,
                      state'[reqList'[g][j]] = "queued"
               PROVE  state'[reqList'[g][k]] = "queued"
    BY Zenon DEF NoOvertaking
  <2>1. CASE g # h
    BY <1>6, <1>11, <2>1, SMTT(40) DEF ListInv, NoOvertaking
  <2>2. CASE g = h
    BY <1>3, <1>10, <1>12, <2>2, SMTT(40)
  <2> QED
    BY Zenon, <2>1, <2>2
<1>16. AccessKept'
  <2>1. \A q \in Listed \ {r} : op'[q] = op[q] /\ access_type'[q] = access_type[q]
    BY Zenon, <1>5, <1>6
  <2> QED
    BY Zenon, <1>9, <2>1 DEF ListInv, AccessKept
<1>17. Holders'
  <2> SUFFICES ASSUME NEW g \in Handle, NEW j \in 1..Len(reqList'[g]),
                      NEW k \in 1..Len(reqList'[g]), j # k,
                      state'[reqList'[g][j]] # "queued",
                      state'[reqList'[g][k]] # "queued"
               PROVE  LET a == reqList'[g][j]
                          b == reqList'[g][k]
                      IN  \/ IsIO(op'[a]) /\ IsIO(op'[b])
                          \/ access_type'[a] = "readonly" /\ access_type'[b] = "readonly"
                          \/ op'[a] = "dirent"
                          \/ op'[b] = "dirent"
    BY SMTT(40) DEF Holders
  <2>1. CASE g # h
    <3> DEFINE a == reqList[g][j]
               b == reqList[g][k]
    <3>1. j \in 1..Len(reqList[g]) /\ k \in 1..Len(reqList[g])
          /\ reqList'[g][j] = a /\ reqList'[g][k] = b
      BY Zenon, <1>6, <2>1
    <3>2. /\ state'[a] = state[a] /\ op'[a] = op[a] /\ access_type'[a] = access_type[a]
          /\ state'[b] = state[b] /\ op'[b] = op[b] /\ access_type'[b] = access_type[b]
      BY Zenon, <1>11, <2>1, <3>1
    <3>3. \/ IsIO(op[a]) /\ IsIO(op[b])
          \/ access_type[a] = "readonly" /\ access_type[b] = "readonly"
          \/ op[a] = "dirent" \/ op[b] = "dirent"
      BY Zenon, <3>1, <3>2 DEF ListInv, Holders
    <3> QED
      BY Zenon, <3>1, <3>2, <3>3
  <2>2. CASE g = h /\ n = 0
    <3>1. j \in 1..N /\ k \in 1..N /\ ~(j <= n) /\ ~(k <= n)
      BY <1>12, <2>2, SMTT(40)
    <3>2. state[l[j]] # "queued" /\ state[l[k]] # "queued"
      BY Zenon, <1>10, <1>12, <2>2, <3>1
    <3>3. /\ op'[l[j]] = op[l[j]] /\ access_type'[l[j]] = access_type[l[j]]
          /\ op'[l[k]] = op[l[k]] /\ access_type'[l[k]] = access_type[l[k]]
      BY Zenon, <1>10, <3>1
    <3>4. \/ IsIO(op[l[j]]) /\ IsIO(op[l[k]])
          \/ access_type[l[j]] = "readonly" /\ access_type[l[k]] = "readonly"
          \/ op[l[j]] = "dirent" \/ op[l[k]] = "dirent"
      BY <1>3, <3>1, <3>2
    <3> QED
      BY Zenon, <1>12, <2>2, <3>3, <3>4
  <2>3. CASE g = h /\ n > 0
    <3>1. j \in 1..n /\ k \in 1..n
      BY <1>8, <1>10, <1>12, <2>3, SMTT(40) DEF N
    <3>2. j \in 1..N /\ k \in 1..N /\ n # 1
      BY <1>12, <3>1, SMTT(40)
    <3>3. /\ op'[l[j]] = op[l[j]] /\ access_type'[l[j]] = access_type[l[j]]
          /\ op'[l[k]] = op[l[k]] /\ access_type'[l[k]] = access_type[l[k]]
      BY Zenon, <1>10, <3>2
    <3> QED
      BY Zenon, <1>12, <2>3, <3>1, <3>2, <3>3
  <2> QED
    BY <1>12, <2>1, <2>2, <2>3, SMTT(40)
<1>18. /\ \A j \in 1..n : l[j] \in Listed /\ l[j] # r /\ state[l[j]] = "queued"
       /\ \A j, k \in 1..n : l[j] = l[k] => j = k
  BY <1>2, <1>3, <1>8, <1>12, SMTT(40) DEF N
<1> QED
  BY Zenon, <1>1, <1>7, <1>9, <1>13, <1>14, <1>15, <1>16, <1>17, <1>18
     DEF ListInv, LetGo

-----------------------------------------------------------------------------
(* The rest of the state. *)

\* Cardinality, when elements join or leave a finite set.
CountingLaws ==
    /\ \A S : IsFiniteSet(S) =>
         Cardinality(S) \in Nat /\ (Cardinality(S) = 0 => S = {})
    /\ \A S, x : IsFiniteSet(S) /\ x \notin S =>
         Cardinality(S \cup {x}) = Cardinality(S) + 1
    /\ \A S, x : IsFiniteSet(S) /\ x \in S =>
         IsFiniteSet(S \ {x}) /\ Cardinality(S \ {x}) = Cardinality(S) - 1
    /\ \A S, T : IsFiniteSet(S) /\ T \subseteq S => IsFiniteSet(T)

-----------------------------------------------------------------------------
(* The ready queue and the count.                                          *)

\* ReadyExact in these terms.
LEMMA ReadyExactIs ==
    ReadyExact <=> /\ Once(ready_queue)
                   /\ \A r \in Req : state[r] = "ready" <=> In(r, ready_queue)
BY Zenon DEF ReadyExact, Once, In

\* There are finitely many requests in the lists.
LEMMA ListedFinite ==
    ASSUME CountingLaws
    PROVE  IsFiniteSet(Listed) /\ Cardinality(Listed) \in Nat
<1>1. Listed \subseteq Req
  BY Zenon DEF Listed
<1> QED
  BY Zenon, <1>1, ReqAssumption DEF CountingLaws

-----------------------------------------------------------------------------
(* One lemma per kind of step.                                             *)

\* PINT_req_sched_post of a scheduled operation.
LEMMA PostStep ==
    ASSUME CountingLaws, IndInv, NEW r \in Req, NEW o \in Op, NEW h \in Handle,
           Post(r, o, h)
    PROVE  IndInv'
<1>0. TypeOK /\ ListInv /\ CountExact /\ ReadyExact /\ ModeInv
  BY Zenon DEF IndInv
<1>1. ListInv' /\ Listed' = Listed \cup {r} /\ r \notin Listed
  BY Zenon, <1>0, PostLists
<1>2. TypeOK'
  BY <1>0 DEF TypeOK, Post, modeVars, PostedAccess, AccessType
<1>3. CountExact'
  <2>1. Cardinality(Listed \cup {r}) = Cardinality(Listed) + 1
    BY Zenon, <1>1, ListedFinite DEF CountingLaws
  <2>2. sched_count' = sched_count + 1
    BY Zenon DEF Post
  <2> QED
    BY Zenon, <1>0, <1>1, <2>1, <2>2 DEF CountExact
<1>4. ReadyExact'
  <2>1. ready_queue' = ready_queue
    BY Zenon DEF Post
  <2>2. \A q \in Req : state'[q] = "ready" <=> state[q] = "ready"
    BY Zenon, <1>0 DEF Post, TypeOK
  <2> QED
    BY Zenon, <1>0, <2>1, <2>2 DEF ReadyExact
<1>5. ModeInv'
  <2>1. /\ ready_queue' = ready_queue /\ mode_queue' = mode_queue
        /\ current_mode' = current_mode /\ op'[r] = o /\ ~Refused(o)
        /\ \A q \in Listed : op'[q] = op[q]
    BY Zenon, <1>0, <1>1 DEF Post, TypeOK, modeVars, Listed
  <2>2. ModeReady' <=> ModeReady
    BY Zenon, <2>1 DEF ModeReady
  <2>3. ModeReady \/ current_mode = "admin" => ~IsChange(o)
    BY Zenon, <1>0, <2>1 DEF ModeInv, Refused, in_admin_mode
  <2>4. ASSUME ModeReady \/ current_mode = "admin"
        PROVE  \A q \in Listed' : ~IsChange(op'[q])
    BY Zenon, <1>0, <1>1, <2>1, <2>3, <2>4 DEF ModeInv
  <2> QED
    BY Zenon, <1>0, <2>1, <2>2, <2>4 DEF ModeInv
<1> QED
  BY Zenon, <1>1, <1>2, <1>3, <1>4, <1>5 DEF IndInv

\* Requests that bypass the scheduler are in no list.
LEMMA BypassStep ==
    ASSUME IndInv, NEW r \in Req,
           (\E o \in Op : PostBypass(r, o)) \/ ReleaseBypass(r)
    PROVE  IndInv'
<1>0. TypeOK /\ ListInv /\ CountExact /\ ReadyExact /\ ModeInv
  BY Zenon DEF IndInv
<1>1. /\ state[r] \in {"free", "bypass"} /\ state'[r] \in {"free", "bypass"}
      /\ \A q \in Req : q # r => state'[q] = state[q] /\ op'[q] = op[q]
      /\ UNCHANGED <<reqList, access_type, ready_queue, pinned, sched_count,
                     mode_queue, mode_state, current_mode>>
  BY Zenon, <1>0 DEF PostBypass, ReleaseBypass, TypeOK, modeVars
<1>2. TypeOK'
  BY <1>0, SMTT(40) DEF PostBypass, ReleaseBypass, TypeOK, modeVars
<1>3. Listed' = Listed /\ r \notin Listed /\ Listed \subseteq Req
  BY Zenon, <1>1 DEF Listed
<1>4. ListInv'
  BY Zenon, <1>0, <1>1, <1>3, SameWaiting
<1>5. CountExact'
  BY Zenon, <1>0, <1>1, <1>3 DEF CountExact
<1>6. ReadyExact'
  <2>1. \A q \in Req : state'[q] = "ready" <=> state[q] = "ready"
    BY Zenon, <1>1
  <2> QED
    BY <1>0, <1>1, <2>1, SMTT(40) DEF ReadyExact
<1>7. ModeInv'
  <2>1. \A q \in Listed : op'[q] = op[q]
    BY Zenon, <1>1, <1>3
  <2> QED
    BY Zenon, <1>0, <1>1, <1>3, <2>1 DEF ModeInv, ModeReady
<1> QED
  BY Zenon, <1>2, <1>4, <1>5, <1>6, <1>7 DEF IndInv

\* PINT_req_sched_change_mode.
LEMMA ModeStep ==
    ASSUME CountingLaws, IndInv, NEW m \in Mode, ChangeMode(m)
    PROVE  IndInv'
<1>0. TypeOK /\ ListInv /\ CountExact /\ ReadyExact /\ ModeInv
  BY Zenon DEF IndInv
<1>1. UNCHANGED <<reqList, state, op, access_type, ready_queue, pinned, sched_count>>
  BY Zenon DEF ChangeMode
<1>2. TypeOK'
  <2>1. mode_queue \in Seq(Mode) /\ Append(mode_queue, m) \in Seq(Mode)
    BY <1>0 DEF TypeOK
  <2>2. mode_queue' \in {mode_queue, Append(mode_queue, m)}
    BY Zenon DEF ChangeMode, change_mode
  <2>3. /\ mode_state' \in {mode_state, "queued"}
        /\ current_mode' \in {current_mode, m}
    BY Zenon DEF ChangeMode, change_mode
  <2> QED
    BY <1>0, <1>1, <2>1, <2>2, <2>3, Zenon DEF TypeOK
<1>3. Listed' = Listed
  BY Zenon, <1>1 DEF Listed
<1>4. ListInv'
  BY Zenon, <1>0, <1>1, <1>3, SameWaiting
<1>5. CountExact'
  BY Zenon, <1>0, <1>1, <1>3 DEF CountExact
<1>6. ReadyExact'
  BY Zenon, <1>0, <1>1 DEF ReadyExact
<1>7. ModeInv'
  <2>1. ModeReady' <=> ModeReady
    BY Zenon, <1>1 DEF ModeReady
  <2>2. CASE mode_queue = <<>> /\ mode_queue' = mode_queue /\ current_mode' = m
             /\ (m = "normal" \/ sched_count = 0)
    <3>1. ~ModeReady
      BY Zenon, <1>0, <2>2 DEF ModeInv
    <3>2. m = "admin" => Listed = {}
      BY Zenon, <1>0, <2>2, ListedFinite DEF CountExact, CountingLaws
    <3> QED
      BY Zenon, <1>3, <2>1, <2>2, <3>1, <3>2 DEF ModeInv
  <2>3. CASE /\ mode_queue = <<>> => m = "admin"
             /\ mode_queue' = Append(mode_queue, m) /\ current_mode' = current_mode
    <3>1. mode_queue' # <<>> /\ mode_queue'[1] = "admin"
      BY <1>0, <2>3, SMTT(40) DEF ModeInv, TypeOK
    <3> QED
      BY Zenon, <1>0, <1>1, <1>3, <2>1, <2>3, <3>1 DEF ModeInv
  <2> QED
    BY Zenon, <2>2, <2>3 DEF ChangeMode, change_mode
<1> QED
  BY Zenon, <1>2, <1>4, <1>5, <1>6, <1>7 DEF IndInv

\* An element leaves the scheduler: rq is ready_queue without it.
LEMMA UnlinkStep ==
    ASSUME CountingLaws, IndInv, NEW h \in Handle, NEW i \in 1..Len(reqList[h]),
           NEW rq \in Seq(Req \cup {ModeElem}),
           NEW l, l = Unlinked(reqList[h], i), NEW r, r = reqList[h][i],
           NEW n \in 0..Len(l), Unlink(h, i, n, rq), MayGo(l, n),
           Once(rq), In(ModeElem, rq) <=> ModeReady,
           \A q \in Req : In(q, rq) <=> state[q] = "ready" /\ q # r
    PROVE  IndInv'
<1>0. TypeOK /\ ListInv /\ CountExact /\ ReadyExact /\ ModeInv
  BY Zenon DEF IndInv
<1>1. /\ ListInv' /\ Listed' = Listed \ {r} /\ r \in Listed
      /\ \A j \in 1..n : l[j] \in Listed /\ l[j] # r /\ state[l[j]] = "queued"
      /\ \A j, k \in 1..n : l[j] = l[k] => j = k
      /\ l \in Seq(Req)
      /\ \A q \in Req : state'[q] = IF q = r THEN "free"
                               ELSE IF \E k \in 1..n : l[k] = q THEN "ready"
                               ELSE state[q]
  <2>1. ListInv' /\ LetGo(l, n, r)
    BY <1>0, UnlinkLists, Zenon
  <2> QED
    BY <2>1, Zenon DEF LetGo
<1>2. Listed \subseteq Req /\ r \in Req
  BY <1>1, Zenon DEF Listed
<1> DEFINE S == Req \cup {ModeElem}
           t == rq \o SubSeq(l, 1, n)
<1>3. /\ t \in Seq(S) /\ Once(t)
      /\ \A e : In(e, t) <=> In(e, rq) \/ \E j \in 1..n : l[j] = e
  <2>1. l \in Seq(S)
    BY <1>1, SMTT(40)
  <2>2. \A j \in 1..n : ~In(l[j], rq)
    BY Zenon, <1>1, <1>2
  <2> HIDE DEF S
  <2>3. rq \in Seq(S)
    BY Zenon DEF S
  <2>4. NewTo(rq, l, n)
    BY <1>1, <2>2, Zenon DEF NewTo
  <2>5. t \in Seq(S) /\ Once(t) /\ Joined(t, rq, l, n)
    BY <2>1, <2>3, <2>4, AppendRun, Zenon
  <2> QED
    BY <2>5, Zenon DEF Joined
<1>4. /\ In(ModeElem, t) <=> ModeReady
      /\ \A q \in Req : In(q, t) <=> state'[q] = "ready"
  <2>1. \A j \in 1..n : l[j] # ModeElem
    BY <1>1, <1>2, ElemAssumption, SMTT(40)
  <2> HIDE DEF t
  <2>2. In(ModeElem, t) <=> ModeReady
    BY <1>1, <1>3, <2>1, Zenon
  <2>3. ASSUME NEW q \in Req PROVE In(q, t) <=> state'[q] = "ready"
    <3>1. In(q, t) <=> In(q, rq) \/ \E j \in 1..n : l[j] = q
      BY <1>3, Zenon
    <3> QED
      BY Zenon, <3>1, <1>1, <1>2
  <2> QED
    BY <2>2, <2>3, Zenon
<1> HIDE DEF t
<1>5. /\ sched_count' = sched_count - 1 /\ mode_queue' = mode_queue
      /\ current_mode' = current_mode
      /\ schedule_mode_change(t, sched_count - 1)
      /\ \A q \in Req : q # r => op'[q] = op[q]
  BY Zenon, <1>0, <1>2 DEF Unlink, TypeOK, t
<1>6. CountExact'
  <2>1. Cardinality(Listed \ {r}) = Cardinality(Listed) - 1
    BY <1>1, ListedFinite, ZenonT(40) DEF CountingLaws
  <2> QED
    BY Zenon, <1>0, <1>1, <1>5, <2>1 DEF CountExact
<1>7. Listed' = {} \/ sched_count - 1 # 0
  <2>1. IsFiniteSet(Listed')
    BY Zenon, <1>1, ListedFinite DEF CountingLaws
  <2> QED
    BY Zenon, <1>5, <1>6, <2>1 DEF CountExact, CountingLaws
<1>8. /\ ready_queue' \in Seq(S) /\ Once(ready_queue')
      /\ \A q \in Req : In(q, ready_queue') <=> In(q, t)
      /\ In(ModeElem, ready_queue') <=>
            ModeReady \/ (sched_count - 1 = 0 /\ mode_queue # <<>>)
  <2> HIDE DEF S
  <2>1. ModeElem \in S /\ ModeElem \notin Req
    BY Zenon, ElemAssumption DEF S
  <2>2. CASE sched_count - 1 = 0 /\ mode_queue # <<>> /\ ~In(ModeElem, t)
    <3>1. ready_queue' = Append(t, ModeElem)
      BY Zenon, <1>5, <2>2 DEF schedule_mode_change, In
    <3>2. /\ Append(t, ModeElem) \in Seq(S) /\ Once(Append(t, ModeElem))
          /\ \A d : In(d, Append(t, ModeElem)) <=> In(d, t) \/ d = ModeElem
      BY <1>3, <2>1, <2>2, AppendOne, SMTT(40)
    <3> QED
      BY Zenon, <1>4, <2>1, <2>2, <3>1, <3>2
  <2>3. CASE ~(sched_count - 1 = 0 /\ mode_queue # <<>>) \/ In(ModeElem, t)
    <3>1. ready_queue' = t
      BY Zenon, <1>5, <2>3 DEF schedule_mode_change, In
    <3> QED
      BY Zenon, <1>3, <1>4, <2>3, <3>1
  <2> QED
    BY Zenon, <2>2, <2>3
<1>9. ReadyExact'
  BY Zenon, <1>4, <1>8 DEF ReadyExact, Once, In
<1>10. ModeInv'
  <2>1. ModeReady' <=> ModeReady \/ (sched_count - 1 = 0 /\ mode_queue # <<>>)
    BY <1>8, ZenonT(40) DEF ModeReady, In
  <2>2. (ModeReady \/ current_mode = "admin") => \A q \in Listed' : ~IsChange(op'[q])
    BY Zenon, <1>0, <1>1, <1>2, <1>5 DEF ModeInv
  <2>3. sched_count - 1 = 0 => \A q \in Listed' : ~IsChange(op'[q])
    BY Zenon, <1>7
  <2> QED
    BY Zenon, <1>0, <1>5, <2>1, <2>2, <2>3 DEF ModeInv
<1>11. TypeOK'
  <2>1. /\ reqList' \in [Handle -> Seq(Req)]
        /\ op' \in [Req -> Op \cup {"none"}]
        /\ access_type' \in [Req -> {"readonly", "modify"}]
    BY Zenon, <1>0, <1>1 DEF Unlink, TypeOK
  <2>2. state' \in [Req -> {"free", "bypass", "queued", "ready", "scheduled"}]
    BY Zenon, <1>0 DEF Unlink, TypeOK
  <2>3. /\ pinned' \in BOOLEAN
        /\ mode_state' \in {"none", "queued", "ready", "scheduled"}
    BY <1>0, <1>5, Zenon DEF schedule_mode_change, TypeOK
  <2> QED
    BY <1>0, <1>5, <1>8, <2>1, <2>2, <2>3, SMTT(40) DEF TypeOK
<1> QED
  BY Zenon, <1>1, <1>6, <1>9, <1>10, <1>11 DEF IndInv

\* PINT_req_sched_release.
LEMMA ReleaseStep ==
    ASSUME CountingLaws, IndInv, NEW h \in Handle, NEW i \in 1..Len(reqList[h]),
           Release(h, i)
    PROVE  IndInv'
<1> DEFINE l == Unlinked(reqList[h], i)
           r == reqList[h][i]
<1>0. TypeOK /\ ListInv /\ ReadyExact
  BY Zenon DEF IndInv
<1>1. state[r] = "scheduled"
  BY Zenon DEF Release
<1>2. PICK n \in 0..Len(l) : ReleaseRun(l, n) /\ Unlink(h, i, n, ready_queue)
  BY Zenon DEF Release
<1>3. MayGo(l, n)
  <2> HIDE DEF l
  <2>1. CASE l # <<>> /\ state[l[1]] = "queued"
    BY <1>2, <2>1, SMTT(40) DEF ReleaseRun, WithHead, MayGo
  <2>2. CASE ~(l # <<>> /\ state[l[1]] = "queued")
    BY <1>2, <2>2, SMTT(40) DEF ReleaseRun, MayGo
  <2> QED
    BY Zenon, <2>1, <2>2
<1>4. /\ ready_queue \in Seq(Req \cup {ModeElem}) /\ Once(ready_queue)
      /\ \A q \in Req : In(q, ready_queue) <=> state[q] = "ready" /\ q # r
      /\ In(ModeElem, ready_queue) <=> ModeReady
  BY Zenon, <1>0, <1>1, ReadyExactIs DEF TypeOK, ModeReady, In
<1> HIDE DEF l, r
<1> QED
  BY Zenon, <1>2, <1>3, <1>4, UnlinkStep DEF l, r

\* PINT_req_sched_unpost.  A waiting request is not the head of its list.
LEMMA UnpostStep ==
    ASSUME CountingLaws, IndInv, NEW h \in Handle, NEW i \in 1..Len(reqList[h]),
           Unpost(h, i)
    PROVE  IndInv'
<1> DEFINE l == Unlinked(reqList[h], i)
           r == reqList[h][i]
           S == Req \cup {ModeElem}
<1>0. TypeOK /\ ListInv /\ ReadyExact
  BY Zenon DEF IndInv
<1>1. /\ ready_queue \in Seq(S) /\ Once(ready_queue)
      /\ \A q \in Req : In(q, ready_queue) <=> state[q] = "ready"
      /\ In(ModeElem, ready_queue) <=> ModeReady
  BY Zenon, <1>0, ReadyExactIs DEF TypeOK, ModeReady, In
<1>2. Len(l) \in Nat /\ l \in Seq(Req) /\ r \in Req
  BY <1>0, Shortened, SMTT(40) DEF Listed, ShortList
<1>3. CASE state[r] = "queued" /\ Unlink(h, i, 0, ready_queue)
  <2>1. MayGo(l, 0)
    <3> SUFFICES ASSUME l # <<>> PROVE state[l[1]] # "queued"
      BY DEF MayGo
    <3>1. reqList[h] \in Seq(Req) /\ reqList[h] # <<>> /\ Len(reqList[h]) \in Nat
      BY <1>0, SMTT(40) DEF TypeOK
    <3>2. state[reqList[h][1]] # "queued"
      BY Zenon, <1>0, <3>1 DEF ListInv, HeadGoes
    <3>3. i > 1
      BY <1>3, <3>1, <3>2, SMTT(40)
    <3>4. l[1] = reqList[h][1]
      <4>1. \A j \in 1..(Len(reqList[h]) - 1) :
               l[j] = IF j < i THEN reqList[h][j] ELSE reqList[h][j + 1]
        BY <3>1, UnlinkedSeq, ZenonT(40)
      <4>2. 1 \in 1..(Len(reqList[h]) - 1)
        BY <3>1, <3>3
      <4> HIDE DEF l
      <4> QED
        BY Zenon, <3>3, <4>1, <4>2
    <3> QED
      BY Zenon, <3>2, <3>4
  <2>2. /\ \A q \in Req : In(q, ready_queue) <=> state[q] = "ready" /\ q # r
        /\ 0 \in 0..Len(l)
    BY <1>1, <1>2, <1>3
  <2> HIDE DEF l, r
  <2> QED
    BY Zenon, <1>1, <1>3, <2>1, <2>2, UnlinkStep DEF l, r
<1>4. CASE /\ state[r] = "ready"
           /\ \E k \in 1..Len(ready_queue), n \in 0..Len(l) :
                /\ ready_queue[k] = r
                /\ UnpostRun(l, n)
                /\ Unlink(h, i, n, Unlinked(ready_queue, k))
  <2>1. PICK k \in 1..Len(ready_queue), n \in 0..Len(l) :
                /\ ready_queue[k] = r
                /\ UnpostRun(l, n)
                /\ Unlink(h, i, n, Unlinked(ready_queue, k))
    BY Zenon, <1>4
  <2> DEFINE rq == Unlinked(ready_queue, k)
  <2> HIDE DEF l, r
  <2>2. MayGo(l, n)
    <3>1. CASE l # <<>> /\ state[l[1]] = "queued"
      BY <2>1, <3>1, SMTT(40) DEF UnpostRun, WithHeadUnpost, MayGo
    <3>2. CASE ~(l # <<>> /\ state[l[1]] = "queued")
      BY <2>1, <3>2, SMTT(40) DEF UnpostRun, MayGo
    <3> QED
      BY Zenon, <3>1, <3>2
  <2>3. /\ rq \in Seq(S) /\ Once(rq)
        /\ \A d : In(d, rq) <=> In(d, ready_queue) /\ d # r
    <3> HIDE DEF S
    <3> QED
      BY Zenon, <1>1, <2>1, RemoveOne
  <2>4. Unlink(h, i, n, rq)
    BY Zenon, <2>1
  <2> HIDE DEF rq
  <2>5. /\ \A q \in Req : In(q, rq) <=> state[q] = "ready" /\ q # r
        /\ In(ModeElem, rq) <=> ModeReady
    BY Zenon, <1>1, <1>2, <2>3, ElemAssumption
  <2> QED
    BY Zenon, <2>1, <2>2, <2>3, <2>4, <2>5, UnlinkStep DEF l, r
<1> QED
  BY Zenon, <1>3, <1>4 DEF Unpost

\* Elements of the ready queue are collected; the queue keeps the others and,
\* when it is pinned, the mode change.
LEMMA CollectStep ==
    ASSUME IndInv, NEW S, Collect(S), \A e \in S : In(e, ready_queue),
           ready_queue' \in Seq(Req \cup {ModeElem}), Once(ready_queue'),
           \A d : In(d, ready_queue') => In(d, ready_queue),
           \A q \in Req : In(q, ready_queue') <=> In(q, ready_queue) /\ q \notin S
    PROVE  IndInv'
<1>0. TypeOK /\ ListInv /\ CountExact /\ ReadyExact /\ ModeInv
  BY Zenon DEF IndInv
<1>1. \A q \in Req : state[q] = "ready" <=> In(q, ready_queue)
  BY Zenon, <1>0, ReadyExactIs
<1>2. /\ state' = [q \in Req |-> IF q \in S THEN "scheduled" ELSE state[q]]
      /\ reqList' = reqList /\ op' = op /\ access_type' = access_type
      /\ pinned' = pinned /\ mode_queue' = mode_queue /\ sched_count' = sched_count
      /\ mode_state' \in {mode_state, "scheduled"}
      /\ current_mode' = current_mode
            \/ (ModeElem \in S /\ current_mode' = mode_queue[1])
  BY Zenon DEF Collect
<1>3. \A q \in Req : /\ q \in S => state[q] = "ready" /\ state'[q] = "scheduled"
                     /\ q \notin S => state'[q] = state[q]
  BY Zenon, <1>1, <1>2
<1>4. Listed' = Listed
  BY Zenon, <1>3 DEF Listed
<1>5. ListInv'
  <2>1. \A q \in Listed : state'[q] = "queued" <=> state[q] = "queued"
    BY Zenon, <1>3 DEF Listed
  <2> QED
    BY Zenon, <1>0, <1>2, <1>4, <2>1, SameWaiting
<1>6. ReadyExact'
  <2>1. \A q \in Req : state'[q] = "ready" <=> In(q, ready_queue')
    BY Zenon, <1>1, <1>3
  <2> QED
    BY Zenon, <2>1 DEF ReadyExact, Once, In
<1>7. ModeReady' => ModeReady
  BY Zenon DEF ModeReady, In
<1>8. ModeElem \in S => ModeReady
  BY Zenon DEF ModeReady, In
<1>9. ModeInv'
  <2>1. (ModeReady' \/ current_mode' = "admin") => (ModeReady \/ current_mode = "admin")
    BY Zenon, <1>2, <1>7, <1>8
  <2> QED
    BY Zenon, <1>0, <1>2, <1>4, <1>7, <2>1 DEF ModeInv
<1>10. TypeOK'
  <2>1. state' \in [Req -> {"free", "bypass", "queued", "ready", "scheduled"}]
    BY Zenon, <1>0, <1>2 DEF TypeOK
  <2>2. current_mode' \in Mode
    BY Zenon, <1>0, <1>2, <1>8 DEF TypeOK, ModeInv, Mode
  <2> QED
    BY Zenon, <1>0, <1>2, <2>1, <2>2 DEF TypeOK
<1>11. CountExact'
  BY Zenon, <1>0, <1>2, <1>4 DEF CountExact
<1> QED
  BY Zenon, <1>5, <1>6, <1>9, <1>10, <1>11 DEF IndInv

\* PINT_req_sched_testworld.
LEMMA TestWorldStep ==
    ASSUME IndInv, TestWorld
    PROVE  IndInv'
<1> DEFINE S == Req \cup {ModeElem}
           L == Len(ready_queue)
<1>1. ready_queue \in Seq(S) /\ Once(ready_queue) /\ L \in Nat
  BY ReadyExactIs, SMTT(40) DEF IndInv, TypeOK
<1>2. PICK n \in 1..InCount :
        /\ n <= Len(ready_queue)
        /\ Collect({ready_queue[j] : j \in 1..n})
        /\ ready_queue' =
             SubSeq(ready_queue,
                    IF pinned /\ ready_queue[n] = ModeElem THEN n ELSE n + 1,
                    Len(ready_queue))
  BY Zenon DEF TestWorld
<1> DEFINE m == IF pinned /\ ready_queue[n] = ModeElem THEN n ELSE n + 1
           C == {ready_queue[j] : j \in 1..n}
<1>3. n \in 1..L /\ m \in 1..(L + 1) /\ m \in {n, n + 1}
  BY <1>1, <1>2, InCountAssumption
<1>4. /\ ready_queue' \in Seq(S) /\ Once(ready_queue')
      /\ \A d : In(d, ready_queue') <=> \E k \in m..L : ready_queue[k] = d
  <2> HIDE DEF S
  <2>1. ready_queue' = SubSeq(ready_queue, m, Len(ready_queue))
    BY Zenon, <1>2
  <2> HIDE DEF m
  <2> QED
    BY Zenon, <1>1, <1>3, <2>1, Suffix
<1>5. \A k \in m..L : k \in 1..L
  BY <1>1, <1>3, SMTT(40)
<1>6. \A d : In(d, ready_queue') => In(d, ready_queue)
  BY <1>4, <1>5, ZenonT(40) DEF In
<1>7. \A e \in C : In(e, ready_queue)
  BY <1>1, <1>3 DEF In
<1>8. ASSUME NEW q \in Req
      PROVE  In(q, ready_queue') <=> In(q, ready_queue) /\ q \notin C
  <2>1. ASSUME In(q, ready_queue')
        PROVE  q \notin C
    <3>1. PICK k \in m..L : ready_queue[k] = q
      BY Zenon, <1>4, <2>1
    <3>2. k = n => ready_queue[n] # ModeElem
      BY Zenon, <3>1, ElemAssumption
    <3>3. k > n
      BY <1>1, <1>3, <3>1, <3>2, SMTT(40)
    <3> SUFFICES ASSUME NEW j \in 1..n, ready_queue[j] = q PROVE FALSE
      BY Zenon
    <3>4. j \in 1..L /\ k \in 1..L /\ j # k
      BY <1>1, <1>3, <1>5, <3>3, SMTT(40)
    <3> QED
      BY Zenon, <1>1, <3>1, <3>4 DEF Once
  <2>2. ASSUME In(q, ready_queue), q \notin C
        PROVE  In(q, ready_queue')
    <3>1. PICK k \in 1..L : ready_queue[k] = q
      BY Zenon, <2>2 DEF In
    <3>2. k \notin 1..n
      BY Zenon, <2>2, <3>1
    <3>3. k \in m..L
      BY <1>1, <1>3, <3>2, SMTT(40)
    <3> QED
      BY Zenon, <1>4, <3>1, <3>3
  <2> QED
    BY Zenon, <1>6, <2>1, <2>2
<1>9. Collect(C)
  BY Zenon, <1>2
<1> HIDE DEF C
<1> QED
  BY Zenon, <1>4, <1>6, <1>7, <1>8, <1>9, CollectStep

\* PINT_req_sched_test and PINT_req_sched_testsome.
LEMMA TestStep ==
    ASSUME IndInv, NEW k \in 1..Len(ready_queue), Test(k)
    PROVE  IndInv'
<1> DEFINE S == Req \cup {ModeElem}
           C == {ready_queue[k]}
<1>1. ready_queue \in Seq(S) /\ Once(ready_queue)
  BY Zenon, ReadyExactIs DEF IndInv, TypeOK
<1>2. ready_queue' = Unlinked(ready_queue, k) /\ Collect(C)
  BY Zenon DEF Test
<1>3. /\ ready_queue' \in Seq(S) /\ Once(ready_queue')
      /\ \A d : In(d, ready_queue') <=> In(d, ready_queue) /\ d # ready_queue[k]
  <2> HIDE DEF S
  <2> QED
    BY Zenon, <1>1, <1>2, RemoveOne
<1>4. /\ \A e \in C : In(e, ready_queue)
      /\ \A d : In(d, ready_queue') <=> In(d, ready_queue) /\ d \notin C
  BY Zenon, <1>3 DEF In
<1> HIDE DEF C
<1> QED
  BY Zenon, <1>2, <1>3, <1>4, CollectStep

\* Steps outside the scheduler.
LEMMA StutterStep ==
    ASSUME IndInv, UNCHANGED vars
    PROVE  IndInv'
<1>1. TypeOK'
  BY Zenon DEF vars, IndInv, TypeOK
<1>2. Listed' = Listed
  BY Zenon DEF vars, Listed
<1>3. Placed' /\ HeadGoes' /\ NoOvertaking'
  BY <1>2, SMTT(40) DEF vars, IndInv, ListInv, Placed, HeadGoes, NoOvertaking
<1>4. AccessKept' /\ Holders'
  BY <1>2, SMTT(40) DEF vars, IndInv, ListInv, AccessKept, Holders
<1>5. CountExact' /\ ReadyExact'
  BY Zenon, <1>2 DEF vars, IndInv, CountExact, ReadyExact
<1>6. ModeInv'
  BY Zenon, <1>2 DEF vars, IndInv, ModeInv, ModeReady
<1> QED
  BY Zenon, <1>1, <1>3, <1>4, <1>5, <1>6 DEF IndInv, ListInv

-----------------------------------------------------------------------------
(* Every step is a step of HandleLock, or changes nothing that HandleLock  *)
(* sees.                                                                   *)


\* Who is in line is in the lists, and waits or was let go.
LEMMA InLine ==
    ASSUME TypeOK, ListInv, NEW h \in Handle, NEW i \in 1..Len(reqList[h])
    PROVE  LET r == reqList[h][i]
           IN  /\ r \in Req /\ r \in Listed /\ KindInLine[r] = op[r]
               /\ state[r] # "queued" <=> r \in LetGoNow
<1>1. reqList[h][i] \in Listed
  BY Zenon DEF ListInv, Placed
<1> QED
  BY Zenon, <1>1 DEF Listed, KindInLine, LetGoNow

\* Whom PINT_req_sched_post lets go at once: everybody in line was let go, and
\* the newcomer can share with each of them.
LEMMA ImmediateShares ==
    ASSUME TypeOK, ListInv, NEW o \in Op, NEW h \in Handle,
           Immediate(o, reqList[h]), NEW i \in 1..Len(reqList[h])
    PROVE  /\ reqList[h][i] \in LetGoNow
           /\ SharesHandle(o, KindInLine[reqList[h][i]])
<1> DEFINE l == reqList[h]
           q == reqList[h][i]
<1>1. l \in Seq(Req) /\ Len(l) \in Nat /\ l # <<>>
  BY DEF TypeOK
<1>2. EndsScheduled(l) /\ Joins(o, l)
  BY Zenon, <1>1 DEF Immediate
<1>3. q \in Req /\ q \in Listed /\ KindInLine[q] = op[q]
      /\ (state[q] # "queued" <=> q \in LetGoNow)
  BY Zenon, InLine
<1>4. state[q] # "queued"
  <2>1. Len(l) \in 1..Len(l) /\ (i = Len(l) \/ i < Len(l))
    BY <1>1
  <2> QED
    BY Zenon, <1>2, <2>1 DEF EndsScheduled, ListInv, NoOvertaking
<1>5. access_type[q] \in {"readonly", "modify"}
  BY Zenon, <1>3 DEF TypeOK
<1>6. access_type[q] = "readonly" => AccessType(op[q]) = "readonly" \/ op[q] = "dirent"
  BY Zenon, <1>3 DEF ListInv, AccessKept
<1>7. SharesHandle(o, op[q])
  <2>1. CASE IsIO(o)
    BY Zenon, <1>2, <2>1 DEF Joins, SharesHandle, Compatible
  <2>2. CASE ~IsIO(o) /\ AccessType(o) = "readonly"
    BY Zenon, <1>2, <1>5, <1>6, <2>2 DEF Joins, SharesHandle, Compatible
  <2>3. CASE ~IsIO(o) /\ AccessType(o) # "readonly"
    BY Zenon, <1>2, <2>3 DEF Joins, SharesHandle
  <2> QED
    BY Zenon, <2>1, <2>2, <2>3
<1> QED
  BY Zenon, <1>3, <1>4, <1>7

\* PINT_req_sched_post is an arrival.
LEMMA PostArrives ==
    ASSUME TypeOK, ListInv, NEW r \in Req, NEW o \in Op, NEW h \in Handle,
           Post(r, o, h)
    PROVE  Lock!Arrive(r, o, h)
<1>1. state[r] = "free" /\ r \notin Listed /\ KindInLine[r] = "none"
  BY Zenon DEF Post, Listed, KindInLine
<1>2. Listed' = Listed \cup {r}
  BY Zenon, PostLists
<1>3. /\ op' = [op EXCEPT ![r] = o] /\ reqList' = [reqList EXCEPT ![h] = Append(@, r)]
      /\ state' = [state EXCEPT ![r] =
                     IF Immediate(o, reqList[h]) THEN "scheduled" ELSE "queued"]
  BY Zenon DEF Post
<1>4. KindInLine' = [KindInLine EXCEPT ![r] = o]
  <2>1. \A q \in Req : op'[q] = IF q = r THEN o ELSE op[q]
    BY Zenon, <1>3 DEF TypeOK
  <2>2. ASSUME NEW q \in Req
        PROVE  (IF q \in Listed' THEN op'[q] ELSE "none")
                  = IF q = r THEN o ELSE IF q \in Listed THEN op[q] ELSE "none"
    BY <1>2, <2>1, Zenon
  <2> QED
    BY <2>2, Zenon DEF KindInLine
<1>5. CASE Immediate(o, reqList[h])
  <2>1. LetGoNow' = LetGoNow \cup {r}
    BY Zenon, <1>3, <1>5 DEF LetGoNow, TypeOK
  <2>2. \A i \in 1..Len(reqList[h]) :
          /\ reqList[h][i] \in LetGoNow
          /\ SharesHandle(o, KindInLine[reqList[h][i]])
    BY Zenon, <1>5, ImmediateShares
  <2> QED
    BY Zenon, <1>1, <1>3, <1>4, <2>1, <2>2 DEF Lock!Arrive
<1>6. CASE ~Immediate(o, reqList[h])
  <2>1. LetGoNow' = LetGoNow
    BY Zenon, <1>1, <1>3, <1>6 DEF LetGoNow, TypeOK
  <2>2. reqList[h] # <<>>
    BY Zenon, <1>6 DEF Immediate
  <2> QED
    BY Zenon, <1>1, <1>3, <1>4, <2>1, <2>2 DEF Lock!Arrive
<1> QED
  BY Zenon, <1>5, <1>6

\* PINT_req_sched_release and PINT_req_sched_unpost: one element is unlinked,
\* and those become ready who may.
LEMMA Leaves ==
    ASSUME TypeOK, ListInv, NEW h \in Handle, NEW i \in 1..Len(reqList[h]),
           Release(h, i) \/ Unpost(h, i)
    PROVE  \E n \in 0..Len(Unlinked(reqList[h], i)) : \E rq :
              /\ MayGo(Unlinked(reqList[h], i), n)
              /\ Unlink(h, i, n, rq)
<1> DEFINE l == Unlinked(reqList[h], i)
           r == reqList[h][i]
<1>1. ShortList(h, l, r)
  BY Zenon, Shortened
<1>2. Len(l) \in Nat
  BY Zenon, <1>1 DEF ShortList
<1>3. CASE Release(h, i)
  <2>1. PICK n \in 0..Len(l) : ReleaseRun(l, n) /\ Unlink(h, i, n, ready_queue)
    BY Zenon, <1>3 DEF Release
  <2>2. MayGo(l, n)
    <3> HIDE DEF l
    <3>1. CASE l # <<>> /\ state[l[1]] = "queued"
      BY <2>1, <3>1, SMTT(40) DEF ReleaseRun, WithHead, MayGo
    <3>2. CASE ~(l # <<>> /\ state[l[1]] = "queued")
      BY <2>1, <3>2, SMTT(40) DEF ReleaseRun, MayGo
    <3> QED
      BY Zenon, <3>1, <3>2
  <2> QED
    BY <2>1, <2>2, Zenon
<1>4. CASE state[r] = "queued" /\ Unlink(h, i, 0, ready_queue)
  <2>1. l # <<>> /\ state[l[1]] # "queued"
    BY Zenon, <1>1, <1>4 DEF ShortList
  <2>2. MayGo(l, 0)
    <3> HIDE DEF l
    <3> QED
      BY <2>1, SMTT(40) DEF MayGo
  <2>3. 0 \in 0..Len(l)
    BY <1>2
  <2> QED
    BY <1>4, <2>2, <2>3, Zenon
<1>5. CASE \E k \in 1..Len(ready_queue), n \in 0..Len(l) :
                UnpostRun(l, n) /\ Unlink(h, i, n, Unlinked(ready_queue, k))
  <2>1. PICK k \in 1..Len(ready_queue), n \in 0..Len(l) :
                UnpostRun(l, n) /\ Unlink(h, i, n, Unlinked(ready_queue, k))
    BY Zenon, <1>5
  <2>2. MayGo(l, n)
    <3> HIDE DEF l
    <3>1. CASE l # <<>> /\ state[l[1]] = "queued"
      BY <2>1, <3>1, SMTT(40) DEF UnpostRun, WithHeadUnpost, MayGo
    <3>2. CASE ~(l # <<>> /\ state[l[1]] = "queued")
      BY <2>1, <3>2, SMTT(40) DEF UnpostRun, MayGo
    <3> QED
      BY Zenon, <3>1, <3>2
  <2> QED
    BY <2>1, <2>2, Zenon
<1> QED
  BY <1>3, <1>4, <1>5, Zenon DEF Unpost

\* Those who become ready together can share the handle.
LEMMA RunShares ==
    ASSUME TypeOK, ListInv, NEW l \in Seq(Req), NEW n \in 0..Len(l), MayGo(l, n),
           \A j \in 1..n : l[j] \in Listed,
           NEW j \in 1..n, NEW k \in 1..n, j # k
    PROVE  SharesHandle(KindInLine[l[j]], KindInLine[l[k]])
<1>1. /\ l[j] \in Listed /\ l[k] \in Listed /\ n # 1 /\ n # 0
      /\ KindInLine[l[j]] = op[l[j]] /\ KindInLine[l[k]] = op[l[k]]
  BY SMTT(40) DEF KindInLine, Listed
<1>2. \/ IsIO(op[l[j]]) /\ IsIO(op[l[k]])
      \/ access_type[l[j]] = "readonly" /\ access_type[l[k]] = "readonly"
  BY Zenon, <1>1 DEF MayGo
<1>3. \A q \in Listed : access_type[q] = "readonly"
          => AccessType(op[q]) = "readonly" \/ op[q] = "dirent"
  BY Zenon DEF ListInv, AccessKept
<1> QED
  BY Zenon, <1>1, <1>2, <1>3 DEF SharesHandle, Compatible

\* They are departures.
LEMMA LeaveDeparts ==
    ASSUME TypeOK, ListInv, NEW h \in Handle, NEW i \in 1..Len(reqList[h]),
           Release(h, i) \/ Unpost(h, i)
    PROVE  \E n \in 0..Len(reqList[h]) : Lock!Depart(h, i, n)
<1> DEFINE l == Unlinked(reqList[h], i)
           r == reqList[h][i]
<1>0. PICK n \in 0..Len(l) : \E rq : MayGo(l, n) /\ Unlink(h, i, n, rq)
  BY Leaves, Zenon
<1>1. PICK rq : MayGo(l, n) /\ Unlink(h, i, n, rq)
  BY Zenon, <1>0
<1>2. ListInv' /\ LetGo(l, n, r) /\ ShortList(h, l, r)
  <2> HIDE DEF MayGo, Unlink, LetGo, ShortList
  <2> QED
    BY Zenon, <1>1, UnlinkLists, Shortened
<1>3. Lock!Without(reqList[h], i) = l
  BY Zenon DEF Lock!Without, Unlinked
<1>4. /\ reqList' = [reqList EXCEPT ![h] = l]
      /\ op' = [op EXCEPT ![r] = "none"]
  BY Zenon, <1>1 DEF Unlink
<1> HIDE DEF l
<1>5. /\ l \in Seq(Req) /\ Len(l) \in Nat /\ r \in Listed /\ r \in Req
      /\ \A j \in 1..Len(l) : l[j] \in Listed /\ l[j] # r /\ l[j] \in Req
  BY Zenon, <1>2 DEF ShortList, Listed
<1>6. /\ Listed' = Listed \ {r}
      /\ \A j \in 1..n : state[l[j]] = "queued"
      /\ \A q \in Req : state'[q] = IF q = r THEN "free"
                               ELSE IF \E k \in 1..n : l[k] = q THEN "ready"
                               ELSE state[q]
  BY Zenon, <1>2 DEF LetGo
<1>7. KindInLine' = [KindInLine EXCEPT ![r] = "none"]
  <2>1. \A q \in Req : q # r => op'[q] = op[q]
    BY Zenon, <1>4 DEF TypeOK
  <2>2. ASSUME NEW q \in Req
        PROVE  (IF q \in Listed' THEN op'[q] ELSE "none")
                  = IF q = r THEN "none"
                             ELSE IF q \in Listed THEN op[q] ELSE "none"
    BY <1>6, <2>1, Zenon
  <2> QED
    BY <2>2, Zenon DEF KindInLine
<1>8. LetGoNow' = (LetGoNow \ {r}) \cup {l[j] : j \in 1..n}
  <2>1. \A j \in 1..n : l[j] \in Req /\ l[j] # r
    BY <1>5
  <2> QED
    BY <1>6, <2>1, SMTT(40) DEF LetGoNow
<1>9. \A j \in 1..n : l[j] \notin LetGoNow
  BY Zenon, <1>6 DEF LetGoNow
<1>10. \A j, k \in 1..n : j # k => SharesHandle(KindInLine[l[j]], KindInLine[l[k]])
  <2>1. \A j \in 1..n : l[j] \in Listed
    BY <1>5
  <2> QED
    BY Zenon, <1>1, <1>5, <2>1, RunShares
<1>11. ASSUME l # <<>> PROVE l[1] \in LetGoNow'
  <2>1. 1 \in 1..Len(l)
    BY <1>5, <1>11
  <2>2. CASE n = 0
    <3>1. state[l[1]] # "queued"
      BY Zenon, <1>1, <1>11, <2>2 DEF MayGo
    <3> QED
      BY Zenon, <1>5, <1>8, <2>1, <3>1 DEF LetGoNow, Listed
  <2>3. CASE n # 0
    BY <1>8, <2>3
  <2> QED
    BY Zenon, <2>2, <2>3
<1>12. n \in 0..Len(reqList[h]) /\ n <= Len(l)
  <2>1. Len(reqList[h]) \in Nat /\ Len(l) = Len(reqList[h]) - 1
    BY UnlinkedSeq, SMTT(40) DEF TypeOK, l
  <2> QED
    BY <2>1
<1>13. Lock!Depart(h, i, n)
  BY Zenon, <1>3, <1>4, <1>7, <1>8, <1>9, <1>10, <1>11, <1>12 DEF Lock!Depart
<1> QED
  BY Zenon, <1>12, <1>13

\* Steps of the ready queue, of the modes and of requests that bypass the
\* scheduler are not seen in the lock.
LEMMA Unseen ==
    ASSUME TypeOK, ListInv, ReadyExact,
           \/ \E r \in Req, o \in Op : PostBypass(r, o)
           \/ \E r \in Req : ReleaseBypass(r)
           \/ TestWorld
           \/ \E k \in 1..Len(ready_queue) : Test(k)
           \/ \E m \in Mode : ChangeMode(m)
           \/ UNCHANGED vars
    PROVE  UNCHANGED <<reqList, LetGoNow, KindInLine>>
<1>1. CASE \/ \E r \in Req, o \in Op : PostBypass(r, o)
           \/ \E r \in Req : ReleaseBypass(r)
  <2>1. PICK r \in Req : (\E o \in Op : PostBypass(r, o)) \/ ReleaseBypass(r)
    BY Zenon, <1>1
  <2>2. /\ state[r] \in {"free", "bypass"} /\ state'[r] \in {"free", "bypass"}
        /\ \A q \in Req : q # r => state'[q] = state[q] /\ op'[q] = op[q]
        /\ UNCHANGED reqList
    BY Zenon, <2>1 DEF PostBypass, ReleaseBypass, TypeOK
  <2>3. LetGoNow' = LetGoNow /\ Listed' = Listed /\ r \notin Listed
    BY Zenon, <2>2 DEF LetGoNow, Listed
  <2>4. KindInLine' = KindInLine
    BY Zenon, <2>2, <2>3 DEF KindInLine
  <2> QED
    BY Zenon, <2>2, <2>3, <2>4
<1>2. CASE TestWorld \/ \E k \in 1..Len(ready_queue) : Test(k)
  <2>1. PICK S : Collect(S) /\ \A e \in S : \E k \in 1..Len(ready_queue) : ready_queue[k] = e
    <3>1. CASE TestWorld
      <4>1. PICK n \in 1..InCount : n <= Len(ready_queue)
                                    /\ Collect({ready_queue[j] : j \in 1..n})
        BY Zenon, <3>1 DEF TestWorld
      <4>2. Len(ready_queue) \in Nat /\ n \in Nat
        BY InCountAssumption DEF TypeOK
      <4>3. \A e \in {ready_queue[j] : j \in 1..n} :
               \E k \in 1..Len(ready_queue) : ready_queue[k] = e
        BY <4>1, <4>2, SMTT(40)
      <4> QED
        BY <4>1, <4>3, Zenon
    <3>2. CASE \E k \in 1..Len(ready_queue) : Test(k)
      <4>1. PICK k \in 1..Len(ready_queue) : Collect({ready_queue[k]})
        BY Zenon, <3>2 DEF Test
      <4>2. \A e \in {ready_queue[k]} :
               \E j \in 1..Len(ready_queue) : ready_queue[j] = e
        BY Zenon
      <4> WITNESS {ready_queue[k]}
      <4> QED
        BY Zenon, <4>1, <4>2
    <3> QED
      BY Zenon, <1>2, <3>1, <3>2
  <2>2. \A q \in Req : q \in S => state[q] = "ready"
    BY Zenon, <2>1 DEF ReadyExact
  <2>3. \A q \in Req : state'[q] = IF q \in S THEN "scheduled" ELSE state[q]
    BY Zenon, <2>1 DEF Collect
  <2>4. LetGoNow' = LetGoNow /\ Listed' = Listed
    BY Zenon, <2>2, <2>3 DEF LetGoNow, Listed
  <2>5. reqList' = reqList /\ op' = op
    BY Zenon, <2>1 DEF Collect
  <2> QED
    BY Zenon, <2>4, <2>5 DEF KindInLine
<1>3. CASE (\E m \in Mode : ChangeMode(m)) \/ UNCHANGED vars
  <2>1. UNCHANGED <<reqList, state, op>>
    BY Zenon, <1>3 DEF ChangeMode, vars
  <2> QED
    BY Zenon, <2>1 DEF LetGoNow, KindInLine, Listed
<1> QED
  BY Zenon, <1>1, <1>2, <1>3

\* One step of the scheduler is at most one step of the lock.
LEMMA LockStep ==
    ASSUME IndInv, [Next]_vars
    PROVE  [Lock!LockNext]_(Lock!lockVars)
<1>1. TypeOK /\ ListInv /\ ReadyExact
  BY Zenon DEF IndInv
<1>2. CASE \E r \in Req, o \in Op, h \in Handle : Post(r, o, h)
  BY Zenon, <1>1, <1>2, PostArrives DEF Lock!LockNext
<1>3. CASE \E h \in Handle : \E i \in 1..Len(reqList[h]) : Release(h, i) \/ Unpost(h, i)
  BY Zenon, <1>1, <1>3, LeaveDeparts DEF Lock!LockNext
<1>4. CASE \/ \E r \in Req, o \in Op : PostBypass(r, o)
           \/ \E r \in Req : ReleaseBypass(r)
           \/ TestWorld
           \/ \E k \in 1..Len(ready_queue) : Test(k)
           \/ \E m \in Mode : ChangeMode(m)
           \/ UNCHANGED vars
  BY Zenon, <1>1, <1>4, Unseen DEF Lock!lockVars
<1> QED
  BY Zenon, <1>2, <1>3, <1>4 DEF Next

-----------------------------------------------------------------------------
(* The laws, from the library.                                             *)
INSTANCE FiniteSetTheorems

\* The laws of counting that the steps of the scheduler rest on.
LEMMA Counting == CountingLaws
BY Zenon, FS_CardinalityType, FS_EmptySet, FS_AddElement, FS_RemoveElement, FS_Subset
   DEF CountingLaws

-----------------------------------------------------------------------------
(* The theorems.                                                           *)

\* The scheduler starts with empty lists.
LEMMA InitInv == Init => IndInv
<1> SUFFICES ASSUME Init PROVE IndInv
  BY Zenon
<1>1. Listed = {} /\ Cardinality({}) = 0
  BY Zenon, FS_EmptySet DEF Init, Listed
<1>2. TypeOK
  <2>1. /\ \A T : <<>> \in Seq(T)
        /\ "normal" \in Mode
    BY DEF Mode
  <2>2. reqList \in [Handle -> Seq(Req)] /\ pinned \in BOOLEAN
    BY <2>1, Zenon DEF Init
  <2>3. /\ state \in [Req -> {"free", "bypass", "queued", "ready", "scheduled"}]
        /\ op \in [Req -> Op \cup {"none"}]
        /\ access_type \in [Req -> {"readonly", "modify"}]
    BY Zenon DEF Init
  <2> QED
    BY <2>1, <2>2, <2>3 DEF Init, TypeOK
<1>3. ListInv
  BY <1>1 DEF Init, ListInv, Placed, HeadGoes, NoOvertaking, AccessKept, Holders
<1>4. CountExact /\ ReadyExact /\ ModeInv
  BY <1>1 DEF Init, CountExact, ReadyExact, ModeInv, ModeReady, Mode
<1> QED
  BY Zenon, <1>2, <1>3, <1>4 DEF IndInv

\* The inductive invariant of request-scheduler.c: every entry point keeps it.
THEOREM Inductive == Spec => []IndInv
<1>1. IndInv /\ [Next]_vars => IndInv'
  <2> SUFFICES ASSUME IndInv, [Next]_vars PROVE IndInv'
    BY Zenon
  <2>1. CASE \E r \in Req, o \in Op, h \in Handle : Post(r, o, h)
    BY Zenon, <2>1, Counting, PostStep
  <2>2. CASE \E r \in Req, o \in Op : PostBypass(r, o)
    BY Zenon, <2>2, BypassStep
  <2>3. CASE \E r \in Req : ReleaseBypass(r)
    BY Zenon, <2>3, BypassStep
  <2>4. CASE \E h \in Handle : \E i \in 1..Len(reqList[h]) : Release(h, i)
    BY Zenon, <2>4, Counting, ReleaseStep
  <2>5. CASE \E h \in Handle : \E i \in 1..Len(reqList[h]) : Unpost(h, i)
    BY Zenon, <2>5, Counting, UnpostStep
  <2>6. CASE TestWorld
    BY Zenon, <2>6, TestWorldStep
  <2>7. CASE \E k \in 1..Len(ready_queue) : Test(k)
    BY Zenon, <2>7, TestStep
  <2>8. CASE \E m \in Mode : ChangeMode(m)
    BY Zenon, <2>8, Counting, ModeStep
  <2>9. CASE UNCHANGED vars
    BY Zenon, <2>9, StutterStep
  <2> QED
    BY Zenon, <2>1, <2>2, <2>3, <2>4, <2>5, <2>6, <2>7, <2>8, <2>9 DEF Next
<1> QED
  BY <1>1, InitInv, PTL DEF Spec

\* Every variable of the scheduler keeps its type.
THEOREM TypeCorrect == Spec => []TypeOK
BY Inductive, PTL DEF IndInv

\* The first request of a handle's list never waits: nobody waits for nothing.
THEOREM HeadNeverWaits == Spec => []HeadGoes
BY Inductive, PTL DEF IndInv, ListInv

\* No request passes a waiting one of its handle, so the assertions in
\* PINT_req_sched_release hold.
THEOREM FirstComeFirstServed == Spec => []NoOvertaking
BY Inductive, PTL DEF IndInv, ListInv

\* Requests that have a handle together are compatible, up to directory-entry
\* requests.
THEOREM Exclusion == Spec => []CompatibleHolders
<1>1. IndInv => CompatibleHolders
  <2> SUFFICES ASSUME IndInv, NEW h \in Handle,
                      NEW i \in 1..Len(reqList[h]), NEW j \in 1..Len(reqList[h]),
                      NEW a, a = reqList[h][i], NEW b, b = reqList[h][j],
                      i # j, state[a] # "queued", state[b] # "queued"
               PROVE  Compatible(op[a], op[b]) \/ op[a] = "dirent" \/ op[b] = "dirent"
    BY SMTT(40) DEF CompatibleHolders
  <2>1. \/ IsIO(op[a]) /\ IsIO(op[b])
        \/ access_type[a] = "readonly" /\ access_type[b] = "readonly"
        \/ op[a] = "dirent" \/ op[b] = "dirent"
    BY Zenon DEF IndInv, ListInv, Holders
  <2>2. a \in Listed /\ b \in Listed
    BY Zenon DEF IndInv, ListInv, Placed
  <2> QED
    BY Zenon, <2>1, <2>2 DEF IndInv, ListInv, AccessKept, Compatible
<1> QED
  BY <1>1, Inductive, PTL

\* sched_count is the number of requests in the lists of the scheduler.
THEOREM Counted == Spec => []CountExact
<1>1. IndInv => CountExact
  BY Zenon DEF IndInv
<1> QED
  BY <1>1, Inductive, PTL

\* No modification is in the scheduler in admin mode.
THEOREM Drained == Spec => []AdminDrained
<1>1. IndInv => AdminDrained
  BY Zenon DEF IndInv, ModeInv, AdminDrained
<1> QED
  BY <1>1, Inductive, PTL

\* The scheduler implements HandleLock, the shared lock in order of arrival: the
\* empty lists are an unlocked lock, and every step is a step of the lock or is
\* not seen in it.
THEOREM ImplementsSharedLock == Spec => ImplementsLock
<1>1. Init => Lock!LockInit
  <2> SUFFICES ASSUME Init PROVE Lock!LockInit
    BY Zenon
  <2>1. \A r \in Req : state[r] = "free"
    BY Zenon DEF Init
  <2>2. LetGoNow = {} /\ Listed = {}
    BY Zenon, <2>1 DEF LetGoNow, Listed
  <2>3. KindInLine = [r \in Req |-> "none"]
    BY <2>2, Zenon DEF KindInLine
  <2> QED
    BY Zenon, <2>2, <2>3 DEF Init, Lock!LockInit
<1>2. IndInv /\ [Next]_vars => [Lock!LockNext]_(Lock!lockVars)
  BY Zenon, LockStep
<1> QED
  BY <1>1, <1>2, Inductive, PTL DEF Spec, ImplementsLock, Lock!LockSpec

\* The ready queue holds exactly the ready requests, each once.
THEOREM ReadyOnce == Spec => []ReadyExact
BY Inductive, PTL DEF IndInv
=============================================================================
