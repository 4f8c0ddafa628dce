------------------------------ MODULE Dbpf_proofs ------------------------------
(***************************************************************************)
(* Proofs about the storage queues.  Base says where each operation is     *)
(* while it is in one of the queues, with the dbpf thread or in a sync;    *)
(* the slots (SlotInv) and the sync queues (SyncInv) are counted on it.    *)
(***************************************************************************)
EXTENDS Dbpf, TLAPS

\* The dbpf thread has it.
InThread(o) == st[o] \in {"service", "served"} \/ (st[o] = "syncing" /\ ~IsIo(kind[o]))

OpOk(o) ==
  /\ thread = o <=> InThread(o)
  /\ o \in ending => st[o] \in {"coalesced", "completed"}
  /\ st[o] \in {"queued", "service", "served"} => ~IsIo(kind[o])
  /\ st[o] \in {"delayed", "inflight", "sized", "refused", "backing", "lost"} => IsIo(kind[o])
  /\ o \in dirty => /\ DoesSync(kind[o])
                    /\ st[o] \in {"served", "sized", "syncing", "coalesced", "completed"}

Waiting(o, d) ==
  /\ st[o] = "coalesced" /\ DoesSync(kind[o]) /\ kind[o].sync /\ Context(kind[o]) = d
  /\ kind[o].coll \in meta_sync

Syncs(o, d) == st[o] = "syncing" /\ DoesSync(kind[o]) /\ Context(kind[o]) = d

\* A sequence of different operations, which s says are all in state w.
Lined(s, q, w) ==
  /\ \A i \in 1..Len(q) : s[q[i]] = w
  /\ \A i, j \in 1..Len(q) : q[i] = q[j] => i = j

\* Each operation is where its state says, the sync queues included.
Placed == \A o \in Op : OpOk(o)
Gathered ==
  \A d \in Db : /\ \A o \in sync_queue[d] : Waiting(o, d)
                /\ syncing[d] # None => Syncs(syncing[d].op, d)
Lines == Lined(st, dbpf_op_queue, "queued") /\ Lined(st, ready, "delayed")

\* sync_counter counts the queue.
Queued(d) == {o \in Op : st[o] = "queued" /\ CountedFor(kind[o], d)}
Counts == \A d \in Db : sync_counter[d] = Cardinality(Queued(d))

Base == TypeOK /\ Placed /\ Gathered /\ Lines /\ Counts

\* Nobody has come upon an I/O refused by lio_listio.
Untouched == \A o \in Op : seen[o] = 0 /\ st[o] # "lost"
Slots == {o \in Op : HoldsSlot(o) \/ st[o] = "refused"}

SlotInv ==
  /\ \A o \in Op : seen[o] # 0 => st[o] \in {"backing", "completed", "lost"}
  /\ Untouched => /\ \A o \in Op : st[o] # "backing"
                  /\ ios = Cardinality(Slots) /\ ios <= MaxIo
                  /\ ready # <<>> => ios = MaxIo

\* A sync under way writes all that completes with it.
Flushing(d) ==
  syncing[d] # None =>
    LET s == syncing[d] IN
    /\ \A o \in dirty : o = s.op \/ o \in sync_queue[d] => o \in s.flushes
    /\ d = "dspace" => LET c == kind[s.op].coll IN
         /\ disk_size[c] <= s.size /\ s.size <= b_size[c]
         /\ \A o \in s.flushes :
              kind[o].type = "write" /\ kind[o].coll = c => kind[o].eor <= s.size
    /\ \A o \in s.flushes :
         st[o] # "free" /\ Context(kind[o]) = d /\ kind[o].coll = kind[s.op].coll

\* The size of a datafile is on disk, or the write that set it is still to be synced.
Covered(c) ==
  /\ disk_size[c] <= b_size[c]
  /\ \/ b_size[c] <= disk_size[c]
     \/ \E o \in dirty : kind[o].type = "write" /\ kind[o].coll = c /\ kind[o].eor = b_size[c]

Grown(o) ==
  /\ o \in dirty \/ (ok[o] /\ st[o] \in {"sized", "syncing", "coalesced", "completed"})
  /\ kind[o].type = "write"
Within(o) == Grown(o) => kind[o].eor <= b_size[kind[o].coll]

SyncInv ==
  /\ SyncedBeforeReply
  /\ \A d \in Db : Flushing(d)
  /\ \A c \in Coll : Covered(c)
  /\ \A o \in Op : Within(o)

\* All datafiles and databases are of one collection, so of one sync mode.
OneCollection == \A k, m \in Kind : k.coll = m.coll

\* What is used of the cardinality of sets of operations.
CountingLaws ==
  \A A \in SUBSET Op : /\ Cardinality(A) \in Nat
                       /\ Cardinality(A) = 0 <=> A = {}
                       /\ \A o \in A : Cardinality(A \ {o}) = Cardinality(A) - 1
                       /\ \A o \in Op \ A : Cardinality(A \cup {o}) = Cardinality(A) + 1
-----------------------------------------------------------------------------
\* What the kinds are made of.
LEMMA Kinds ==
  ASSUME NEW k \in Kind
  PROVE  /\ k.type \in {"keyval", "dspace", "query", "read", "write"} /\ k.sync \in BOOLEAN
         /\ k.eor \in Nat /\ k.parts \in Nat \ {0} /\ k.coll \in Coll
         /\ Context(k) \in Db /\ k # None
BY Zenon, KindAssumption DEF Coll, Context, Db

\* The types that most steps need.
LEMMA Funs ==
  ASSUME Base
  PROVE  /\ st \in [Op -> Where] /\ kind \in [Op -> Kind \cup {None}] /\ ok \in [Op -> BOOLEAN]
         /\ seen \in [Op -> Int] /\ thread \in Op \cup {None}
BY Zenon DEF Base, TypeOK

\* A sync under way.
LEMMA SyncOf ==
  ASSUME Base, NEW d \in Db, syncing[d] # None
  PROVE  /\ syncing[d].op \in Op /\ syncing[d].flushes \in SUBSET Op /\ syncing[d].size \in Nat
         /\ Syncs(syncing[d].op, d)
<1>1. syncing[d] \in [op : Op, flushes : SUBSET Op, size : Nat]
  BY Zenon DEF Base, TypeOK
<1>2. Syncs(syncing[d].op, d)
  BY Zenon DEF Base, Gathered
<1> QED
  BY <1>1, <1>2

\* Nothing is anywhere at first.
LEMMA InitBase == ASSUME CountingLaws, Init PROVE Base
<1>1. TypeOK
  BY KindAssumption DEF Init, TypeOK, Where, Coll
<1>2. Placed /\ Gathered
  BY Zenon, KindAssumption DEF Init, Placed, OpOk, InThread, Gathered
<1>3. Lines
  BY DEF Init, Lines, Lined
<1>4. \A d \in Db : Queued(d) = {}
  BY Zenon DEF Init, Queued
<1>5. Cardinality({}) = 0
  BY Zenon DEF CountingLaws
<1>6. Counts
  BY Zenon, <1>4, <1>5 DEF Init, Counts
<1> QED
  BY Zenon, <1>1, <1>2, <1>3, <1>6 DEF Base

\* A line whose operations stay where they are stays one.
LEMMA LineKept ==
  ASSUME NEW s, NEW t, NEW w, NEW q \in Seq(Op), Lined(s, q, w), \A o \in Op : s[o] = w => t[o] = w
  PROVE  Lined(t, q, w)
BY DEF Lined

\* An operation joins the end of a line.
LEMMA LineGrows ==
  ASSUME NEW s, NEW t, NEW w, NEW q \in Seq(Op), Lined(s, q, w), NEW o \in Op, s[o] # w,
         t[o] = w, \A p \in Op : s[p] = w => t[p] = w
  PROVE  Lined(t, Append(q, o), w)
<1>1. \A i \in 1..Len(q) : q[i] # o /\ t[q[i]] = w
  BY DEF Lined
<1>2. /\ Len(Append(q, o)) = Len(q) + 1 /\ Len(q) \in Nat /\ Append(q, o)[Len(q) + 1] = o
      /\ \A i \in 1..Len(q) : Append(q, o)[i] = q[i]
  OBVIOUS
<1> QED
  BY <1>1, <1>2 DEF Lined

\* The first of a line leaves it.
LEMMA LineShrinks ==
  ASSUME NEW s, NEW t, NEW w, NEW q \in Seq(Op), Lined(s, q, w), q # <<>>,
         \A p \in Op \ {Head(q)} : s[p] = w => t[p] = w
  PROVE  Lined(t, Tail(q), w)
<1>1. /\ Len(q) \in Nat /\ Len(q) > 0 /\ Head(q) = q[1]
      /\ Len(Tail(q)) = Len(q) - 1 /\ \A i \in 1..Len(q) : q[i] \in Op
      /\ \A i \in 1..Len(Tail(q)) : Tail(q)[i] = q[i + 1]
  OBVIOUS
<1>2. \A i \in 1..Len(Tail(q)) : i + 1 \in 1..Len(q) /\ i + 1 # 1
  BY <1>1
<1>3. \A i \in 1..Len(Tail(q)) : q[i + 1] # q[1]
  BY <1>1, <1>2 DEF Lined
<1>4. ASSUME NEW i \in 1..Len(Tail(q)) PROVE t[Tail(q)[i]] = w
  <2>1. i + 1 \in 1..Len(q) /\ q[i + 1] # Head(q)
    BY <1>1, <1>2, <1>3
  <2> QED
    BY Zenon, <1>1, <2>1 DEF Lined
<1>5. \A i, j \in 1..Len(Tail(q)) : Tail(q)[i] = Tail(q)[j] => i = j
  BY <1>1, <1>2 DEF Lined
<1> QED
  BY Zenon, <1>4, <1>5 DEF Lined

\* The first of a line is in the state that the line is for.
LEMMA First ==
  ASSUME NEW s, NEW w, NEW q \in Seq(Op), Lined(s, q, w), q # <<>>
  PROVE  Head(q) \in Op /\ s[Head(q)] = w /\ Tail(q) \in Seq(Op)
<1>1. Len(q) \in Nat /\ Len(q) > 0 /\ Head(q) = q[1] /\ Head(q) \in Op /\ Tail(q) \in Seq(Op)
  OBVIOUS
<1> QED
  BY <1>1 DEF Lined

\* Steps that leave the waiting operations, the lines or the queued ones alone.
LEMMA GatheredKept ==
  ASSUME Base, UNCHANGED <<meta_sync, sync_queue, syncing>>,
         \A p \in Op : st[p] \in {"coalesced", "syncing"} => st'[p] = st[p] /\ kind'[p] = kind[p]
  PROVE  Gathered'
<1> SUFFICES ASSUME NEW d \in Db
             PROVE  /\ \A o \in sync_queue[d] : Waiting(o, d)'
                    /\ syncing[d] # None => Syncs(syncing[d].op, d)'
  BY Zenon DEF Gathered
<1>1. /\ sync_queue[d] \subseteq Op /\ (syncing[d] # None => syncing[d].op \in Op)
  BY DEF Base, TypeOK
<1>2. ASSUME NEW o \in sync_queue[d] PROVE Waiting(o, d)'
  <2>1. o \in Op /\ Waiting(o, d)
    BY Zenon, <1>1, <1>2 DEF Base, Gathered
  <2> QED
    BY Zenon, <2>1 DEF Waiting
<1>3. ASSUME syncing[d] # None PROVE Syncs(syncing[d].op, d)'
  <2>1. syncing[d].op \in Op /\ Syncs(syncing[d].op, d)
    BY Zenon, <1>1, <1>3 DEF Base, Gathered
  <2> QED
    BY Zenon, <2>1 DEF Syncs
<1> QED
  BY Zenon, <1>2, <1>3

LEMMA LinesKept ==
  ASSUME Base, UNCHANGED <<dbpf_op_queue, ready>>,
         \A p \in Op : st[p] \in {"queued", "delayed"} => st'[p] = st[p]
  PROVE  Lines'
BY Zenon, LineKept DEF Base, TypeOK, Lines

LEMMA CountsKept ==
  ASSUME Base, UNCHANGED sync_counter,
         \A p \in Op : /\ st'[p] = "queued" <=> st[p] = "queued"
                       /\ st[p] = "queued" => kind'[p] = kind[p]
  PROVE  Counts'
<1>1. ASSUME NEW d \in Db PROVE Queued(d)' = Queued(d)
  BY Zenon DEF Queued
<1> QED
  BY Zenon, <1>1 DEF Base, Counts

\* An operation that a step does not touch.
Same(p) ==
  /\ st'[p] = st[p] /\ kind'[p] = kind[p] /\ (p \in dirty' => p \in dirty)
  /\ (p \in ending' => p \in ending) /\ (thread' = p <=> thread = p)
LEMMA SamePlaced == ASSUME Base, NEW p \in Op, Same(p) PROVE OpOk(p)'
BY Zenon DEF Base, Placed, OpOk, InThread, Same

\* Where an operation cannot be.
LEMMA NotThere ==
  ASSUME Base, NEW o \in Op
  PROVE  /\ st[o] \in {"free", "queued", "service", "delayed", "inflight", "refused", "backing", "lost"}
            => o \notin dirty
         /\ st[o] \notin {"coalesced", "completed"} => o \notin ending
         /\ st[o] \notin {"service", "served", "syncing"} => thread # o
         /\ st[o] # "free" => kind[o] \in Kind
BY Zenon DEF Base, Placed, OpOk, InThread, TypeOK

\* A metadata operation joins the queue, and sync_counter counts it.
LEMMA PostBase == ASSUME CountingLaws, Base, NEW o \in Op, Post(o) PROVE Base'
<1>1. PICK k \in Kind : /\ ~IsIo(k) /\ kind' = [kind EXCEPT ![o] = k]
                        /\ sync_counter' = Counted(k, 1)
  BY Zenon DEF Post
<1>2. /\ st[o] = "free" /\ st' = [st EXCEPT ![o] = "queued"]
      /\ dbpf_op_queue' = Append(dbpf_op_queue, o)
      /\ UNCHANGED <<meta_sync, coalesce_counter, sync_queue, syncing, b_size, disk_size, left,
                     ios, ready, seen, ok, thread, dirty, ending>>
  BY Zenon DEF Post, syncVars, sizeVars, ioVars
<1>3. /\ \A p \in Op \ {o} : Same(p)
      /\ \A p \in Op \ {o} : st'[p] = st[p] /\ kind'[p] = kind[p]
      /\ st'[o] = "queued" /\ kind'[o] = k
  BY Zenon, <1>1, <1>2 DEF Base, TypeOK, Same
<1>4. ASSUME NEW d \in Db
      PROVE  sync_counter'[d] = Cardinality(Queued(d)') /\ sync_counter'[d] \in Nat
  <2>1. Queued(d)' = IF CountedFor(k, d) THEN Queued(d) \cup {o} ELSE Queued(d)
    BY Zenon, <1>2, <1>3 DEF Queued, CountedFor
  <2>2. o \notin Queued(d) /\ Queued(d) \in SUBSET Op
    BY Zenon, <1>2 DEF Queued
  <2>3. sync_counter'[d] = sync_counter[d] + (IF CountedFor(k, d) THEN 1 ELSE 0)
    BY Zenon, <1>1 DEF Counted
  <2> QED
    BY <2>1, <2>2, <2>3 DEF Base, Counts, CountingLaws
<1>5. TypeOK'
  <2>1. sync_counter' \in [Db -> Nat]
    BY Zenon, <1>1, <1>4 DEF Counted
  <2>2. dbpf_op_queue' \in Seq(Op)
    BY <1>2 DEF Base, TypeOK
  <2>3. \A p \in Op : st'[p] # "free" => kind'[p] \in Kind
    BY Zenon, <1>3 DEF Base, TypeOK
  <2>4. st' \in [Op -> Where] /\ kind' \in [Op -> Kind \cup {None}]
    BY <1>1, <1>2 DEF Base, TypeOK, Where
  <2> QED
    BY Zenon, <1>2, <2>1, <2>2, <2>3, <2>4 DEF Base, TypeOK
<1>6. Placed'
  <2> SUFFICES ASSUME NEW p \in Op PROVE OpOk(p)'
    BY Zenon DEF Placed
  <2>1. CASE p = o
    BY Zenon, <1>1, <1>2, <1>3, <2>1, NotThere DEF OpOk, InThread
  <2>2. CASE p # o
    BY Zenon, <1>3, <2>2, SamePlaced
  <2> QED
    BY Zenon, <2>1, <2>2
<1>7. Gathered'
  BY Zenon, <1>2, <1>3, GatheredKept
<1>8. Lines'
  <2>1. Lined(st', ready, "delayed")
    BY Zenon, <1>2, <1>3, LineKept DEF Base, TypeOK, Lines
  <2>2. Lined(st', Append(dbpf_op_queue, o), "queued")
    BY Zenon, <1>2, <1>3, LineGrows DEF Base, TypeOK, Lines
  <2> QED
    BY Zenon, <1>2, <2>1, <2>2 DEF Lines
<1> QED
  BY Zenon, <1>4, <1>5, <1>6, <1>7, <1>8 DEF Base, Counts

\* The dbpf thread takes the first of the queue, which sync_counter had counted.
LEMMA TakeBase == ASSUME CountingLaws, Base, Take PROVE Base'
<1> DEFINE o == Head(dbpf_op_queue)
<1>1. /\ thread = None /\ dbpf_op_queue # <<>> /\ thread' = o
      /\ st' = [st EXCEPT ![o] = "service"] /\ sync_counter' = Counted(kind[o], -1)
      /\ dbpf_op_queue' = Tail(dbpf_op_queue)
      /\ UNCHANGED <<meta_sync, coalesce_counter, sync_queue, syncing, b_size, disk_size, left,
                     ios, ready, seen, kind, ok, dirty, ending>>
  BY Zenon DEF Take, syncVars, sizeVars, ioVars
<1>2. o \in Op /\ st[o] = "queued" /\ Tail(dbpf_op_queue) \in Seq(Op)
  BY Zenon, <1>1, First DEF Base, TypeOK, Lines
<1> HIDE DEF o
<1>3. /\ \A p \in Op \ {o} : Same(p) /\ st'[p] = st[p]
      /\ st'[o] = "service" /\ o # None /\ kind[o] \in Kind /\ ~IsIo(kind[o])
  BY Zenon, <1>1, <1>2, KindAssumption DEF Base, TypeOK, Placed, OpOk, Same
<1>4. ASSUME NEW d \in Db
      PROVE  sync_counter'[d] = Cardinality(Queued(d)') /\ sync_counter'[d] \in Nat
  <2>1. Queued(d)' = IF CountedFor(kind[o], d) THEN Queued(d) \ {o} ELSE Queued(d)
    <3>1. \A p \in Op : p \in Queued(d)' <=> p # o /\ p \in Queued(d)
      BY Zenon, <1>1, <1>2, <1>3 DEF Queued
    <3> QED
      BY Zenon, <3>1 DEF Queued
  <2>2. Queued(d)' \in SUBSET Op /\ Queued(d) \in SUBSET Op
        /\ (CountedFor(kind[o], d) => o \in Queued(d))
    BY Zenon, <1>2 DEF Queued
  <2>3. sync_counter'[d] = sync_counter[d] + (IF CountedFor(kind[o], d) THEN -1 ELSE 0)
    BY Zenon, <1>1 DEF Counted
  <2>4. Cardinality(Queued(d)') \in Nat
    BY Zenon, <2>2 DEF CountingLaws
  <2> QED
    BY <2>1, <2>2, <2>3, <2>4 DEF Base, Counts, CountingLaws
<1>5. TypeOK'
  <2>1. sync_counter' \in [Db -> Nat]
    BY Zenon, <1>1, <1>4 DEF Counted
  <2>2. st' \in [Op -> Where]
    BY Zenon, <1>1, Funs DEF Where
  <2> QED
    BY Zenon, <1>1, <1>2, <1>3, <2>1, <2>2 DEF Base, TypeOK
<1>6. Placed'
  <2> SUFFICES ASSUME NEW p \in Op PROVE OpOk(p)'
    BY Zenon DEF Placed
  <2>1. CASE p = o
    BY Zenon, <1>1, <1>2, <1>3, <2>1, NotThere DEF OpOk, InThread
  <2>2. CASE p # o
    BY Zenon, <1>3, <2>2, SamePlaced
  <2> QED
    BY Zenon, <2>1, <2>2
<1>7. Gathered'
  BY Zenon, <1>1, <1>2, <1>3, GatheredKept
<1>8. Lines'
  <2>1. Lined(st', ready, "delayed")
    BY Zenon, <1>1, <1>2, <1>3, LineKept DEF Base, TypeOK, Lines
  <2>2. Lined(st', Tail(dbpf_op_queue), "queued")
    BY Zenon, <1>1, <1>3, LineShrinks DEF Base, TypeOK, Lines, o
  <2> QED
    BY Zenon, <1>1, <2>1, <2>2 DEF Lines
<1> QED
  BY Zenon, <1>4, <1>5, <1>6, <1>7, <1>8 DEF Base, Counts

\* Steps in which one operation moves that is not queued for the thread or for a sync.
Waits == {"queued", "coalesced", "syncing"}
LEMMA OneMoves ==
  ASSUME Base, NEW o \in Op, TypeOK', OpOk(o)', \A p \in Op \ {o} : Same(p),
         UNCHANGED <<meta_sync, sync_queue, syncing, dbpf_op_queue, sync_counter>>,
         st[o] \notin Waits, st'[o] # "queued",
         (UNCHANGED ready /\ st[o] # "delayed") \/ Lines'
  PROVE  Base'
<1>1. \A p \in Op : st[p] \in Waits => Same(p)
  BY Zenon
<1>2. Placed'
  BY Zenon, SamePlaced DEF Placed
<1>3. Gathered'
  BY Zenon, <1>1, GatheredKept DEF Same, Waits
<1>4. Lines'
  BY Zenon, LinesKept DEF Same, Waits
<1>5. Counts'
  BY Zenon, <1>1, CountsKept DEF Same, Waits
<1> QED
  BY Zenon, <1>2, <1>3, <1>4, <1>5 DEF Base

\* The thread serves the operation it has taken.
LEMMA ServeBase == ASSUME Base, Serve PROVE Base'
<1> DEFINE o == thread
<1>1. /\ o \in Op /\ st[o] = "service" /\ st' = [st EXCEPT ![o] = "served"]
      /\ ok' \in [Op -> BOOLEAN] /\ UNCHANGED <<thread, kind, ending>>
      /\ dirty' = dirty \/ (dirty' = dirty \cup {o} /\ DoesSync(kind[o]))
      /\ UNCHANGED <<meta_sync, sync_queue, syncing, dbpf_op_queue, ready, sync_counter,
                     coalesce_counter, b_size, disk_size, left, ios, seen>>
  BY Zenon DEF Serve, Base, TypeOK, metaVars, syncVars, sizeVars, ioVars, MayFail
<1>2. /\ \A p \in Op \ {o} : Same(p)
      /\ st'[o] = "served" /\ kind[o] \in Kind /\ ~IsIo(kind[o]) /\ o \notin ending
  BY Zenon, <1>1, NotThere DEF Base, TypeOK, Placed, OpOk, Same
<1>3. TypeOK'
  <2>1. st' \in [Op -> Where] /\ dirty' \in SUBSET Op
    BY <1>1 DEF Base, TypeOK, Where
  <2>2. \A p \in Op : st'[p] # "free" => kind'[p] \in Kind
    BY Zenon, <1>1, <1>2 DEF Base, TypeOK, Same
  <2> QED
    BY Zenon, <1>1, <2>1, <2>2 DEF Base, TypeOK
<1>4. OpOk(o)'
  <2>1. o \in dirty => DoesSync(kind[o])
    BY Zenon, <1>1, NotThere
  <2> QED
    BY Zenon, <1>1, <1>2, <2>1 DEF OpOk, InThread
<1> QED
  BY Zenon, <1>1, <1>2, <1>3, <1>4, OneMoves DEF Waits

\* What the caller of dbpf_sync_coalesce does next.
LEMMA ReturnsWhere ==
  ASSUME Base, NEW o \in Op, Returns(o)
  PROVE  /\ thread' \in Op \cup {None} /\ ending' \in SUBSET Op /\ thread' # o
         /\ \A p \in Op \ {o} : (thread' = p <=> thread = p) /\ (p \in ending' <=> p \in ending)
         /\ o \in ending' <=> o \in ending \/ thread # o
BY Zenon, KindAssumption DEF Base, TypeOK, Returns

\* dbpf_sync_coalesce completes the operation.
LEMMA CompletesBase ==
  ASSUME Base, NEW o \in Op, NoSync(o) \/ Unsynced(o), Coalesce(o)
  PROVE  Base'
<1>1. /\ st[o] \in {"served", "sized"} /\ st' = Completed({o}) /\ Returns(o)
      /\ UNCHANGED <<meta_sync, dbpf_op_queue, sync_counter, left, ios, ready, seen, kind, ok>>
      /\ UNCHANGED <<sync_queue, syncing, b_size>> /\ dirty' \subseteq dirty
  BY Zenon DEF NoSync, Unsynced, Coalesce, ioVars, syncVars, sizeVars
<1>2. coalesce_counter' \in [Db -> Nat] /\ disk_size' \in [Coll -> Nat]
  <2>1. CASE NoSync(o)
    BY Zenon, <2>1 DEF NoSync, syncVars, sizeVars, Base, TypeOK
  <2>2. CASE Unsynced(o)
    <3>1. kind[o] \in Kind /\ kind[o].coll \in Coll /\ Context(kind[o]) \in Db
      BY Zenon, <1>1, NotThere, Kinds
    <3>2. b_size[kind[o].coll] \in Nat /\ coalesce_counter[Context(kind[o])] + 1 \in Nat
      BY <3>1 DEF Base, TypeOK
    <3>3. 0 \in Nat
      OBVIOUS
    <3> QED
      BY Zenon, <2>2, <3>1, <3>2, <3>3 DEF Unsynced, Base, TypeOK
  <2> QED
    BY Zenon, <2>1, <2>2
<1>3. /\ \A p \in Op \ {o} : Same(p)
      /\ st'[o] = "completed" /\ kind[o] \in Kind
  BY Zenon, <1>1, NotThere, ReturnsWhere DEF Base, TypeOK, Completed, Same
<1>4. TypeOK'
  <2>1. st' \in [Op -> Where]
    BY <1>1 DEF Base, TypeOK, Where, Completed
  <2>2. \A p \in Op : st'[p] # "free" => kind'[p] \in Kind
    BY Zenon, <1>1, <1>3 DEF Base, TypeOK, Same
  <2>3. dirty' \in SUBSET Op
    BY Zenon, <1>1 DEF Base, TypeOK
  <2> QED
    BY Zenon, <1>1, <1>2, <2>1, <2>2, <2>3, ReturnsWhere DEF Base, TypeOK
<1>5. OpOk(o)'
  <2>1. o \in dirty => DoesSync(kind[o])
    BY Zenon DEF Base, Placed, OpOk
  <2> QED
    BY Zenon, <1>1, <1>3, <2>1, ReturnsWhere DEF OpOk, InThread
<1> QED
  BY Zenon, <1>1, <1>3, <1>4, <1>5, OneMoves DEF Waits

\* dbpf_sync_coalesce starts a sync, or puts the operation aside.
LEMMA WaitsBase ==
  ASSUME Base, NEW o \in Op, StartSync(o) \/ Delay(o), Coalesce(o)
  PROVE  Base'
<1> DEFINE d == Context(kind[o])
<1>1. /\ st[o] \in {"served", "sized"} /\ syncing[d] = None
      /\ DoesSync(kind[o]) /\ kind[o].sync /\ kind[o].coll \in meta_sync
      /\ UNCHANGED <<meta_sync, dbpf_op_queue, sync_counter, left, ios, ready, seen, kind, ok>>
      /\ UNCHANGED <<b_size, disk_size, dirty>>
  BY Zenon DEF StartSync, Delay, Coalesce, ioVars, sizeVars
<1>2. /\ kind[o] \in Kind /\ kind[o].coll \in Coll /\ d \in Db
      /\ thread = o <=> st[o] = "served" \* the thread's own operation
      /\ st[o] = "served" <=> ~IsIo(kind[o])
  BY Zenon, <1>1, NotThere, Kinds DEF Base, Placed, OpOk, InThread
<1> HIDE DEF d
<1>3. /\ st'[o] \in {"syncing", "coalesced"}
      /\ \A p \in Op \ {o} : Same(p)
      /\ st' \in [Op -> Where] /\ thread' \in Op \cup {None} /\ ending' \in SUBSET Op
      /\ st'[o] = "syncing" => UNCHANGED <<thread, ending>>
      /\ st'[o] = "coalesced" => thread' # o
  <2>1. CASE StartSync(o)
    BY Zenon, <1>1, <2>1 DEF StartSync, Base, TypeOK, Same, Where
  <2>2. CASE Delay(o)
    BY Zenon, <1>1, <2>2, ReturnsWhere DEF Delay, Base, TypeOK, Same, Where
  <2> QED
    BY Zenon, <2>1, <2>2
<1>4. TypeOK' /\ Gathered'
  <2>1. CASE StartSync(o)
    <3>1. /\ UNCHANGED <<coalesce_counter, sync_queue>>
          /\ syncing' = [syncing EXCEPT ![d] = [op |-> o, flushes |-> Unflushed(d, kind[o].coll),
                                                size |-> b_size[kind[o].coll]]]
      BY Zenon, <2>1 DEF StartSync, d
    <3>2. [op |-> o, flushes |-> Unflushed(d, kind[o].coll), size |-> b_size[kind[o].coll]]
            \in [op : Op, flushes : SUBSET Op, size : Nat]
      BY <1>2 DEF Base, TypeOK, Unflushed
    <3>3. TypeOK'
      BY Zenon, <1>1, <1>2, <1>3, <3>1, <3>2 DEF Base, TypeOK, Same
    <3>4. ASSUME NEW e \in Db
          PROVE  /\ \A p \in sync_queue'[e] : Waiting(p, e)'
                 /\ (syncing[e] # None => Syncs(syncing[e].op, e))'
      <4>1. \A p \in sync_queue[e] : p \in Op /\ p # o /\ Waiting(p, e)
        BY Zenon, <1>1 DEF Base, TypeOK, Gathered, Waiting
      <4>2. \A p \in sync_queue'[e] : Waiting(p, e)'
        BY Zenon, <1>1, <1>3, <3>1, <4>1 DEF Waiting, Same
      <4>3. CASE e = d
        <5>1. syncing'[e].op = o
          BY <1>2, <3>1, <4>3 DEF Base, TypeOK
        <5>2. st'[o] = "syncing"
          BY Zenon, <2>1 DEF StartSync, Base, TypeOK
        <5> QED
          BY Zenon, <1>1, <4>2, <4>3, <5>1, <5>2 DEF Syncs, d
      <4>4. CASE e # d
        <5>1. syncing'[e] = syncing[e]
          BY Zenon, <3>1, <4>4 DEF Base, TypeOK
        <5>2. syncing[e] # None => /\ syncing[e].op \in Op \ {o} /\ Syncs(syncing[e].op, e)
          <6> SUFFICES ASSUME syncing[e] # None
                       PROVE  syncing[e].op \in Op \ {o} /\ Syncs(syncing[e].op, e)
            BY Zenon
          <6>1. syncing[e].op \in Op
            BY DEF Base, TypeOK
          <6> QED
            BY Zenon, <1>1, <6>1 DEF Base, Gathered, Syncs
        <5> QED
          BY Zenon, <1>1, <1>3, <4>2, <5>1, <5>2 DEF Syncs, Same
      <4> QED
        BY Zenon, <4>3, <4>4
    <3> QED
      BY Zenon, <3>3, <3>4 DEF Gathered
  <2>2. CASE Delay(o)
    <3>1. /\ UNCHANGED syncing /\ st'[o] = "coalesced"
          /\ coalesce_counter' = [coalesce_counter EXCEPT ![d] = @ + 1]
          /\ sync_queue' = [sync_queue EXCEPT ![d] = @ \cup {o}]
      BY Zenon, <2>2 DEF Delay, d, Base, TypeOK
    <3>2. /\ sync_queue' \in [Db -> SUBSET Op] /\ coalesce_counter' \in [Db -> Nat]
      BY <1>2, <3>1 DEF Base, TypeOK
    <3>3. TypeOK'
      BY Zenon, <1>1, <1>2, <1>3, <3>1, <3>2 DEF Base, TypeOK, Same
    <3>4. ASSUME NEW e \in Db, NEW p \in sync_queue'[e] PROVE Waiting(p, e)'
      <4>1. p \in Op /\ (p \in sync_queue[e] \/ (p = o /\ e = d))
        BY Zenon, <3>1, <3>4 DEF Base, TypeOK
      <4>2. p \in sync_queue[e] => p # o /\ Waiting(p, e)
        BY Zenon, <1>1 DEF Base, Gathered, Waiting
      <4> QED
        BY Zenon, <1>1, <1>3, <3>1, <4>1, <4>2 DEF Waiting, Same, d
    <3>5. ASSUME NEW e \in Db, syncing[e] # None PROVE Syncs(syncing[e].op, e)'
      <4>1. syncing[e].op \in Op
        BY <3>5 DEF Base, TypeOK
      <4>2. Syncs(syncing[e].op, e) /\ syncing[e].op # o
        BY Zenon, <1>1, <3>5 DEF Base, Gathered, Syncs
      <4> QED
        BY Zenon, <1>1, <1>3, <3>1, <4>1, <4>2 DEF Syncs, Same
    <3> QED
      BY Zenon, <3>1, <3>3, <3>4, <3>5 DEF Gathered
  <2> QED
    BY Zenon, <2>1, <2>2
<1>5. OpOk(o)'
  <2>1. o \in dirty => DoesSync(kind[o])
    BY Zenon DEF Base, Placed, OpOk
  <2>2. o \notin ending
    BY Zenon, <1>1, NotThere
  <2> QED
    BY Zenon, <1>1, <1>2, <1>3, <2>1, <2>2 DEF OpOk, InThread
<1>6. Placed'
  BY Zenon, <1>3, <1>5, SamePlaced DEF Placed
<1>7. Lines' /\ Counts'
  BY Zenon, <1>1, <1>3, LinesKept, CountsKept DEF Same
<1> QED
  BY Zenon, <1>4, <1>6, <1>7 DEF Base

\* The end of a sync completes the operation and all that wait with it.
LEMMA FinishBase == ASSUME Base, NEW d \in Db, FinishSync(d) PROVE Base'
<1> DEFINE o == syncing[d].op
           S == {o} \cup sync_queue[d]
<1>1. /\ syncing[d] # None /\ st' = Completed(S) /\ Returns(o) /\ dirty' \subseteq dirty
      /\ sync_queue' = [sync_queue EXCEPT ![d] = {}]
      /\ coalesce_counter' = [coalesce_counter EXCEPT ![d] = 0]
      /\ syncing' = [syncing EXCEPT ![d] = None]
      /\ UNCHANGED <<meta_sync, dbpf_op_queue, sync_counter, left, ios, ready, seen, kind, ok,
                     b_size>>
  BY Zenon DEF FinishSync, ioVars
<1>2. /\ o \in Op /\ S \subseteq Op /\ Syncs(o, d) /\ \A p \in sync_queue[d] : Waiting(p, d)
      /\ syncing[d].size \in Nat
  BY <1>1 DEF Base, TypeOK, Gathered
<1>3. disk_size' \in [Coll -> Nat]
  <2>1. kind[o].coll \in Coll
    BY Zenon, <1>2, NotThere, Kinds DEF Syncs
  <2> QED
    BY Zenon, <1>2, <2>1 DEF FinishSync, Base, TypeOK
<1> HIDE DEF o
<1>4. /\ \A p \in S : st'[p] = "completed" /\ st[p] \in {"syncing", "coalesced"}
      /\ \A p \in Op \ S : Same(p)
      /\ \A p \in sync_queue[d] : thread # p /\ p # o
  <2>1. \A p \in S : st'[p] = "completed" /\ st[p] \in {"syncing", "coalesced"}
    BY Zenon, <1>1, <1>2 DEF Completed, Waiting, Syncs
  <2>2. \A p \in Op \ S : Same(p)
    BY Zenon, <1>1, <1>2, ReturnsWhere DEF Same, Completed
  <2>3. \A p \in sync_queue[d] : thread # p /\ p # o
    BY Zenon, <1>2, NotThere DEF Waiting, Syncs
  <2> QED
    BY Zenon, <2>1, <2>2, <2>3
<1>5. TypeOK'
  <2>1. st' \in [Op -> Where] /\ dirty' \in SUBSET Op /\ 0 \in Nat
    BY <1>1 DEF Base, TypeOK, Where, Completed
  <2>2. \A p \in Op : st'[p] # "free" => kind'[p] \in Kind
    BY Zenon, <1>1, <1>4 DEF Base, TypeOK, Same
  <2>3. sync_queue' \in [Db -> SUBSET Op] /\ coalesce_counter' \in [Db -> Nat]
        /\ syncing' \in [Db -> [op : Op, flushes : SUBSET Op, size : Nat] \cup {None}]
    BY Zenon, <1>1, <2>1 DEF Base, TypeOK
  <2> QED
    BY Zenon, <1>1, <1>2, <1>3, <2>1, <2>2, <2>3, ReturnsWhere DEF Base, TypeOK
<1>6. Placed'
  <2> SUFFICES ASSUME NEW p \in Op PROVE OpOk(p)'
    BY Zenon DEF Placed
  <2>1. CASE p \in S
    <3>1. /\ st'[p] = "completed" /\ thread' # p
          /\ p \in dirty' => DoesSync(kind[p])
      BY Zenon, <1>1, <1>2, <1>4, <2>1, ReturnsWhere DEF Base, Placed, OpOk
    <3> QED
      BY Zenon, <1>1, <3>1 DEF OpOk, InThread
  <2> QED
    BY Zenon, <1>4, <2>1, SamePlaced
<1>7. Gathered'
  <2> SUFFICES ASSUME NEW e \in Db
               PROVE  /\ \A p \in sync_queue'[e] : Waiting(p, e)'
                      /\ (syncing[e] # None => Syncs(syncing[e].op, e))'
    BY Zenon DEF Gathered
  <2>1. CASE e = d
    BY Zenon, <1>1, <2>1 DEF Base, TypeOK
  <2>2. CASE e # d
    <3>1. sync_queue'[e] = sync_queue[e] /\ syncing'[e] = syncing[e]
      BY Zenon, <1>1, <2>2 DEF Base, TypeOK
    <3>2. \A p \in sync_queue[e] : p \in Op /\ Waiting(p, e) /\ p \notin S
      BY Zenon, <1>2, <2>2 DEF Base, TypeOK, Gathered, Waiting, Syncs
    <3>3. ASSUME NEW q \in Op \ S, Syncs(q, e) PROVE Syncs(q, e)'
      BY Zenon, <1>1, <1>4, <3>3 DEF Syncs, Same
    <3>4. syncing[e] # None => Syncs(syncing[e].op, e) /\ syncing[e].op \in Op \ S
      BY Zenon, <1>2, <2>2, SyncOf DEF Waiting, Syncs
    <3>5. \A p \in sync_queue'[e] : Waiting(p, e)'
      BY Zenon, <1>1, <1>4, <3>1, <3>2 DEF Waiting, Same
    <3>6. (syncing[e] # None => Syncs(syncing[e].op, e))'
      BY Zenon, <3>1, <3>3, <3>4
    <3> QED
      BY Zenon, <3>5, <3>6
  <2> QED
    BY Zenon, <2>1, <2>2
<1>8. \A p \in Op : st[p] \in {"queued", "delayed"} => st'[p] = st[p]
  BY Zenon, <1>4 DEF Same
<1>9. \A p \in Op : st'[p] = "queued" => st[p] = "queued"
  BY Zenon, <1>4 DEF Same
<1>10. Lines' /\ Counts'
  BY Zenon, <1>1, <1>8, <1>9, LinesKept, CountsKept
<1> QED
  BY Zenon, <1>5, <1>6, <1>7, <1>10 DEF Base

\* Where issue_or_delay_io_operation leaves an operation.
LEMMA IssueWhere ==
  ASSUME Base, NEW o \in Op, NEW n \in Int, IssueOrDelay(o, n), st[o] \in {"free", "inflight"},
         UNCHANGED dbpf_op_queue
  PROVE  /\ ios' \in Int /\ st' \in [Op -> Where] /\ ready' \in Seq(Op) /\ Lines'
         /\ st'[o] \in {"inflight", "refused", "delayed"}
         /\ \A p \in Op \ {o} : st'[p] = st[p]
<1>1. /\ st'[o] \in {"inflight", "refused", "delayed"} /\ st' \in [Op -> Where]
      /\ \A p \in Op \ {o} : st'[p] = st[p]
  BY Zenon DEF IssueOrDelay, Base, TypeOK, Where
<1>2. ios' \in Int /\ ready' \in Seq(Op)
  <2>1. (ready' = ready \/ ready' = Append(ready, o)) /\ (ios' = n \/ ios' = n + 1)
    BY Zenon DEF IssueOrDelay
  <2>2. ready \in Seq(Op)
    BY Zenon DEF Base, TypeOK
  <2>3. Append(ready, o) \in Seq(Op) /\ n + 1 \in Int
    BY <2>2
  <2> QED
    BY Zenon, <2>1, <2>2, <2>3
<1>3. Lined(st', dbpf_op_queue, "queued")
  BY Zenon, <1>1, LineKept DEF Base, TypeOK, Lines
<1>4. Lined(st', ready', "delayed")
  <2>1. CASE UNCHANGED ready
    BY Zenon, <1>1, <2>1, LineKept DEF Base, TypeOK, Lines
  <2>2. CASE ready' = Append(ready, o) /\ st'[o] = "delayed"
    <3>1. Lined(st', Append(ready, o), "delayed")
      BY Zenon, <1>1, <2>2, LineGrows DEF Base, TypeOK, Lines
    <3> QED
      BY Zenon, <2>2, <3>1
  <2> QED
    BY Zenon, <2>1, <2>2 DEF IssueOrDelay, Base, TypeOK
<1> QED
  BY Zenon, <1>1, <1>2, <1>3, <1>4 DEF Lines

\* An I/O is posted.
LEMMA PostIoBase == ASSUME Base, NEW o \in Op, PostIo(o) PROVE Base'
<1>1. PICK k \in Kind : /\ IsIo(k) /\ kind' = [kind EXCEPT ![o] = k]
                        /\ left' = [left EXCEPT ![o] = k.parts]
  BY Zenon DEF PostIo
<1>2. /\ st[o] = "free" /\ ios \in Int /\ IssueOrDelay(o, ios)
      /\ UNCHANGED <<meta_sync, sync_queue, syncing, dbpf_op_queue, sync_counter, thread,
                     coalesce_counter, b_size, disk_size, ok, dirty, ending, seen>>
  BY Zenon DEF PostIo, Base, TypeOK, metaVars, syncVars, sizeVars
<1>3. /\ \A p \in Op \ {o} : Same(p)
      /\ kind'[o] = k /\ o \notin dirty /\ o \notin ending /\ thread # o
  BY Zenon, <1>1, <1>2, IssueWhere, NotThere DEF Base, TypeOK, Same
<1>4. TypeOK'
  <2>1. kind' \in [Op -> Kind \cup {None}] /\ left' \in [Op -> Nat]
    BY <1>1, Kinds DEF Base, TypeOK
  <2>2. \A p \in Op : st'[p] # "free" => kind'[p] \in Kind
    BY Zenon, <1>3 DEF Base, TypeOK, Same
  <2> QED
    BY Zenon, <1>2, <2>1, <2>2, IssueWhere DEF Base, TypeOK
<1>5. OpOk(o)'
  BY Zenon, <1>1, <1>2, <1>3, IssueWhere DEF OpOk, InThread
<1> QED
  BY Zenon, <1>2, <1>3, <1>4, <1>5, IssueWhere, OneMoves DEF Waits

\* The next batch of an I/O.
LEMMA MoreBase == ASSUME Base, NEW o \in Op, AioMore(o) PROVE Base'
<1>1. /\ st[o] = "inflight" /\ IssueOrDelay(o, ios - 1)
      /\ left[o] > 1 /\ left' = [left EXCEPT ![o] = @ - 1]
      /\ UNCHANGED <<meta_sync, sync_queue, syncing, dbpf_op_queue, sync_counter, thread, kind,
                     coalesce_counter, b_size, disk_size, ok, dirty, ending, seen>>
  BY Zenon DEF AioMore, metaVars, syncVars, sizeVars
<1>2. ios - 1 \in Int /\ left' \in [Op -> Nat]
  BY <1>1 DEF Base, TypeOK
<1>3. /\ \A p \in Op \ {o} : Same(p)
      /\ IsIo(kind[o]) /\ kind[o] \in Kind /\ o \notin dirty /\ o \notin ending /\ thread # o
  BY Zenon, <1>1, <1>2, IssueWhere, NotThere DEF Base, Placed, OpOk, Same
<1>4. TypeOK'
  <2>2. \A p \in Op : st'[p] # "free" => kind'[p] \in Kind
    BY Zenon, <1>1, <1>3 DEF Base, TypeOK, Same
  <2> QED
    BY Zenon, <1>1, <1>2, <2>2, IssueWhere DEF Base, TypeOK
<1>5. OpOk(o)'
  BY Zenon, <1>1, <1>2, <1>3, IssueWhere DEF OpOk, InThread
<1> QED
  BY Zenon, <1>1, <1>2, <1>3, <1>4, <1>5, IssueWhere, OneMoves DEF Waits

\* lio_listio refused, and the slot is given back.
LEMMA BackOffBase == ASSUME Base, NEW o \in Op, BackOff(o) \/ BackedOff(o) PROVE Base'
<1>1. /\ st[o] \in {"refused", "backing"} /\ st'[o] \in {"backing", "completed", "lost"}
      /\ st' \in [Op -> Where] /\ ok' \in [Op -> BOOLEAN]
      /\ \A p \in Op \ {o} : st'[p] = st[p]
      /\ UNCHANGED <<meta_sync, sync_queue, syncing, dbpf_op_queue, sync_counter, thread, kind,
                     coalesce_counter, b_size, disk_size, dirty, ending, left, ready>>
  BY Zenon DEF BackOff, BackedOff, Base, TypeOK, Where, metaVars, syncVars, sizeVars
<1>2. ios' \in Int /\ seen' \in [Op -> Int]
  <2>1. CASE BackOff(o)
    BY Zenon, <2>1 DEF BackOff, Base, TypeOK
  <2>2. CASE BackedOff(o)
    BY <2>2 DEF BackedOff, Base, TypeOK
  <2> QED
    BY Zenon, <2>1, <2>2
<1>3. /\ \A p \in Op \ {o} : Same(p)
      /\ IsIo(kind[o]) /\ kind[o] \in Kind /\ o \notin dirty /\ o \notin ending /\ thread # o
  BY Zenon, <1>1, NotThere DEF Base, Placed, OpOk, Same
<1>4. TypeOK'
  <2>1. \A p \in Op : st'[p] # "free" => kind'[p] \in Kind
    BY Zenon, <1>1, <1>3 DEF Base, TypeOK, Same
  <2> QED
    BY Zenon, <1>1, <1>2, <2>1 DEF Base, TypeOK
<1>5. OpOk(o)'
  BY Zenon, <1>1, <1>3 DEF OpOk, InThread
<1> QED
  BY Zenon, <1>1, <1>3, <1>4, <1>5, OneMoves DEF Waits

\* The callback of an I/O that is done.
LEMMA DoneBase == ASSUME Base, NEW o \in Op, AioRead(o) \/ AioWrite(o) PROVE Base'
<1>1. /\ st[o] = "inflight" /\ st'[o] \in {"sized", "completed"}
      /\ st' \in [Op -> Where] /\ ok' \in [Op -> BOOLEAN]
      /\ \A p \in Op \ {o} : st'[p] = st[p]
      /\ ending' = ending \/ (ending' = ending \cup {o} /\ st'[o] = "completed")
      /\ dirty' = dirty \/ (dirty' = dirty \cup {o} /\ kind[o].type = "write")
      /\ UNCHANGED <<meta_sync, sync_queue, syncing, dbpf_op_queue, sync_counter, thread, kind,
                     coalesce_counter, disk_size, left, ios, ready, seen>>
  <2>1. CASE AioRead(o)
    BY Zenon, <2>1 DEF AioRead, MayFail, Completed, Base, TypeOK, Where, metaVars, syncVars,
                        sizeVars, ioVars
  <2>2. CASE AioWrite(o)
    <3>1. /\ st[o] = "inflight" /\ kind[o].type = "write"
          /\ UNCHANGED <<meta_sync, sync_queue, syncing, dbpf_op_queue, sync_counter, thread, kind,
                         coalesce_counter, disk_size, left, ios, ready, seen>>
      BY Zenon, <2>2 DEF AioWrite, metaVars, syncVars, ioVars
    <3>2. /\ dirty' = dirty \/ dirty' = dirty \cup {o}
          /\ \/ st' = [st EXCEPT ![o] = "sized"] /\ UNCHANGED ending
             \/ st' = Completed({o}) /\ ending' = ending \cup {o}
          /\ \E found \in {TRUE, FALSE} : ok' = [ok EXCEPT ![o] = found]
      BY Zenon, <2>2 DEF AioWrite, MayFail
    <3>3. st' \in [Op -> Where] /\ ok' \in [Op -> BOOLEAN]
      BY Zenon, <3>2, Funs DEF Completed, Where
    <3>4. \A p \in Op \ {o} : st'[p] = st[p]
      BY Zenon, <3>2, Funs DEF Completed
    <3>5. \/ st'[o] = "sized" /\ UNCHANGED ending
          \/ st'[o] = "completed" /\ ending' = ending \cup {o}
      BY Zenon, <3>2, Funs DEF Completed
    <3> QED
      BY Zenon, <3>1, <3>2, <3>3, <3>4, <3>5
  <2> QED
    BY Zenon, <2>1, <2>2
<1>2. /\ \A p \in Op \ {o} : Same(p)
      /\ kind[o] \in Kind /\ IsIo(kind[o]) /\ o \notin dirty /\ o \notin ending /\ thread # o
  BY Zenon, <1>1, NotThere DEF Base, Placed, OpOk, Same
<1>3. b_size' \in [Coll -> Nat]
  BY Zenon, <1>2, Kinds DEF AioRead, AioWrite, Base, TypeOK, sizeVars
<1>4. TypeOK'
  <2>1. \A p \in Op : st'[p] # "free" => kind'[p] \in Kind
    BY Zenon, <1>1, <1>2 DEF Base, TypeOK, Same
  <2>2. dirty' \in SUBSET Op /\ ending' \in SUBSET Op
    BY Zenon, <1>1 DEF Base, TypeOK
  <2> QED
    BY Zenon, <1>1, <1>3, <2>1, <2>2 DEF Base, TypeOK
<1>5. OpOk(o)'
  BY Zenon, <1>1, <1>2 DEF OpOk, InThread, DoesSync
<1> QED
  BY Zenon, <1>1, <1>2, <1>4, <1>5, OneMoves DEF Waits

\* The slot goes to the oldest delayed operation.
LEMMA DelayedBase == ASSUME Base, NEW o \in Op, StartDelayed(o) PROVE Base'
<1>1. /\ ending' = ending \ {o}
      /\ UNCHANGED <<meta_sync, sync_queue, syncing, dbpf_op_queue, sync_counter, thread, kind,
                     coalesce_counter, b_size, disk_size, ok, dirty, left, seen>>
  BY Zenon DEF StartDelayed, metaVars, syncVars, sizeVars
<1>2. CASE ready = <<>>
  <2>1. ios' \in Int /\ UNCHANGED <<ready, st>>
    BY <1>2 DEF StartDelayed, Base, TypeOK
  <2>2. \A p \in Op : Same(p)
    BY Zenon, <1>1, <2>1 DEF Same
  <2>3. Placed'
    BY Zenon, <2>2, SamePlaced DEF Placed
  <2>4. Gathered' /\ Lines' /\ Counts'
    BY Zenon, <1>1, <2>1, <2>2, GatheredKept, LinesKept, CountsKept
  <2>5. TypeOK'
    BY Zenon, <1>1, <2>1 DEF Base, TypeOK
  <2> QED
    BY Zenon, <2>3, <2>4, <2>5 DEF Base
<1>3. CASE ready # <<>>
  <2>1. PICK h \in Op : h = Head(ready) /\ st[h] = "delayed" /\ Tail(ready) \in Seq(Op)
    BY Zenon, <1>3, First DEF Base, TypeOK, Lines
  <2>2. /\ ready' = Tail(ready) /\ (ios' = ios \/ ios' = ios - 1)
        /\ st' = [st EXCEPT ![h] = "inflight"] \/ st' = [st EXCEPT ![h] = "lost"]
    BY Zenon, <1>3, <2>1 DEF StartDelayed
  <2>3. /\ \A p \in Op \ {h} : Same(p) /\ st'[p] = st[p]
        /\ st'[h] \in {"inflight", "lost"} /\ st' \in [Op -> Where] /\ ios' \in Int
    <3>1. ios' \in Int
      BY <2>2 DEF Base, TypeOK
    <3> QED
      BY Zenon, <1>1, <2>1, <2>2, <3>1 DEF Base, TypeOK, Same, Where
  <2>4. Lines'
    <3>1. Lined(st', Tail(ready), "delayed")
      BY Zenon, <1>3, <2>1, <2>3, LineShrinks DEF Base, TypeOK, Lines
    <3>2. Lined(st', dbpf_op_queue, "queued")
      BY Zenon, <2>1, <2>3, LineKept DEF Base, TypeOK, Lines
    <3> QED
      BY Zenon, <1>1, <2>2, <3>1, <3>2 DEF Lines
  <2>5. IsIo(kind[h]) /\ kind[h] \in Kind /\ h \notin dirty /\ h \notin ending /\ thread # h
    BY Zenon, <2>1, NotThere DEF Base, Placed, OpOk
  <2>6. TypeOK'
    <3>1. \A p \in Op : st'[p] # "free" => kind'[p] \in Kind
      BY Zenon, <1>1, <2>3, <2>5 DEF Base, TypeOK
    <3>2. ending' \in SUBSET Op
      BY Zenon, <1>1 DEF Base, TypeOK
    <3> QED
      BY Zenon, <1>1, <2>1, <2>2, <2>3, <3>1, <3>2 DEF Base, TypeOK
  <2>7. OpOk(h)'
    BY Zenon, <1>1, <2>3, <2>5 DEF OpOk, InThread
  <2> QED
    BY Zenon, <1>1, <2>1, <2>3, <2>4, <2>6, <2>7, OneMoves DEF Waits
<1> QED
  BY Zenon, <1>2, <1>3

\* So does a step of nothing.
LEMMA StutterBase == ASSUME Base, UNCHANGED vars PROVE Base'
BY DEF vars, metaVars, syncVars, sizeVars, ioVars, Base, TypeOK, Placed, OpOk, InThread, Gathered,
       Waiting, Syncs, Lines, Lined, Counts, Queued

\* Every step keeps the operations where their states say.
LEMMA NextBase == ASSUME CountingLaws, Base, [Next]_vars PROVE Base'
BY Zenon, PostBase, TakeBase, ServeBase, CompletesBase, WaitsBase, FinishBase, PostIoBase,
   BackOffBase, MoreBase, DoneBase, DelayedBase, StutterBase DEF Next, Coalesce
-----------------------------------------------------------------------------
(***************************************************************************)
(* The slots for I/O.                                                      *)
(***************************************************************************)
HasSlot(o) == HoldsSlot(o) \/ st[o] = "refused"

\* Steps that take no slot and give none up.
SlotSame(p) ==
  /\ HasSlot(p)' <=> HasSlot(p)
  /\ st[p] \in {"backing", "completed", "lost"} => st'[p] = st[p]
  /\ st'[p] = "backing" => st[p] = "backing"
LEMMA SlotsSame ==
  ASSUME SlotInv, UNCHANGED <<ios, ready, seen>>, \A p \in Op : SlotSame(p)
  PROVE  SlotInv'
<1>1. Slots' = Slots
  BY Zenon DEF Slots, SlotSame, HasSlot
<1>2. Untouched' => Untouched
  BY Zenon DEF Untouched, SlotSame
<1>3. \A o \in Op : seen'[o] # 0 => st'[o] \in {"backing", "completed", "lost"}
  BY Zenon DEF SlotInv, SlotSame
<1> QED
  BY Zenon, <1>1, <1>2, <1>3 DEF SlotInv, SlotSame

\* Neither the dbpf thread nor a callback has taken or given up a slot before its end.
LEMMA ThreadSlots ==
  ASSUME Base, SlotInv, Take \/ Serve \/ \E o \in Op : Post(o)
  PROVE  SlotInv'
<1>1. UNCHANGED <<ios, ready, seen>>
  BY Zenon DEF Take, Serve, Post, ioVars
<1>2. PICK o \in Op : /\ st[o] \in {"free", "queued", "service"}
                      /\ st'[o] \in {"queued", "service", "served"}
                      /\ \A p \in Op \ {o} : st'[p] = st[p] /\ kind'[p] = kind[p]
                      /\ UNCHANGED ending
  <2>1. CASE Take
    <3>1. Head(dbpf_op_queue) \in Op /\ st[Head(dbpf_op_queue)] = "queued"
      BY Zenon, <2>1, First DEF Take, Base, TypeOK, Lines
    <3>2. st' = [st EXCEPT ![Head(dbpf_op_queue)] = "service"] /\ UNCHANGED <<kind, ending>>
      BY Zenon, <2>1 DEF Take
    <3> QED
      BY Zenon, <3>1, <3>2 DEF Base, TypeOK
  <2>2. CASE Serve
    BY Zenon, <2>2, Funs DEF Serve
  <2>3. CASE \E o \in Op : Post(o)
    BY Zenon, <2>3 DEF Post, Base, TypeOK
  <2> QED
    BY Zenon, <2>1, <2>2, <2>3
<1>3. ASSUME NEW p \in Op PROVE SlotSame(p)
  <2>1. o \notin ending
    BY Zenon, <1>2, NotThere
  <2> QED
    BY Zenon, <1>2, <2>1 DEF SlotSame, HasSlot, HoldsSlot
<1> QED
  BY Zenon, <1>1, <1>3, SlotsSame

LEMMA CoalesceSlots == ASSUME Base, SlotInv, NEW o \in Op, Coalesce(o) PROVE SlotInv'
<1>1. /\ UNCHANGED <<ios, ready, seen, kind>> /\ st[o] \in {"served", "sized"}
      /\ st[o] = "served" <=> thread = o
      /\ st[o] = "sized" <=> IsIo(kind[o])
  BY Zenon DEF Coalesce, ioVars, Base, Placed, OpOk, InThread
<1>2. /\ st'[o] \in {"completed", "syncing", "coalesced"}
      /\ \A p \in Op \ {o} : st'[p] = st[p] /\ (p \in ending' <=> p \in ending)
      /\ st'[o] = "syncing" => UNCHANGED ending
      /\ st'[o] # "syncing" => Returns(o)
  BY Zenon, ReturnsWhere DEF Coalesce, NoSync, Unsynced, StartSync, Delay, Completed, Base, TypeOK
<1>3. SlotSame(o)
  BY Zenon, <1>1, <1>2, NotThere, ReturnsWhere DEF SlotSame, HasSlot, HoldsSlot
<1>4. \A p \in Op \ {o} : SlotSame(p)
  BY Zenon, <1>1, <1>2 DEF SlotSame, HasSlot, HoldsSlot
<1> QED
  BY Zenon, <1>1, <1>3, <1>4, SlotsSame

LEMMA FinishSlots == ASSUME Base, SlotInv, NEW d \in Db, FinishSync(d) PROVE SlotInv'
<1>1. /\ syncing[d] # None /\ st' = Completed({syncing[d].op} \cup sync_queue[d])
      /\ Returns(syncing[d].op) /\ UNCHANGED <<ios, ready, seen, kind>>
  BY Zenon DEF FinishSync, ioVars
<1>2. PICK o \in Op : o = syncing[d].op /\ Syncs(o, d)
  BY <1>1 DEF Base, TypeOK, Gathered
<1>3. /\ st[o] = "syncing" /\ o \notin ending /\ (thread = o <=> ~IsIo(kind[o]))
  BY Zenon, <1>2, NotThere DEF Base, Placed, OpOk, InThread, Syncs
<1>4. \A p \in sync_queue[d] : st[p] = "coalesced"
  BY Zenon DEF Base, Gathered, Waiting
<1>5. SlotSame(o)
  BY Zenon, <1>1, <1>2, <1>3, ReturnsWhere DEF SlotSame, HasSlot, HoldsSlot, Completed
<1>6. \A p \in Op \ {o} : SlotSame(p)
  BY Zenon, <1>1, <1>2, <1>4, ReturnsWhere DEF SlotSame, HasSlot, HoldsSlot, Completed
<1> QED
  BY Zenon, <1>1, <1>5, <1>6, SlotsSame

LEMMA DoneSlots == ASSUME Base, SlotInv, NEW o \in Op, AioRead(o) \/ AioWrite(o) PROVE SlotInv'
<1>1. /\ UNCHANGED <<ios, ready, seen, kind>> /\ st[o] = "inflight"
      /\ \A p \in Op \ {o} : st'[p] = st[p] /\ (p \in ending' <=> p \in ending)
      /\ st'[o] = "sized" \/ (st'[o] = "completed" /\ o \in ending')
  BY Zenon, Funs DEF AioRead, AioWrite, ioVars, Completed
<1>2. \A p \in Op : SlotSame(p)
  BY Zenon, <1>1 DEF SlotSame, HasSlot, HoldsSlot
<1> QED
  BY Zenon, <1>1, <1>2, SlotsSame

\* Giving back the slot of a refused I/O ends what SlotInv speaks of.
LEMMA BackOffSlots ==
  ASSUME CountingLaws, Base, SlotInv, NEW o \in Op, BackOff(o) \/ BackedOff(o)
  PROVE  SlotInv'
<1>1. CASE BackOff(o)
  <2>1. /\ st[o] = "refused" /\ seen'[o] = ios /\ st'[o] = "backing"
        /\ \A p \in Op \ {o} : seen'[p] = seen[p] /\ st'[p] = st[p]
    BY Zenon, <1>1 DEF BackOff, Base, TypeOK
  <2>2. seen[o] = 0
    BY Zenon, <2>1 DEF SlotInv
  <2>3. ASSUME Untouched' PROVE FALSE
    <3>1. Untouched /\ o \in Slots /\ Slots \in SUBSET Op
      BY Zenon, <2>1, <2>2, <2>3 DEF Untouched, Slots
    <3>2. ios # 0
      BY Zenon, <3>1 DEF SlotInv, CountingLaws
    <3> QED
      BY Zenon, <2>1, <2>3, <3>2 DEF Untouched
  <2> QED
    BY Zenon, <2>1, <2>3 DEF SlotInv
<1>2. CASE BackedOff(o)
  <2>1. /\ st[o] = "backing" /\ UNCHANGED seen /\ \A p \in Op \ {o} : st'[p] = st[p]
        /\ st'[o] \in {"completed", "lost"}
    BY Zenon, <1>2 DEF BackedOff, Base, TypeOK
  <2>2. Untouched' => Untouched
    BY Zenon, <2>1 DEF Untouched
  <2> QED
    BY Zenon, <2>1, <2>2 DEF SlotInv
<1> QED
  BY Zenon, <1>1, <1>2

\* An I/O is issued, with a slot of its own, or delayed.
LEMMA IssueSlots ==
  ASSUME CountingLaws, Base, SlotInv, NEW o \in Op, PostIo(o) \/ AioMore(o) PROVE SlotInv'
<1> DEFINE n == IF st[o] = "free" THEN ios ELSE ios - 1
<1>1. /\ st[o] \in {"free", "inflight"} /\ IssueOrDelay(o, n) /\ UNCHANGED <<seen, ending, dbpf_op_queue>>
      /\ \A p \in Op \ {o} : kind'[p] = kind[p]
  BY Zenon DEF PostIo, AioMore, Base, TypeOK, metaVars
<1>2. n \in Int /\ ios \in Int
  BY DEF Base, TypeOK
<1> HIDE DEF n
<1>3. /\ st'[o] \in {"inflight", "refused", "delayed"}
      /\ \A p \in Op \ {o} : st'[p] = st[p] /\ (HasSlot(p)' <=> HasSlot(p))
      /\ o \notin ending
  BY Zenon, <1>1, <1>2, IssueWhere, NotThere DEF HasSlot, HoldsSlot
<1>4. HasSlot(o)' <=> st'[o] # "delayed"
  BY Zenon, <1>1, <1>3 DEF HasSlot, HoldsSlot
<1>5. HasSlot(o) <=> st[o] = "inflight"
  BY Zenon, <1>1, <1>3 DEF HasSlot, HoldsSlot
<1>6. \A p \in Op : seen'[p] # 0 => st'[p] \in {"backing", "completed", "lost"}
  BY Zenon, <1>1, <1>3 DEF SlotInv
<1>7. ASSUME Untouched'
      PROVE  /\ \A p \in Op : st'[p] # "backing"
             /\ ios' = Cardinality(Slots') /\ ios' <= MaxIo
             /\ ready' # <<>> => ios' = MaxIo
  <2>1. Untouched
    BY Zenon, <1>1, <1>3, <1>7 DEF Untouched
  <2>2. /\ \A p \in Op : st[p] # "backing"
        /\ ios = Cardinality(Slots) /\ ios <= MaxIo /\ (ready # <<>> => ios = MaxIo)
    BY Zenon, <2>1 DEF SlotInv
  <2>3. \/ n < MaxIo /\ ios' = n + 1 /\ st'[o] # "delayed" /\ ready' = ready
        \/ n >= MaxIo /\ ios' = n /\ st'[o] = "delayed" /\ ready' = Append(ready, o)
    BY Zenon, <1>1 DEF IssueOrDelay, Base, TypeOK
  <2>4. Slots' = IF st'[o] = "delayed" THEN Slots \ {o} ELSE Slots \cup {o}
    BY Zenon, <1>3, <1>4 DEF Slots, HasSlot
  <2>5. o \in Slots <=> st[o] = "inflight"
    BY Zenon, <1>5 DEF Slots, HasSlot
  <2>6. Slots \in SUBSET Op /\ MaxIo \in Nat
    BY Zenon, IoAssumption DEF Slots
  <2> SUFFICES ios' = Cardinality(Slots') /\ ios' <= MaxIo /\ (ready' # <<>> => ios' = MaxIo)
    BY Zenon, <1>3, <2>2
  <2>7. CASE st[o] = "free"
    <3>1. n = ios /\ o \notin Slots
      BY Zenon, <2>5, <2>7 DEF n
    <3>2. Cardinality(Slots \cup {o}) = Cardinality(Slots) + 1 /\ Slots \ {o} = Slots
      BY Zenon, <2>6, <3>1 DEF CountingLaws
    <3>3. CASE n < MaxIo /\ ios' = n + 1 /\ st'[o] # "delayed" /\ ready' = ready
      <4>1. Cardinality(Slots') = Cardinality(Slots) + 1
        BY Zenon, <2>4, <3>2, <3>3
      <4> QED
        BY <1>2, <2>2, <2>6, <3>1, <3>3, <4>1
    <3>4. CASE n >= MaxIo /\ ios' = n /\ st'[o] = "delayed"
      <4>1. Slots' = Slots
        BY Zenon, <2>4, <3>2, <3>4
      <4> QED
        BY <1>2, <2>2, <2>6, <3>1, <3>4, <4>1
    <3> QED
      BY Zenon, <2>3, <3>3, <3>4
  <2>8. CASE st[o] = "inflight"
    <3>1. n = ios - 1 /\ Slots \cup {o} = Slots
      BY Zenon, <2>5, <2>8 DEF n
    <3>2. n < MaxIo /\ ~(n >= MaxIo) /\ n + 1 = ios
      BY <1>2, <2>2, <2>6, <3>1
    <3>3. Slots' = Slots /\ ios' = ios /\ ready' = ready
      BY Zenon, <2>3, <2>4, <3>1, <3>2
    <3> QED
      BY Zenon, <2>2, <3>3
  <2> QED
    BY Zenon, <1>1, <2>7, <2>8
<1> QED
  BY Zenon, <1>6, <1>7 DEF SlotInv

\* A callback gives its slot to the oldest delayed operation, if there is one.
LEMMA DelayedSlots ==
  ASSUME CountingLaws, Base, SlotInv, NEW o \in Op, StartDelayed(o) PROVE SlotInv'
<1>1. /\ o \in ending /\ ending' = ending \ {o} /\ UNCHANGED <<seen, kind>>
      /\ st[o] \in {"coalesced", "completed"} /\ ios \in Int
  BY Zenon DEF StartDelayed, Base, Placed, OpOk, TypeOK
<1>2. o \in Slots /\ Slots \in SUBSET Op
  BY Zenon, <1>1 DEF Slots, HoldsSlot
<1>3. CASE ready = <<>>
  <2>1. ios' = ios - 1 /\ UNCHANGED <<ready, st>>
    BY Zenon, <1>3 DEF StartDelayed
  <2>2. Slots' = Slots \ {o}
    BY Zenon, <1>1, <2>1 DEF Slots, HoldsSlot
  <2>3. Cardinality(Slots') = Cardinality(Slots) - 1
    BY Zenon, <1>2, <2>2 DEF CountingLaws
  <2>4. Untouched' => Untouched
    BY Zenon, <1>1, <2>1 DEF Untouched
  <2>5. Untouched' => ios' = Cardinality(Slots') /\ ios' <= MaxIo
    BY <1>1, <2>1, <2>3, <2>4, IoAssumption DEF SlotInv
  <2> QED
    BY Zenon, <1>1, <1>3, <2>1, <2>4, <2>5 DEF SlotInv
<1>4. CASE ready # <<>>
  <2>1. PICK h \in Op : h = Head(ready) /\ st[h] = "delayed"
    BY Zenon, <1>4, First DEF Base, TypeOK, Lines
  <2>2. \/ st'[h] = "inflight" /\ ios' = ios
        \/ st'[h] = "lost"
    BY Zenon, <1>4, <2>1 DEF StartDelayed, Base, TypeOK
  <2>3. \A p \in Op \ {h} : st'[p] = st[p]
    BY Zenon, <1>4, <2>1 DEF StartDelayed, Base, TypeOK
  <2>4. \A p \in Op : seen'[p] # 0 => st'[p] \in {"backing", "completed", "lost"}
    BY Zenon, <1>1, <2>1, <2>3 DEF SlotInv
  <2>5. ASSUME Untouched'
        PROVE  /\ \A p \in Op : st'[p] # "backing"
               /\ ios' = Cardinality(Slots') /\ ios' = MaxIo
    <3>1. st'[h] = "inflight" /\ ios' = ios /\ Untouched
      BY Zenon, <1>1, <2>1, <2>2, <2>3, <2>5 DEF Untouched
    <3>2. h \notin Slots /\ h # o /\ h \notin ending
      BY Zenon, <1>1, <2>1, NotThere DEF Slots, HoldsSlot
    <3>3. Slots' = (Slots \ {o}) \cup {h}
      <4>1. \A p \in Op \ {o, h} : p \in Slots' <=> p \in Slots
        BY Zenon, <1>1, <2>3 DEF Slots, HoldsSlot
      <4>2. o \notin Slots' /\ h \in Slots'
        BY Zenon, <1>1, <2>3, <3>1, <3>2 DEF Slots, HoldsSlot
      <4>3. Slots' \subseteq Op /\ Slots \subseteq Op
        BY Zenon DEF Slots
      <4> QED
        BY Zenon, <4>1, <4>2, <4>3
    <3>4. /\ Slots \ {o} \in SUBSET Op /\ h \in Op \ (Slots \ {o})
          /\ Cardinality(Slots \ {o}) = Cardinality(Slots) - 1
      BY Zenon, <1>2, <3>2 DEF CountingLaws
    <3>5. /\ Cardinality((Slots \ {o}) \cup {h}) = Cardinality(Slots \ {o}) + 1
          /\ Cardinality(Slots) \in Nat
      BY Zenon, <1>2, <3>4 DEF CountingLaws
    <3>6. Cardinality(Slots') = Cardinality(Slots)
      BY <3>3, <3>4, <3>5
    <3> QED
      BY Zenon, <1>4, <2>3, <3>1, <3>6 DEF SlotInv
  <2> QED
    BY <2>4, <2>5, IoAssumption DEF SlotInv
<1> QED
  BY Zenon, <1>3, <1>4

\* No step changes the count of the slots but with the slots.
LEMMA NextSlots == ASSUME CountingLaws, Base, SlotInv, [Next]_vars PROVE SlotInv'
<1>1. CASE UNCHANGED vars
  BY Zenon, <1>1 DEF vars, ioVars, SlotInv, Untouched, Slots, HoldsSlot
<1> QED
  BY Zenon, <1>1, ThreadSlots, CoalesceSlots, FinishSlots, DoneSlots, BackOffSlots, IssueSlots,
     DelayedSlots DEF Next
-----------------------------------------------------------------------------
(***************************************************************************)
(* The sync queue and the low watermark.                                   *)
(***************************************************************************)
\* It is still to be coalesced.
ToCome(o, d) ==
  /\ st[o] \in {"queued", "service", "served", "syncing"}
  /\ DoesSync(kind[o]) /\ kind[o].sync /\ Context(kind[o]) = d

\* Steps that coalesce nothing.
LEMMA StillToCome ==
  ASSUME NothingStuck, UNCHANGED sync_queue, \A o \in Op, d \in Db : ToCome(o, d) => ToCome(o, d)'
  PROVE  NothingStuck'
BY Zenon DEF NothingStuck, ToCome

LEMMA OthersStuck ==
  ASSUME Base, NothingStuck,
         \/ Take \/ Serve
         \/ \E o \in Op : \/ Post(o) \/ PostIo(o) \/ BackOff(o) \/ BackedOff(o) \/ AioMore(o)
                          \/ AioRead(o) \/ AioWrite(o) \/ StartDelayed(o)
  PROVE  NothingStuck'
<1>1. UNCHANGED sync_queue
  BY Zenon DEF Take, Serve, Post, PostIo, BackOff, BackedOff, AioMore, AioRead, AioWrite,
               StartDelayed, syncVars
<1>2. ASSUME NEW p \in Op, st[p] \in {"queued", "service", "served", "syncing"}
      PROVE  kind'[p] = kind[p] /\ st'[p] \in {"queued", "service", "served", "syncing"}
  <2>1. CASE Take
    <3>1. Head(dbpf_op_queue) \in Op
      BY Zenon, <2>1, First DEF Take, Base, TypeOK, Lines
    <3>2. st' = [st EXCEPT ![Head(dbpf_op_queue)] = "service"] /\ UNCHANGED kind
      BY Zenon, <2>1 DEF Take
    <3> QED
      BY Zenon, <1>2, <3>1, <3>2 DEF Base, TypeOK
  <2>2. CASE Serve
    BY Zenon, <1>2, <2>2 DEF Serve, Base, TypeOK
  <2>3. ASSUME NEW o \in Op, Post(o) \/ BackOff(o) \/ BackedOff(o) \/ AioRead(o) \/ AioWrite(o)
        PROVE  kind'[p] = kind[p] /\ st'[p] \in {"queued", "service", "served", "syncing"}
    <3>1. st[o] \in {"free", "refused", "backing", "inflight"}
      BY Zenon, <2>3 DEF Post, BackOff, BackedOff, AioRead, AioWrite
    <3>2. p # o
      BY Zenon, <1>2, <3>1
    <3>3. kind'[p] = kind[p] /\ st'[p] = st[p]
      BY Zenon, <2>3, <3>2, Funs DEF Post, BackOff, BackedOff, AioRead, AioWrite, Completed
    <3> QED
      BY Zenon, <1>2, <3>3
  <2>4. ASSUME NEW o \in Op, PostIo(o) \/ AioMore(o)
        PROVE  kind'[p] = kind[p] /\ st'[p] \in {"queued", "service", "served", "syncing"}
    <3>1. st[o] \in {"free", "inflight"}
      BY Zenon, <2>4 DEF PostIo, AioMore
    <3>2. p # o
      BY Zenon, <1>2, <3>1
    <3>3. kind'[p] = kind[p] /\ st'[p] = st[p]
      BY Zenon, <2>4, <3>2 DEF PostIo, AioMore, IssueOrDelay, Base, TypeOK
    <3> QED
      BY Zenon, <1>2, <3>3
  <2>5. ASSUME NEW o \in Op, StartDelayed(o)
        PROVE  kind'[p] = kind[p] /\ st'[p] \in {"queued", "service", "served", "syncing"}
    <3>1. ready # <<>> => Head(ready) \in Op /\ st[Head(ready)] = "delayed"
      BY Zenon, First DEF Base, TypeOK, Lines
    <3>2. UNCHANGED kind /\ st'[p] = st[p]
      BY Zenon, <1>2, <2>5, <3>1 DEF StartDelayed, Base, TypeOK
    <3> QED
      BY Zenon, <1>2, <3>2
  <2> QED
    BY Zenon, <2>1, <2>2, <2>3, <2>4, <2>5
<1>3. ASSUME NEW o \in Op, NEW d \in Db, ToCome(o, d) PROVE ToCome(o, d)'
  BY Zenon, <1>2, <1>3 DEF ToCome
<1> QED
  BY Zenon, <1>1, <1>3, StillToCome

\* dbpf_sync_coalesce: below the low watermark nobody is put aside.
LEMMA CoalesceStuck ==
  ASSUME CountingLaws, OneCollection, Base, NothingStuck, NEW o \in Op, Coalesce(o)
  PROVE  NothingStuck'
<1>1. st[o] \in {"served", "sized"} /\ kind[o] \in Kind /\ UNCHANGED kind
  BY Zenon, NotThere DEF Coalesce
<1>2. \A p \in Op \ {o} : st'[p] = st[p]
  BY Zenon DEF Coalesce, NoSync, Unsynced, StartSync, Delay, Completed, Base, TypeOK
<1>3. CASE NoSync(o)
  <2>1. UNCHANGED sync_queue /\ \A d \in Db : ~ToCome(o, d)
    BY Zenon, <1>3 DEF NoSync, ToCome, syncVars
  <2> QED
    BY Zenon, <1>1, <1>2, <2>1, StillToCome DEF ToCome
<1>4. CASE Unsynced(o)
  <2>1. UNCHANGED sync_queue /\ kind[o].coll \notin meta_sync
    BY Zenon, <1>4 DEF Unsynced
  <2>2. ASSUME NEW d \in Db, NEW p \in sync_queue[d] PROVE FALSE
    <3>1. p \in Op /\ Waiting(p, d)
      BY Zenon, <2>2 DEF Base, TypeOK, Gathered
    <3>2. kind[p] \in Kind /\ kind[p].coll \in meta_sync
      BY Zenon, <3>1, NotThere DEF Waiting
    <3> QED
      BY Zenon, <1>1, <2>1, <3>2 DEF OneCollection
  <2> QED
    BY Zenon, <2>1, <2>2 DEF NothingStuck
<1>5. CASE StartSync(o)
  <2>1. UNCHANGED sync_queue /\ st'[o] = "syncing"
    BY Zenon, <1>5 DEF StartSync, Base, TypeOK
  <2> QED
    BY Zenon, <1>1, <1>2, <2>1, StillToCome DEF ToCome
<1>6. CASE Delay(o)
  <2>1. PICK d \in Db : /\ d = Context(kind[o]) /\ ~(sync_counter[d] < Low)
                        /\ \A e \in Db \ {d} : sync_queue'[e] = sync_queue[e]
    BY Zenon, <1>1, <1>6, Kinds DEF Delay, WatermarkReached, Base, TypeOK
  <2>2. sync_counter[d] # 0
    BY <2>1, WatermarkAssumption DEF Base, TypeOK
  <2>3. PICK q \in Op : st[q] = "queued" /\ CountedFor(kind[q], d)
    <3>1. Queued(d) \in SUBSET Op /\ Cardinality(Queued(d)) # 0
      BY Zenon, <2>1, <2>2 DEF Queued, Base, Counts
    <3>2. Queued(d) # {}
      BY Zenon, <3>1 DEF CountingLaws
    <3> QED
      BY Zenon, <3>2 DEF Queued
  <2>4. ToCome(q, d)'
    BY Zenon, <1>1, <1>2, <2>3 DEF ToCome, CountedFor
  <2>5. ASSUME NEW e \in Db \ {d}, sync_queue'[e] # {} PROVE \E p \in Op : ToCome(p, e)'
    <3>1. PICK p \in Op : ToCome(p, e)
      BY Zenon, <2>1, <2>5 DEF NothingStuck, ToCome
    <3>2. p # o
      BY Zenon, <2>1, <2>5, <3>1 DEF ToCome
    <3> QED
      BY Zenon, <1>1, <1>2, <3>1, <3>2 DEF ToCome
  <2>6. ASSUME NEW e \in Db, sync_queue'[e] # {} PROVE \E p \in Op : ToCome(p, e)'
    BY Zenon, <2>4, <2>5, <2>6
  <2> QED
    BY Zenon, <2>6 DEF NothingStuck, ToCome
<1> QED
  BY Zenon, <1>3, <1>4, <1>5, <1>6 DEF Coalesce

\* A sync empties the queue of its database.
LEMMA FinishStuck == ASSUME Base, NothingStuck, NEW d \in Db, FinishSync(d) PROVE NothingStuck'
<1>1. /\ syncing[d] # None /\ st' = Completed({syncing[d].op} \cup sync_queue[d])
      /\ UNCHANGED kind /\ sync_queue' = [sync_queue EXCEPT ![d] = {}]
  BY Zenon DEF FinishSync
<1>2. /\ Syncs(syncing[d].op, d) /\ \A p \in sync_queue[d] : Waiting(p, d)
  BY Zenon, <1>1 DEF Base, Gathered
<1>3. ASSUME NEW e \in Db, sync_queue'[e] # {} PROVE \E p \in Op : ToCome(p, e)'
  <2>1. e # d /\ sync_queue[e] # {}
    BY Zenon, <1>1, <1>3 DEF Base, TypeOK
  <2>2. PICK p \in Op : ToCome(p, e)
    BY Zenon, <2>1 DEF NothingStuck, ToCome
  <2>3. p \notin {syncing[d].op} \cup sync_queue[d]
    BY Zenon, <1>2, <2>1, <2>2 DEF ToCome, Syncs, Waiting
  <2> QED
    BY Zenon, <1>1, <2>2, <2>3 DEF ToCome, Completed
<1> QED
  BY Zenon, <1>3 DEF NothingStuck, ToCome

LEMMA NextStuck ==
  ASSUME CountingLaws, OneCollection, Base, NothingStuck, [Next]_vars PROVE NothingStuck'
<1>1. CASE UNCHANGED vars
  BY Zenon, <1>1 DEF vars, syncVars, NothingStuck
<1> QED
  BY Zenon, <1>1, OthersStuck, CoalesceStuck, FinishStuck DEF Next
-----------------------------------------------------------------------------
(***************************************************************************)
(* What a sync writes, and the size of a datafile.                         *)
(***************************************************************************)
\* What was posted stays posted, as what it was.
Posted(p) == st[p] # "free" => st'[p] # "free" /\ kind'[p] = kind[p]
LEMMA StaysPosted == ASSUME Base, Next PROVE \A p \in Op : Posted(p)
<1> SUFFICES ASSUME NEW p \in Op, st[p] # "free" PROVE st'[p] # "free" /\ kind'[p] = kind[p]
  BY Zenon DEF Posted
<1>1. CASE Take
  <2>1. /\ Head(dbpf_op_queue) \in Op /\ UNCHANGED kind
        /\ st' = [st EXCEPT ![Head(dbpf_op_queue)] = "service"]
    BY Zenon, <1>1, First DEF Take, Base, TypeOK, Lines
  <2> QED
    BY Zenon, <2>1 DEF Base, TypeOK
<1>2. CASE Serve
  BY Zenon, <1>2 DEF Serve, Base, TypeOK
<1>3. ASSUME NEW o \in Op, Post(o) \/ BackOff(o) \/ BackedOff(o) \/ AioRead(o) \/ AioWrite(o)
      PROVE  st'[p] # "free" /\ kind'[p] = kind[p]
  BY Zenon, <1>3, Funs DEF Post, BackOff, BackedOff, AioRead, AioWrite, Completed
<1>4. ASSUME NEW o \in Op, PostIo(o) \/ AioMore(o)
      PROVE  st'[p] # "free" /\ kind'[p] = kind[p]
  BY Zenon, <1>4 DEF PostIo, AioMore, IssueOrDelay, Base, TypeOK
<1>5. ASSUME NEW o \in Op, StartDelayed(o) PROVE st'[p] # "free" /\ kind'[p] = kind[p]
  <2>1. ready # <<>> => Head(ready) \in Op
    BY Zenon, First DEF Base, TypeOK, Lines
  <2> QED
    BY Zenon, <1>5, <2>1 DEF StartDelayed, Base, TypeOK
<1>6. ASSUME NEW o \in Op, Coalesce(o) PROVE st'[p] # "free" /\ kind'[p] = kind[p]
  BY Zenon, <1>6 DEF Coalesce, NoSync, Unsynced, StartSync, Delay, Completed, Base, TypeOK
<1>7. ASSUME NEW d \in Db, FinishSync(d) PROVE st'[p] # "free" /\ kind'[p] = kind[p]
  BY Zenon, <1>7 DEF FinishSync, Completed, Base, TypeOK
<1> QED
  BY Zenon, <1>1, <1>2, <1>3, <1>4, <1>5, <1>6, <1>7 DEF Next

\* A sync under way stays as it is while nobody of its database is coalesced.
LEMMA FlushingKept ==
  ASSUME Base, Base', NEW d \in Db, Flushing(d), \A p \in Op : Posted(p),
         syncing[d] # None => /\ syncing'[d] = syncing[d] /\ sync_queue'[d] = sync_queue[d]
                              /\ d = "dspace" => disk_size' = disk_size,
         syncing[d] = None => syncing'[d] = None,
         \A c \in Coll : b_size[c] <= b_size'[c],
         \A p \in dirty' : p \in dirty \/ st[p] \in {"service", "inflight"}
  PROVE  Flushing(d)'
<1> SUFFICES ASSUME syncing[d] # None PROVE Flushing(d)'
  BY Zenon DEF Flushing
<1>1. PICK o \in Op : o = syncing[d].op
  BY Zenon, SyncOf
<1>2. PICK F \in SUBSET Op : F = syncing[d].flushes
  BY Zenon, SyncOf
<1>3. PICK n \in Nat : n = syncing[d].size
  BY Zenon, SyncOf
<1>4. /\ st[o] = "syncing" /\ kind'[o] = kind[o] /\ kind[o].coll \in Coll
      /\ \A p \in sync_queue[d] : st[p] = "coalesced"
  BY Zenon, <1>1, NotThere, Kinds DEF Base, Gathered, Waiting, Syncs, Posted
<1>5. /\ \A p \in dirty : p = o \/ p \in sync_queue[d] => p \in F
      /\ \A p \in F : st[p] # "free" /\ Context(kind[p]) = d /\ kind[p].coll = kind[o].coll
  BY Zenon, <1>1, <1>2 DEF Flushing
<1>6. \A p \in dirty' : p = o \/ p \in sync_queue'[d] => p \in F
  BY Zenon, <1>4, <1>5
<1>7. \A p \in F : st'[p] # "free" /\ kind'[p] = kind[p]
  BY Zenon, <1>5 DEF Posted
<1>8. ASSUME d = "dspace"
      PROVE  LET c == kind[o].coll IN
             /\ disk_size'[c] <= n /\ n <= b_size'[c]
             /\ \A p \in F : kind[p].type = "write" /\ kind[p].coll = c => kind[p].eor <= n
  <2>1. LET c == kind[o].coll IN
        /\ disk_size[c] <= n /\ n <= b_size[c] /\ disk_size' = disk_size
        /\ \A p \in F : kind[p].type = "write" /\ kind[p].coll = c => kind[p].eor <= n
    BY Zenon, <1>1, <1>2, <1>3, <1>8 DEF Flushing
  <2>2. /\ b_size[kind[o].coll] \in Nat /\ b_size'[kind[o].coll] \in Nat
        /\ b_size[kind[o].coll] <= b_size'[kind[o].coll]
    BY Zenon, <1>4 DEF Base, TypeOK
  <2>3. n <= b_size'[kind[o].coll]
    BY <2>1, <2>2
  <2> QED
    BY Zenon, <2>1, <2>3
<1>9. syncing'[d].op = o /\ syncing'[d].flushes = F /\ syncing'[d].size = n
  BY Zenon, <1>1, <1>2, <1>3
<1>10. \A p \in F : st'[p] # "free" /\ Context(kind'[p]) = d /\ kind'[p].coll = kind'[o].coll
  BY Zenon, <1>4, <1>5, <1>7
<1>11. d = "dspace" =>
         /\ disk_size'[kind'[o].coll] <= n /\ n <= b_size'[kind'[o].coll]
         /\ \A p \in F : kind'[p].type = "write" /\ kind'[p].coll = kind'[o].coll
                          => kind'[p].eor <= n
  BY Zenon, <1>4, <1>7, <1>8
<1> QED
  BY Zenon, <1>6, <1>9, <1>10, <1>11 DEF Flushing

\* A size stays covered while it is not changed and nothing is written.
LEMMA CoveredKept ==
  ASSUME Base, NEW c \in Coll, Covered(c), \A p \in Op : Posted(p), UNCHANGED <<b_size, disk_size>>,
         \A p \in dirty : kind[p].type = "write" /\ kind[p].coll = c => p \in dirty'
  PROVE  Covered(c)'
<1>1. \A p \in dirty : p \in Op /\ st[p] # "free" /\ kind'[p] = kind[p]
  BY Zenon, NotThere DEF Base, TypeOK, Posted
<1> QED
  BY Zenon, <1>1 DEF Covered

\* A write that had set the size is still within it.
LEMMA WithinKept ==
  ASSUME Base, Base', NEW p \in Op, Within(p), Posted(p), Grown(p),
         \A c \in Coll : b_size[c] <= b_size'[c]
  PROVE  Within(p)'
<1>1. st[p] # "free" /\ kind[p] \in Kind /\ kind'[p] = kind[p]
  BY Zenon, NotThere DEF Grown, Posted
<1>2. /\ kind[p].eor \in Nat /\ kind[p].coll \in Coll /\ b_size[kind[p].coll] \in Nat
      /\ b_size'[kind[p].coll] \in Nat /\ b_size[kind[p].coll] <= b_size'[kind[p].coll]
      /\ kind[p].eor <= b_size[kind[p].coll]
  BY Zenon, <1>1, Kinds DEF Base, TypeOK, Within
<1>3. kind[p].eor <= b_size'[kind[p].coll]
  BY <1>2
<1> QED
  BY Zenon, <1>1, <1>3 DEF Within

\* Steps that neither start nor end a sync.
LEMMA Quiet ==
  ASSUME Base, Base', SyncInv, \A p \in Op : Posted(p), UNCHANGED meta_sync,
         \A d \in Db : syncing'[d] = syncing[d]
                       /\ (syncing[d] # None => sync_queue'[d] = sync_queue[d]),
         syncing["dspace"] # None => disk_size' = disk_size,
         \A c \in Coll : b_size[c] <= b_size'[c],
         \A p \in dirty' : p \in dirty \/ st[p] \in {"service", "inflight"},
         \A p \in dirty' : st'[p] = "completed" => \/ p \in dirty /\ st[p] = "completed"
                                                   \/ ~kind'[p].sync
                                                   \/ kind'[p].coll \notin meta_sync,
         \A c \in Coll : Covered(c)',
         \A p \in Op : Grown(p)' => Grown(p) \/ Within(p)'
  PROVE  SyncInv'
<1>1. \A d \in Db : Flushing(d)'
  BY Zenon, FlushingKept DEF SyncInv
<1>2. \A p \in Op : Within(p)'
  BY Zenon, WithinKept DEF SyncInv, Within
<1>3. ASSUME NEW p \in dirty', (kind[p].sync /\ kind[p].coll \in meta_sync)'
      PROVE  st'[p] # "completed"
  <2> SUFFICES ASSUME st'[p] = "completed" PROVE FALSE
    BY Zenon
  <2>1. p \in dirty /\ st[p] = "completed"
    BY Zenon, <1>3
  <2>2. kind'[p] = kind[p]
    BY Zenon, <2>1 DEF Posted, Base, TypeOK
  <2> QED
    BY Zenon, <1>3, <2>1, <2>2 DEF SyncInv, SyncedBeforeReply
<1>4. SyncedBeforeReply'
  BY Zenon, <1>3 DEF SyncedBeforeReply
<1> QED
  BY Zenon, <1>1, <1>2, <1>4 DEF SyncInv

LEMMA SizeSame == ASSUME Base, UNCHANGED b_size PROVE \A c \in Coll : b_size[c] <= b_size'[c]
BY DEF Base, TypeOK

\* Steps that leave the databases alone.
LEMMA PlainSync ==
  ASSUME Base, Base', SyncInv, \A p \in Op : Posted(p),
         \/ Take
         \/ \E o \in Op : \/ Post(o) \/ PostIo(o) \/ BackOff(o) \/ BackedOff(o) \/ AioMore(o)
                          \/ AioRead(o) \/ StartDelayed(o)
  PROVE  SyncInv'
<1>1. UNCHANGED <<meta_sync, sync_queue, syncing, dirty, b_size, disk_size>>
  BY Zenon DEF Take, Post, PostIo, BackOff, BackedOff, AioMore, AioRead, StartDelayed, syncVars,
               sizeVars
<1> DEFINE Settled == {"sized", "syncing", "coalesced", "completed"}
           Kept(p) == /\ st[p] \in Settled \cup {"served"} => st'[p] = st[p]
                      /\ st'[p] \in Settled /\ ok'[p] /\ kind'[p].type = "write"
                           => st[p] \in Settled /\ ok[p] /\ kind[p].type = "write"
<1>2. ASSUME NEW p \in Op PROVE Kept(p)
  <2>1. CASE Take
    <3>1. /\ Head(dbpf_op_queue) \in Op /\ UNCHANGED <<kind, ok>> /\ st[Head(dbpf_op_queue)] = "queued"
          /\ st' = [st EXCEPT ![Head(dbpf_op_queue)] = "service"]
      BY Zenon, <2>1, First DEF Take, Base, TypeOK, Lines
    <3> QED
      BY Zenon, <3>1 DEF Base, TypeOK
  <2>2. ASSUME NEW o \in Op, Post(o) \/ BackOff(o) \/ BackedOff(o) PROVE Kept(p)
    <3>1. /\ st[o] \in {"free", "refused", "backing"}
          /\ st'[o] \in {"queued", "backing"} \/ ~ok'[o]
      BY Zenon, <2>2, Funs DEF Post, BackOff, BackedOff
    <3>2. p # o => st'[p] = st[p] /\ ok'[p] = ok[p] /\ kind'[p] = kind[p]
      BY Zenon, <2>2 DEF Post, BackOff, BackedOff, Base, TypeOK
    <3> QED
      BY Zenon, <3>1, <3>2
  <2>3. ASSUME NEW o \in Op, PostIo(o) \/ AioMore(o) PROVE Kept(p)
    <3>1. st[o] \in {"free", "inflight"} /\ st'[o] \in {"inflight", "refused", "delayed"}
      BY Zenon, <2>3, Funs DEF PostIo, AioMore, IssueOrDelay
    <3>2. p # o => st'[p] = st[p] /\ ok'[p] = ok[p] /\ kind'[p] = kind[p]
      BY Zenon, <2>3 DEF PostIo, AioMore, IssueOrDelay, Base, TypeOK
    <3> QED
      BY Zenon, <3>1, <3>2
  <2>4. ASSUME NEW o \in Op, AioRead(o) PROVE Kept(p)
    <3>1. /\ st[o] = "inflight" /\ kind[o].type = "read" /\ UNCHANGED kind
          /\ p # o => st'[p] = st[p] /\ ok'[p] = ok[p]
      BY Zenon, <2>4, Funs DEF AioRead, Completed
    <3>2. kind'[o].type # "write"
      BY Zenon, <3>1
    <3> QED
      BY Zenon, <3>1, <3>2
  <2>5. ASSUME NEW o \in Op, StartDelayed(o) PROVE Kept(p)
    <3>1. ready # <<>> => Head(ready) \in Op /\ st[Head(ready)] = "delayed"
      BY Zenon, First DEF Base, TypeOK, Lines
    <3>2. /\ UNCHANGED <<ok, kind>>
          /\ st'[p] = st[p] \/ (st[p] = "delayed" /\ st'[p] \in {"inflight", "lost"})
      BY Zenon, <2>5, <3>1 DEF StartDelayed, Base, TypeOK
    <3> QED
      BY Zenon, <3>2
  <2> QED
    BY Zenon, <2>1, <2>2, <2>3, <2>4, <2>5
<1>3. \A p \in dirty : p \in Op /\ st'[p] = st[p]
  BY Zenon, <1>2 DEF Base, TypeOK, Placed, OpOk
<1>4. \A p \in Op : Grown(p)' => Grown(p)
  <2> SUFFICES ASSUME NEW p \in Op, Grown(p)' PROVE Grown(p)
    BY Zenon
  <2>1. CASE p \in dirty
    <3>1. st[p] # "free" /\ kind'[p] = kind[p]
      BY Zenon, <2>1, NotThere DEF Posted
    <3> QED
      BY Zenon, <2>1, <3>1 DEF Grown
  <2>2. CASE p \notin dirty
    BY Zenon, <1>1, <1>2, <2>2 DEF Grown
  <2> QED
    BY Zenon, <2>1, <2>2
<1> HIDE DEF Kept
<1>5. \A c \in Coll : Covered(c)'
  BY Zenon, <1>1, CoveredKept DEF SyncInv
<1> QED
  BY Zenon, <1>1, <1>3, <1>4, <1>5, SizeSame, Quiet

\* The thread changes a database.
LEMMA ServeSync ==
  ASSUME Base, Base', SyncInv, \A p \in Op : Posted(p), Serve PROVE SyncInv'
<1>1. PICK o \in Op : o = thread /\ st[o] = "service"
  BY Zenon DEF Serve, Base, TypeOK
<1>2. /\ UNCHANGED <<meta_sync, sync_queue, syncing, b_size, disk_size, kind>>
      /\ dirty \subseteq dirty' /\ dirty' \subseteq dirty \cup {o} /\ st'[o] = "served"
      /\ \A p \in Op \ {o} : st'[p] = st[p] /\ ok'[p] = ok[p]
  BY Zenon, <1>1 DEF Serve, syncVars, sizeVars, Base, TypeOK
<1>3. ~IsIo(kind[o]) /\ o \notin dirty
  BY Zenon, <1>1, NotThere DEF Base, Placed, OpOk
<1>4. \A p \in Op : Grown(p)' => Grown(p)
  BY Zenon, <1>2, <1>3 DEF Grown, IsIo
<1>5. \A c \in Coll : Covered(c)'
  BY Zenon, <1>2, CoveredKept DEF SyncInv
<1>6. \A p \in dirty' : /\ p \in dirty \/ st[p] \in {"service", "inflight"}
                        /\ st'[p] = "completed" => p \in dirty /\ st[p] = "completed"
  BY Zenon, <1>1, <1>2 DEF Base, TypeOK
<1> QED
  BY Zenon, <1>2, <1>4, <1>5, <1>6, SizeSame, Quiet

\* A write ends, and enlarges its datafile or not.
LEMMA WriteSync ==
  ASSUME Base, Base', SyncInv, \A p \in Op : Posted(p), NEW o \in Op, AioWrite(o) PROVE SyncInv'
<1> DEFINE Ended(found, grows) ==
             /\ ok' = [ok EXCEPT ![o] = found]
             /\ b_size' = IF grows THEN [b_size EXCEPT ![kind[o].coll] = kind[o].eor] ELSE b_size
             /\ dirty' = IF grows THEN dirty \cup {o} ELSE dirty
             /\ st' = [st EXCEPT ![o] = "sized"] \/ st' = Completed({o})
             /\ grows /\ kind[o].sync => st' = [st EXCEPT ![o] = "sized"]
<1>0. PICK found \in {TRUE, FALSE} : Ended(found, found /\ Enlarges(kind[o]))
  BY Zenon DEF AioWrite, MayFail
<1>1. /\ st[o] = "inflight" /\ kind[o].type = "write" /\ kind[o] \in Kind /\ o \notin dirty
      /\ UNCHANGED <<meta_sync, sync_queue, syncing, disk_size, kind>>
      /\ \A p \in Op \ {o} : st'[p] = st[p] /\ ok'[p] = ok[p]
  <2>1. /\ st[o] = "inflight" /\ kind[o].type = "write"
        /\ UNCHANGED <<meta_sync, sync_queue, syncing, disk_size, kind>>
    BY Zenon DEF AioWrite, syncVars
  <2>2. \A p \in Op \ {o} : st'[p] = st[p] /\ ok'[p] = ok[p]
    BY Zenon, <1>0, Funs DEF Completed
  <2> QED
    BY Zenon, <2>1, <2>2, NotThere
<1>2. PICK c \in Coll : c = kind[o].coll
  BY Zenon, <1>1, Kinds
<1>3. /\ kind[o].eor \in Nat /\ b_size \in [Coll -> Nat] /\ disk_size \in [Coll -> Nat]
  BY Zenon, <1>1, Kinds DEF Base, TypeOK
<1>4. \/ /\ kind[o].eor > b_size[c] /\ b_size' = [b_size EXCEPT ![c] = kind[o].eor]
         /\ dirty' = dirty \cup {o} /\ (st'[o] = "completed" => ~kind[o].sync)
      \/ /\ UNCHANGED <<b_size, dirty>> /\ (ok'[o] => ~(kind[o].eor > b_size[c]))
  <2>1. ok'[o] = found
    BY Zenon, <1>0 DEF Base, TypeOK
  <2>2. CASE found /\ Enlarges(kind[o])
    <3>1. /\ kind[o].eor > b_size[c] /\ b_size' = [b_size EXCEPT ![c] = kind[o].eor]
          /\ dirty' = dirty \cup {o} /\ (kind[o].sync => st' = [st EXCEPT ![o] = "sized"])
      BY Zenon, <1>0, <1>2, <2>2 DEF Enlarges
    <3>2. kind[o].sync => st'[o] = "sized"
      BY Zenon, <3>1 DEF Base, TypeOK
    <3> QED
      BY Zenon, <3>1, <3>2
  <2>3. CASE ~(found /\ Enlarges(kind[o]))
    BY Zenon, <1>0, <1>2, <2>1, <2>3 DEF Enlarges
  <2> QED
    BY Zenon, <2>2, <2>3
<1>5. \A a \in Coll : b_size[a] <= b_size'[a]
  BY <1>2, <1>3, <1>4
<1>6. Grown(o)' => kind[o].eor <= b_size'[c]
  <2>1. Grown(o)' => ok'[o] \/ o \in dirty'
    BY Zenon DEF Grown
  <2>2. b_size[c] \in Nat
    BY Zenon, <1>2, <1>3
  <2>3. CASE kind[o].eor > b_size[c] /\ b_size' = [b_size EXCEPT ![c] = kind[o].eor]
    <3>1. b_size'[c] = kind[o].eor
      BY Zenon, <1>2, <1>3, <2>3
    <3> QED
      BY <1>3, <3>1
  <2>4. CASE UNCHANGED <<b_size, dirty>> /\ (ok'[o] => ~(kind[o].eor > b_size[c]))
    <3>1. Grown(o)' => ~(kind[o].eor > b_size[c])
      BY Zenon, <1>1, <2>1, <2>4
    <3> QED
      BY <1>3, <2>2, <2>4, <3>1
  <2> QED
    BY Zenon, <1>4, <2>3, <2>4
<1>7. \A p \in Op : Grown(p)' => Grown(p) \/ Within(p)'
  <2>1. \A p \in Op \ {o} : Grown(p)' => Grown(p)
    BY Zenon, <1>1, <1>4 DEF Grown
  <2> QED
    BY Zenon, <1>1, <1>2, <1>6, <2>1 DEF Within
<1>8. ASSUME NEW a \in Coll PROVE Covered(a)'
  <2>1. CASE UNCHANGED <<b_size, dirty>>
    BY Zenon, <1>1, <2>1, CoveredKept DEF SyncInv
  <2>2. CASE /\ kind[o].eor > b_size[c] /\ b_size' = [b_size EXCEPT ![c] = kind[o].eor]
             /\ dirty' = dirty \cup {o}
    <3>1. Covered(a)
      BY Zenon DEF SyncInv
    <3>2. CASE a = c
      <4>1. b_size'[a] = kind[o].eor
        BY Zenon, <1>3, <2>2, <3>2
      <4>2. disk_size'[a] <= b_size'[a]
        BY <1>1, <1>2, <1>3, <2>2, <3>1, <3>2, <4>1 DEF Covered
      <4> QED
        BY Zenon, <1>1, <1>2, <2>2, <3>2, <4>1, <4>2 DEF Covered
    <3>3. CASE a # c
      BY Zenon, <1>1, <1>3, <2>2, <3>1, <3>3 DEF Covered
    <3> QED
      BY Zenon, <3>2, <3>3
  <2> QED
    BY Zenon, <1>4, <2>1, <2>2
<1>9. \A p \in dirty' : /\ p \in dirty \/ st[p] \in {"service", "inflight"}
                        /\ st'[p] = "completed" => (p \in dirty /\ st[p] = "completed") \/ ~kind'[p].sync
  <2> SUFFICES ASSUME NEW p \in dirty'
               PROVE  /\ p \in dirty \/ st[p] \in {"service", "inflight"}
                      /\ st'[p] = "completed" => (p \in dirty /\ st[p] = "completed") \/ ~kind'[p].sync
    BY Zenon
  <2>1. p \in Op /\ (p = o \/ p \in dirty)
    BY Zenon, <1>4 DEF Base, TypeOK
  <2>2. CASE p = o
    BY Zenon, <1>1, <1>4, <2>2
  <2>3. CASE p # o
    BY Zenon, <1>1, <2>1, <2>3
  <2> QED
    BY Zenon, <2>2, <2>3
<1> QED
  BY Zenon, <1>1, <1>5, <1>7, <1>8, <1>9, Quiet

\* dbpf_sync_coalesce completes an operation, and may sync on the way.
LEMMA CompletesSync ==
  ASSUME Base, Base', SyncInv, \A p \in Op : Posted(p), NEW o \in Op, Coalesce(o),
         NoSync(o) \/ Unsynced(o) \/ Delay(o)
  PROVE  SyncInv'
<1>1. /\ st[o] \in {"served", "sized"} /\ st'[o] \in {"completed", "coalesced"}
      /\ UNCHANGED <<meta_sync, kind, ok, syncing, b_size>> /\ dirty' \subseteq dirty
      /\ \A p \in Op \ {o} : st'[p] = st[p]
  BY Zenon DEF Coalesce, NoSync, Unsynced, Delay, syncVars, sizeVars, Completed, Base, TypeOK
<1>2. kind[o] \in Kind /\ kind[o].coll \in Coll /\ Context(kind[o]) \in Db
  BY Zenon, <1>1, NotThere, Kinds
<1>3. \A d \in Db : syncing[d] # None => sync_queue'[d] = sync_queue[d]
  BY Zenon, <1>2 DEF NoSync, Unsynced, Delay, syncVars, Base, TypeOK
<1>4. syncing["dspace"] # None => disk_size' = disk_size
  BY Zenon DEF NoSync, Unsynced, Delay, sizeVars
<1>5. \A p \in Op : Grown(p)' => Grown(p)
  <2>1. st[o] = "served" => ~IsIo(kind[o])
    BY Zenon DEF Base, Placed, OpOk
  <2> QED
    BY Zenon, <1>1, <2>1 DEF Grown, IsIo
<1>6. ASSUME NEW c \in Coll PROVE Covered(c)'
  <2>1. Covered(c)
    BY Zenon DEF SyncInv
  <2>2. CASE UNCHANGED <<dirty, disk_size>>
    BY Zenon, <1>1, <2>1, <2>2, CoveredKept
  <2>3. CASE /\ dirty' = dirty \ Unflushed(Context(kind[o]), kind[o].coll)
             /\ disk_size' = IF Context(kind[o]) = "dspace"
                             THEN [disk_size EXCEPT ![kind[o].coll] = b_size[kind[o].coll]]
                             ELSE disk_size
    <3>1. CASE Context(kind[o]) = "dspace" /\ c = kind[o].coll
      <4>1. disk_size'[c] = b_size[c] /\ b_size[c] \in Nat
        BY Zenon, <2>3, <3>1 DEF Base, TypeOK
      <4>2. disk_size'[c] <= b_size'[c] /\ b_size'[c] <= disk_size'[c]
        BY <1>1, <4>1
      <4> QED
        BY Zenon, <4>2 DEF Covered
    <3>2. CASE ~(Context(kind[o]) = "dspace" /\ c = kind[o].coll)
      <4>1. disk_size'[c] = disk_size[c]
        BY Zenon, <2>3, <3>2 DEF Base, TypeOK
      <4>2. \A p \in dirty : kind[p].type = "write" /\ kind[p].coll = c => p \in dirty'
        BY Zenon, <2>3, <3>2 DEF Unflushed, Context
      <4> QED
        BY Zenon, <1>1, <2>1, <4>1, <4>2 DEF Covered
    <3> QED
      BY Zenon, <3>1, <3>2
  <2> QED
    BY Zenon, <2>2, <2>3 DEF NoSync, Unsynced, Delay, sizeVars
<1>7. ASSUME NEW p \in dirty', st'[p] = "completed"
      PROVE  (p \in dirty /\ st[p] = "completed") \/ ~kind'[p].sync \/ kind'[p].coll \notin meta_sync
  <2>1. p \in Op /\ p \in dirty /\ DoesSync(kind[p])
    BY Zenon, <1>1, <1>7 DEF Base, TypeOK, Placed, OpOk
  <2>2. CASE p # o
    BY Zenon, <1>1, <1>7, <2>1, <2>2
  <2>3. CASE p = o
    <3>1. CASE Delay(o)
      BY Zenon, <1>7, <2>3, <3>1 DEF Delay, Base, TypeOK
    <3> QED
      BY Zenon, <1>1, <2>1, <2>3, <3>1 DEF NoSync, Unsynced
  <2> QED
    BY Zenon, <2>2, <2>3
<1>8. \A p \in dirty' : p \in dirty
  BY Zenon, <1>1
<1> QED
  BY Zenon, <1>1, <1>3, <1>4, <1>5, <1>6, <1>7, <1>8, SizeSame, Quiet

\* A sync takes with it all that is to complete at its end.
LEMMA StartsSync ==
  ASSUME OneCollection, Base, Base', SyncInv, \A p \in Op : Posted(p), NEW o \in Op, Coalesce(o),
         StartSync(o)
  PROVE  SyncInv'
<1>1. /\ st[o] \in {"served", "sized"} /\ st'[o] = "syncing"
      /\ UNCHANGED <<meta_sync, kind, ok, b_size, disk_size, dirty, sync_queue>>
      /\ \A p \in Op \ {o} : st'[p] = st[p]
  BY Zenon DEF Coalesce, StartSync, sizeVars, Base, TypeOK
<1>2. PICK d \in Db : d = Context(kind[o])
  BY Zenon, <1>1, NotThere, Kinds
<1>3. PICK c \in Coll : c = kind[o].coll
  BY Zenon, <1>1, NotThere, Kinds
<1>4. PICK F : F = Unflushed(d, c)
  OBVIOUS
<1>5. /\ syncing[d] = None
      /\ syncing' = [syncing EXCEPT ![d] = [op |-> o, flushes |-> F, size |-> b_size[c]]]
  BY Zenon, <1>2, <1>3, <1>4 DEF StartSync
<1>6. /\ syncing'[d].op = o /\ syncing'[d].flushes = F /\ syncing'[d].size = b_size[c]
      /\ \A e \in Db \ {d} : syncing'[e] = syncing[e]
  BY <1>5 DEF Base, TypeOK
<1>7. Flushing(d)'
  <2>1. ASSUME NEW p \in dirty, p = o \/ p \in sync_queue[d] PROVE p \in F
    <3>1. p \in Op /\ Context(kind[p]) = d /\ kind[p] \in Kind
      BY Zenon, <1>1, <1>2, <2>1, NotThere DEF Base, TypeOK, Gathered, Waiting
    <3>2. kind[o] \in Kind
      BY Zenon, <1>1, NotThere
    <3> QED
      BY Zenon, <1>3, <1>4, <3>1, <3>2 DEF OneCollection, Unflushed
  <2>2. ASSUME NEW p \in F
        PROVE  /\ p \in dirty /\ st'[p] # "free" /\ Context(kind'[p]) = d
               /\ kind'[p].coll = kind'[o].coll
    <3>1. p \in dirty /\ p \in Op /\ Context(kind[p]) = d /\ kind[p].coll = c
      BY Zenon, <1>4, <2>2 DEF Unflushed, Base, TypeOK
    <3> QED
      BY Zenon, <1>1, <1>3, <3>1, NotThere DEF Posted
  <2>3. /\ disk_size'[c] <= b_size[c] /\ b_size[c] <= b_size'[c]
    BY Zenon, <1>1, SizeSame DEF SyncInv, Covered
  <2>4. ASSUME NEW p \in F, kind'[p].type = "write" /\ kind'[p].coll = c
        PROVE  kind'[p].eor <= b_size[c]
    BY Zenon, <1>1, <2>2, <2>4 DEF SyncInv, Within, Grown, Base, TypeOK
  <2> QED
    BY Zenon, <1>1, <1>3, <1>6, <2>1, <2>2, <2>3, <2>4 DEF Flushing
<1>8. \A e \in Db \ {d} : Flushing(e)'
  BY Zenon, <1>1, <1>6, FlushingKept, SizeSame DEF SyncInv
<1>9. SyncedBeforeReply'
  BY Zenon, <1>1 DEF SyncInv, SyncedBeforeReply, Base, TypeOK
<1>10. \A a \in Coll : Covered(a)'
  BY Zenon, <1>1, CoveredKept DEF SyncInv
<1>11. ASSUME NEW p \in Op PROVE Within(p)'
  <2>1. st[o] = "served" => ~IsIo(kind[o])
    BY Zenon DEF Base, Placed, OpOk
  <2>2. Grown(p)' => Grown(p)
    BY Zenon, <1>1, <2>1 DEF Grown, IsIo
  <2> QED
    BY Zenon, <1>1, <2>2, WithinKept, SizeSame DEF SyncInv, Within
<1> QED
  BY Zenon, <1>7, <1>8, <1>9, <1>10, <1>11 DEF SyncInv

\* A sync that goes well leaves nothing of what it completes in the cache.
LEMMA FinishesSync ==
  ASSUME "sync" \notin Faults, Base, Base', SyncInv, \A p \in Op : Posted(p),
         NEW d \in Db, FinishSync(d)
  PROVE  SyncInv'
<1>1. PICK o \in Op : o = syncing[d].op
  BY Zenon, SyncOf DEF FinishSync
<1>2. PICK F \in SUBSET Op : F = syncing[d].flushes
  BY Zenon, SyncOf DEF FinishSync
<1>3. PICK n \in Nat : n = syncing[d].size
  BY Zenon, SyncOf DEF FinishSync
<1>4. /\ syncing[d] # None /\ Syncs(o, d) /\ kind[o].coll \in Coll
  BY Zenon, <1>1, NotThere, Kinds DEF FinishSync, Base, Gathered, Syncs
<1>5. PICK c \in Coll : c = kind[o].coll
  BY Zenon, <1>4
<1>6. /\ dirty' = dirty \ F
      /\ disk_size' = IF d = "dspace" THEN [disk_size EXCEPT ![c] = n] ELSE disk_size
      /\ st' = Completed({o} \cup sync_queue[d])
      /\ sync_queue' = [sync_queue EXCEPT ![d] = {}]
      /\ syncing' = [syncing EXCEPT ![d] = None]
      /\ UNCHANGED <<meta_sync, kind, ok, b_size>>
  BY Zenon, <1>1, <1>2, <1>3, <1>5 DEF FinishSync, MayFail
<1>7. /\ \A p \in dirty : p = o \/ p \in sync_queue[d] => p \in F
      /\ \A p \in F : Context(kind[p]) = d /\ kind[p].coll = c
      /\ d = "dspace" => /\ disk_size[c] <= n /\ n <= b_size[c]
                         /\ \A p \in F : kind[p].type = "write" => kind[p].eor <= n
  BY Zenon, <1>1, <1>2, <1>3, <1>4, <1>5 DEF SyncInv, Flushing
<1>8. SyncedBeforeReply'
  <2> SUFFICES ASSUME NEW p \in dirty', kind[p].sync /\ kind[p].coll \in meta_sync
               PROVE  st'[p] # "completed"
    BY Zenon, <1>6 DEF SyncedBeforeReply
  <2>1. p \in Op /\ p \in dirty /\ p # o /\ p \notin sync_queue[d]
    BY Zenon, <1>6, <1>7 DEF Base, TypeOK
  <2>2. st'[p] = st[p]
    BY Zenon, <1>6, <2>1 DEF Completed
  <2> QED
    BY Zenon, <2>1, <2>2 DEF SyncInv, SyncedBeforeReply
<1>9. ASSUME NEW e \in Db PROVE Flushing(e)'
  <2>1. CASE e = d
    BY Zenon, <1>6, <2>1 DEF Flushing, Base, TypeOK
  <2>2. CASE e # d
    <3>1. /\ syncing'[e] = syncing[e] /\ sync_queue'[e] = sync_queue[e]
          /\ e = "dspace" => disk_size' = disk_size
      BY Zenon, <1>6, <2>2 DEF Base, TypeOK
    <3>2. \A p \in dirty' : p \in dirty
      BY Zenon, <1>6
    <3> QED
      BY Zenon, <1>6, <3>1, <3>2, FlushingKept, SizeSame DEF SyncInv
  <2> QED
    BY Zenon, <2>1, <2>2
<1>10. ASSUME NEW a \in Coll PROVE Covered(a)'
  <2>1. Covered(a)
    BY Zenon DEF SyncInv
  <2>2. CASE d = "dspace" /\ a = c
    <3>1. disk_size'[a] = n /\ b_size'[a] = b_size[a] /\ b_size[a] \in Nat /\ disk_size[a] \in Nat
      BY Zenon, <1>6, <2>2 DEF Base, TypeOK
    <3>2. CASE b_size[a] <= n
      BY Zenon, <1>7, <2>2, <3>1, <3>2 DEF Covered
    <3>3. CASE ~(b_size[a] <= n)
      <4>1. ~(b_size[a] <= disk_size[a])
        BY <1>7, <2>2, <3>1, <3>3
      <4>2. PICK p \in dirty : kind[p].type = "write" /\ kind[p].coll = a /\ kind[p].eor = b_size[a]
        BY Zenon, <2>1, <4>1 DEF Covered
      <4>3. p \notin F
        BY Zenon, <1>7, <2>2, <3>3, <4>2
      <4> QED
        BY Zenon, <1>6, <1>7, <2>2, <3>1, <4>2, <4>3 DEF Covered
    <3> QED
      BY Zenon, <3>2, <3>3
  <2>3. CASE ~(d = "dspace" /\ a = c)
    <3>1. disk_size'[a] = disk_size[a]
      BY Zenon, <1>6, <2>3 DEF Base, TypeOK
    <3>2. \A p \in dirty : kind[p].type = "write" /\ kind[p].coll = a => p \in dirty'
      BY Zenon, <1>6, <1>7, <2>3 DEF Context
    <3> QED
      BY Zenon, <1>6, <2>1, <3>1, <3>2 DEF Covered
  <2> QED
    BY Zenon, <2>2, <2>3
<1>11. ASSUME NEW p \in Op PROVE Within(p)'
  <2>1. st[o] = "syncing" /\ \A q \in sync_queue[d] : st[q] = "coalesced"
    BY Zenon, <1>4 DEF Base, Gathered, Waiting, Syncs
  <2>2. Grown(p)' => Grown(p)
    BY Zenon, <1>6, <2>1 DEF Grown, Completed
  <2> QED
    BY Zenon, <1>6, <2>2, WithinKept, SizeSame DEF SyncInv, Within
<1> QED
  BY Zenon, <1>8, <1>9, <1>10, <1>11 DEF SyncInv

LEMMA NextSync ==
  ASSUME OneCollection, "sync" \notin Faults, Base, Base', SyncInv, [Next]_vars PROVE SyncInv'
<1>1. CASE UNCHANGED vars
  <2>1. UNCHANGED <<meta_sync, kind, st, ok, dirty, sync_queue, syncing, b_size, disk_size>>
    BY Zenon, <1>1 DEF vars, syncVars, sizeVars
  <2>2. SyncedBeforeReply' /\ \A c \in Coll : Covered(c)'
    BY Zenon, <2>1 DEF SyncInv, SyncedBeforeReply, Covered
  <2>3. \A p \in Op : Within(p)'
    BY Zenon, <2>1 DEF SyncInv, Within, Grown
  <2>4. \A d \in Db : Flushing(d)'
    BY Zenon, <2>1, FlushingKept, SizeSame DEF SyncInv, Posted
  <2> QED
    BY Zenon, <2>2, <2>3, <2>4 DEF SyncInv
<1>2. CASE Next
  BY Zenon, <1>2, StaysPosted, PlainSync, ServeSync, WriteSync, CompletesSync, StartsSync,
     FinishesSync DEF Next, Coalesce
<1> QED
  BY Zenon, <1>1, <1>2
-----------------------------------------------------------------------------
\* The laws of counting hold of the finitely many operations.
INSTANCE FiniteSetTheorems

LEMMA Counting == CountingLaws
<1> SUFFICES ASSUME NEW A \in SUBSET Op
             PROVE  /\ Cardinality(A) \in Nat
                    /\ Cardinality(A) = 0 <=> A = {}
                    /\ \A o \in A : Cardinality(A \ {o}) = Cardinality(A) - 1
                    /\ \A o \in Op \ A : Cardinality(A \cup {o}) = Cardinality(A) + 1
  BY Zenon DEF CountingLaws
<1>1. IsFiniteSet(A)
  BY Zenon, IoAssumption, FS_Subset
<1>2. Cardinality(A) \in Nat /\ (Cardinality(A) = 0 <=> A = {})
  BY Zenon, <1>1, FS_CardinalityType, FS_EmptySet
<1>3. \A o \in A : Cardinality(A \ {o}) = Cardinality(A) - 1
  BY Zenon, <1>1, FS_RemoveElement
<1>4. \A o \in Op \ A : Cardinality(A \cup {o}) = Cardinality(A) + 1
  BY Zenon, <1>1, FS_AddElement
<1> QED
  BY Zenon, <1>2, <1>3, <1>4

\* Every operation is in one place, the one that its state names: in the queue, with
\* the dbpf thread, waiting for a sync or for a slot, or under way; and sync_counter
\* counts the queue.
THEOREM InOnePlace == Spec => []Base
<1>1. Init => Base
  BY Zenon, InitBase, Counting
<1>2. Base /\ [Next]_vars => Base'
  BY Zenon, NextBase, Counting
<1> QED
  BY <1>1, <1>2, PTL DEF Spec

\* s_dbpf_ios_in_progress is exact and within TROVE_max_concurrent_io, and nothing is
\* delayed with a slot free, however many I/Os and whatever the order of their
\* callbacks, as long as lio_listio refuses none.
THEOREM SlotsCounted == Spec => []SlotsExact
<1>1. Init => SlotInv
  <2> SUFFICES ASSUME Init PROVE SlotInv
    BY Zenon
  <2>1. Slots = {}
    BY Zenon DEF Init, Slots, HoldsSlot
  <2>2. Cardinality(Slots) = 0
    BY Zenon, <2>1, Counting DEF CountingLaws
  <2>3. 0 <= MaxIo
    BY IoAssumption
  <2> QED
    BY Zenon, <2>2, <2>3 DEF Init, SlotInv
<1>2. Base /\ SlotInv /\ [Next]_vars => SlotInv'
  BY Zenon, NextSlots, Counting
<1>3. Base /\ SlotInv => SlotsExact
  <2> SUFFICES ASSUME Base, SlotInv, Refused = {}
               PROVE  /\ ios = Cardinality({o \in Op : HoldsSlot(o)})
                      /\ ios <= MaxIo /\ (ready # <<>> => ios = MaxIo)
    BY Zenon DEF SlotsExact, Base
  <2>1. Untouched /\ \A o \in Op : st[o] # "refused"
    BY Zenon DEF Refused, Untouched
  <2>2. Slots = {o \in Op : HoldsSlot(o)}
    BY Zenon, <2>1 DEF Slots
  <2> QED
    BY Zenon, <2>1, <2>2 DEF SlotInv
<1> QED
  BY <1>1, <1>2, <1>3, InOnePlace, PTL DEF Spec

\* Of one collection, no operation is left in the sync queue when the operations run
\* out that could start a sync, for any watermarks.
THEOREM NobodyStuck == ASSUME OneCollection PROVE Spec => []NothingStuck
<1>1. Init => NothingStuck
  BY Zenon DEF Init, NothingStuck
<1>2. Base /\ NothingStuck /\ [Next]_vars => NothingStuck'
  BY Zenon, OneCollection, NextStuck, Counting
<1> QED
  BY <1>1, <1>2, InOnePlace, PTL DEF Spec

\* What is to be synced, where DB->sync does not fail.
LEMMA Synced == ASSUME OneCollection, "sync" \notin Faults PROVE Spec => [](Base /\ SyncInv)
<1>1. Init => SyncInv
  <2> SUFFICES ASSUME Init PROVE SyncInv
    BY Zenon
  <2>1. SyncedBeforeReply /\ \A d \in Db : Flushing(d)
    BY Zenon DEF Init, SyncedBeforeReply, Flushing
  <2>2. \A c \in Coll : Covered(c)
    BY DEF Init, Covered
  <2>3. \A o \in Op : Within(o)
    BY Zenon DEF Init, Within, Grown
  <2> QED
    BY Zenon, <2>1, <2>2, <2>3 DEF SyncInv
<1>2. Base /\ Base' /\ SyncInv /\ [Next]_vars => SyncInv'
  BY Zenon, OneCollection, "sync" \notin Faults, NextSync
<1> QED
  BY <1>1, <1>2, InOnePlace, PTL DEF Spec

\* dbpf_sync_coalesce: where DB->sync does not fail, an operation of a collection that
\* syncs its metadata is answered only when its change is on disk.
THEOREM AnsweredIsSynced ==
  ASSUME OneCollection, "sync" \notin Faults PROVE Spec => []SyncedBeforeReply
<1>1. Base /\ SyncInv => SyncedBeforeReply
  BY Zenon DEF SyncInv
<1> QED
  BY <1>1, OneCollection, "sync" \notin Faults, Synced, PTL

\* aio_progress_notification: a write answered with success lies within the size on
\* disk, or within that of a write of the same datafile which is still to be synced.
THEOREM AnsweredIsSized ==
  ASSUME OneCollection, "sync" \notin Faults PROVE Spec => []SizeOnDisk
<1>1. Base /\ SyncInv => SizeOnDisk
  <2> SUFFICES ASSUME Base, SyncInv, NEW o \in Op, st[o] = "completed", ok[o],
                      kind[o].type = "write", kind[o].sync, kind[o].coll \in meta_sync,
                      ~(kind[o].eor <= disk_size[kind[o].coll])
               PROVE  \E p \in dirty \ {o} : /\ kind[p].type = "write"
                                             /\ kind[p].coll = kind[o].coll
                                             /\ kind[p].eor >= kind[o].eor
    BY Zenon DEF SizeOnDisk
  <2>1. PICK c \in Coll : c = kind[o].coll /\ kind[o].eor \in Nat
    BY Zenon, NotThere, Kinds
  <2>2. /\ kind[o].eor <= b_size[c] /\ b_size[c] \in Nat /\ disk_size[c] \in Nat /\ o \notin dirty
    BY Zenon, <2>1 DEF SyncInv, Within, Grown, SyncedBeforeReply, Base, TypeOK
  <2>3. ~(b_size[c] <= disk_size[c])
    BY <2>1, <2>2
  <2>4. PICK p \in dirty : kind[p].type = "write" /\ kind[p].coll = c /\ kind[p].eor = b_size[c]
    BY Zenon, <2>3 DEF SyncInv, Covered
  <2>5. kind[p].eor >= kind[o].eor
    BY <2>1, <2>2, <2>4
  <2> QED
    BY Zenon, <2>1, <2>2, <2>4, <2>5
<1> QED
  BY <1>1, OneCollection, "sync" \notin Faults, Synced, PTL
=============================================================================
