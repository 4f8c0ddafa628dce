-------------------------------- MODULE Dbpf --------------------------------
(***************************************************************************)
(* Trove's dbpf method (src/src/io/trove/trove-dbpf): the operation queue  *)
(* and the thread that services it (dbpf-op-queue.c, dbpf-thread.c), the   *)
(* coalescing of Berkeley DB syncs (dbpf-sync.c) and the throttled         *)
(* asynchronous I/O on byte streams (dbpf-bstream.c), built with           *)
(* __PVFS2_TROVE_THREADED__ and __PVFS2_TROVE_AIO_THREADED__.              *)
(*                                                                         *)
(* Three kinds of thread meet here: whoever posts operations, the one dbpf *)
(* thread, and the callback thread of every asynchronous I/O.  A callback  *)
(* that enlarges a datafile goes through the same coalescing as the dbpf   *)
(* thread's metadata operations.                                           *)
(*                                                                         *)
(* One trove context.  Each collection has one datafile; an operation is   *)
(* posted once.  No service function of this build returns                 *)
(* DBPF_OP_CONTINUE, so nothing goes back to the queue.                    *)
(***************************************************************************)
EXTENDS Integers, Sequences, FiniteSets

CONSTANTS
  Op,         \* dbpf_queued_op_t structures
  Kind,       \* what may be posted: [type, sync, coll, eor, parts]
  Low, High,  \* c_low_watermark and c_high_watermark
  MaxIo,      \* TROVE_max_concurrent_io
  SyncMode,   \* sets of collections that may have metadata sync enabled
  Faults,     \* what may fail: "svc", "sync", "aio", "lio"
  None

ASSUME WatermarkAssumption == Low \in Nat \ {0} /\ High \in Nat
ASSUME IoAssumption == IsFiniteSet(Op) /\ MaxIo \in Nat

ASSUME KindAssumption ==
  /\ \A k \in Kind : /\ k.type \in {"keyval", "dspace", "query", "read", "write"}
                     /\ k.sync \in BOOLEAN
                     /\ k.eor \in Nat
                     /\ k.parts \in Nat \ {0}
  /\ None \notin Op /\ None \notin Kind
  /\ SyncMode \subseteq SUBSET {k.coll : k \in Kind}

Db == {"keyval", "dspace"}
Coll == {k.coll : k \in Kind}

VARIABLES
  meta_sync,         \* the collections with meta_sync_enabled, set at startup
  dbpf_op_queue,     \* posted metadata operations, oldest first
  st,                \* where each operation is
  kind,              \* what it was posted as
  ok,                \* qop_p->state is 0
  thread,            \* the operation the dbpf thread works on
  sync_counter,      \* per database: TROVE_SYNC operations in dbpf_op_queue
  coalesce_counter,  \* per database
  sync_queue,        \* per database: serviced, waiting for a sync
  syncing,           \* per database: the sync under way, holding the context's mutex
  dirty,             \* operations whose change is only in Berkeley DB's cache
  b_size, disk_size, \* the datafile's size in Berkeley DB and on disk
  left,              \* aiocb batches still to be done
  ios,               \* s_dbpf_ios_in_progress
  ready,             \* s_dbpf_io_ready_queue
  ending,            \* callbacks that have yet to call start_delayed_ops_if_any
  seen               \* the counter as read by the unlocked decrement

metaVars == <<dbpf_op_queue, thread, sync_counter>>
syncVars == <<coalesce_counter, sync_queue, syncing>>
sizeVars == <<b_size, disk_size>>
ioVars == <<left, ios, ready, seen>>
vars == <<meta_sync, metaVars, syncVars, sizeVars, ioVars, st, kind, ok, dirty, ending>>

Where == {"free", "queued", "service", "served", "syncing", "coalesced", "completed",
          "delayed", "inflight", "sized", "refused", "backing", "lost"}

IsIo(k) == k.type \in {"read", "write"}

\* DBPF_OP_DOES_SYNC; a write that enlarged its file has become a DSPACE_SETATTR
DoesSync(k) == k.type \in {"keyval", "dspace", "write"}

\* dbpf_sync_get_object_sync_context
Context(k) == IF k.type = "keyval" THEN "keyval" ELSE "dspace"

\* the operations that dbpf_sync_coalesce_enqueue and _dequeue count for database d
CountedFor(k, d) == ~IsIo(k) /\ DoesSync(k) /\ k.sync /\ Context(k) = d

MayFail(f) == {TRUE} \cup (IF f \in Faults THEN {FALSE} ELSE {})

Init ==
  /\ meta_sync \in SyncMode
  /\ dbpf_op_queue = <<>>
  /\ st = [o \in Op |-> "free"]
  /\ kind = [o \in Op |-> None]
  /\ ok = [o \in Op |-> TRUE]
  /\ thread = None
  /\ sync_counter = [d \in Db |-> 0]
  /\ coalesce_counter = [d \in Db |-> 0]
  /\ sync_queue = [d \in Db |-> {}]
  /\ syncing = [d \in Db |-> None]
  /\ dirty = {}
  /\ b_size = [c \in Coll |-> 0]
  /\ disk_size = [c \in Coll |-> 0]
  /\ left = [o \in Op |-> 0]
  /\ ios = 0
  /\ ready = <<>>
  /\ ending = {}
  /\ seen = [o \in Op |-> 0]
-----------------------------------------------------------------------------
(***************************************************************************)
(* The operation queue and the dbpf thread.                                *)
(***************************************************************************)

Counted(k, n) == [d \in Db |-> sync_counter[d] + (IF CountedFor(k, d) THEN n ELSE 0)]

\* dbpf_queued_op_queue
Post(o) ==
  /\ st[o] = "free"
  /\ \E k \in Kind :
       /\ ~IsIo(k)
       /\ kind' = [kind EXCEPT ![o] = k]
       /\ sync_counter' = Counted(k, 1)
  /\ dbpf_op_queue' = Append(dbpf_op_queue, o)
  /\ st' = [st EXCEPT ![o] = "queued"]
  /\ UNCHANGED <<meta_sync, syncVars, sizeVars, ioVars, ok, thread, dirty, ending>>

\* The dbpf thread takes the head of the queue and marks it in service.
Take ==
  /\ thread = None
  /\ dbpf_op_queue # <<>>
  /\ LET o == Head(dbpf_op_queue) IN
       /\ thread' = o
       /\ st' = [st EXCEPT ![o] = "service"]
       /\ sync_counter' = Counted(kind[o], -1)
  /\ dbpf_op_queue' = Tail(dbpf_op_queue)
  /\ UNCHANGED <<meta_sync, syncVars, sizeVars, ioVars, kind, ok, dirty, ending>>

\* svc_fn: the change goes to Berkeley DB's cache, or the operation fails.
Serve ==
  /\ thread # None
  /\ st[thread] = "service"
  /\ \E done \in MayFail("svc") :
       /\ ok' = [ok EXCEPT ![thread] = done]
       /\ dirty' = IF done /\ DoesSync(kind[thread]) THEN dirty \cup {thread} ELSE dirty
  /\ st' = [st EXCEPT ![thread] = "served"]
  /\ UNCHANGED <<meta_sync, metaVars, syncVars, sizeVars, ioVars, kind, ending>>
-----------------------------------------------------------------------------
(***************************************************************************)
(* dbpf_sync_coalesce, called by the dbpf thread for an operation that was *)
(* served, and by an I/O callback for a write that enlarged its file.      *)
(***************************************************************************)

Completed(ops) == [o \in Op |-> IF o \in ops THEN "completed" ELSE st[o]]

\* The caller goes on: the dbpf thread to its next operation, a callback to
\* start_delayed_ops_if_any.
Returns(o) ==
  /\ thread' = IF thread = o THEN None ELSE thread
  /\ ending' = IF thread = o THEN ending ELSE ending \cup {o}

\* Mutant of Unflushed: whatever the context, the keyval database is synced.
KeyvalUnflushed(d, c) == {o \in dirty : Context(kind[o]) = "keyval" /\ kind[o].coll = c}


Unflushed(d, c) == {o \in dirty : Context(kind[o]) = d /\ kind[o].coll = c}

\* Mutant of NoSync: the operation is put aside for a sync like any other.
NoSyncAside(o) ==
  /\ ~(DoesSync(kind[o]) /\ kind[o].sync)
  /\ st' = [st EXCEPT ![o] = "coalesced"]
  /\ Returns(o)
  /\ UNCHANGED <<syncVars, sizeVars, dirty>>

\* Nothing to sync: the operation completes at once.
NoSync(o) ==
  /\ ~(DoesSync(kind[o]) /\ kind[o].sync)
  /\ st' = Completed({o})
  /\ Returns(o)
  /\ UNCHANGED <<syncVars, sizeVars, dirty>>

\* Mutant of WatermarkReached: no low watermark.
HighReached(d, coalesced) == High > 0 /\ coalesced >= High


WatermarkReached(d, coalesced) ==
  \/ sync_counter[d] < Low
  \/ High > 0 /\ coalesced >= High

\* The collection does not sync its metadata: the operation completes, and now
\* and then the database is synced after all.
Unsynced(o) ==
  LET d == Context(kind[o])
      c == kind[o].coll
      n == coalesce_counter[d] + 1
  IN  /\ DoesSync(kind[o]) /\ kind[o].sync
      /\ c \notin meta_sync
      /\ syncing[d] = None
      /\ st' = Completed({o})
      /\ Returns(o)
      /\ IF WatermarkReached(d, n)
         THEN /\ coalesce_counter' = [coalesce_counter EXCEPT ![d] = 0]
              /\ dirty' = dirty \ Unflushed(d, c)
              /\ disk_size' = IF d = "dspace" THEN [disk_size EXCEPT ![c] = b_size[c]]
                                              ELSE disk_size
         ELSE /\ coalesce_counter' = [coalesce_counter EXCEPT ![d] = n]
              /\ UNCHANGED <<dirty, disk_size>>
      /\ UNCHANGED <<sync_queue, syncing, b_size>>

\* A watermark is reached: sync this operation's database, holding the mutex.
StartSync(o) ==
  LET d == Context(kind[o])
      c == kind[o].coll
  IN  /\ DoesSync(kind[o]) /\ kind[o].sync
      /\ c \in meta_sync
      /\ syncing[d] = None
      /\ WatermarkReached(d, coalesce_counter[d])
      /\ syncing' = [syncing EXCEPT ![d] =
                       [op |-> o, flushes |-> Unflushed(d, c), size |-> b_size[c]]]
      /\ st' = [st EXCEPT ![o] = "syncing"]
      /\ UNCHANGED <<coalesce_counter, sync_queue, sizeVars, thread, ending, dirty>>

\* Otherwise the operation waits for the sync of a later one.
Delay(o) ==
  LET d == Context(kind[o])
  IN  /\ DoesSync(kind[o]) /\ kind[o].sync
      /\ kind[o].coll \in meta_sync
      /\ syncing[d] = None
      /\ ~WatermarkReached(d, coalesce_counter[d])
      /\ sync_queue' = [sync_queue EXCEPT ![d] = @ \cup {o}]
      /\ coalesce_counter' = [coalesce_counter EXCEPT ![d] = @ + 1]
      /\ st' = [st EXCEPT ![o] = "coalesced"]
      /\ Returns(o)
      /\ UNCHANGED <<syncing, sizeVars, dirty>>

Coalesce(o) ==
  /\ st[o] \in {"served", "sized"}
  /\ NoSync(o) \/ Unsynced(o) \/ StartSync(o) \/ Delay(o)
  /\ UNCHANGED <<meta_sync, dbpf_op_queue, sync_counter, ioVars, kind, ok>>

\* DB->sync returns.  Its error is dropped; the operation and every coalesced
\* one of the context complete.
FinishSync(d) ==
  /\ syncing[d] # None
  /\ LET o == syncing[d].op
         c == kind[o].coll
     IN  /\ \E done \in MayFail("sync") :
              /\ dirty' = IF done THEN dirty \ syncing[d].flushes ELSE dirty
              /\ disk_size' = IF done /\ d = "dspace"
                              THEN [disk_size EXCEPT ![c] = syncing[d].size]
                              ELSE disk_size
         /\ st' = Completed({o} \cup sync_queue[d])
         /\ Returns(o)
  /\ sync_queue' = [sync_queue EXCEPT ![d] = {}]
  /\ coalesce_counter' = [coalesce_counter EXCEPT ![d] = 0]
  /\ syncing' = [syncing EXCEPT ![d] = None]
  /\ UNCHANGED <<meta_sync, dbpf_op_queue, sync_counter, ioVars, kind, ok, b_size>>
-----------------------------------------------------------------------------
(***************************************************************************)
(* Asynchronous I/O: dbpf_bstream_rw_list, aio_progress_notification,      *)
(* issue_or_delay_io_operation and start_delayed_ops_if_any.               *)
(***************************************************************************)

\* Mutant of IssueOrDelay: one slot too many.
IssueBeyond(o, n) ==
  \/ /\ n <= MaxIo
     /\ ios' = n + 1
     /\ st' = [st EXCEPT ![o] = "inflight"]
     /\ UNCHANGED ready
  \/ /\ n > MaxIo
     /\ ios' = n
     /\ ready' = Append(ready, o)
     /\ st' = [st EXCEPT ![o] = "delayed"]


\* issue_or_delay_io_operation: with a slot free (n are taken) lio_listio is
\* called, and may refuse; without one the operation waits in the ready queue.
IssueOrDelay(o, n) ==
  \/ /\ n < MaxIo
     /\ ios' = n + 1
     /\ \E accepted \in MayFail("lio") :
          st' = [st EXCEPT ![o] = IF accepted THEN "inflight" ELSE "refused"]
     /\ UNCHANGED ready
  \/ /\ n >= MaxIo
     /\ ios' = n
     /\ ready' = Append(ready, o)
     /\ st' = [st EXCEPT ![o] = "delayed"]

\* dbpf_bstream_rw_list
PostIo(o) ==
  /\ st[o] = "free"
  /\ \E k \in Kind :
       /\ IsIo(k)
       /\ kind' = [kind EXCEPT ![o] = k]
       /\ left' = [left EXCEPT ![o] = k.parts]
  /\ IssueOrDelay(o, ios)
  /\ UNCHANGED <<meta_sync, metaVars, syncVars, sizeVars, ok, dirty, ending, seen>>

\* lio_listio refused: the slot is given back without the mutex, so the counter
\* is read in one step and written in another.
BackOff(o) ==
  /\ st[o] = "refused"
  /\ seen' = [seen EXCEPT ![o] = ios]
  /\ st' = [st EXCEPT ![o] = "backing"]
  /\ UNCHANGED <<meta_sync, metaVars, syncVars, sizeVars, kind, ok, dirty, ending, left, ios, ready>>

\* The poster gets the error; a callback only logs it and the operation is lost.
BackedOff(o) ==
  /\ st[o] = "backing"
  /\ ios' = seen[o] - 1
  /\ ok' = [ok EXCEPT ![o] = FALSE]
  /\ st' = [st EXCEPT ![o] = IF left[o] = kind[o].parts THEN "completed" ELSE "lost"]
  /\ UNCHANGED <<meta_sync, metaVars, syncVars, sizeVars, kind, dirty, ending, left, ready, seen>>

\* The callback of a batch that is not the last: issue the next one.
AioMore(o) ==
  /\ st[o] = "inflight"
  /\ left[o] > 1
  /\ left' = [left EXCEPT ![o] = @ - 1]
  /\ IssueOrDelay(o, ios - 1)
  /\ UNCHANGED <<meta_sync, metaVars, syncVars, sizeVars, kind, ok, dirty, ending, seen>>

\* The last callback, or the first that finds an error, of a read.
AioRead(o) ==
  /\ st[o] = "inflight"
  /\ kind[o].type = "read"
  /\ \E done \in MayFail("aio") :
       /\ done => left[o] = 1
       /\ ok' = [ok EXCEPT ![o] = done]
  /\ st' = Completed({o})
  /\ ending' = ending \cup {o}
  /\ UNCHANGED <<meta_sync, metaVars, syncVars, sizeVars, ioVars, kind, dirty>>

\* Mutant of Enlarges: one too far.
EnlargesByMore(k) == k.eor > b_size[k.coll] + 1

Enlarges(k) == k.eor > b_size[k.coll]

\* The same of a write.  The result of reading the attributes replaces the I/O's
\* own; the size is raised to the end of the request, under dbpf_update_size_lock.
AioWrite(o) ==
  LET k == kind[o] IN
  /\ st[o] = "inflight"
  /\ k.type = "write"
  /\ \E done \in MayFail("aio") : done => left[o] = 1
  /\ \E found \in MayFail("svc") :
       LET grows == found /\ Enlarges(k) IN
       /\ ok' = [ok EXCEPT ![o] = found]
       /\ b_size' = IF grows THEN [b_size EXCEPT ![k.coll] = k.eor] ELSE b_size
       /\ dirty' = IF grows THEN dirty \cup {o} ELSE dirty
       /\ IF grows /\ k.sync
          THEN /\ st' = [st EXCEPT ![o] = "sized"]
               /\ UNCHANGED ending
          ELSE /\ st' = Completed({o})
               /\ ending' = ending \cup {o}
  /\ UNCHANGED <<meta_sync, metaVars, syncVars, ioVars, kind, disk_size>>

\* start_delayed_ops_if_any, the last thing a callback does: give the slot to
\* the oldest delayed operation.  One that lio_listio refuses is dropped.
StartDelayed(o) ==
  /\ o \in ending
  /\ ending' = ending \ {o}
  /\ IF ready = <<>>
     THEN /\ ios' = ios - 1
          /\ UNCHANGED <<ready, st>>
     ELSE /\ ready' = Tail(ready)
          /\ \E accepted \in MayFail("lio") :
               /\ ios' = IF accepted THEN ios ELSE ios - 1
               /\ st' = [st EXCEPT ![Head(ready)] =
                           IF accepted THEN "inflight" ELSE "lost"]
  /\ UNCHANGED <<meta_sync, metaVars, syncVars, sizeVars, kind, ok, dirty, left, seen>>
-----------------------------------------------------------------------------
Next ==
  \/ \E o \in Op : Post(o)
  \/ Take
  \/ Serve
  \/ \E o \in Op : Coalesce(o)
  \/ \E d \in Db : FinishSync(d)
  \/ \E o \in Op : PostIo(o)
  \/ \E o \in Op : BackOff(o)
  \/ \E o \in Op : BackedOff(o)
  \/ \E o \in Op : AioMore(o)
  \/ \E o \in Op : AioRead(o)
  \/ \E o \in Op : AioWrite(o)
  \/ \E o \in Op : StartDelayed(o)

Spec == Init /\ [][Next]_vars

\* The dbpf thread loops forever, and every I/O callback runs to its end.
\* Nobody has to post anything.
FairSpec ==
  /\ Spec
  /\ WF_vars(Take)
  /\ WF_vars(Serve)
  /\ WF_vars(\E d \in Db : FinishSync(d))
  /\ \A o \in Op :
       WF_vars(Coalesce(o) \/ AioMore(o) \/ AioRead(o) \/ AioWrite(o) \/ StartDelayed(o))
-----------------------------------------------------------------------------
TypeOK ==
  /\ meta_sync \in SUBSET Coll
  /\ dbpf_op_queue \in Seq(Op) /\ ready \in Seq(Op)
  /\ st \in [Op -> Where]
  /\ kind \in [Op -> Kind \cup {None}]
  /\ \A o \in Op : st[o] # "free" => kind[o] \in Kind
  /\ ok \in [Op -> BOOLEAN]
  /\ thread \in Op \cup {None}
  /\ sync_counter \in [Db -> Nat] /\ coalesce_counter \in [Db -> Nat]
  /\ sync_queue \in [Db -> SUBSET Op]
  /\ syncing \in [Db -> [op : Op, flushes : SUBSET Op, size : Nat] \cup {None}]
  /\ dirty \in SUBSET Op /\ ending \in SUBSET Op
  /\ b_size \in [Coll -> Nat] /\ disk_size \in [Coll -> Nat]
  /\ left \in [Op -> Nat] /\ ios \in Int /\ seen \in [Op -> Int]

\* TROVE_SYNC of a collection that syncs its metadata: an operation that changed
\* a database and was completed is on disk, whoever's sync it waited for
\* (dbpf_sync_coalesce; "so that the size update is synced before we complete").
SyncedBeforeReply ==
  \A o \in dirty : kind[o].sync /\ kind[o].coll \in meta_sync => st[o] # "completed"

\* An operation waits in the sync queue only while an operation that will be
\* counted against the low watermark is still to come: no operation is left
\* there when the queue runs dry, also when it was an I/O callback's, which
\* sync_counter never counted.
NothingStuck ==
  \A d \in Db : sync_queue[d] # {} =>
    \E o \in Op : /\ st[o] \in {"queued", "service", "served", "syncing"}
                   /\ DoesSync(kind[o]) /\ kind[o].sync /\ Context(kind[o]) = d

HoldsSlot(o) ==
  \/ st[o] \in {"inflight", "sized"}
  \/ st[o] = "syncing" /\ IsIo(kind[o])
  \/ o \in ending

Refused == {o \in Op : seen[o] # 0 \/ st[o] \in {"refused", "backing", "lost"}}

\* Until lio_listio first refuses, s_dbpf_ios_in_progress counts exactly the
\* I/Os under way and the callbacks that have yet to give up their slot, never
\* more than TROVE_max_concurrent_io; and nothing is delayed while a slot is free.
SlotsExact ==
  /\ TypeOK
  /\ Refused = {} =>
       /\ ios = Cardinality({o \in Op : HoldsSlot(o)})
       /\ ios <= MaxIo
       /\ ready # <<>> => ios = MaxIo

\* "so that the size update is synced before we complete" (dbpf-bstream.c:212):
\* a TROVE_SYNC write that was answered with success lies within the size on
\* disk, unless another write's larger size is still to be synced.
SizeOnDisk ==
  \A o \in Op : st[o] = "completed" /\ ok[o] /\ kind[o].type = "write" /\ kind[o].sync
                /\ kind[o].coll \in meta_sync
    => \/ kind[o].eor <= disk_size[kind[o].coll]
       \/ \E p \in dirty \ {o} : /\ kind[p].type = "write" /\ kind[p].coll = kind[o].coll
                              /\ kind[p].eor >= kind[o].eor

\* Every posted operation is completed in the end, coalesced and delayed ones
\* included, unless lio_listio refuses some I/O.
EverythingCompletes ==
  \A o \in Op : st[o] # "free" ~> (st[o] = "completed" \/ Refused # {})
=============================================================================
