----------------------------- MODULE Migration -----------------------------
(***************************************************************************)
(* Self-acting load balancing: every I/O server forecasts its load, asks   *)
(* the others for theirs, and moves one datafile to the coolest of them    *)
(* when it is the hottest (server/perf-update.sm, per-mon-client.sm,       *)
(* perf-mon.sm; migrate-file-client.sm on the source and                   *)
(* migrate-file-server.sm on the target), while clients write              *)
(* (server/io.sm, small-io.sm, client/sysint/sys-io.sm).                   *)
(*                                                                         *)
(* A step is one turn of a server's event loop: from the completion of a   *)
(* job to the posting of the next one.  A file is one entry of a metafile's*)
(* list of datafiles.  The contents of a datafile are the writes it holds; *)
(* a write in Extending lies behind the end of the file, the others within.*)
(* Reads only count as load: any datafile a client may know of may be read.*)
(***************************************************************************)
EXTENDS Integers, Sequences, FiniteSets

CONSTANTS
    N,              \* number of I/O servers
    LBEnabled,      \* servers started with load balancing
    File,           \* files; handle f is the first datafile of file f
    FirstHome,      \* server of each first datafile
    MaxHandle,      \* handles are 1..MaxHandle
    Load,           \* forecast loads
    Threshold,      \* load_threshold
    MaxTries,       \* attempts of the migration request, retry_limit + 1
    MaxQueue,       \* migration requests a server keeps; others are lost
    Writer,         \* clients that write, each one write
    Opens,          \* the file each of them writes
    Extending       \* the writers that write behind the end of the file

Server == 1..N
BusyLoad == 429496      \* 0xFFFFFFFF / 10000, what Busy amounts to as a load

ASSUME ServerAssumption == N \in Nat /\ N > 1 /\ LBEnabled \subseteq Server
ASSUME FileAssumption == MaxHandle \in Nat /\ File \subseteq 1..MaxHandle
                         /\ FirstHome \in [File -> Server]
ASSUME LoadAssumption == Load \subseteq 0..BusyLoad - 1 /\ Threshold \in Nat
ASSUME BoundAssumption == MaxTries \in Nat \ {0} /\ MaxQueue \in Nat
ASSUME WriterAssumption == Opens \in [Writer -> File] /\ Extending \subseteq Writer

Handle == 1..MaxHandle
NoHandle == 0           \* PVFS_HANDLE_NULL
Nobody == 0
Busy == -1              \* the load 0xFFFFFFFF of a server in a migration
Unknown == -2           \* no answer yet
Refused == -1           \* a negative response to a migration request

VARIABLES
    mig_state,              \* the globals of each server
    mig_datafile_handle,
    new_handle,
    load,                   \* global_forecast_load
    counted,                \* the datafiles with load counted in this period
    upd,                    \* the server's perf-update machine
    inst,                   \* the server's migrate-file-server machines, in
                            \* the order in which they entered the scheduler
    home, meta, data,       \* the datafiles: server, file, writes
    layout,                 \* the datafile in the file's metafile
    setattrs,               \* setattr requests on their way
    io,                     \* the clients' writes
    acked,                  \* writes acknowledged to the client
    exposed                 \* of them, those that met a migration

servers == <<mig_state, mig_datafile_handle, new_handle, load, counted, upd,
             inst>>
files   == <<home, meta, data, layout, setattrs>>
clients == <<io, acked, exposed>>
vars == <<servers, files, clients>>

-----------------------------------------------------------------------------
(* The decision.                                                           *)

Peers(s) == Server \ {s}

\* The peers whose answer counts: those that do not say they are busy.
Heard(s) == {p \in Peers(s) : upd[s].report[p] # Busy}

Report(s) == upd[s].report

\* min_load_index: the first of the least loaded; index 0 if nobody counts.
Coolest(s) ==
    LET these == IF Heard(s) = {} THEN Peers(s) ELSE Heard(s)
    IN  CHOOSE p \in these : \A q \in these \ {p} :
            \/ Report(s)[p] < Report(s)[q]
            \/ Report(s)[p] = Report(s)[q] /\ p < q

Hottest(s) == \A m \in {0} \cup {Report(s)[p] : p \in Heard(s)} : load[s] > m

\* The mean of the loads is below balance_threshold (0.8) of the greatest.
Unbalanced(s) ==
    LET total[p \in 0..N] ==
          IF p = 0 THEN load[s]
          ELSE total[p - 1] + IF p \in Heard(s) THEN Report(s)[p] ELSE 0
    IN  10 * total[N] < 8 * load[s] * N

\* Mutant of Pays: the sign of load_diff does not matter.
PaysAlways(s) == TRUE

\* load_diff is positive: against Busy it is not, and no datafile is chosen.
Pays(s) == load[s] > IF Heard(s) = {} THEN BusyLoad ELSE Report(s)[Coolest(s)]

\* Clients know, or knew, this datafile.
Known(h) == \/ h \in File
            \/ \E f \in File : layout[f] = h
            \/ \E w \in Writer : io[w].handle = h

\* The datafiles that PINT_choose_heavy_one may return.
Candidates(s) == {h \in Handle : /\ home[h] = s
                                 /\ h \in counted[s] \/ Known(h)
                                 /\ Pays(s)}

Idle == [pc |-> "timer", report |-> [p \in Server |-> Unknown],
         target |-> Nobody, handle |-> NoHandle, snap |-> {},
         resp |-> NoHandle, tries |-> 0]

\* post_timer_fun: migration state and counters are cleared, the timer posted.
Finalize(s) ==
    /\ mig_state' = [mig_state EXCEPT ![s] = 0]
    /\ counted' = [counted EXCEPT ![s] = {}]
    /\ upd' = [upd EXCEPT ![s] = Idle]

\* The timer expires: a new forecast, and if it is high the others are asked.
Period(s) ==
    /\ upd[s].pc = "timer"
    /\ \E l \in Load :
         /\ load' = [load EXCEPT ![s] = l]
         /\ IF s \in LBEnabled /\ l >= Threshold
              THEN /\ upd' = [upd EXCEPT ![s].pc = "collect"]
                   /\ UNCHANGED <<mig_state, counted>>
              ELSE Finalize(s)
    /\ UNCHANGED <<mig_datafile_handle, new_handle, inst, files, clients>>

\* perf_mon_do_work on p, asked by s; s stores the answer when it gets it.
PerfMon(p, s) ==
    /\ upd[s].pc = "collect"
    /\ p # s
    /\ upd[s].report[p] = Unknown
    /\ upd' = [upd EXCEPT ![s].report[p] =
                 IF mig_state[p] = 0 THEN load[p] ELSE Busy]
    /\ UNCHANGED <<mig_state, mig_datafile_handle, new_handle, load, counted,
                   inst, files, clients>>

\* A peer does not answer: perf_update_error ends the machine.
PollFails(s) ==
    /\ upd[s].pc = "collect"
    /\ \E p \in Peers(s) : upd[s].report[p] = Unknown
    /\ mig_state' = [mig_state EXCEPT ![s] = 0]
    /\ counted' = [counted EXCEPT ![s] = {}]
    /\ upd' = [upd EXCEPT ![s] = [Idle EXCEPT !.pc = "dead"]]
    /\ UNCHANGED <<mig_datafile_handle, new_handle, load, inst, files, clients>>

\* mig_decide_fun and init_migration.
Migrates(s) == mig_state[s] # 1 /\ Hottest(s) /\ Unbalanced(s)

MigDecide(s) ==
    /\ upd[s].pc = "collect"
    /\ \A p \in Peers(s) : upd[s].report[p] # Unknown
    /\ \/ \* no migration, or no proper candidate
          /\ Finalize(s)
          /\ UNCHANGED mig_datafile_handle
       \/ /\ Migrates(s)
          /\ \E h \in Candidates(s) :
               /\ mig_state' = [mig_state EXCEPT ![s] = 1]
               /\ mig_datafile_handle' = [mig_datafile_handle EXCEPT ![s] = h]
               /\ upd' = [upd EXCEPT ![s].pc = "getattr",
                                     ![s].target = Coolest(s),
                                     ![s].handle = h]
          /\ UNCHANGED counted
    /\ UNCHANGED <<new_handle, load, inst, files, clients>>

-----------------------------------------------------------------------------
(* The source (migrate-file-client.sm).                                    *)

\* What the target has of s, once s no longer waits for the answer.
Disowned(s) ==
    [k \in DOMAIN inst[upd[s].target] |->
        LET i == inst[upd[s].target][k]
        IN  IF i.src = s THEN [i EXCEPT !.live = FALSE] ELSE i]

Request(s) == [src |-> s, meta |-> meta[upd[s].handle], pc |-> "new",
               handle |-> NoHandle, sent |-> {}, live |-> TRUE]

\* A migration request is sent, and arrives unless it is lost.
Send(s) ==
    \/ /\ Len(Disowned(s)) < MaxQueue
       /\ inst' = [inst EXCEPT ![upd[s].target] = Append(Disowned(s), Request(s))]
    \/ inst' = [inst EXCEPT ![upd[s].target] = Disowned(s)]

\* The machine of the target that serves the migration of s.
Serves(p, k, s) == upd[s].target = p /\ inst[p][k].src = s /\ inst[p][k].live

\* cleanup, from wherever something failed, and finalize.
Cleanup(s) ==
    /\ Finalize(s)
    /\ inst' = [inst EXCEPT ![upd[s].target] = Disowned(s)]
    /\ UNCHANGED <<mig_datafile_handle, new_handle, load>>

\* The size of the datafile has been read, the request is sent.
SendMigrationRequest(s) ==
    /\ upd[s].pc = "getattr"
    /\ \/ /\ upd' = [upd EXCEPT ![s].pc = "request", ![s].tries = 1,
                                ![s].snap = data[upd[s].handle]]
          /\ Send(s)
          /\ UNCHANGED <<mig_state, mig_datafile_handle, new_handle, load, counted>>
       \/ Cleanup(s)        \* the attributes could not be read
    /\ UNCHANGED <<files, clients>>

\* Mutant of RequestTimesOut: attempts are not counted.
RequestTimesOutForever(s) ==
    /\ upd[s].pc = "request"
    /\ upd' = [upd EXCEPT ![s].resp = NoHandle]
    /\ Send(s)
    /\ UNCHANGED <<mig_state, mig_datafile_handle, new_handle, load, counted>>
    /\ UNCHANGED <<files, clients>>

\* No response in time: the request is sent again, or given up.
RequestTimesOut(s) ==
    /\ upd[s].pc = "request"
    /\ \/ /\ upd[s].tries < MaxTries
          /\ upd' = [upd EXCEPT ![s].tries = @ + 1, ![s].resp = NoHandle]
          /\ Send(s)
          /\ UNCHANGED <<mig_state, mig_datafile_handle, new_handle, load, counted>>
       \/ /\ upd[s].tries = MaxTries
          /\ Cleanup(s)
    /\ UNCHANGED <<files, clients>>

\* send_migration_request_comp_fn and post_flow; a negative response ends it.
PostFlow(s) ==
    /\ upd[s].pc = "request"
    /\ \/ /\ upd[s].resp \in Handle
          /\ upd' = [upd EXCEPT ![s].pc = "flow"]
          /\ UNCHANGED <<mig_state, mig_datafile_handle, new_handle, load,
                         counted, inst>>
       \/ /\ upd[s].resp = Refused
          /\ Cleanup(s)
    /\ UNCHANGED <<files, clients>>

\* The load that server p counts when it writes to datafile h.
Counting(p, h) ==
    counted' = IF mig_state[p] = 0 \/ mig_datafile_handle[p] # h
                 THEN [counted EXCEPT ![p] = @ \cup {h}] ELSE counted

\* What the flow carries over: it ends where the file ended at getattr.
Carried(s) ==
    {w \in data[upd[s].handle] : w \in Extending => w \in upd[s].snap}

\* Both flows are up, and the data crosses over.
Transfer(s) ==
    /\ upd[s].pc = "flow"
    /\ \E k \in 1..Len(inst[upd[s].target]) :
         /\ Serves(upd[s].target, k, s)
         /\ inst[upd[s].target][k].pc = "flow"
         /\ inst' = [inst EXCEPT ![upd[s].target][k].pc = "moved",
                                 ![upd[s].target][k].sent = Carried(s)]
    /\ Counting(upd[s].target, upd[s].resp)
    /\ upd' = [upd EXCEPT ![s].pc = "moved"]
    /\ UNCHANGED <<mig_state, mig_datafile_handle, new_handle, load, files,
                   clients>>

\* The source's flow ends: it waits for the completion ack, without a limit.
PostCompleteAck(s) ==
    /\ \/ /\ upd[s].pc = "moved"
          /\ upd' = [upd EXCEPT ![s].pc = "ack"]
          /\ UNCHANGED <<mig_state, mig_datafile_handle, new_handle, load,
                         counted, inst>>
       \/ /\ upd[s].pc \in {"flow", "moved"}        \* the flow failed
          /\ Cleanup(s)
    /\ UNCHANGED <<files, clients>>

\* test_send_one_msg_f: the ack is there, and is answered if that is possible.
AnswerAck(s) ==
    /\ upd[s].pc = "ack"
    /\ \E k \in 1..Len(inst[upd[s].target]) :
         /\ Serves(upd[s].target, k, s)
         /\ inst[upd[s].target][k].pc = "recv"
         /\ \/ /\ inst' = [inst EXCEPT ![upd[s].target][k].pc = "told"]
               /\ upd' = [upd EXCEPT ![s].pc = "send"]
               /\ UNCHANGED <<mig_state, mig_datafile_handle, new_handle, load, counted>>
            \/ Cleanup(s)
    /\ UNCHANGED <<files, clients>>

Replacement(s) == [src |-> s, file |-> meta[upd[s].handle],
                   old |-> upd[s].handle, new |-> upd[s].resp]

\* Mutant of UpdateMetadata: the migration counts as over too early.
UpdateMetadataClears(s) ==
    /\ upd[s].pc = "send"
    /\ upd' = [upd EXCEPT ![s].pc = "setattr", ![s].tries = 1]
    /\ mig_state' = [mig_state EXCEPT ![s] = 0]
    /\ setattrs' = setattrs \cup {Replacement(s)}
    /\ UNCHANGED <<mig_datafile_handle, new_handle, load, counted, inst>>
    /\ UNCHANGED <<home, meta, data, layout, clients>>

\* update_metadata, once the send completes; it may complete with an error.
UpdateMetadata(s) ==
    /\ upd[s].pc = "send"
    /\ \/ /\ upd' = [upd EXCEPT ![s].pc = "setattr", ![s].tries = 1]
          /\ setattrs' = setattrs \cup {Replacement(s)}
          /\ UNCHANGED <<mig_state, mig_datafile_handle, new_handle, load,
                         counted, inst>>
       \/ Cleanup(s) /\ UNCHANGED setattrs
    /\ UNCHANGED <<home, meta, data, layout, clients>>

\* No answer from the metadata server in time: the setattr is sent again.
SetattrTimesOut(s) ==
    /\ upd[s].pc = "setattr"
    /\ upd[s].tries < MaxTries
    /\ upd' = [upd EXCEPT ![s].tries = @ + 1]
    /\ setattrs' = setattrs \cup {Replacement(s)}
    /\ UNCHANGED <<mig_state, mig_datafile_handle, new_handle, load, counted,
                   inst, home, meta, data, layout, clients>>

\* The metadata server is done with the setattr, or it takes too long: either
\* way the migration is over.  The old datafile is not removed.
RemoveDatafileHandle(s) ==
    /\ upd[s].pc = "setattr"
    /\ Cleanup(s)
    /\ UNCHANGED <<files, clients>>

\* Mutant of SetAttr: the old handle is not looked for.
SetAttrBlind(m) ==
    /\ m \in setattrs
    /\ setattrs' = setattrs \ {m}
    /\ layout' = [layout EXCEPT ![m.file] = m.new]
    /\ UNCHANGED <<home, meta, data, servers, clients>>

\* replace_datafile_handle in set-attr.sm; the request may also be refused.
SetAttr(m) ==
    /\ m \in setattrs
    /\ setattrs' = setattrs \ {m}
    /\ \/ layout' = [layout EXCEPT ![m.file] = IF @ = m.old THEN m.new ELSE @]
       \/ UNCHANGED layout
    /\ UNCHANGED <<home, meta, data, servers, clients>>

-----------------------------------------------------------------------------
(* The target (migrate-file-server.sm).  Its requests are scheduled as     *)
(* modifications of the handle PVFS_HANDLE_NULL.                           *)

\* Mutant of Scheduled: migration requests do not wait for one another.
ScheduledAtOnce(p, k) == TRUE

\* Only the first in line has been let go.
Scheduled(p, k) == k = 1

\* io_release: out of the scheduler, and no longer in a migration.
Leave(p, k) ==
    /\ mig_state' = [mig_state EXCEPT ![p] = 0]
    /\ inst' = [inst EXCEPT ![p] = SubSeq(@, 1, k - 1) \o SubSeq(@, k + 1, Len(@))]

Fresh == {h \in Handle : home[h] = Nobody}

\* create_new_datafile
CreateNewDatafile(p, k) ==
    /\ Scheduled(p, k)
    /\ inst[p][k].pc = "new"
    /\ mig_state' = [mig_state EXCEPT ![p] = 1]
    /\ \/ /\ \E h \in Fresh :
               /\ \A g \in Fresh : h <= g
               /\ new_handle' = [new_handle EXCEPT ![p] = h]
               /\ home' = [home EXCEPT ![h] = p]
          /\ inst' = [inst EXCEPT ![p][k].pc = "created"]
       \/ /\ inst' = [inst EXCEPT ![p][k].pc = "failed"]
          /\ UNCHANGED <<new_handle, home>>
    /\ UNCHANGED <<mig_datafile_handle, load, counted, upd, meta, data, layout,
                   setattrs, clients>>

\* get_ and set_new_datafile_attribs_op and io_send_ack.  What is acknowledged,
\* and recorded as the handle in migration, is the global handle.
SendAck(p, k) ==
    LET i == inst[p][k]
        Respond(r) == upd' = IF i.live THEN [upd EXCEPT ![i.src].resp = r] ELSE upd
    IN  /\ Scheduled(p, k)
        /\ i.pc \in {"created", "failed"}
        /\ mig_datafile_handle' = [mig_datafile_handle EXCEPT ![p] = new_handle[p]]
        /\ \/ /\ i.pc = "created"
              /\ inst' = [inst EXCEPT ![p][k].pc = "flow",
                                      ![p][k].handle = new_handle[p]]
              /\ meta' = [meta EXCEPT ![new_handle[p]] = i.meta]
              /\ Respond(new_handle[p])
           \/ /\ inst' = [inst EXCEPT ![p][k].pc = "refused"]
              /\ Respond(Refused)
              /\ UNCHANGED meta
        /\ UNCHANGED <<mig_state, new_handle, load, counted, home, data, layout,
                       setattrs, clients>>

\* The flow ends well, the completion ack is sent and its answer awaited.
SendCompletionAck(p, k) ==
    /\ Scheduled(p, k)
    /\ inst[p][k].pc = "moved"
    /\ data' = [data EXCEPT ![inst[p][k].handle] = @ \cup inst[p][k].sent]
    /\ inst' = [inst EXCEPT ![p][k].pc = "recv"]
    /\ Counting(p, inst[p][k].handle)
    /\ UNCHANGED <<mig_state, mig_datafile_handle, new_handle, load, upd, home,
                   meta, layout, setattrs, clients>>

\* decode_recv_msg_f returns what PINT_decode returned, 0 when all is well:
\* SM_ACTION_DEFERRED, with no job posted that would ever resume the machine.
DecodeRecvMsg(p, k) ==
    /\ Scheduled(p, k)
    /\ inst[p][k].pc = "told"
    /\ inst' = [inst EXCEPT ![p][k].pc = "deferred"]
    /\ UNCHANGED <<mig_state, mig_datafile_handle, new_handle, load, counted,
                   upd, files, clients>>

\* A refusal was sent, or the flow failed.
IoRelease(p, k) ==
    /\ Scheduled(p, k)
    /\ inst[p][k].pc \in {"refused", "flow", "moved"}
    /\ Leave(p, k)
    /\ UNCHANGED <<mig_datafile_handle, new_handle, load, counted, upd, files,
                   clients>>

-----------------------------------------------------------------------------
(* Clients.                                                                *)

\* The client gets the layout; its request may be on its way for long, and the
\* layout may come from the attribute cache.
Open(w) ==
    /\ io[w].pc = "idle"
    /\ io' = [io EXCEPT ![w] = [pc |-> "sent", handle |-> layout[Opens[w]]]]
    /\ UNCHANGED <<servers, files, acked, exposed>>

Refuses(s, h) == mig_state[s] = 1 /\ mig_datafile_handle[s] = h

\* migration_test; a client that is turned away asks for the layout again.
MigrationTest(w) ==
    /\ io[w].pc = "sent"
    /\ io' = IF Refuses(home[io[w].handle], io[w].handle)
               THEN [io EXCEPT ![w] = [pc |-> "idle", handle |-> NoHandle]]
               ELSE [io EXCEPT ![w].pc = "flow"]
    /\ UNCHANGED <<servers, files, acked, exposed>>

InMigration(h) == \/ \E s \in Server : upd[s].handle = h
                  \/ \E m \in setattrs : m.old = h

Write(w) ==
    /\ data' = [data EXCEPT ![io[w].handle] = @ \cup {w}]
    /\ io' = [io EXCEPT ![w].pc = "done"]
    /\ acked' = acked \cup {w}
    /\ exposed' = IF InMigration(io[w].handle) \/ layout[Opens[w]] # io[w].handle
                    THEN exposed \cup {w} ELSE exposed
    /\ UNCHANGED <<servers, home, meta, layout, setattrs>>

\* The flow of a write that passed the test, and its completion ack.
StartFlow(w) == io[w].pc = "flow" /\ Write(w)

\* Small writes are done without the test.
SmallIo(w) == io[w].pc = "sent" /\ Write(w)

-----------------------------------------------------------------------------
Init ==
    /\ mig_state = [s \in Server |-> 0]
    /\ mig_datafile_handle = [s \in Server |-> NoHandle]
    /\ new_handle = [s \in Server |-> NoHandle]
    /\ load = [s \in Server |-> 0]
    /\ counted = [s \in Server |-> {}]
    /\ upd = [s \in Server |-> Idle]
    /\ inst = [s \in Server |-> <<>>]
    /\ home = [h \in Handle |-> IF h \in File THEN FirstHome[h] ELSE Nobody]
    /\ meta = [h \in Handle |-> IF h \in File THEN h ELSE NoHandle]
    /\ data = [h \in Handle |-> {}]
    /\ layout = [f \in File |-> f]
    /\ setattrs = {}
    /\ io = [w \in Writer |-> [pc |-> "idle", handle |-> NoHandle]]
    /\ acked = {}
    /\ exposed = {}

Source(s) ==
    \/ MigDecide(s) \/ SendMigrationRequest(s) \/ RequestTimesOut(s)
    \/ PostFlow(s) \/ Transfer(s) \/ PostCompleteAck(s) \/ AnswerAck(s)
    \/ UpdateMetadata(s) \/ SetattrTimesOut(s) \/ RemoveDatafileHandle(s)

Target(p) == \E k \in 1..Len(inst[p]) :
    \/ CreateNewDatafile(p, k) \/ SendAck(p, k) \/ SendCompletionAck(p, k)
    \/ DecodeRecvMsg(p, k) \/ IoRelease(p, k)

Client(w) == Open(w) \/ MigrationTest(w) \/ StartFlow(w) \/ SmallIo(w)

Next ==
    \/ \E s \in Server : Period(s) \/ PollFails(s) \/ Source(s) \/ Target(s)
    \/ \E p, s \in Server : PerfMon(p, s)
    \/ \E m \in setattrs : SetAttr(m)
    \/ \E w \in Writer : Client(w)

Spec == Init /\ [][Next]_vars

\* Jobs complete and timers expire, so a server goes on where it can, and
\* polls are answered.  Nothing is assumed of clients and metadata server.
FairSpec ==
    /\ Spec
    /\ \A s \in Server : /\ WF_vars(Source(s))
                         /\ WF_vars(Target(s))
                         /\ WF_vars(\E p \in Server : PerfMon(p, s))

-----------------------------------------------------------------------------
\* The types of the servers' globals and machines, of files and of clients.
TypeOK ==
    /\ mig_state \in [Server -> {0, 1}]
    /\ mig_datafile_handle \in [Server -> Handle \cup {NoHandle}]
    /\ new_handle \in [Server -> Handle \cup {NoHandle}]
    /\ load \in [Server -> Load \cup {0}]
    /\ counted \in [Server -> SUBSET Handle]
    /\ upd \in [Server ->
         [pc : {"timer", "collect", "getattr", "request", "flow", "moved", "ack",
                "send", "setattr", "dead"},
          report : [Server -> Load \cup {0, Busy, Unknown}],
          target : Server \cup {Nobody},
          handle : Handle \cup {NoHandle},
          snap : SUBSET Writer,
          resp : Handle \cup {NoHandle, Refused},
          tries : 0..MaxTries]]
    /\ \A s \in Server :
         /\ Len(inst[s]) <= MaxQueue
         /\ \A k \in 1..Len(inst[s]) : inst[s][k] \in
              [src : Server \ {s}, meta : File,
               pc : {"new", "created", "failed", "refused", "flow", "moved",
                     "recv", "told", "deferred"},
               handle : Handle \cup {NoHandle}, sent : SUBSET Writer,
               live : BOOLEAN]
    /\ home \in [Handle -> Server \cup {Nobody}]
    /\ meta \in [Handle -> File \cup {NoHandle}]
    /\ data \in [Handle -> SUBSET Writer]
    /\ layout \in [File -> Handle]
    /\ setattrs \subseteq [src : Server, file : File, old : Handle, new : Handle]
    /\ io \in [Writer -> [pc : {"idle", "sent", "flow", "done"},
                          handle : Handle \cup {NoHandle}]]
    /\ exposed \subseteq acked /\ acked \subseteq Writer

\* The migration test of io.sm ("Detect if an migration on this file") turns
\* away whoever comes for a datafile while its server migrates it, from
\* mig_decide_fun to the end of the migration.
MigratedFileGuarded ==
    TypeOK /\ \A s \in Server : upd[s].handle # NoHandle => Refuses(s, upd[s].handle)

\* No two migrations are received into one datafile, and the handle a source is
\* told (io_send_ack) is that of the datafile its own request is received into,
\* although the target keeps the handle in a global.
CopiesApart ==
    \A p, q \in Server : \A j \in 1..Len(inst[p]), k \in 1..Len(inst[q]) :
        /\ inst[p][j].handle = inst[q][k].handle
             => inst[p][j].handle = NoHandle \/ (p = q /\ j = k)
        /\ \A s \in Server : Serves(p, j, s) /\ upd[s].resp \in Handle
             => upd[s].resp = inst[p][j].handle

\* A write that was acknowledged, and that met no migration of its datafile, is
\* in the datafile that the file's metafile names, whatever migrations succeed,
\* fail half-way or are repeated, and however late their setattr arrives.
AckedKept ==
    \A w \in acked \ exposed : w \in data[layout[Opens[w]]]

\* "if your parallel application doesn't write to the same bytes, then you will
\* get what you expect on subsequent reads" (doc/basics.tex): a write that was
\* acknowledged is in the datafile that the file's metafile names.
AckedVisible ==
    \A w \in acked : w \in data[layout[Opens[w]]]

\* "tell client I take part in migration now, don't consider me for candidate"
\* (perf_mon_do_work): no server that said so is chosen by mig_decide_fun.
BusyNotCandidate ==
    \A s \in Server : upd[s].target # Nobody => Report(s)[upd[s].target] # Busy

\* The source waits for an ack from a target that has given up.
Abandoned(s) ==
    /\ upd[s].pc = "ack"
    /\ ~ \E k \in 1..Len(inst[upd[s].target]) :
           /\ Serves(upd[s].target, k, s)
           /\ inst[upd[s].target][k].pc \in {"moved", "recv"}

\* Every round of pvfs2_perf_update_sm comes to its end (the next timer or the
\* error state), except that the completion ack is waited for without a limit.
RoundEnds ==
    \A s \in Server : []<>(upd[s].pc \in {"timer", "dead"} \/ Abandoned(s))

=============================================================================
