----------------------------- MODULE Namespace -----------------------------
(* Files are created and removed by clients that send one request after     *)
(* another to several servers: sys-create.sm, sys-remove.sm and remove.sm   *)
(* under client/sysint, create.sm, crdirent.sm, rmdirent.sm, remove.sm and  *)
(* the set-datafile-sttr machines under server.  No lock is held from one   *)
(* request to the next, and each may fail.  One directory; every client     *)
(* has one operation.                                                       *)
EXTENDS Naturals, FiniteSets

CONSTANTS
    Client,
    Name,
    Jobs,           \* what the clients may be asked: [op, name, layout] for each
    OldKind,        \* what a name may stand for at first: "meta", "dir"
    RetryLimit,     \* retry_limit of the message pairs
    Faults,         \* what may go wrong: "lost", "late", or a server's step
    MaxFaults,      \* bound on the number of faults
    None

ASSUME NamespaceAssumption ==
    /\ RetryLimit \in Nat /\ MaxFaults \in Nat
    /\ Client \cap Name = {} /\ None \notin Client \cup Name

VARIABLES
    job,            \* the operation of each client
    cl,             \* the clients' state machines
    net,            \* requests on their way to a server
    sm,             \* create machines at work on the metadata server
    dirent,         \* the entries of the directory
    store,          \* objects in storage (those in precreate pools left out)
    keyvals,        \* metafiles whose datafile handles are written
    attr,           \* attributes stored with the datafiles
    set_df_attr,    \* a global of each server, shared by its machines
    faults          \* number of faults so far

vars == <<job, cl, net, sm, dirent, store, keyvals, attr, set_df_attr, faults>>
objects == <<store, keyvals, attr>>
servers == <<sm, dirent, objects, set_df_attr>>

-----------------------------------------------------------------------------
\* An object is named for the request, or the name, that it was created for.
Obj(c, t, k) == [c |-> c, tag |-> t, kind |-> k]

\* The datafiles are on the metadata server, on another one, or on both.
KindsOf(layout) ==
    CASE layout = "stuffed" -> {"local"}
      [] layout = "mixed" -> {"local", "remote"}
      [] layout = "remote" -> {"remote"}
Datafiles(o) ==
    IF o.kind # "meta" THEN {}
    ELSE {Obj(o.c, o.tag, k) :
            k \in KindsOf(IF o.c \in Client THEN job[o.c].layout ELSE "stuffed")}
File(o) == {o} \cup Datafiles(o)

\* ds attributes of a datafile: its type, and the metafile it belongs to.
Zeroed == [type |-> "none", metafile |-> None]
Fresh == [type |-> "datafile", metafile |-> None]

\* A step ends well or, within the bound, with one of the faults of S.
Outcome(S) == {"ok"} \cup IF faults < MaxFaults THEN S \cap Faults ELSE {}
Counted(f) == faults' = IF f = "ok" THEN faults ELSE faults + 1

Init ==
    /\ job \in Jobs
    /\ cl = [c \in Client |->
         [pc |-> "init", ref |-> TRUE, tag |-> 0, wait |-> {}, failed |-> {},
          err |-> "ok", stored |-> "ok", tries |-> 0, retry |-> 0, obj |-> None]]
    /\ net = {} /\ sm = {} /\ faults = 0
    /\ \E old \in [Name -> OldKind \cup {None}] :
         dirent = [n \in Name |-> IF old[n] = None THEN None ELSE Obj(n, 0, old[n])]
    /\ store = UNION {File(dirent[n]) : n \in {m \in Name : dirent[m] # None}}
    /\ keyvals = {o \in store : o.kind = "meta"}
    /\ attr = [o \in {o \in store : o.kind = "local"} |->
                 [Fresh EXCEPT !.metafile = Obj(o.c, 0, "meta")]]
    /\ set_df_attr = [k \in {"local", "remote"} |-> Zeroed]

-----------------------------------------------------------------------------
(* Message pairs (see MsgPairArray).                                       *)

\* The machine of c, now in state s, posts a request for each of objs.
Send(c, s, pc, op, objs) ==
    LET t == cl[c].tag + 1
        reqs == {[c |-> c, tag |-> t, op |-> op, obj |-> o] : o \in objs}
    IN  /\ net' = net \cup reqs
        /\ cl' = [cl EXCEPT ![c] = [s EXCEPT !.pc = pc, !.tag = t, !.wait = reqs,
                                             !.failed = {}, !.err = "ok"]]

\* Mutant of Answered: no answer but to what succeeded.
AnsweredIfOk(r, st, obj) ==
    IF st # "ok" THEN cl
    ELSE [cl EXCEPT ![r.c].wait = @ \ {r}, ![r.c].obj = IF obj = None THEN @ ELSE obj]

\* The answer to r; one that nobody waits for any more is dropped.
Answered(r, st, obj) ==
    IF r \notin cl[r.c].wait THEN cl
    ELSE [cl EXCEPT ![r.c].wait = @ \ {r},
                    ![r.c].err = IF @ = "ok" THEN st ELSE @,
                    ![r.c].obj = IF obj = None THEN @ ELSE obj]

\* A pair fails in the network: its request is lost, or late and served yet.
TimedOut(c) ==
    \E r \in cl[c].wait :
        /\ faults < MaxFaults /\ faults' = faults + 1
        /\ net' \in (IF "lost" \in Faults /\ r \in net THEN {net \ {r}} ELSE {})
                    \cup (IF "late" \in Faults THEN {net} ELSE {})
        /\ cl' = [cl EXCEPT ![c].wait = @ \ {r}, ![c].failed = @ \cup {r},
                            ![c].err = IF @ = "ok" THEN "net" ELSE @]
        /\ UNCHANGED <<job, servers>>

\* What failed in the network is sent again if it is PVFS_MSGPAIR_RETRY.
Retries(c) == /\ cl[c].pc \in {"create", "rmdata", "rmobj"}
              /\ cl[c].failed # {} /\ cl[c].tries < RetryLimit

MsgRetry(c) ==
    /\ cl[c].wait = {} /\ Retries(c)
    /\ Send(c, [cl[c] EXCEPT !.tries = @ + 1], cl[c].pc,
            IF cl[c].pc = "create" THEN "create" ELSE "remove",
            {r.obj : r \in cl[c].failed})
    /\ UNCHANGED <<job, servers, faults>>

\* pvfs2_msgpairarray_sm returns to the state pc of c's machine.
Returns(c, pc) == cl[c].pc = pc /\ cl[c].wait = {} /\ ~Retries(c)

Goto(c, pc) == cl' = [cl EXCEPT ![c].pc = pc] /\ UNCHANGED net

-----------------------------------------------------------------------------
(* pvfs2_client_create_sm                                                  *)

\* create_init and the attributes of the parent.
CreateInit(c) ==
    /\ cl[c].pc = "init" /\ job[c].op = "create" /\ cl[c].ref
    /\ \E f \in Outcome({"lost"}) :
         /\ Counted(f)
         /\ IF f = "ok"
            THEN Send(c, [cl[c] EXCEPT !.tries = 0], "create", "create", {None})
            ELSE /\ cl' = [cl EXCEPT ![c].pc = "cleanup", ![c].err = "net"]
                 /\ UNCHANGED net
    /\ UNCHANGED <<job, servers>>

\* On CREATE_RETRY create_init only waits; getattr's reference is still
\* cleared, and the assertion in getattr_acache_lookup ends the process.
CreateInitAgain(c) ==
    /\ cl[c].pc = "init" /\ job[c].op = "create" /\ ~cl[c].ref
    /\ Goto(c, "aborted")
    /\ UNCHANGED <<job, servers, faults>>

CreateXfer(c) ==
    /\ Returns(c, "create")
    /\ IF cl[c].err = "ok"
       THEN Send(c, cl[c], "crdirent", "crdirent", {cl[c].obj})
       ELSE Goto(c, "cleanup")
    /\ UNCHANGED <<job, servers, faults>>

\* Mutant of CrdirentXfer: the new objects are kept.
CrdirentXferKeeps(c) ==
    /\ Returns(c, "crdirent") /\ job[c].op = "create"
    /\ Goto(c, "cleanup")
    /\ UNCHANGED <<job, servers, faults>>

\* create_crdirent_failure and create_delete_handles_setup_msgpair_array
CrdirentXfer(c) ==
    /\ Returns(c, "crdirent") /\ job[c].op = "create"
    /\ IF cl[c].err = "ok"
       THEN Goto(c, "cleanup")
       ELSE Send(c, [cl[c] EXCEPT !.stored = cl[c].err], "delete", "remove",
                 File(cl[c].obj))
    /\ UNCHANGED <<job, servers, faults>>

DeleteHandlesXfer(c) ==
    /\ Returns(c, "delete") /\ Goto(c, "cleanup")
    /\ UNCHANGED <<job, servers, faults>>

Error(c) == IF cl[c].stored # "ok" THEN cl[c].stored ELSE cl[c].err

\* create_cleanup
CreateCleanup(c) ==
    /\ cl[c].pc = "cleanup" /\ job[c].op = "create"
    /\ cl' = [cl EXCEPT ![c] =
         IF Error(c) = "net" /\ cl[c].retry < RetryLimit
         THEN [@ EXCEPT !.pc = "init", !.ref = FALSE, !.stored = "ok", !.retry = @ + 1]
         ELSE [@ EXCEPT !.pc = "done", !.err = Error(c)]]
    /\ UNCHANGED <<job, net, servers, faults>>

-----------------------------------------------------------------------------
(* pvfs2_client_remove_sm and its helper                                   *)

Rmdirent(c, s) == Send(c, s, "rmdirent", "rmdirent", {None})
CrdirentBack(c, s) == Send(c, [s EXCEPT !.tries = 0], "recrdirent", "crdirent", {s.obj})

RemoveInit(c) ==
    /\ cl[c].pc = "init" /\ job[c].op = "remove" /\ Rmdirent(c, cl[c])
    /\ UNCHANGED <<job, servers, faults>>

MayRepeat(c) == cl[c].err = "net" /\ cl[c].retry < RetryLimit

\* remove_rmdirent_retry_or_fail: ENOENT after a repetition is an error too.
RmdirentXfer(c) ==
    /\ Returns(c, "rmdirent")
    /\ IF MayRepeat(c) THEN Rmdirent(c, [cl[c] EXCEPT !.retry = @ + 1])
       ELSE Goto(c, IF cl[c].err = "ok" THEN "getattr" ELSE "cleanup")
    /\ UNCHANGED <<job, servers, faults>>

\* remove_getattr_analyze_results, or the entry is put back.
RemoveGetattr(c) ==
    /\ cl[c].pc = "getattr"
    /\ \E f \in Outcome({"lost"}) :
         /\ Counted(f)
         /\ CASE f # "ok" \/ cl[c].obj \notin store ->
                   CrdirentBack(c, [cl[c] EXCEPT !.stored = IF f = "ok" THEN "noent" ELSE "net"])
              [] cl[c].obj.kind = "meta" ->
                   Send(c, [cl[c] EXCEPT !.tries = 0], "rmdata", "remove", Datafiles(cl[c].obj))
              [] OTHER ->
                   Send(c, [cl[c] EXCEPT !.tries = 0], "rmobj", "remove", {cl[c].obj})
    /\ UNCHANGED <<job, servers>>

\* remove_datafile_remove_failure: the error is kept, and nothing undone.
RemoveFails(c) ==
    /\ cl' = [cl EXCEPT ![c].pc = "cleanup", ![c].stored = cl[c].err, ![c].err = "ok"]
    /\ UNCHANGED net

DatafileRemoveXfer(c) ==
    /\ Returns(c, "rmdata")
    /\ IF cl[c].err = "ok"
       THEN Send(c, [cl[c] EXCEPT !.tries = 0], "rmobj", "remove", {cl[c].obj})
       ELSE RemoveFails(c)
    /\ UNCHANGED <<job, servers, faults>>

\* remove_object_remove_failure and remove_check_error_code
ObjectRemoveXfer(c) ==
    /\ Returns(c, "rmobj")
    /\ CASE cl[c].err = "ok" -> Goto(c, "cleanup")
         [] cl[c].err = "notempty" -> CrdirentBack(c, [cl[c] EXCEPT !.stored = "notempty"])
         [] OTHER -> RemoveFails(c)
    /\ UNCHANGED <<job, servers, faults>>

\* remove_crdirent_retry_or_fail; a repetition forgets the stored error.
CrdirentBackXfer(c) ==
    /\ Returns(c, "recrdirent")
    /\ IF MayRepeat(c)
       THEN CrdirentBack(c, [cl[c] EXCEPT !.retry = @ + 1, !.stored = "ok"])
       ELSE /\ cl' = [cl EXCEPT ![c] =
                 CASE @.err = "ok" \/ (@.err = "exist" /\ @.retry > 0) ->
                        [@ EXCEPT !.pc = "cleanup", !.err = "ok"]
                   [] OTHER -> [@ EXCEPT !.pc = "cleanup", !.stored = cl[c].err]]
            /\ UNCHANGED net
    /\ UNCHANGED <<job, servers, faults>>

RemoveCleanup(c) ==
    /\ cl[c].pc = "cleanup" /\ job[c].op = "remove"
    /\ cl' = [cl EXCEPT ![c].pc = "done", ![c].err = Error(c)]
    /\ UNCHANGED <<job, net, servers, faults>>

-----------------------------------------------------------------------------
(* The servers of the directory and of the objects.  The request scheduler  *)
(* keeps other modifications of the same handle away, so each is one step.  *)

\* Mutant of ServeCrdirent: an entry that exists already is no error.
ServeCrdirentBlind(r) ==
    /\ r \in net /\ r.op = "crdirent"
    /\ dirent' = [dirent EXCEPT ![job[r.c].name] = IF @ = None THEN r.obj ELSE @]
    /\ cl' = Answered(r, "ok", None)
    /\ net' = net \ {r}
    /\ UNCHANGED <<job, sm, objects, set_df_attr, faults>>

\* pvfs2_crdirent_sm: no entry is overwritten; the directory's own attributes
\* are updated last, and an error there is answered though the entry is made.
ServeCrdirent(r) ==
    /\ r \in net /\ r.op = "crdirent"
    /\ \E f \in Outcome({"write", "dirattr"}) :
         LET n == job[r.c].name
             st == CASE dirent[n] # None -> "exist" [] f = "ok" -> "ok" [] OTHER -> "trove"
         IN  /\ Counted(f)
             /\ dirent' = IF dirent[n] = None /\ f # "write"
                          THEN [dirent EXCEPT ![n] = r.obj] ELSE dirent
             /\ cl' = Answered(r, st, None)
    /\ net' = net \ {r}
    /\ UNCHANGED <<job, sm, objects, set_df_attr>>

\* pvfs2_rmdirent_sm
ServeRmdirent(r) ==
    /\ r \in net /\ r.op = "rmdirent"
    /\ \E f \in Outcome({"write", "dirattr"}) :
         LET n == job[r.c].name
             st == CASE dirent[n] = None -> "noent" [] f = "ok" -> "ok" [] OTHER -> "trove"
         IN  /\ Counted(f)
             /\ dirent' = IF f # "write" THEN [dirent EXCEPT ![n] = None] ELSE dirent
             /\ cl' = Answered(r, st, IF st = "ok" THEN dirent[n] ELSE None)
    /\ net' = net \ {r}
    /\ UNCHANGED <<job, sm, objects, set_df_attr>>

\* An object goes with its keyvals and its attributes.
Delete(S) ==
    /\ store' = store \ S
    /\ keyvals' = keyvals \ S
    /\ attr' = [o \in DOMAIN attr \ S |-> attr[o]]

\* pvfs2_remove_sm; the directories of the model are not empty.
ServeRemove(r) ==
    /\ r \in net /\ r.op = "remove"
    /\ \E f \in Outcome({"remove"}) :
         LET st == CASE r.obj \notin store -> "noent"
                     [] r.obj.kind = "dir" -> "notempty"
                     [] f = "ok" -> "ok"
                     [] OTHER -> "trove"
         IN  /\ Counted(f)
             /\ Delete(IF st = "ok" THEN {r.obj} ELSE {})
             /\ cl' = Answered(r, st, None)
    /\ net' = net \ {r}
    /\ UNCHANGED <<job, sm, dirent, set_df_attr>>

-----------------------------------------------------------------------------
(* pvfs2_create_sm on the metadata server; m is one of its machines.       *)

ServeCreate(r) ==
    /\ r \in net /\ r.op = "create"
    /\ net' = net \ {r}
    /\ sm' = sm \cup {[req |-> r, pc |-> "metafile", at |-> "local", df |-> None]}
    /\ UNCHANGED <<job, cl, dirent, objects, set_df_attr, faults>>

Own(m, k) == Obj(m.req.c, m.req.tag, k)
OwnKinds(m) == KindsOf(job[m.req.c].layout)

OwnDatafile(m, k) == {Own(m, k)} \cap Datafiles(Own(m, "meta"))
NewDatafile(new) ==
    /\ store' = store \cup new
    /\ attr' = [o \in DOMAIN attr \cup new |-> IF o \in new THEN Fresh ELSE attr[o]]
    /\ UNCHANGED keyvals

Becomes(m, n) == sm' = (sm \ {m}) \cup {n}
\* The machine's job ends with f, and the machine goes on to the next state.
JobEnds(m, pc, f, good, bad) ==
    /\ m \in sm /\ m.pc = pc /\ Counted(f)
    /\ Becomes(m, [m EXCEPT !.pc = IF f = "ok" THEN good ELSE bad])
    /\ UNCHANGED <<job, cl, net, dirent>>

CreateMetafile(m) ==
    \E f \in Outcome({"metafile"}) :
        /\ JobEnds(m, "metafile", f, "local", "refuse")
        /\ store' = IF f = "ok" THEN store \cup {Own(m, "meta")} ELSE store
        /\ UNCHANGED <<keyvals, attr, set_df_attr>>

\* check_stuffed, whose failure leaves the metafile, and create_local_datafiles
CreateLocalDatafiles(m) ==
    \E f \in Outcome({"stuffed", "local"}) :
        /\ JobEnds(m, "local", f, "read", IF f = "stuffed" THEN "refuse" ELSE "rm_meta")
        /\ NewDatafile(IF f = "ok" THEN OwnDatafile(m, "local") ELSE {})
        /\ UNCHANGED set_df_attr

\* The attributes of a datafile are read into the global, which is cleared
\* first (check_datafile_attribs_op; not by the server of a remote one).
\* Without a local datafile handle_array_local[0] is uninitialised memory.
PostGetattr(m) ==
    /\ m \in sm /\ m.pc = "read"
    /\ \E df \in IF m.at \in OwnKinds(m) THEN OwnDatafile(m, m.at)
               ELSE {o \in DOMAIN attr : o.kind = "local"} \cup {None} :
         Becomes(m, [m EXCEPT !.pc = "getattr", !.df = df])
    /\ set_df_attr' = IF m.at = "local" THEN [set_df_attr EXCEPT ![m.at] = Zeroed]
                                         ELSE set_df_attr
    /\ UNCHANGED <<job, cl, net, dirent, objects, faults>>

\* What the set-attribute machine reports is ignored by its caller.
AfterAttr(m) == IF m.at = "local" THEN "rm_meta" ELSE "keyvals"

GetattrDone(m) ==
    \E f \in Outcome({"getattr"}) :
        LET found == f = "ok" /\ m.df \in DOMAIN attr IN
        /\ JobEnds(m, "getattr", f, IF found THEN "set" ELSE AfterAttr(m), AfterAttr(m))
        /\ set_df_attr' = IF found THEN [set_df_attr EXCEPT ![m.at] = attr[m.df]]
                                    ELSE set_df_attr
        /\ UNCHANGED objects

\* set_local_datafile_metafile_op, set_datafile_attribs_op: the storage is
\* given a pointer to the global, and reads it when it comes to the operation.
PostSetattr(m) ==
    /\ m \in sm /\ m.pc = "set"
    /\ set_df_attr' = [set_df_attr EXCEPT ![m.at].metafile = Own(m, "meta")]
    /\ Becomes(m, [m EXCEPT !.pc = "setattr"])
    /\ UNCHANGED <<job, cl, net, dirent, objects, faults>>

SetattrDone(m) ==
    \E f \in Outcome({"setattr"}) :
        /\ JobEnds(m, "setattr", f, IF m.at = "local" THEN "request" ELSE "keyvals", AfterAttr(m))
        /\ attr' = IF f = "ok" /\ m.df \in DOMAIN attr
                   THEN [attr EXCEPT ![m.df] = set_df_attr[m.at]] ELSE attr
        /\ UNCHANGED <<store, keyvals, set_df_attr>>

\* request_datafiles: a datafile from the pool (PrecreatePool), whose own
\* server is then told of the metafile (pvfs2_set_df_attr_client_sm).
RequestDatafiles(m) ==
    \E f \in Outcome({"request"}) :
        /\ m \in sm /\ m.pc = "request" /\ Counted(f)
        /\ NewDatafile(IF f = "ok" THEN OwnDatafile(m, "remote") ELSE {})
        /\ Becomes(m, CASE f # "ok" -> [m EXCEPT !.pc = "rm_local"]
                        [] "remote" \in OwnKinds(m) -> [m EXCEPT !.pc = "read", !.at = "remote"]
                        [] OTHER -> [m EXCEPT !.pc = "keyvals"])
        /\ UNCHANGED <<job, cl, net, dirent, set_df_attr>>

WriteKeyvals(m) ==
    \E f \in Outcome({"keyvals"}) :
        /\ JobEnds(m, "keyvals", f, "setobj", "replace")
        /\ keyvals' = IF f = "ok" THEN keyvals \cup {Own(m, "meta")} ELSE keyvals
        /\ UNCHANGED <<store, attr, set_df_attr>>

SetobjAttribs(m) ==
    \E f \in Outcome({"setobj"}) :
        /\ JobEnds(m, "setobj", f, "respond", "rm_keyvals")
        /\ UNCHANGED <<objects, set_df_attr>>

\* If the keyvals cannot be removed again, nothing else is.
RemoveKeyvals(m) ==
    \E f \in Outcome({"rm_keyvals"}) :
        /\ JobEnds(m, "rm_keyvals", f, "replace", "refuse")
        /\ keyvals' = IF f = "ok" THEN keyvals \ {Own(m, "meta")} ELSE keyvals
        /\ UNCHANGED <<store, attr, set_df_attr>>

\* replace_remote_datafile_handles: back into the pool.
ReplaceRemote(m) ==
    /\ JobEnds(m, "replace", "ok", "rm_local", "rm_local")
    /\ Delete(OwnDatafile(m, "remote"))
    /\ UNCHANGED set_df_attr

RemoveLocal(m) ==
    \E f \in Outcome({"rm_local"}) :
        /\ JobEnds(m, "rm_local", f, "rm_meta", "rm_meta")
        /\ Delete(IF f = "ok" THEN OwnDatafile(m, "local") ELSE {})
        /\ UNCHANGED set_df_attr

RemoveMetafile(m) ==
    \E f \in Outcome({"rm_meta"}) :
        /\ JobEnds(m, "rm_meta", f, "refuse", "refuse")
        /\ Delete(IF f = "ok" THEN {Own(m, "meta")} ELSE {})
        /\ UNCHANGED set_df_attr

\* Mutant of FinalResponse: the saved error code is not retrieved.
FinalResponseForgets(m) ==
    /\ m \in sm /\ m.pc \in {"respond", "refuse"}
    /\ sm' = sm \ {m}
    /\ cl' = Answered(m.req, "ok", Own(m, "meta"))
    /\ UNCHANGED <<job, net, dirent, objects, set_df_attr, faults>>

\* setup_resp, setup_final_response
FinalResponse(m) ==
    /\ m \in sm /\ m.pc \in {"respond", "refuse"}
    /\ sm' = sm \ {m}
    /\ cl' = IF m.pc = "respond" THEN Answered(m.req, "ok", Own(m, "meta"))
                                  ELSE Answered(m.req, "trove", None)
    /\ UNCHANGED <<job, net, dirent, objects, set_df_attr, faults>>

-----------------------------------------------------------------------------
Ended(c) == cl[c].pc \in {"done", "aborted"}

ClientStep(c) ==
    \/ MsgRetry(c) \/ CreateInit(c) \/ CreateInitAgain(c) \/ CreateXfer(c)
    \/ CrdirentXfer(c) \/ DeleteHandlesXfer(c) \/ CreateCleanup(c)
    \/ RemoveInit(c) \/ RmdirentXfer(c) \/ RemoveGetattr(c) \/ DatafileRemoveXfer(c)
    \/ ObjectRemoveXfer(c) \/ CrdirentBackXfer(c) \/ RemoveCleanup(c)

ServerStep ==
    \/ \E r \in net : ServeCrdirent(r) \/ ServeRmdirent(r) \/ ServeRemove(r) \/ ServeCreate(r)
    \/ \E m \in sm :
         \/ CreateMetafile(m) \/ CreateLocalDatafiles(m) \/ PostGetattr(m) \/ GetattrDone(m)
         \/ PostSetattr(m) \/ SetattrDone(m) \/ RequestDatafiles(m) \/ WriteKeyvals(m)
         \/ SetobjAttribs(m) \/ RemoveKeyvals(m) \/ ReplaceRemote(m) \/ RemoveLocal(m)
         \/ RemoveMetafile(m) \/ FinalResponse(m)

Next == (\E c \in Client : ClientStep(c) \/ TimedOut(c)) \/ ServerStep

Spec == Init /\ [][Next]_vars

\* The machines of clients and servers run whenever they can.
FairSpec == Spec /\ WF_vars(ServerStep) /\ \A c \in Client : WF_vars(ClientStep(c))

-----------------------------------------------------------------------------
\* "The file is either there (and ready to be accessed) or it isn't"
\* (doc/basics.tex): what an entry names exists, with its keyvals and with all
\* its datafiles, whoever creates and removes it and whatever fails, as long
\* as no request that was given up is served later.
NamesReady ==
    \A n \in Name : dirent[n] # None =>
        /\ File(dirent[n]) \subseteq store
        /\ dirent[n].kind = "meta" => dirent[n] \in keyvals

\* What became of an operation, and why it may have left something behind.
Held(c) == {o \in store : o.c = c} \cup
           IF cl[c].obj = None THEN {} ELSE File(cl[c].obj)
Excused(c) ==
    \/ cl[c].pc = "aborted" \/ cl[c].failed # {} \/ cl[c].retry > 0
    \/ job[c].op = "remove" /\ cl[c].err # "ok"

\* "because none of those objects are referenced by anyone else we can clean
\* them up without concern" (doc/basics.tex): an object is part of what some
\* entry names, or an operation is still at work on it, or one that removed
\* its name failed, or a request was given up.  A create that is refused by
\* the directory or by a server's storage leaves nothing behind.
NothingStranded ==
    \A o \in store :
        \/ \E n \in Name : dirent[n] # None /\ o \in File(dirent[n])
        \/ \E c \in Client : o \in Held(c) /\ (~Ended(c) \/ Excused(c))

\* A create that reported success has made the entry, and made it name its own
\* file; only a remove that took that very file away may have changed this
\* (sys-create.sm and sys-remove.sm against crdirent.sm, which overwrites no
\* entry).
CreatedIsNamed ==
    \A c \in Client :
        job[c].op = "create" /\ cl[c].pc = "done" /\ cl[c].err = "ok" =>
            \/ dirent[job[c].name] = cl[c].obj
            \/ \E d \in Client : job[d].op = "remove" /\ cl[d].obj = cl[c].obj

\* Every operation ends: with success, with an error, or with the process.
OperationEnds == <>(\A c \in Client : Ended(c))

\* "Add metafile to datafile's attributes" (create.sm): the datafiles of a
\* named file are marked with its metafile.
OwnMetafile ==
    \A n \in Name : dirent[n] # None =>
        \A d \in Datafiles(dirent[n]) \cap DOMAIN attr : attr[d].metafile = dirent[n]

=============================================================================
