---------------------------- MODULE Migration_steps ----------------------------
(*******************************************************************************)
(* Two invariants of Migration and the steps that keep them.  IndInv holds     *)
(* whoever balances: what a round of perf-update has at each point, how it and *)
(* the request it waits for agree, and that only datafiles with attributes are *)
(* ever told to anybody.  SoloInv, of what the datafiles hold, holds when one  *)
(* server balances.                                                            *)
(*******************************************************************************)
EXTENDS Migration, TLAPS

Active == {"getattr", "request", "flow", "moved", "ack", "send", "setattr"}
Answered == {"flow", "moved", "ack", "send", "setattr"}
Round ==
    [pc : {"timer", "collect", "dead"} \cup Active,
     report : [Server -> Load \cup {0, Busy, Unknown}],
     target : Server \cup {Nobody}, handle : Handle \cup {NoHandle},
     snap : SUBSET Writer, resp : Handle \cup {NoHandle, Refused}, tries : 0..MaxTries]

\* A round of perf-update: it has a target, a handle and an answer just when
\* it has come to that point, and its target did not say that it is busy.
RoundOk(s, r) ==
    /\ r \in Round
    /\ r.pc \in Active => r.target \in Peers(s) /\ r.handle \in Handle
                          /\ r.report[r.target] # Busy
    /\ r.pc \notin Active => r.target = Nobody /\ r.handle = NoHandle
    /\ r.pc \notin Active \ {"getattr"} => r.resp = NoHandle
    /\ r.pc \in Answered => r.resp \in Handle
Rounds == upd \in [Server -> Round] /\ \A s \in Server : RoundOk(s, upd[s])

Early == {"new", "created", "failed", "refused"}
Instance ==
    [src : Server, meta : File,
     pc : Early \cup {"flow", "moved", "recv", "told", "deferred"},
     handle : Handle \cup {NoHandle}, sent : SUBSET Writer, live : BOOLEAN]

\* A request received: only the first in line is let go, and it has a datafile
\* from the time it is answered.
InstOk(p, k, i) ==
    /\ i \in Instance /\ i.src # p
    /\ k > 1 => i.pc = "new"
    /\ i.handle = NoHandle <=> i.pc \in Early
Queues ==
    /\ inst \in [Server -> Seq(Instance)]
    /\ \A p \in Server : /\ Len(inst[p]) <= MaxQueue
                         /\ \A k \in 1..Len(inst[p]) : InstOk(p, k, inst[p][k])

\* The datafile of a request belongs to its server.
Owned ==
    \A p \in Server : \A k \in 1..Len(inst[p]) :
        /\ inst[p][k].handle # NoHandle =>
              home[inst[p][k].handle] = p /\ meta[inst[p][k].handle] \in File
        /\ inst[p][k].pc = "created" => new_handle[p] \in Handle /\ home[new_handle[p]] = p

\* A source whose round is u waits for request i of server p, and has the
\* answer to it.
Waits(u, p, i) ==
    /\ u.target = p /\ u.pc # "getattr"
    /\ i.pc \in {"new", "created", "failed"} => u.resp = NoHandle
    /\ u.resp \in Handle => u.resp = i.handle

\* Every source waits for at most one request.
Live ==
    \A p \in Server : \A k \in 1..Len(inst[p]) : inst[p][k].live =>
        Waits(upd[inst[p][k].src], p, inst[p][k])
Once ==
    \A p \in Server : \A j, k \in 1..Len(inst[p]) :
        inst[p][j].live /\ inst[p][k].live /\ inst[p][j].src = inst[p][k].src => j = k

\* Whoever is told of a datafile is told of one whose attributes are set.
Usable == {h \in Handle : meta[h] \in File}
ServersTold ==
    \A s \in Server : /\ counted[s] \subseteq Usable
                      /\ upd[s].handle # NoHandle => upd[s].handle \in Usable
                      /\ upd[s].resp \in Handle => upd[s].resp \in Usable
ClientsTold ==
    /\ File \subseteq Usable
    /\ \A f \in File : layout[f] \in Usable
    /\ \A m \in setattrs : m.new \in Usable
    /\ \A w \in Writer : /\ io[w].handle # NoHandle => io[w].handle \in Usable
                         /\ io[w].pc \in {"sent", "flow"} => io[w].handle # NoHandle

\* The types of everything else.
Globals ==
    /\ mig_state \in [Server -> {0, 1}]
    /\ mig_datafile_handle \in [Server -> Handle \cup {NoHandle}]
    /\ new_handle \in [Server -> Handle \cup {NoHandle}]
    /\ load \in [Server -> Load \cup {0}] /\ counted \in [Server -> SUBSET Handle]
    /\ home \in [Handle -> Server \cup {Nobody}]
    /\ meta \in [Handle -> File \cup {NoHandle}] /\ data \in [Handle -> SUBSET Writer]
    /\ layout \in [File -> Handle]
    /\ setattrs \subseteq [src : Server, file : File, old : Handle, new : Handle]
    /\ io \in [Writer -> [pc : {"idle", "sent", "flow", "done"},
                          handle : Handle \cup {NoHandle}]]
    /\ exposed \subseteq acked /\ acked \subseteq Writer

IndInv == Globals /\ Rounds /\ Queues /\ Owned /\ Live /\ Once /\ ServersTold /\ ClientsTold

-----------------------------------------------------------------------------
(* Rounds, and what is known of datafiles. *)

\* The invariant gives every variable its type.
LEMMA Types == IndInv => TypeOK
BY DEF IndInv, Globals, Rounds, Queues, RoundOk, InstOk, Instance, Round, Early, Active, TypeOK

\* A round before its timer, and one that perf_update_error has ended, are rounds.
LEMMA IdleOk == ASSUME NEW s \in Server PROVE RoundOk(s, Idle) /\ RoundOk(s, [Idle EXCEPT !.pc = "dead"])
BY BoundAssumption DEF RoundOk, Round, Idle, Active, Answered, Unknown

\* One round changes, and is a round.
LEMMA RoundsStep ==
    ASSUME Rounds, NEW s \in Server, NEW r, RoundOk(s, r), upd' = [upd EXCEPT ![s] = r]
    PROVE  Rounds' /\ upd'[s] = r /\ \A t \in Server \ {s} : upd'[t] = upd[t]
BY Zenon DEF Rounds, RoundOk

\* Neither the target nor the answer of a round u changes, and the request i goes on.
LEMMA WaitsStill ==
    ASSUME NEW u, NEW v, NEW p, NEW i, NEW j, Waits(u, p, i),
           v.target = u.target, v.resp = u.resp, v.pc = "getattr" => u.pc = "getattr",
           j.handle = i.handle,
           j.pc \in {"new", "created", "failed"} => i.pc \in {"new", "created", "failed"}
    PROVE  Waits(v, p, j)
BY Zenon DEF Waits

\* The requests stay, and the round of s goes on or was not yet at its requests.
LEMMA LiveKept ==
    ASSUME Queues, Live, UNCHANGED inst, NEW s \in Server,
           \A t \in Server \ {s} : upd'[t] = upd[t],
           \/ upd[s].target = Nobody \/ upd[s].pc = "getattr"
           \/ /\ upd'[s].target = upd[s].target /\ upd'[s].resp = upd[s].resp
              /\ upd'[s].pc # "getattr"
    PROVE  Live'
<1> SUFFICES ASSUME NEW p \in Server, NEW k \in 1..Len(inst[p]), inst[p][k].live
             PROVE  Waits(upd'[inst[p][k].src], p, inst[p][k])
  BY Zenon DEF Live
<1>1. Waits(upd[inst[p][k].src], p, inst[p][k]) /\ inst[p][k].src \in Server
  BY Zenon DEF Live, Queues, InstOk, Instance
<1>2. Nobody # p
  BY DEF Nobody, Server
<1> QED
  BY Zenon, <1>1, <1>2 DEF Waits

\* A server learns of no datafile whose attributes are not set.
LEMMA ServersToldKept ==
    ASSUME ServersTold, Usable \subseteq Usable', NEW s \in Server,
           \A t \in Server \ {s} : upd'[t] = upd[t],
           upd'[s].handle \in Usable' \cup {NoHandle, upd[s].handle},
           upd'[s].resp \in Usable' \cup {NoHandle, Refused, upd[s].resp},
           \A t \in Server : counted'[t] \subseteq counted[t] \cup Usable'
    PROVE  ServersTold'
BY DEF ServersTold, NoHandle, Refused, Handle

\* The files, the requests and the clients keep what they know.
LEMMA ClientsToldKept ==
    ASSUME ClientsTold, UNCHANGED <<meta, layout, setattrs, io>>
    PROVE  ClientsTold'
BY Zenon DEF ClientsTold, Usable

\* The round of s goes on to r, and the requests stay where they are.
LEMMA RoundGoesOn ==
    ASSUME IndInv, NEW s \in Server, NEW r, RoundOk(s, r), upd' = [upd EXCEPT ![s] = r],
           UNCHANGED <<new_handle, inst, home, meta>>,
           \/ upd[s].target = Nobody \/ upd[s].pc = "getattr"
           \/ r.target = upd[s].target /\ r.resp = upd[s].resp /\ r.pc # "getattr",
           r.handle \in Usable \cup {NoHandle, upd[s].handle},
           r.resp \in {NoHandle, upd[s].resp},
           \A t \in Server : counted'[t] \subseteq counted[t] \cup Usable
    PROVE  Rounds' /\ Queues' /\ Owned' /\ Once' /\ Live' /\ ServersTold'
<1> USE DEF IndInv
<1>1. Rounds' /\ upd'[s] = r /\ \A t \in Server \ {s} : upd'[t] = upd[t]
  BY Zenon, RoundsStep
<1>2. Queues' /\ Owned' /\ Once'
  <2>1. Queues'
    BY Zenon DEF Queues
  <2>2. Owned'
    BY DEF Owned
  <2>3. Once'
    BY Zenon DEF Once
  <2> QED
    BY Zenon, <2>1, <2>2, <2>3
<1>3. Live'
  BY Zenon, <1>1, LiveKept
<1>4. ServersTold'
  BY Zenon, <1>1, ServersToldKept DEF Usable
<1> QED
  BY Zenon, <1>1, <1>2, <1>3, <1>4

\* The timer expires.
LEMMA PeriodInd == ASSUME IndInv, NEW s \in Server, Period(s) PROVE IndInv'
<1> USE DEF IndInv
<1>1. PICK r : /\ RoundOk(s, r) /\ upd' = [upd EXCEPT ![s] = r]
               /\ r.handle = NoHandle /\ r.resp = NoHandle
  BY SMTT(30), IdleOk DEF Period, Finalize, Rounds, RoundOk, Round, Active, Answered, Idle
<1>2. UNCHANGED <<new_handle, inst, home, meta, layout, setattrs, io>> /\ upd[s].target = Nobody
  BY Zenon DEF Period, files, clients, Rounds, RoundOk, Active
<1>3. Globals' /\ \A t \in Server : counted'[t] \subseteq counted[t]
  BY DEF Period, Finalize, Globals, files, clients
<1> QED
  BY Zenon, <1>1, <1>2, <1>3, RoundGoesOn, ClientsToldKept

\* A peer answers what its load is, or that it is busy.
LEMMA PerfMonInd == ASSUME IndInv, NEW p \in Server, NEW s \in Server, PerfMon(p, s) PROVE IndInv'
<1> USE DEF IndInv
<1> DEFINE r == [upd[s] EXCEPT !.report[p] = IF mig_state[p] = 0 THEN load[p] ELSE Busy]
<1>1. upd' = [upd EXCEPT ![s] = r] /\ upd[s] \in Round /\ load[p] \in Load \cup {0}
  BY Zenon DEF PerfMon, Rounds, Globals
<1>2. RoundOk(s, upd[s]) /\ upd[s].pc = "collect"
  BY Zenon DEF Rounds, PerfMon
<1>4. r \in Round /\ r = [upd[s] EXCEPT !.report = r.report]
  BY <1>1, Zenon DEF Round
<1>5. RoundOk(s, r) /\ r.handle = upd[s].handle /\ r.resp = upd[s].resp
      /\ upd[s].target = Nobody
  BY Zenon, <1>1, <1>2, <1>4 DEF RoundOk, Round, Active, Answered
<1>3. UNCHANGED <<new_handle, inst, home, meta, layout, setattrs, io, counted>> /\ Globals'
  BY Zenon DEF PerfMon, files, clients, Globals
<1> HIDE DEF r
<1> QED
  BY Zenon, <1>1, <1>3, <1>5, RoundGoesOn, ClientsToldKept

\* A peer does not answer, and the machine ends.
LEMMA PollFailsInd == ASSUME IndInv, NEW s \in Server, PollFails(s) PROVE IndInv'
<1> USE DEF IndInv
<1> DEFINE r == [Idle EXCEPT !.pc = "dead"]
<1>1. upd' = [upd EXCEPT ![s] = r] /\ RoundOk(s, r) /\ r.handle = NoHandle /\ r.resp = NoHandle
  BY Zenon, IdleOk DEF PollFails, Idle
<1>2. UNCHANGED <<new_handle, inst, home, meta, layout, setattrs, io>> /\ upd[s].target = Nobody
  BY Zenon DEF PollFails, files, clients, Rounds, RoundOk, Active
<1>3. Globals' /\ \A t \in Server : counted'[t] \subseteq counted[t]
  BY Zenon DEF PollFails, files, clients, Globals
<1> HIDE DEF r
<1> QED
  BY Zenon, <1>1, <1>2, <1>3, RoundGoesOn, ClientsToldKept

\* A load is less than what a server that is busy reports.
LEMMA LoadBound == \A l \in Load \cup {0} : l \in Nat /\ l < BusyLoad
<1>1. BusyLoad \in Nat /\ BusyLoad > 0
  BY DEF BusyLoad
<1>2. Load \subseteq 0..(BusyLoad - 1)
  BY Zenon, LoadAssumption
<1> QED
  BY <1>1, <1>2

LeastLaw == \A S \in SUBSET Nat : S # {} => \E x \in S : \A y \in S : x <= y

\* mig_decide_fun: there is a coolest one of those that answered, and against
\* one that says it is busy it never pays.
LEMMA CoolestHeard ==
    ASSUME LeastLaw, IndInv, NEW s \in Server, Pays(s), upd[s].pc = "collect",
           \A p \in Peers(s) : upd[s].report[p] # Unknown
    PROVE  Coolest(s) \in Heard(s)
<1> USE DEF IndInv
<1>1. load[s] \in Int /\ load[s] < BusyLoad
  BY LoadBound DEF Globals
<1>2. Heard(s) # {}
  <2>1. BusyLoad \in Nat
    BY DEF BusyLoad
  <2> QED
    BY <1>1, <2>1 DEF Pays
<1>3. \A p \in Heard(s) : Report(s)[p] \in Nat
  <2>1. \A p \in Heard(s) : Report(s)[p] \in Load \cup {0}
    BY DEF Heard, Report, Rounds, Round, Peers
  <2> QED
    BY Zenon, <2>1, LoadBound
<1> DEFINE V == {Report(s)[p] : p \in Heard(s)}
<1>4. PICK v \in V : \A y \in V : v <= y
  BY Zenon, <1>2, <1>3 DEF LeastLaw
<1> DEFINE P == {p \in Heard(s) : Report(s)[p] = v}
<1>5. P # {} /\ P \in SUBSET Nat
  BY DEF Heard, Peers, Server
<1>6. PICK c \in P : \A y \in P : c <= y
  BY Zenon, <1>5 DEF LeastLaw
<1>7. \A q \in Heard(s) \ {c} :
         Report(s)[c] < Report(s)[q] \/ (Report(s)[c] = Report(s)[q] /\ c < q)
  <2> SUFFICES ASSUME NEW q \in Heard(s) \ {c}
               PROVE  Report(s)[c] < Report(s)[q] \/ (Report(s)[c] = Report(s)[q] /\ c < q)
    BY Zenon
  <2>1. v <= Report(s)[q] /\ Report(s)[c] = v /\ v \in Nat /\ Report(s)[q] \in Nat
    BY Zenon, <1>3, <1>4
  <2>2. c \in Nat /\ q \in Nat /\ c # q /\ (q \in P => c <= q)
    BY <1>5, <1>6 DEF Heard, Peers, Server
  <2> QED
    BY <2>1, <2>2
<1> QED
  BY <1>2, <1>7, Zenon DEF Coolest

\* mig_decide_fun: a target that did not say it is busy, or no migration.
LEMMA MigDecideInd ==
    ASSUME LeastLaw, IndInv, NEW s \in Server, MigDecide(s)
    PROVE  IndInv'
<1> USE DEF IndInv
<1>1. UNCHANGED <<new_handle, inst, home, meta, layout, setattrs, io>> /\ upd[s].target = Nobody
      /\ RoundOk(s, upd[s]) /\ upd[s].pc = "collect" /\ upd[s].resp = NoHandle
  BY Zenon DEF MigDecide, files, clients, Rounds, RoundOk, Active
<1>2. CASE Finalize(s) /\ UNCHANGED mig_datafile_handle
  <2>1. RoundOk(s, Idle) /\ Idle.handle = NoHandle /\ Idle.resp = NoHandle
    BY Zenon, IdleOk DEF Idle
  <2>2. upd' = [upd EXCEPT ![s] = Idle] /\ Globals'
        /\ \A t \in Server : counted'[t] \subseteq counted[t]
    BY Zenon, <1>2 DEF MigDecide, Finalize, files, clients, Globals
  <2> QED
    BY Zenon, <1>1, <2>1, <2>2, RoundGoesOn, ClientsToldKept
<1>3. CASE ~ (Finalize(s) /\ UNCHANGED mig_datafile_handle)
  <2>1. PICK h \in Candidates(s) :
          /\ mig_state' = [mig_state EXCEPT ![s] = 1]
          /\ mig_datafile_handle' = [mig_datafile_handle EXCEPT ![s] = h]
          /\ upd' = [upd EXCEPT ![s].pc = "getattr", ![s].target = Coolest(s), ![s].handle = h]
          /\ UNCHANGED <<counted, load, data, acked, exposed>>
    BY Zenon, <1>3 DEF MigDecide, files, clients
  <2>2. h \in Usable /\ Pays(s) /\ h \in Handle
    BY DEF Candidates, Known, ClientsTold, ServersTold, NoHandle, Handle
  <2>3. Coolest(s) \in Heard(s)
    BY Zenon, <2>2, CoolestHeard DEF MigDecide
  <2> DEFINE r == [upd[s] EXCEPT !.pc = "getattr", !.target = Coolest(s), !.handle = h]
  <2>4. upd' = [upd EXCEPT ![s] = r]
    BY Zenon, <2>1 DEF Rounds
  <2>5. RoundOk(s, r) /\ r.handle = h /\ r.resp = NoHandle
    BY Zenon, <1>1, <2>2, <2>3 DEF RoundOk, Round, Active, Answered, Heard, Peers
  <2>6. Globals'
    BY Zenon, <1>1, <2>1, <2>2 DEF Globals
  <2> HIDE DEF r
  <2> QED
    BY Zenon, <1>1, <2>1, <2>2, <2>4, <2>5, <2>6, RoundGoesOn, ClientsToldKept
<1> QED
  BY Zenon, <1>2, <1>3

-----------------------------------------------------------------------------
(* Requests that a source forgets, and sends again. *)

\* The same request, maybe disowned by its source s.
AsBefore(s, d, i) ==
    /\ d \in Instance /\ d.src = i.src /\ d.meta = i.meta /\ d.pc = i.pc
    /\ d.handle = i.handle /\ d.sent = i.sent
    /\ d.live => i.live /\ i.src # s

\* The requests of s at its target when it no longer waits for them.
LEMMA DisownedSeq ==
    ASSUME Queues, NEW s \in Server, upd[s].target \in Server
    PROVE  /\ Disowned(s) \in Seq(Instance) /\ Len(Disowned(s)) = Len(inst[upd[s].target])
           /\ \A k \in 1..Len(inst[upd[s].target]) :
                AsBefore(s, Disowned(s)[k], inst[upd[s].target][k])
<1> DEFINE q == inst[upd[s].target]
<1>1. q \in Seq(Instance)
  BY Zenon DEF Queues
<1>2. \A k \in 1..Len(q) : Disowned(s)[k] =
         IF q[k].src = s THEN [q[k] EXCEPT !.live = FALSE] ELSE q[k]
  BY <1>1 DEF Disowned
<1>3. \A k \in 1..Len(q) : q[k] \in Instance
  BY <1>1
<1>4. \A k \in 1..Len(q) : AsBefore(s, Disowned(s)[k], q[k])
  <2> SUFFICES ASSUME NEW i \in Instance
               PROVE  AsBefore(s, IF i.src = s THEN [i EXCEPT !.live = FALSE] ELSE i, i)
    BY Zenon, <1>2, <1>3
  <2> QED
    BY Zenon DEF AsBefore, Instance
<1>5. \A k \in 1..Len(q) : Disowned(s)[k] \in Instance
  BY Zenon, <1>4 DEF AsBefore
<1>6. Disowned(s) = [k \in 1..Len(q) |-> Disowned(s)[k]]
  BY <1>1 DEF Disowned
<1>7. Disowned(s) \in Seq(Instance) /\ Len(Disowned(s)) = Len(q)
  <2> DEFINE d == Disowned(s)
  <2> HIDE DEF d
  <2>1. d = [k \in 1..Len(q) |-> d[k]] /\ \A k \in 1..Len(q) : d[k] \in Instance
    BY <1>5, <1>6, Zenon DEF d
  <2>2. d \in Seq(Instance) /\ Len(d) = Len(q)
    BY <1>1, <2>1
  <2> QED
    BY Zenon, <2>2 DEF d
<1> QED
  BY Zenon, <1>4, <1>7

\* Nothing else changes in the queues, and no request of s is waited for.
LEMMA DisownedKept ==
    ASSUME IndInv, NEW s \in Server, upd[s].target \in Server, NEW f,
           f = [inst EXCEPT ![upd[s].target] = Disowned(s)]
    PROVE  /\ f \in [Server -> Seq(Instance)]
           /\ \A p \in Server : /\ Len(f[p]) = Len(inst[p])
                                /\ \A k \in 1..Len(inst[p]) : AsBefore(s, f[p][k], inst[p][k])
<1> USE DEF IndInv
<1>1. f \in [Server -> Seq(Instance)]
  BY Zenon, DisownedSeq DEF Queues
<1> SUFFICES ASSUME NEW p \in Server
             PROVE  /\ Len(f[p]) = Len(inst[p])
                    /\ \A k \in 1..Len(inst[p]) : AsBefore(s, f[p][k], inst[p][k])
  BY Zenon, <1>1
<1>2. CASE p = upd[s].target
  BY Zenon, <1>2, DisownedSeq DEF Queues
<1>3. CASE p # upd[s].target
  <2> SUFFICES ASSUME NEW k \in 1..Len(inst[p]) PROVE AsBefore(s, inst[p][k], inst[p][k])
    BY Zenon, <1>3 DEF Queues
  <2>1. inst[p][k] \in Instance
    BY Zenon DEF Queues, InstOk
  <2>2. inst[p][k].live => inst[p][k].src # s
    BY <1>3 DEF Live, Waits
  <2> QED
    BY Zenon, <2>1, <2>2 DEF AsBefore
<1> QED
  BY Zenon, <1>2, <1>3

\* The step of s disowns its requests, and may add one at its target.
RenewedAt(s, p) ==
    /\ Len(inst'[p]) <= MaxQueue
    /\ \A k \in 1..Len(inst'[p]) :
         \/ k \in 1..Len(inst[p]) /\ AsBefore(s, inst'[p][k], inst[p][k])
         \/ /\ k = Len(inst[p]) + 1 /\ p = upd[s].target /\ inst'[p][k] = Request(s)
            /\ upd'[s].target = p /\ upd'[s].pc = "request" /\ upd'[s].resp = NoHandle
Renewed(s) == inst' \in [Server -> Seq(Instance)] /\ \A p \in Server : RenewedAt(s, p)

\* The queues after such a step.
LEMMA RenewedInd ==
    ASSUME IndInv, NEW s \in Server, upd[s].pc \in Active, Renewed(s),
           \A t \in Server \ {s} : upd'[t] = upd[t], UNCHANGED <<new_handle, home, meta>>
    PROVE  Queues' /\ Owned' /\ Once' /\ Live'
<1> USE DEF IndInv
<1>1. upd[s].target \in Peers(s) /\ upd[s].handle \in Handle
  BY Zenon DEF Rounds, RoundOk
<1> DEFINE n == Request(s)
<1>2. n \in Instance /\ n.src = s /\ n.pc = "new" /\ n.handle = NoHandle /\ n.live
  BY <1>1 DEF Request, Instance, Early, ServersTold, Usable, NoHandle, Handle
<1>3. \A p \in Server : Len(inst[p]) \in Nat /\ Len(inst'[p]) \in Nat
  BY SMTT(30) DEF Queues, Renewed
<1> HIDE DEF n
<1>4. ASSUME NEW p \in Server, NEW k \in 1..Len(inst'[p])
      PROVE  /\ InstOk(p, k, inst'[p][k])
             /\ inst'[p][k].handle # NoHandle =>
                   home[inst'[p][k].handle] = p /\ meta[inst'[p][k].handle] \in File
             /\ inst'[p][k].pc = "created" => new_handle[p] \in Handle /\ home[new_handle[p]] = p
             /\ inst'[p][k].live => Waits(upd'[inst'[p][k].src], p, inst'[p][k])
  <2>1. CASE k \in 1..Len(inst[p]) /\ AsBefore(s, inst'[p][k], inst[p][k])
    <3>1. InstOk(p, k, inst[p][k]) /\ inst[p][k].src \in Server
      BY Zenon, <2>1 DEF Queues, InstOk, Instance
    <3>2. inst[p][k].live => Waits(upd[inst[p][k].src], p, inst[p][k])
      BY Zenon, <2>1 DEF Live
    <3>3. /\ inst[p][k].handle # NoHandle =>
                   home[inst[p][k].handle] = p /\ meta[inst[p][k].handle] \in File
          /\ inst[p][k].pc = "created" => new_handle[p] \in Handle /\ home[new_handle[p]] = p
      BY Zenon, <2>1 DEF Owned
    <3>4. InstOk(p, k, inst'[p][k])
      BY Zenon, <2>1, <3>1 DEF AsBefore, InstOk
    <3>5. inst'[p][k].live => Waits(upd'[inst'[p][k].src], p, inst'[p][k])
      BY Zenon, <2>1, <3>1, <3>2 DEF AsBefore, Waits
    <3> QED
      BY Zenon, <2>1, <3>3, <3>4, <3>5 DEF AsBefore
  <2>2. CASE /\ k = Len(inst[p]) + 1 /\ p = upd[s].target /\ inst'[p][k] = n
             /\ upd'[s].target = p /\ upd'[s].pc = "request" /\ upd'[s].resp = NoHandle
    BY ZenonT(30), <1>1, <1>2, <2>2 DEF InstOk, Waits, Early, Peers, NoHandle, Handle
  <2> QED
    BY Zenon, <2>1, <2>2 DEF Renewed, RenewedAt, n
<1>5. Queues' /\ Owned' /\ Live'
  BY Zenon, <1>4 DEF Renewed, RenewedAt, Queues, Owned, Live
<1>6. Once'
  <2> SUFFICES ASSUME NEW p \in Server, NEW j \in 1..Len(inst'[p]), NEW k \in 1..Len(inst'[p]),
                      inst'[p][j].live, inst'[p][k].live, inst'[p][j].src = inst'[p][k].src
               PROVE  j = k
    BY Zenon DEF Once
  <2>1. \A l \in 1..Len(inst'[p]) : inst'[p][l].live =>
          \/ /\ l \in 1..Len(inst[p]) /\ inst'[p][l].src = inst[p][l].src /\ inst[p][l].live
             /\ inst[p][l].src # s
          \/ l = Len(inst[p]) + 1 /\ inst'[p][l].src = s
    BY SMTT(30), <1>2 DEF Renewed, RenewedAt, AsBefore, n
  <2> QED
    BY Zenon, <2>1 DEF Once
<1> QED
  BY Zenon, <1>5, <1>6

\* s forgets its requests.
LEMMA CleanupRenews ==
    ASSUME IndInv, NEW s \in Server, upd[s].pc \in Active,
           inst' = [inst EXCEPT ![upd[s].target] = Disowned(s)]
    PROVE  Renewed(s)
<1> USE DEF IndInv
<1>1. upd[s].target \in Server
  BY Zenon DEF Rounds, RoundOk, Peers
<1>2. /\ inst' \in [Server -> Seq(Instance)]
      /\ \A p \in Server : /\ Len(inst'[p]) = Len(inst[p])
                           /\ \A k \in 1..Len(inst[p]) : AsBefore(s, inst'[p][k], inst[p][k])
  BY Zenon, <1>1, DisownedKept
<1> QED
  BY Zenon, <1>2 DEF Renewed, RenewedAt, Queues

\* s forgets its requests, and its round goes on to one that waits for none.
LEMMA CleanupInd ==
    ASSUME IndInv, NEW s \in Server, upd[s].pc \in Active, Cleanup(s),
           UNCHANGED <<files, clients>>
    PROVE  IndInv'
<1> USE DEF IndInv
<1>2. inst' = [inst EXCEPT ![upd[s].target] = Disowned(s)] /\ upd' = [upd EXCEPT ![s] = Idle]
      /\ UNCHANGED <<new_handle, home, meta, layout, setattrs, io>>
  BY Zenon DEF Cleanup, Finalize, files, clients
<1>4. Rounds' /\ upd'[s] = Idle /\ \A t \in Server \ {s} : upd'[t] = upd[t]
  BY Zenon, <1>2, IdleOk, RoundsStep
<1>5. Globals' /\ \A t \in Server : counted'[t] \subseteq counted[t]
  BY Zenon DEF Cleanup, Finalize, files, clients, Globals
<1>6. Queues' /\ Owned' /\ Once' /\ Live'
  <2>1. Renewed(s)
    BY Zenon, <1>2, CleanupRenews
  <2> QED
    BY Zenon, <1>2, <1>4, <2>1, RenewedInd
<1>9. Idle.handle = NoHandle /\ Idle.resp = NoHandle
  BY Zenon DEF Idle
<1>10. ServersTold' /\ ClientsTold'
  BY Zenon, <1>2, <1>4, <1>5, <1>9, ServersToldKept, ClientsToldKept DEF Usable
<1> QED
  BY Zenon, <1>4, <1>5, <1>6, <1>10

\* A request is sent again, or for the first time, and the others forgotten.
LEMMA SendRenews ==
    ASSUME IndInv, NEW s \in Server, upd[s].pc \in Active, Send(s),
           upd'[s].pc = "request", upd'[s].target = upd[s].target, upd'[s].resp = NoHandle
    PROVE  Renewed(s)
<1> USE DEF IndInv
<1>1. upd[s].target \in Server
  BY Zenon DEF Rounds, RoundOk, Peers
<1> DEFINE f == [inst EXCEPT ![upd[s].target] = Disowned(s)]
<1>4. /\ f \in [Server -> Seq(Instance)]
      /\ \A p \in Server : /\ Len(f[p]) = Len(inst[p])
                           /\ \A k \in 1..Len(inst[p]) : AsBefore(s, f[p][k], inst[p][k])
  BY Zenon, <1>1, DisownedKept
<1>5. CASE inst' = f
  BY Zenon, <1>4, <1>5 DEF Renewed, RenewedAt, Queues
<1>6. CASE /\ Len(Disowned(s)) < MaxQueue
           /\ inst' = [inst EXCEPT ![upd[s].target] = Append(Disowned(s), Request(s))]
  <2>1. Request(s) \in Instance
    BY DEF Request, Instance, Early, ServersTold, Usable, NoHandle, Handle, Rounds, RoundOk
  <2>2. f[upd[s].target] = Disowned(s) /\ Len(Disowned(s)) \in Nat
    BY SMTT(30), <1>1, <1>4 DEF Queues
  <2> DEFINE q == Append(Disowned(s), Request(s))
  <2>3. /\ q \in Seq(Instance) /\ Len(q) = Len(Disowned(s)) + 1
        /\ q[Len(q)] = Request(s) /\ \A k \in 1..Len(Disowned(s)) : q[k] = Disowned(s)[k]
    BY <1>1, <1>4, <2>1, <2>2
  <2>4. inst'[upd[s].target] = q /\ \A p \in Server \ {upd[s].target} : inst'[p] = f[p]
    BY Zenon, <1>1, <1>6 DEF Queues
  <2>5. inst' \in [Server -> Seq(Instance)]
    BY Zenon, <1>6, <2>3 DEF Queues
  <2> HIDE DEF q, f
  <2> SUFFICES ASSUME NEW p \in Server PROVE RenewedAt(s, p)
    BY Zenon, <2>5 DEF Renewed
  <2>6. CASE p = upd[s].target
    BY SMTT(30), <1>4, <1>6, <2>2, <2>3, <2>4, <2>6, BoundAssumption DEF RenewedAt
  <2>7. CASE p # upd[s].target
    BY Zenon, <1>4, <2>4, <2>7 DEF Queues, RenewedAt
  <2> QED
    BY Zenon, <2>6, <2>7
<1> QED
  BY Zenon, <1>5, <1>6 DEF Send

\* A request is sent: the round goes on to r, which waits for it.
LEMMA SendInd ==
    ASSUME IndInv, NEW s \in Server, upd[s].pc \in Active, Send(s), NEW r, RoundOk(s, r),
           upd' = [upd EXCEPT ![s] = r], r.pc = "request", r.target = upd[s].target,
           r.handle = upd[s].handle, r.resp = NoHandle,
           UNCHANGED <<mig_state, mig_datafile_handle, new_handle, load, counted, files, clients>>
    PROVE  IndInv'
<1> USE DEF IndInv
<1>2. UNCHANGED <<home, meta, layout, setattrs, io>> /\ Globals'
  BY Zenon DEF files, clients, Globals
<1>3. Rounds' /\ upd'[s] = r /\ \A t \in Server \ {s} : upd'[t] = upd[t]
  BY Zenon, RoundsStep
<1>5. Renewed(s)
  BY Zenon, <1>3, SendRenews
<1>6. Queues' /\ Owned' /\ Once' /\ Live'
  BY Zenon, <1>2, <1>3, <1>5, RenewedInd
<1>7. ServersTold' /\ ClientsTold'
  BY Zenon, <1>2, <1>3, ServersToldKept, ClientsToldKept DEF Usable
<1> QED
  BY Zenon, <1>2, <1>3, <1>6, <1>7

-----------------------------------------------------------------------------
(* The source. *)

\* The first attempt of the request, or the attributes could not be read.
LEMMA SendMigrationRequestInd ==
    ASSUME IndInv, NEW s \in Server, SendMigrationRequest(s)
    PROVE  IndInv'
<1> USE DEF IndInv
<1>1. upd[s].pc = "getattr" /\ upd[s].pc \in Active /\ UNCHANGED <<files, clients>>
  BY Zenon DEF SendMigrationRequest, Active
<1>2. CASE Cleanup(s)
  BY Zenon, <1>1, <1>2, CleanupInd
<1>3. CASE ~Cleanup(s)
  <2> DEFINE r == [upd[s] EXCEPT !.pc = "request", !.tries = 1, !.snap = data[upd[s].handle]]
  <2>1. upd' = [upd EXCEPT ![s] = r] /\ Send(s)
        /\ UNCHANGED <<mig_state, mig_datafile_handle, new_handle, load, counted>>
    BY Zenon, <1>3 DEF SendMigrationRequest, Rounds
  <2>2. RoundOk(s, upd[s]) /\ upd[s].handle \in Handle /\ data[upd[s].handle] \in SUBSET Writer
    BY Zenon, <1>1 DEF Rounds, RoundOk, Globals
  <2>0. 1 \in 0..MaxTries
    BY BoundAssumption
  <2>3. RoundOk(s, r) /\ r.pc = "request" /\ r.target = upd[s].target
        /\ r.handle = upd[s].handle /\ r.resp = NoHandle
    BY Zenon, <1>1, <2>0, <2>2 DEF RoundOk, Round, Active, Answered
  <2> HIDE DEF r
  <2> QED
    BY Zenon, <1>1, <2>1, <2>3, SendInd
<1> QED
  BY Zenon, <1>2, <1>3

\* The next attempt, or none is left.
LEMMA RequestTimesOutInd ==
    ASSUME IndInv, NEW s \in Server, RequestTimesOut(s)
    PROVE  IndInv'
<1> USE DEF IndInv
<1>1. upd[s].pc = "request" /\ upd[s].pc \in Active /\ UNCHANGED <<files, clients>>
  BY Zenon DEF RequestTimesOut, Active
<1>2. CASE Cleanup(s)
  BY Zenon, <1>1, <1>2, CleanupInd
<1>3. CASE ~Cleanup(s)
  <2> DEFINE r == [upd[s] EXCEPT !.tries = @ + 1, !.resp = NoHandle]
  <2>1. upd' = [upd EXCEPT ![s] = r] /\ Send(s) /\ upd[s].tries < MaxTries
        /\ UNCHANGED <<mig_state, mig_datafile_handle, new_handle, load, counted>>
    BY Zenon, <1>3 DEF RequestTimesOut, Rounds
  <2>2. RoundOk(s, upd[s])
    BY Zenon, <1>1 DEF Rounds
  <2>4. upd[s].tries + 1 \in 0..MaxTries
    BY <2>1, <2>2, BoundAssumption DEF RoundOk, Round
  <2>3. RoundOk(s, r) /\ r.pc = "request" /\ r.target = upd[s].target
        /\ r.handle = upd[s].handle /\ r.resp = NoHandle
    BY Zenon, <1>1, <2>2, <2>4 DEF RoundOk, Round, Active, Answered
  <2> HIDE DEF r
  <2> QED
    BY Zenon, <1>1, <2>1, <2>3, SendInd
<1> QED
  BY Zenon, <1>2, <1>3

\* The round goes on, with the same target, handle and answer.
LEMMA SameRequest ==
    ASSUME IndInv, NEW s \in Server, upd[s].pc \in Active \ {"getattr"}, NEW pc, NEW n,
           pc \in Active \ {"getattr"}, n \in 0..MaxTries,
           pc \in Answered => upd[s].resp \in Handle,
           upd' = [upd EXCEPT ![s] = [@ EXCEPT !.pc = pc, !.tries = n]],
           UNCHANGED <<mig_state, mig_datafile_handle, new_handle, load, counted, inst,
                       home, meta, data, layout, clients>>
    PROVE  /\ Globals' \/ setattrs' # setattrs
           /\ Rounds' /\ Queues' /\ Owned' /\ Once' /\ Live' /\ ServersTold'
<1> USE DEF IndInv
<1> DEFINE r == [upd[s] EXCEPT !.pc = pc, !.tries = n]
<1>1. upd' = [upd EXCEPT ![s] = r] /\ RoundOk(s, upd[s])
  BY Zenon DEF Rounds
<1>2. /\ RoundOk(s, r) /\ r.pc # "getattr" /\ r.target = upd[s].target
      /\ r.handle = upd[s].handle /\ r.resp = upd[s].resp
  BY Zenon, <1>1 DEF RoundOk, Round, Active, Answered
<1>3. setattrs' = setattrs => Globals'
  BY Zenon DEF Globals, clients
<1> HIDE DEF r
<1> QED
  BY Zenon, <1>1, <1>2, <1>3, RoundGoesOn

\* A positive response starts the flow, a negative one ends the round.
LEMMA PostFlowInd == ASSUME IndInv, NEW s \in Server, PostFlow(s) PROVE IndInv'
<1> USE DEF IndInv
<1>1. upd[s].pc = "request" /\ upd[s].pc \in Active /\ UNCHANGED <<files, clients>>
  BY Zenon DEF PostFlow, Active
<1>2. CASE Cleanup(s)
  BY Zenon, <1>1, <1>2, CleanupInd
<1>3. CASE ~Cleanup(s)
  <2>1. /\ upd[s].resp \in Handle /\ upd' = [upd EXCEPT ![s].pc = "flow"]
        /\ UNCHANGED <<mig_state, mig_datafile_handle, new_handle, load, counted, inst>>
    BY Zenon, <1>3 DEF PostFlow
  <2>2. upd' = [upd EXCEPT ![s] = [@ EXCEPT !.pc = "flow", !.tries = upd[s].tries]]
        /\ upd[s].tries \in 0..MaxTries
    BY Zenon, <2>1 DEF Rounds, Round
  <2> QED
    BY Zenon, <1>1, <2>1, <2>2, SameRequest, ClientsToldKept DEF files, clients, Active
<1> QED
  BY Zenon, <1>2, <1>3

\* The flow of the source ends, well or not.
LEMMA PostCompleteAckInd == ASSUME IndInv, NEW s \in Server, PostCompleteAck(s) PROVE IndInv'
<1> USE DEF IndInv
<1>1. upd[s].pc \in {"flow", "moved"} /\ upd[s].pc \in Active /\ UNCHANGED <<files, clients>>
  BY Zenon DEF PostCompleteAck, Active
<1>2. CASE Cleanup(s)
  BY Zenon, <1>1, <1>2, CleanupInd
<1>3. CASE ~Cleanup(s)
  <2>1. /\ upd' = [upd EXCEPT ![s].pc = "ack"]
        /\ UNCHANGED <<mig_state, mig_datafile_handle, new_handle, load, counted, inst>>
    BY Zenon, <1>3 DEF PostCompleteAck
  <2>2. upd' = [upd EXCEPT ![s] = [@ EXCEPT !.pc = "ack", !.tries = upd[s].tries]]
        /\ upd[s].tries \in 0..MaxTries /\ upd[s].resp \in Handle
    BY Zenon, <1>1, <2>1 DEF Rounds, Round, RoundOk, Answered
  <2> QED
    BY Zenon, <1>1, <2>1, <2>2, SameRequest, ClientsToldKept DEF files, clients, Active
<1> QED
  BY Zenon, <1>2, <1>3

\* The metadata server is asked to put the new datafile in the place of the old.
LEMMA ReplacementTold ==
    ASSUME IndInv, NEW s \in Server, upd[s].pc \in Answered,
           UNCHANGED <<mig_state, mig_datafile_handle, new_handle, load, counted,
                       home, meta, data, layout, clients>>,
           setattrs' = setattrs \cup {Replacement(s)}
    PROVE  Globals' /\ ClientsTold'
<1> USE DEF IndInv
<1>1. upd[s].handle \in Usable /\ upd[s].resp \in Usable
  BY SMTT(30) DEF Rounds, RoundOk, Answered, Active, ServersTold, NoHandle, Handle
<1> DEFINE m == Replacement(s)
<1>2. m \in [src : Server, file : File, old : Handle, new : Handle] /\ m.new \in Usable
  BY Zenon, <1>1 DEF Replacement, Usable
<1> HIDE DEF m
<1>3. Globals'
  BY Zenon, <1>2 DEF Globals, clients, m
<1>4. ClientsTold'
  BY Zenon, <1>2 DEF ClientsTold, Usable, clients, m
<1> QED
  BY Zenon, <1>3, <1>4

\* update_metadata asks for the replacement, or the send had failed.
LEMMA UpdateMetadataInd == ASSUME IndInv, NEW s \in Server, UpdateMetadata(s) PROVE IndInv'
<1> USE DEF IndInv
<1>1. upd[s].pc = "send" /\ upd[s].pc \in Active /\ UNCHANGED <<home, meta, data, layout, clients>>
  BY Zenon DEF UpdateMetadata, Active
<1>2. CASE Cleanup(s) /\ UNCHANGED setattrs
  BY Zenon, <1>1, <1>2, CleanupInd DEF files
<1>3. CASE ~(Cleanup(s) /\ UNCHANGED setattrs)
  <2>1. /\ upd' = [upd EXCEPT ![s].pc = "setattr", ![s].tries = 1]
        /\ setattrs' = setattrs \cup {Replacement(s)}
        /\ UNCHANGED <<mig_state, mig_datafile_handle, new_handle, load, counted, inst>>
    BY Zenon, <1>3 DEF UpdateMetadata
  <2>2. upd' = [upd EXCEPT ![s] = [@ EXCEPT !.pc = "setattr", !.tries = 1]]
        /\ upd[s].resp \in Handle
    BY Zenon, <1>1, <2>1 DEF Rounds, Round, RoundOk, Answered
  <2>3. 1 \in 0..MaxTries
    BY BoundAssumption
  <2> QED
    BY Zenon, <1>1, <2>1, <2>2, <2>3, SameRequest, ReplacementTold DEF Active, Answered
<1> QED
  BY Zenon, <1>2, <1>3

\* The setattr is sent again.
LEMMA SetattrTimesOutInd == ASSUME IndInv, NEW s \in Server, SetattrTimesOut(s) PROVE IndInv'
<1> USE DEF IndInv
<1>1. upd[s].pc = "setattr" /\ upd[s].tries < MaxTries /\ RoundOk(s, upd[s])
      /\ upd[s].tries \in 0..MaxTries
  BY Zenon DEF SetattrTimesOut, Rounds, Round
<1>2. upd' = [upd EXCEPT ![s] = [@ EXCEPT !.pc = "setattr", !.tries = upd[s].tries + 1]]
  BY Zenon, <1>1 DEF SetattrTimesOut, Rounds, Round
<1>4. upd[s].tries + 1 \in 0..MaxTries
  BY <1>1, BoundAssumption
<1>5. upd[s].resp \in Handle
  BY Zenon, <1>1 DEF RoundOk, Answered
<1>3. setattrs' = setattrs \cup {Replacement(s)}
      /\ UNCHANGED <<mig_state, mig_datafile_handle, new_handle, load, counted, inst,
                     home, meta, data, layout, clients>>
  BY Zenon DEF SetattrTimesOut
<1> QED
  BY Zenon, <1>1, <1>2, <1>3, <1>4, <1>5, SameRequest, ReplacementTold DEF Active, Answered

\* The round is over.
LEMMA RemoveDatafileHandleInd ==
    ASSUME IndInv, NEW s \in Server, RemoveDatafileHandle(s) PROVE IndInv'
BY Zenon, CleanupInd DEF RemoveDatafileHandle, Active

-----------------------------------------------------------------------------
(* Source and target, and the target. *)

\* One request changes.
LEMMA InstSteps ==
    ASSUME Queues, NEW p \in Server, NEW k \in 1..Len(inst[p]), NEW i, InstOk(p, k, i),
           inst' = [inst EXCEPT ![p][k] = i]
    PROVE  /\ Queues' /\ \A t \in Server : Len(inst'[t]) = Len(inst[t])
           /\ inst'[p][k] = i
           /\ \A t \in Server : \A j \in 1..Len(inst[t]) :
                t # p \/ j # k => inst'[t][j] = inst[t][j]
<1> DEFINE q == [inst[p] EXCEPT ![k] = i]
<1>1. inst[p] \in Seq(Instance) /\ i \in Instance
  BY Zenon DEF Queues, InstOk
<1>2. q \in Seq(Instance) /\ Len(q) = Len(inst[p]) /\ q[k] = i
      /\ \A j \in 1..Len(inst[p]) : j # k => q[j] = inst[p][j]
  BY <1>1
<1>3. inst' = [inst EXCEPT ![p] = q]
  BY Zenon
<1> HIDE DEF q
<1>4. inst' \in [Server -> Seq(Instance)] /\ inst'[p] = q /\ \A t \in Server \ {p} : inst'[t] = inst[t]
  BY Zenon, <1>2, <1>3 DEF Queues
<1>5. \A t \in Server : \A j \in 1..Len(inst[t]) : t # p \/ j # k => inst'[t][j] = inst[t][j]
  BY Zenon, <1>2, <1>4
<1>6. \A t \in Server : Len(inst'[t]) = Len(inst[t])
  BY Zenon, <1>2, <1>4
<1>7. Queues'
  BY Zenon, <1>2, <1>4, <1>5, <1>6 DEF Queues
<1> QED
  BY Zenon, <1>2, <1>4, <1>5, <1>6, <1>7

\* One request goes on past its answer, and rounds go on or stay.
LEMMA RequestGoesOn ==
    ASSUME IndInv, NEW p \in Server, NEW k \in 1..Len(inst[p]), NEW i, InstOk(p, k, i),
           inst' = [inst EXCEPT ![p][k] = i],
           i.src = inst[p][k].src, i.live => inst[p][k].live, i.handle = inst[p][k].handle,
           i.pc \notin {"new", "created", "failed"},
           \A t \in Server : /\ upd'[t].target = upd[t].target /\ upd'[t].resp = upd[t].resp
                             /\ upd'[t].pc = "getattr" => upd[t].pc = "getattr",
           UNCHANGED <<new_handle, home, meta>>
    PROVE  Queues' /\ Owned' /\ Once' /\ Live'
<1> USE DEF IndInv
<1>1. /\ Queues' /\ \A t \in Server : Len(inst'[t]) = Len(inst[t])
      /\ inst'[p][k] = i
      /\ \A t \in Server : \A j \in 1..Len(inst[t]) :
           t # p \/ j # k => inst'[t][j] = inst[t][j]
  BY Zenon, InstSteps
<1>2. Owned'
  BY <1>1 DEF Owned
<1>3. Once'
  BY SMTT(30), <1>1 DEF Once
<1>4. Live'
  <2> SUFFICES ASSUME NEW t \in Server, NEW j \in 1..Len(inst[t]), inst'[t][j].live
               PROVE  Waits(upd'[inst'[t][j].src], t, inst'[t][j])
    BY Zenon, <1>1 DEF Live
  <2>1. inst[t][j].live /\ inst'[t][j].src = inst[t][j].src /\ inst'[t][j].handle = inst[t][j].handle
        /\ (inst'[t][j].pc = inst[t][j].pc \/ inst'[t][j].pc = i.pc)
    BY <1>1
  <2>2. Waits(upd[inst[t][j].src], t, inst[t][j]) /\ inst[t][j].src \in Server
    BY Zenon, <2>1 DEF Live, Queues, InstOk, Instance
  <2>3. inst'[t][j].pc \in {"new", "created", "failed"} => inst[t][j].pc \in {"new", "created", "failed"}
    BY Zenon, <2>1
  <2>4. LET u == upd[inst[t][j].src]
            v == upd'[inst[t][j].src]
        IN  v.target = u.target /\ v.resp = u.resp /\ (v.pc = "getattr" => u.pc = "getattr")
    BY Zenon, <2>2
  <2>5. Waits(upd'[inst[t][j].src], t, inst'[t][j])
    BY SMTT(30), <2>1, <2>2, <2>3, <2>4, WaitsStill
  <2> QED
    BY Zenon, <2>1, <2>5
<1> QED
  BY Zenon, <1>1, <1>2, <1>3, <1>4

\* The load that is counted is of a datafile whose attributes are set.
LEMMA CountingTold ==
    ASSUME IndInv, NEW p \in Server, NEW h \in Usable, Counting(p, h)
    PROVE  counted' \in [Server -> SUBSET Handle]
           /\ \A t \in Server : counted'[t] \subseteq counted[t] \cup Usable
BY Zenon DEF IndInv, Counting, Globals, Usable

\* The flow carries the data to the request it belongs to.
LEMMA TransferInd == ASSUME IndInv, NEW s \in Server, Transfer(s) PROVE IndInv'
<1> USE DEF IndInv
<1>1. /\ upd[s].pc = "flow" /\ upd' = [upd EXCEPT ![s].pc = "moved"]
      /\ Counting(upd[s].target, upd[s].resp)
      /\ UNCHANGED <<mig_state, mig_datafile_handle, new_handle, load, home, meta, data,
                     layout, setattrs, io, acked, exposed>>
  BY Zenon DEF Transfer, files, clients
<1>2. RoundOk(s, upd[s]) /\ upd[s].target \in Server /\ upd[s].resp \in Usable
  BY Zenon, <1>1 DEF Rounds, RoundOk, Active, Answered, Peers, ServersTold
<1> DEFINE p == upd[s].target
<1>3. PICK k \in 1..Len(inst[p]) :
        /\ inst[p][k].pc = "flow"
        /\ inst' = [inst EXCEPT ![p][k].pc = "moved", ![p][k].sent = Carried(s)]
  BY Zenon DEF Transfer
<1> DEFINE i == [inst[p][k] EXCEPT !.pc = "moved", !.sent = Carried(s)]
<1>4. inst' = [inst EXCEPT ![p][k] = i]
  BY ZenonT(30), <1>2, <1>3 DEF Queues
<1>5. InstOk(p, k, inst[p][k])
  BY Zenon, <1>2 DEF Queues
<1>6. Carried(s) \in SUBSET Writer
  BY Zenon, <1>1, <1>2 DEF Carried, Globals, RoundOk, Active
<1>7. /\ InstOk(p, k, i) /\ i.src = inst[p][k].src /\ i.live = inst[p][k].live
      /\ i.handle = inst[p][k].handle /\ i.pc = "moved"
  BY Zenon, <1>3, <1>5, <1>6 DEF InstOk, Instance, Early
<1>8. upd' = [upd EXCEPT ![s] = [upd[s] EXCEPT !.pc = "moved"]]
      /\ RoundOk(s, [upd[s] EXCEPT !.pc = "moved"])
  BY Zenon, <1>1, <1>2 DEF Rounds, RoundOk, Round, Active, Answered
<1>9. Rounds' /\ upd'[s] = [upd[s] EXCEPT !.pc = "moved"] /\ \A t \in Server \ {s} : upd'[t] = upd[t]
  BY Zenon, <1>8, RoundsStep
<1>10. /\ upd'[s].target = upd[s].target /\ upd'[s].resp = upd[s].resp
       /\ upd'[s].handle = upd[s].handle /\ upd'[s].pc = "moved"
  BY Zenon, <1>2, <1>9 DEF RoundOk, Round
<1> HIDE DEF i
<1>11. Queues' /\ Owned' /\ Once' /\ Live'
  BY ZenonT(30), <1>1, <1>2, <1>4, <1>7, <1>9, <1>10, RequestGoesOn
<1>12. counted' \in [Server -> SUBSET Handle]
       /\ \A t \in Server : counted'[t] \subseteq counted[t] \cup Usable
  BY Zenon, <1>1, <1>2, CountingTold
<1>13. Globals' /\ ClientsTold' /\ ServersTold'
  BY Zenon, <1>1, <1>9, <1>10, <1>12, ClientsToldKept, ServersToldKept DEF Globals, Usable
<1> QED
  BY Zenon, <1>9, <1>11, <1>13

\* The completion ack is answered, or could not be.
LEMMA AnswerAckInd == ASSUME IndInv, NEW s \in Server, AnswerAck(s) PROVE IndInv'
<1> USE DEF IndInv
<1>1. upd[s].pc = "ack" /\ upd[s].pc \in Active /\ UNCHANGED <<files, clients>>
  BY Zenon DEF AnswerAck, Active
<1>2. CASE Cleanup(s)
  BY Zenon, <1>1, <1>2, CleanupInd
<1>3. CASE ~Cleanup(s)
  <2> DEFINE p == upd[s].target
  <2>1. RoundOk(s, upd[s]) /\ p \in Server /\ upd[s].resp \in Handle
    BY Zenon, <1>1 DEF Rounds, RoundOk, Active, Answered, Peers
  <2>2. PICK k \in 1..Len(inst[p]) :
          /\ inst[p][k].pc = "recv" /\ inst' = [inst EXCEPT ![p][k].pc = "told"]
          /\ upd' = [upd EXCEPT ![s].pc = "send"]
          /\ UNCHANGED <<mig_state, mig_datafile_handle, new_handle, load, counted>>
    BY Zenon, <1>3 DEF AnswerAck
  <2> DEFINE i == [inst[p][k] EXCEPT !.pc = "told"]
             r == [upd[s] EXCEPT !.pc = "send"]
  <2>3. inst' = [inst EXCEPT ![p][k] = i] /\ upd' = [upd EXCEPT ![s] = r]
    BY Zenon, <2>1, <2>2 DEF Queues, Rounds
  <2>4. InstOk(p, k, inst[p][k])
    BY Zenon, <2>1 DEF Queues
  <2>5. /\ InstOk(p, k, i) /\ i.src = inst[p][k].src /\ i.live = inst[p][k].live
        /\ i.handle = inst[p][k].handle /\ i.pc = "told"
    BY Zenon, <2>2, <2>4 DEF InstOk, Instance, Early
  <2>6. /\ RoundOk(s, r) /\ r.target = p /\ r.resp = upd[s].resp /\ r.handle = upd[s].handle
        /\ r.pc = "send"
    BY Zenon, <1>1, <2>1 DEF RoundOk, Round, Active, Answered
  <2>7. Rounds' /\ upd'[s] = r /\ \A t \in Server \ {s} : upd'[t] = upd[t]
    BY Zenon, <2>3, <2>6, RoundsStep
  <2> HIDE DEF i, r
  <2>8. UNCHANGED <<home, meta, layout, setattrs, io>> /\ Globals'
    BY Zenon, <1>1, <2>2 DEF files, clients, Globals
  <2>9. Queues' /\ Owned' /\ Once' /\ Live'
    <3>1. \A t \in Server : /\ upd'[t].target = upd[t].target /\ upd'[t].resp = upd[t].resp
                            /\ upd'[t].pc = "getattr" => upd[t].pc = "getattr"
      BY Zenon, <2>6, <2>7
    <3>2. i.pc \notin {"new", "created", "failed"} /\ UNCHANGED <<new_handle, home, meta>>
      BY Zenon, <2>2, <2>5, <2>8
    <3> HIDE DEF p
    <3> QED
      BY Zenon, <2>1, <2>3, <2>5, <3>1, <3>2, RequestGoesOn
  <2>10. ClientsTold' /\ ServersTold'
    BY Zenon, <2>2, <2>6, <2>7, <2>8, ClientsToldKept, ServersToldKept DEF Usable
  <2> QED
    BY Zenon, <2>7, <2>8, <2>9, <2>10
<1> QED
  BY Zenon, <1>2, <1>3

\* replace_datafile_handle names a datafile whose attributes are set.
LEMMA SetAttrInd == ASSUME IndInv, NEW m \in setattrs, SetAttr(m) PROVE IndInv'
<1> USE DEF IndInv
<1>1. UNCHANGED <<home, meta, data, mig_state, mig_datafile_handle, new_handle, load, counted,
                  upd, inst, io, acked, exposed>>
      /\ setattrs' \subseteq setattrs
  BY Zenon DEF SetAttr, servers, clients
<1>2. m.new \in Usable /\ m.file \in File /\ m.new \in Handle
  BY Zenon DEF ClientsTold, Globals
<1>3. layout' \in [File -> Handle] /\ \A f \in File : layout'[f] \in Usable
  BY SMTT(30), <1>2 DEF SetAttr, Globals, ClientsTold
<1>4. Globals' /\ ClientsTold'
  BY Zenon, <1>1, <1>3 DEF Globals, ClientsTold, Usable
<1>5. Rounds' /\ Queues' /\ Owned' /\ Once' /\ Live' /\ ServersTold'
  BY Zenon, <1>1 DEF Rounds, Queues, Owned, Once, Live, ServersTold, Usable
<1> QED
  BY Zenon, <1>4, <1>5

-----------------------------------------------------------------------------
(* The target. *)

\* The first in line, the only one let go.
LEMMA CreateNewDatafileInd ==
    ASSUME IndInv, NEW p \in Server, NEW k \in 1..Len(inst[p]), CreateNewDatafile(p, k)
    PROVE  IndInv'
<1> USE DEF IndInv
<1>1. k = 1 /\ inst[p][k].pc = "new" /\ InstOk(p, k, inst[p][k])
      /\ UNCHANGED <<upd, meta, layout, setattrs, io, counted>>
  BY Zenon DEF CreateNewDatafile, Scheduled, Queues, clients
<1>2. PICK pc \in {"created", "failed"} :
        /\ inst' = [inst EXCEPT ![p][k].pc = pc]
        /\ \/ pc = "failed" /\ UNCHANGED <<new_handle, home>>
           \/ \E h \in Fresh : /\ new_handle' = [new_handle EXCEPT ![p] = h]
                               /\ home' = [home EXCEPT ![h] = p]
  BY Zenon DEF CreateNewDatafile
<1> DEFINE i == [inst[p][k] EXCEPT !.pc = pc]
<1>3. inst' = [inst EXCEPT ![p][k] = i]
  BY Zenon, <1>2 DEF Queues
<1>4. /\ InstOk(p, k, i) /\ i.src = inst[p][k].src /\ i.live = inst[p][k].live
      /\ i.handle = inst[p][k].handle /\ i.pc = pc /\ i.handle = NoHandle
  BY <1>1 DEF InstOk, Instance, Early
<1> HIDE DEF i
<1>5. /\ Queues' /\ \A t \in Server : Len(inst'[t]) = Len(inst[t])
      /\ inst'[p][k] = i
      /\ \A t \in Server : \A j \in 1..Len(inst[t]) :
           t # p \/ j # k => inst'[t][j] = inst[t][j]
  BY Zenon, <1>3, <1>4, InstSteps
<1>6. Globals'
  <2>1. new_handle' \in [Server -> Handle \cup {NoHandle}]
        /\ home' \in [Handle -> Server \cup {Nobody}]
    BY SMTT(30), <1>2 DEF Globals, Fresh
  <2> QED
    BY Zenon, <1>1, <2>1 DEF CreateNewDatafile, clients, Globals
<1>7. /\ \A h \in Handle : home[h] # Nobody => home'[h] = home[h]
      /\ \A t \in Server \ {p} : new_handle'[t] = new_handle[t]
      /\ pc = "created" => new_handle'[p] \in Handle /\ home'[new_handle'[p]] = p
  BY <1>2 DEF Globals, Fresh
<1>8. Owned'
  <2> SUFFICES ASSUME NEW t \in Server, NEW j \in 1..Len(inst'[t])
               PROVE  /\ inst'[t][j].handle # NoHandle =>
                           /\ home'[inst'[t][j].handle] = t
                           /\ meta[inst'[t][j].handle] \in File
                      /\ inst'[t][j].pc = "created" =>
                           new_handle'[t] \in Handle /\ home'[new_handle'[t]] = t
    BY Zenon, <1>1 DEF Owned
  <2> j \in 1..Len(inst[t])
    BY Zenon, <1>5
  <2>0. Nobody # t
    BY DEF Nobody, Server
  <2>1. CASE t = p /\ j = k
    BY Zenon, <1>4, <1>5, <1>7, <2>1
  <2>2. CASE t # p \/ j # k
    <3>1. inst'[t][j] = inst[t][j] /\ InstOk(t, j, inst[t][j])
      BY Zenon, <1>5, <2>2 DEF Queues
    <3>2. t = p => inst[t][j].pc = "new"
      BY <1>1, <2>2, <3>1 DEF InstOk
    <3>3. inst[t][j].handle # NoHandle => inst[t][j].handle \in Handle
      BY Zenon, <3>1 DEF InstOk, Instance
    <3> QED
      BY <1>7, <2>0, <3>1, <3>2, <3>3 DEF Owned
  <2> QED
    BY Zenon, <2>1, <2>2
<1>9. Once'
  <2>1. \A t \in Server : \A j \in 1..Len(inst[t]) :
          inst'[t][j].live = inst[t][j].live /\ inst'[t][j].src = inst[t][j].src
    BY Zenon, <1>4, <1>5
  <2> QED
    BY <1>5, <2>1 DEF Once
<1>10. Live'
  <2> SUFFICES ASSUME NEW t \in Server, NEW j \in 1..Len(inst[t]), inst'[t][j].live
               PROVE  Waits(upd[inst'[t][j].src], t, inst'[t][j])
    BY Zenon, <1>1, <1>5 DEF Live
  <2>1. /\ inst[t][j].live /\ inst'[t][j].src = inst[t][j].src
        /\ inst'[t][j].handle = inst[t][j].handle
        /\ inst'[t][j].pc = inst[t][j].pc \/ inst[t][j].pc = "new"
    BY Zenon, <1>1, <1>4, <1>5
  <2>2. Waits(upd[inst[t][j].src], t, inst[t][j])
    BY Zenon, <2>1 DEF Live
  <2>3. inst'[t][j].pc \in {"new", "created", "failed"} => inst[t][j].pc \in {"new", "created", "failed"}
    BY Zenon, <2>1
  <2> QED
    BY <1>1, <2>1, <2>2, <2>3, WaitsStill
<1>11. Rounds' /\ ServersTold' /\ ClientsTold'
  BY Zenon, <1>1 DEF Rounds, ServersTold, ClientsTold, Usable
<1> QED
  BY Zenon, <1>5, <1>6, <1>8, <1>9, <1>10, <1>11

\* io_send_ack: the source, if it still waits for this request, has its answer.
LEMMA SendAckInd ==
    ASSUME IndInv, NEW p \in Server, NEW k \in 1..Len(inst[p]), SendAck(p, k)
    PROVE  IndInv'
<1> USE DEF IndInv
<1> DEFINE o == inst[p][k]
<1>1. k = 1 /\ o.pc \in {"created", "failed"} /\ InstOk(p, k, o) /\ o.handle = NoHandle
      /\ UNCHANGED <<home, new_handle, layout, setattrs, io, counted>>
  BY Zenon DEF SendAck, Scheduled, Queues, InstOk, Early, clients
<1>2. PICK a \in Handle \cup {Refused} :
        /\ upd' = IF o.live THEN [upd EXCEPT ![o.src].resp = a] ELSE upd
        /\ \/ /\ a = Refused /\ inst' = [inst EXCEPT ![p][k].pc = "refused"] /\ UNCHANGED meta
           \/ /\ o.pc = "created" /\ a = new_handle[p] /\ a \in Handle
              /\ inst' = [inst EXCEPT ![p][k].pc = "flow", ![p][k].handle = a]
              /\ meta' = [meta EXCEPT ![a] = o.meta]
  <2>1. o.pc = "created" => new_handle[p] \in Handle
    BY Zenon DEF Owned
  <2> QED
    BY Zenon, <2>1 DEF SendAck
<1>3. o.src \in Server /\ o.meta \in File /\ o.src # p
  BY Zenon, <1>1 DEF InstOk, Instance
<1>4. Refused \notin Handle /\ NoHandle \notin Handle
  BY DEF Refused, NoHandle, Handle
<1>5. PICK i : /\ inst' = [inst EXCEPT ![p][k] = i] /\ InstOk(p, k, i)
               /\ i.src = o.src /\ i.live = o.live
               /\ \/ a = Refused /\ i.pc = "refused" /\ i.handle = NoHandle
                  \/ a \in Handle /\ i.pc = "flow" /\ i.handle = a
  <2>1. CASE a = Refused /\ inst' = [inst EXCEPT ![p][k].pc = "refused"]
    <3> DEFINE i == [o EXCEPT !.pc = "refused"]
    <3>1. inst' = [inst EXCEPT ![p][k] = i]
      BY Zenon, <2>1 DEF Queues
    <3>2. InstOk(p, k, i) /\ i.src = o.src /\ i.live = o.live /\ i.pc = "refused"
          /\ i.handle = NoHandle
      BY Zenon, <1>1 DEF InstOk, Instance, Early
    <3> QED
      BY Zenon, <2>1, <3>1, <3>2
  <2>2. CASE a \in Handle /\ inst' = [inst EXCEPT ![p][k].pc = "flow", ![p][k].handle = a]
    <3> DEFINE i == [o EXCEPT !.pc = "flow", !.handle = a]
    <3>1. inst' = [inst EXCEPT ![p][k] = i]
      BY Zenon, <2>2 DEF Queues
    <3>2. InstOk(p, k, i) /\ i.src = o.src /\ i.live = o.live /\ i.pc = "flow"
          /\ i.handle = a
      BY Zenon, <1>1, <1>4, <2>2 DEF InstOk, Instance, Early
    <3> QED
      BY Zenon, <2>2, <3>1, <3>2
  <2> QED
    BY Zenon, <1>2, <2>1, <2>2
<1>6. /\ Queues' /\ \A t \in Server : Len(inst'[t]) = Len(inst[t])
      /\ inst'[p][k] = i
      /\ \A t \in Server : \A j \in 1..Len(inst[t]) :
           t # p \/ j # k => inst'[t][j] = inst[t][j]
  BY ZenonT(30), <1>5, InstSteps
<1>7. Usable \subseteq Usable' /\ (a \in Handle => a \in Usable' /\ home[a] = p)
      /\ meta' \in [Handle -> File \cup {NoHandle}]
  <2>1. CASE UNCHANGED meta /\ a = Refused
    BY Zenon, <1>4, <2>1 DEF Usable, Globals
  <2>2. CASE /\ o.pc = "created" /\ a = new_handle[p] /\ a \in Handle
             /\ meta' = [meta EXCEPT ![a] = o.meta]
    <3>1. /\ meta' \in [Handle -> File \cup {NoHandle}] /\ meta'[a] \in File
          /\ \A h \in Handle \ {a} : meta'[h] = meta[h]
      BY Zenon, <1>3, <2>2 DEF Globals
    <3>2. home[a] = p
      BY Zenon, <2>2 DEF Owned
    <3> QED
      BY Zenon, <2>2, <3>1, <3>2 DEF Usable
  <2> QED
    BY Zenon, <1>2, <2>1, <2>2
<1>8. Globals'
  <2>1. mig_datafile_handle' \in [Server -> Handle \cup {NoHandle}]
    BY Zenon DEF SendAck, Globals
  <2> QED
    BY Zenon, <1>1, <1>7, <2>1 DEF SendAck, clients, Globals
<1>9. Owned'
  <2> SUFFICES ASSUME NEW t \in Server, NEW j \in 1..Len(inst[t])
               PROVE  /\ inst'[t][j].handle # NoHandle =>
                           /\ home[inst'[t][j].handle] = t
                           /\ meta'[inst'[t][j].handle] \in File
                      /\ inst'[t][j].pc = "created" =>
                           new_handle[t] \in Handle /\ home[new_handle[t]] = t
    BY <1>1, <1>6 DEF Owned
  <2>1. CASE t = p /\ j = k
    BY Zenon, <1>5, <1>6, <1>7, <2>1 DEF Usable
  <2>2. CASE t # p \/ j # k
    <3>1. inst'[t][j] = inst[t][j] /\ InstOk(t, j, inst[t][j])
      BY Zenon, <1>6, <2>2 DEF Queues
    <3>2. inst[t][j].handle # NoHandle => inst[t][j].handle \in Handle
      BY Zenon, <3>1 DEF InstOk, Instance
    <3>3. inst[t][j].handle # NoHandle => inst[t][j].handle \in Usable
      BY Zenon, <3>2 DEF Owned, Usable
    <3> QED
      BY Zenon, <1>7, <3>1, <3>3 DEF Owned, Usable
  <2> QED
    BY Zenon, <2>1, <2>2
<1>10. Once'
  BY <1>5, <1>6 DEF Once
<1>11. o.live => Waits(upd[o.src], p, o)
  BY Zenon DEF Live
<1>12. /\ \A t \in Server : t # o.src \/ ~o.live => upd'[t] = upd[t]
       /\ o.live => upd'[o.src] = [upd[o.src] EXCEPT !.resp = a]
       /\ ~o.live => upd' = upd
       /\ o.live => upd' = [upd EXCEPT ![o.src] = [upd[o.src] EXCEPT !.resp = a]]
  BY Zenon, <1>2, <1>3 DEF Rounds
<1>13. RoundOk(o.src, upd[o.src])
  BY Zenon, <1>3 DEF Rounds
<1>14. o.live => RoundOk(o.src, [upd[o.src] EXCEPT !.resp = a])
                 /\ [upd[o.src] EXCEPT !.resp = a].target = p
                 /\ [upd[o.src] EXCEPT !.resp = a].pc # "getattr"
                 /\ [upd[o.src] EXCEPT !.resp = a].resp = a
                 /\ [upd[o.src] EXCEPT !.resp = a].handle = upd[o.src].handle
  <2> SUFFICES ASSUME o.live PROVE /\ RoundOk(o.src, [upd[o.src] EXCEPT !.resp = a])
                 /\ [upd[o.src] EXCEPT !.resp = a].target = p
                 /\ [upd[o.src] EXCEPT !.resp = a].pc # "getattr"
                 /\ [upd[o.src] EXCEPT !.resp = a].resp = a
                 /\ [upd[o.src] EXCEPT !.resp = a].handle = upd[o.src].handle
    BY Zenon
  <2>1. upd[o.src].target = p /\ upd[o.src].pc # "getattr" /\ upd[o.src].resp = NoHandle
        /\ p # Nobody
    BY <1>1, <1>11 DEF Waits, Nobody, Server
  <2>2. upd[o.src].pc \in Active /\ upd[o.src].pc \notin Answered
    BY Zenon, <1>4, <1>13, <2>1 DEF RoundOk
  <2> QED
    BY Zenon, <1>13, <2>1, <2>2 DEF RoundOk, Round
<1>15. Rounds'
  BY Zenon, <1>3, <1>12, <1>14, RoundsStep DEF Rounds
<1>16. Live'
  <2> SUFFICES ASSUME NEW t \in Server, NEW j \in 1..Len(inst[t]), inst'[t][j].live
               PROVE  Waits(upd'[inst'[t][j].src], t, inst'[t][j])
    BY Zenon, <1>6 DEF Live
  <2>1. CASE t = p /\ j = k
    <3>1. inst'[t][j] = i /\ o.live /\ i.src = o.src
      BY Zenon, <1>5, <1>6, <2>1
    <3>2. /\ upd'[o.src].target = p /\ upd'[o.src].pc # "getattr" /\ upd'[o.src].resp = a
      BY Zenon, <1>12, <1>14, <3>1
    <3> QED
      BY Zenon, <1>4, <1>5, <2>1, <3>1, <3>2 DEF Waits
  <2>2. CASE t # p \/ j # k
    <3>0. inst'[t][j] = inst[t][j] /\ inst[t][j].live
      BY Zenon, <1>6, <2>2
    <3>1. inst'[t][j] = inst[t][j] /\ inst[t][j].src \in Server
          /\ Waits(upd[inst[t][j].src], t, inst[t][j])
      BY Zenon, <3>0 DEF Queues, InstOk, Instance, Live
    <3>2. inst[t][j].src # o.src \/ ~o.live
      <4>1. CASE t = p
        BY Zenon, <1>6, <2>2, <3>1, <4>1 DEF Once
      <4>2. CASE t # p
        <5>1. upd[inst[t][j].src].target = t /\ (o.live => upd[o.src].target = p)
          BY Zenon, <1>11, <3>1 DEF Waits
        <5> QED
          BY Zenon, <4>2, <5>1
      <4> QED
        BY Zenon, <4>1, <4>2
    <3> QED
      BY <1>12, <3>1, <3>2
  <2> QED
    BY Zenon, <2>1, <2>2
<1>17. ServersTold'
  <2>1. CASE ~o.live
    BY Zenon, <1>1, <1>7, <1>12, <2>1 DEF ServersTold
  <2>2. CASE o.live
    <3>1. upd'[o.src].handle = upd[o.src].handle /\ upd'[o.src].resp = a
      BY Zenon, <1>12, <1>14, <2>2
    <3>2. a \in Usable' \cup {Refused}
      BY Zenon, <1>7
    <3>3. \A t \in Server \ {o.src} : upd'[t] = upd[t]
      BY Zenon, <1>12
    <3> QED
      BY Zenon, <1>1, <1>3, <1>7, <3>1, <3>2, <3>3, ServersToldKept
  <2> QED
    BY Zenon, <2>1, <2>2
<1>18. ClientsTold'
  BY Zenon, <1>1, <1>7 DEF ClientsTold
<1> QED
  BY Zenon, <1>6, <1>8, <1>9, <1>10, <1>15, <1>16, <1>17, <1>18

\* The target stores what was sent, and sends the completion ack.
LEMMA SendCompletionAckInd ==
    ASSUME IndInv, NEW p \in Server, NEW k \in 1..Len(inst[p]), SendCompletionAck(p, k)
    PROVE  IndInv'
<1> USE DEF IndInv
<1> DEFINE o == inst[p][k]
           i == [o EXCEPT !.pc = "recv"]
<1>1. /\ o.pc = "moved" /\ inst' = [inst EXCEPT ![p][k].pc = "recv"]
      /\ data' = [data EXCEPT ![o.handle] = @ \cup o.sent] /\ Counting(p, o.handle)
      /\ UNCHANGED <<mig_state, mig_datafile_handle, new_handle, load, upd, home, meta,
                     layout, setattrs, io, acked, exposed>>
  BY Zenon DEF SendCompletionAck, clients
<1>2. InstOk(p, k, o)
  BY Zenon DEF Queues
<1>3. inst' = [inst EXCEPT ![p][k] = i]
  BY Zenon, <1>1 DEF Queues
<1>4. /\ InstOk(p, k, i) /\ i.src = o.src /\ i.live = o.live /\ i.handle = o.handle
      /\ i.pc = "recv" /\ o.handle \in Handle /\ o.handle # NoHandle /\ o.sent \subseteq Writer
  BY Zenon, <1>1, <1>2 DEF InstOk, Instance, Early
<1> HIDE DEF i
<1>5. Queues' /\ Owned' /\ Once' /\ Live'
  BY Zenon, <1>1, <1>3, <1>4, RequestGoesOn
<1>6. o.handle \in Usable
  BY Zenon, <1>4 DEF Owned, Usable
<1>7. counted' \in [Server -> SUBSET Handle]
      /\ \A t \in Server : counted'[t] \subseteq counted[t] \cup Usable
  BY Zenon, <1>1, <1>6, CountingTold
<1>8. data' \in [Handle -> SUBSET Writer]
  BY Zenon, <1>1, <1>4 DEF Globals
<1>9. Globals' /\ Rounds' /\ ClientsTold'
  BY Zenon, <1>1, <1>7, <1>8, ClientsToldKept DEF Globals, Rounds
<1>10. ServersTold'
  BY Zenon, <1>1, <1>7 DEF ServersTold, Usable
<1> QED
  BY Zenon, <1>5, <1>9, <1>10

\* The target defers, and stays.
LEMMA DecodeRecvMsgInd ==
    ASSUME IndInv, NEW p \in Server, NEW k \in 1..Len(inst[p]), DecodeRecvMsg(p, k)
    PROVE  IndInv'
<1> USE DEF IndInv
<1> DEFINE o == inst[p][k]
           i == [o EXCEPT !.pc = "deferred"]
<1>1. /\ o.pc = "told" /\ inst' = [inst EXCEPT ![p][k].pc = "deferred"]
      /\ UNCHANGED <<mig_state, mig_datafile_handle, new_handle, load, counted, upd, home, meta,
                     data, layout, setattrs, io, acked, exposed>>
  BY Zenon DEF DecodeRecvMsg, clients, files
<1>2. InstOk(p, k, o)
  BY Zenon DEF Queues
<1>3. inst' = [inst EXCEPT ![p][k] = i]
  BY Zenon, <1>1 DEF Queues
<1>4. /\ InstOk(p, k, i) /\ i.src = o.src /\ i.live = o.live /\ i.handle = o.handle
      /\ i.pc = "deferred"
  BY Zenon, <1>1, <1>2 DEF InstOk, Instance, Early
<1> HIDE DEF i
<1>5. Queues' /\ Owned' /\ Once' /\ Live'
  BY Zenon, <1>1, <1>3, <1>4, RequestGoesOn
<1>6. Globals' /\ Rounds' /\ ClientsTold' /\ ServersTold'
  BY Zenon, <1>1 DEF Globals, Rounds, ClientsTold, ServersTold, Usable
<1> QED
  BY Zenon, <1>5, <1>6

\* The first in line leaves, and the others move up.
LEMMA IoReleaseInd ==
    ASSUME IndInv, NEW p \in Server, NEW k \in 1..Len(inst[p]), IoRelease(p, k)
    PROVE  IndInv'
<1> USE DEF IndInv
<1> DEFINE q == SubSeq(inst[p], 1, k - 1) \o SubSeq(inst[p], k + 1, Len(inst[p]))
<1>1. /\ k = 1 /\ inst' = [inst EXCEPT ![p] = q] /\ mig_state' = [mig_state EXCEPT ![p] = 0]
      /\ UNCHANGED <<mig_datafile_handle, new_handle, load, counted, upd, home, meta,
                     data, layout, setattrs, io, acked, exposed>>
  BY Zenon DEF IoRelease, Leave, Scheduled, clients, files
<1>2. inst[p] \in Seq(Instance) /\ \A j \in 1..Len(inst[p]) : InstOk(p, j, inst[p][j])
  BY Zenon DEF Queues
<1>3. /\ q \in Seq(Instance) /\ Len(q) = Len(inst[p]) - 1
      /\ \A j \in 1..Len(q) : q[j] = inst[p][j + 1]
  BY <1>1, <1>2
<1> HIDE DEF q
<1>4. /\ inst' \in [Server -> Seq(Instance)] /\ inst'[p] = q
      /\ \A t \in Server \ {p} : inst'[t] = inst[t]
  BY Zenon, <1>1, <1>3 DEF Queues
<1>5. \A t \in Server : \A j \in 1..Len(inst'[t]) :
        \E l \in 1..Len(inst[t]) : inst'[t][j] = inst[t][l] /\ (t = p => l = j + 1)
                                   /\ (t # p => l = j)
  <2> TAKE t \in Server
  <2> TAKE j \in 1..Len(inst'[t])
  <2>1. CASE t = p
    <3>1. j + 1 \in 1..Len(inst[t]) /\ inst'[t][j] = inst[t][j + 1]
      BY <1>2, <1>3, <1>4, <2>1
    <3> QED
      BY Zenon, <2>1, <3>1
  <2>2. CASE t # p
    BY Zenon, <1>4, <2>2
  <2> QED
    BY Zenon, <2>1, <2>2
<1>6. Queues'
  <2>1. Len(inst'[p]) <= MaxQueue
    BY <1>2, <1>3, <1>4, BoundAssumption DEF Queues
  <2>2. ASSUME NEW t \in Server, NEW j \in 1..Len(inst'[t]) PROVE InstOk(t, j, inst'[t][j])
    <3>1. PICK l \in 1..Len(inst[t]) : inst'[t][j] = inst[t][l] /\ (t = p => l = j + 1)
                                      /\ (t # p => l = j)
      BY Zenon, <1>5
    <3>2. InstOk(t, l, inst[t][l])
      BY Zenon DEF Queues
    <3>3. j > 1 => l > 1
      BY <3>1
    <3> QED
      BY Zenon, <3>1, <3>2, <3>3 DEF InstOk
  <2>3. \A t \in Server : Len(inst'[t]) <= MaxQueue
    BY Zenon, <1>4, <2>1 DEF Queues
  <2> QED
    BY Zenon, <1>4, <2>2, <2>3 DEF Queues
<1>7. Owned'
  BY <1>1, <1>5 DEF Owned
<1>8. Live'
  <2> SUFFICES ASSUME NEW t \in Server, NEW j \in 1..Len(inst'[t]), inst'[t][j].live
               PROVE  Waits(upd[inst'[t][j].src], t, inst'[t][j])
    BY Zenon, <1>1 DEF Live
  <2>1. PICK l \in 1..Len(inst[t]) : inst'[t][j] = inst[t][l]
    BY Zenon, <1>5
  <2> QED
    BY Zenon, <2>1 DEF Live
<1>9. Once'
  <2> SUFFICES ASSUME NEW t \in Server, NEW j \in 1..Len(inst'[t]), NEW m \in 1..Len(inst'[t]),
                      inst'[t][j].live, inst'[t][m].live, inst'[t][j].src = inst'[t][m].src
               PROVE  j = m
    BY Zenon DEF Once
  <2>1. PICK l \in 1..Len(inst[t]) : inst'[t][j] = inst[t][l] /\ (t = p => l = j + 1)
                                    /\ (t # p => l = j)
    BY Zenon, <1>5
  <2>2. PICK n \in 1..Len(inst[t]) : inst'[t][m] = inst[t][n] /\ (t = p => n = m + 1)
                                    /\ (t # p => n = m)
    BY Zenon, <1>5
  <2>3. l = n
    BY <2>1, <2>2 DEF Once
  <2> QED
    BY <2>1, <2>2, <2>3
<1>10. Globals' /\ Rounds' /\ ClientsTold' /\ ServersTold'
  BY Zenon, <1>1 DEF Globals, Rounds, ClientsTold, ServersTold, Usable
<1> QED
  BY Zenon, <1>6, <1>7, <1>8, <1>9, <1>10

\* Only io, data, acked and exposed change.
LEMMA ClientStep ==
    ASSUME IndInv, UNCHANGED servers, UNCHANGED <<home, meta, layout, setattrs>>,
           data' \in [Handle -> SUBSET Writer],
           io' \in [Writer -> [pc : {"idle", "sent", "flow", "done"},
                               handle : Handle \cup {NoHandle}]],
           exposed' \subseteq acked', acked' \subseteq Writer,
           \A w \in Writer : /\ io'[w].handle # NoHandle => io'[w].handle \in Usable
                             /\ io'[w].pc \in {"sent", "flow"} => io'[w].handle # NoHandle
    PROVE  IndInv'
<1> USE DEF IndInv, servers
<1>1. Globals' /\ ClientsTold'
  BY Zenon DEF Globals, ClientsTold, Usable
<1>2. Rounds' /\ Queues' /\ Owned' /\ Live' /\ Once' /\ ServersTold'
  BY Zenon DEF Rounds, Queues, Owned, Live, Once, ServersTold, Usable
<1> QED
  BY Zenon, <1>1, <1>2

\* A client gets the layout.
LEMMA OpenInd == ASSUME IndInv, NEW w \in Writer, Open(w) PROVE IndInv'
<1> USE DEF IndInv
<1>1. layout[Opens[w]] \in Usable /\ layout[Opens[w]] \in Handle /\ layout[Opens[w]] # NoHandle
  BY WriterAssumption DEF ClientsTold, Globals, NoHandle, Handle
<1>2. /\ UNCHANGED servers /\ UNCHANGED <<home, meta, data, layout, setattrs, acked, exposed>>
      /\ io' = [io EXCEPT ![w] = [pc |-> "sent", handle |-> layout[Opens[w]]]]
  BY Zenon DEF Open, files
<1>3. /\ io' \in [Writer -> [pc : {"idle", "sent", "flow", "done"},
                             handle : Handle \cup {NoHandle}]]
      /\ \A v \in Writer : /\ io'[v].handle # NoHandle => io'[v].handle \in Usable
                           /\ io'[v].pc \in {"sent", "flow"} => io'[v].handle # NoHandle
  BY Zenon, <1>1, <1>2 DEF Globals, ClientsTold
<1>4. data' \in [Handle -> SUBSET Writer] /\ exposed' \subseteq acked' /\ acked' \subseteq Writer
  BY Zenon, <1>2 DEF Globals
<1> QED
  BY Zenon, <1>2, <1>3, <1>4, ClientStep

\* A client is turned away, or passes the test.
LEMMA MigrationTestInd == ASSUME IndInv, NEW w \in Writer, MigrationTest(w) PROVE IndInv'
<1> USE DEF IndInv
<1>1. /\ UNCHANGED servers /\ UNCHANGED <<home, meta, data, layout, setattrs, acked, exposed>>
      /\ io[w].pc = "sent"
      /\ \/ io' = [io EXCEPT ![w] = [pc |-> "idle", handle |-> NoHandle]]
         \/ io' = [io EXCEPT ![w].pc = "flow"]
  BY Zenon DEF MigrationTest, files
<1>2. io[w].handle # NoHandle
  BY Zenon, <1>1 DEF ClientsTold
<1>3. /\ io' \in [Writer -> [pc : {"idle", "sent", "flow", "done"},
                             handle : Handle \cup {NoHandle}]]
      /\ \A v \in Writer : /\ io'[v].handle # NoHandle => io'[v].handle \in Usable
                           /\ io'[v].pc \in {"sent", "flow"} => io'[v].handle # NoHandle
  <2>1. CASE io' = [io EXCEPT ![w] = [pc |-> "idle", handle |-> NoHandle]]
    BY Zenon, <2>1 DEF Globals, ClientsTold, NoHandle
  <2>2. CASE io' = [io EXCEPT ![w].pc = "flow"]
    BY <1>2, <2>2 DEF Globals, ClientsTold
  <2> QED
    BY Zenon, <1>1, <2>1, <2>2
<1>4. data' \in [Handle -> SUBSET Writer] /\ exposed' \subseteq acked' /\ acked' \subseteq Writer
  BY Zenon, <1>1 DEF Globals
<1> QED
  BY Zenon, <1>1, <1>3, <1>4, ClientStep

\* A client writes.
LEMMA WriteInd ==
    ASSUME IndInv, NEW w \in Writer, io[w].pc \in {"sent", "flow"}, Write(w) PROVE IndInv'
<1> USE DEF IndInv
<1>1. /\ UNCHANGED servers /\ UNCHANGED <<home, meta, layout, setattrs>>
      /\ io' = [io EXCEPT ![w].pc = "done"]
      /\ data' = [data EXCEPT ![io[w].handle] = @ \cup {w}] /\ acked' = acked \cup {w}
      /\ exposed' \subseteq exposed \cup {w}
  BY Zenon DEF Write
<1>2. io[w].handle \in Handle
  BY Zenon DEF ClientsTold, Globals
<1>3. /\ io' \in [Writer -> [pc : {"idle", "sent", "flow", "done"},
                             handle : Handle \cup {NoHandle}]]
      /\ \A v \in Writer : /\ io'[v].handle # NoHandle => io'[v].handle \in Usable
                           /\ io'[v].pc \in {"sent", "flow"} => io'[v].handle # NoHandle
  BY <1>1, <1>2 DEF Globals, ClientsTold
<1>4. data' \in [Handle -> SUBSET Writer] /\ exposed' \subseteq acked' /\ acked' \subseteq Writer
  BY Zenon, <1>1, <1>2 DEF Globals
<1> QED
  BY Zenon, <1>1, <1>3, <1>4, ClientStep

\* The invariant holds at the start.
LEMMA InitInd == Init => IndInv
<1> SUFFICES ASSUME Init PROVE IndInv
  BY Zenon
<1>1. \A f \in File : f \in Handle /\ f # NoHandle /\ FirstHome[f] \in Server
  BY FileAssumption DEF Handle, NoHandle
<1>2. Globals
  BY Zenon, <1>1 DEF Init, Globals
<1>3. Rounds
  BY Zenon, IdleOk DEF Init, Rounds, RoundOk
<1>4. Queues /\ Owned /\ Live /\ Once
  <2>1. inst \in [Server -> Seq(Instance)] /\ \A p \in Server : Len(inst[p]) = 0
    BY DEF Init
  <2>2. 0 <= MaxQueue /\ \A p \in Server : \A k \in 1..Len(inst[p]) : FALSE
    BY <2>1, BoundAssumption
  <2> QED
    BY Zenon, <2>1, <2>2 DEF Queues, Owned, Live, Once
<1>5. ServersTold /\ ClientsTold
  BY <1>1 DEF Init, ServersTold, ClientsTold, Usable, Idle, NoHandle, Handle
<1> QED
  BY Zenon, <1>2, <1>3, <1>4, <1>5 DEF IndInv

\* Every step keeps the invariant.
LEMMA NextInd ==
    ASSUME LeastLaw, IndInv, Next
    PROVE  IndInv'
<1>1. ASSUME NEW s \in Server, Period(s) \/ PollFails(s) PROVE IndInv'
  BY Zenon, <1>1, PeriodInd, PollFailsInd
<1>0. ASSUME NEW s \in Server, MigDecide(s) PROVE IndInv'
  BY Zenon, <1>0, MigDecideInd
<1>2. ASSUME NEW s \in Server, Source(s) PROVE IndInv'
  BY Zenon, <1>0, <1>2, SendMigrationRequestInd, RequestTimesOutInd, PostFlowInd,
     TransferInd, PostCompleteAckInd, AnswerAckInd, UpdateMetadataInd, SetattrTimesOutInd,
     RemoveDatafileHandleInd DEF Source
<1>3. ASSUME NEW p \in Server, Target(p) PROVE IndInv'
  BY Zenon, <1>3, CreateNewDatafileInd, SendAckInd, SendCompletionAckInd, DecodeRecvMsgInd,
     IoReleaseInd DEF Target
<1>4. ASSUME NEW p \in Server, NEW s \in Server, PerfMon(p, s) PROVE IndInv'
  BY Zenon, <1>4, PerfMonInd
<1>5. ASSUME NEW m \in setattrs, SetAttr(m) PROVE IndInv'
  BY Zenon, <1>5, SetAttrInd
<1>6. ASSUME NEW w \in Writer, Client(w) PROVE IndInv'
  BY Zenon, <1>6, OpenInd, MigrationTestInd, WriteInd DEF Client, StartFlow, SmallIo
<1> QED
  BY Zenon, <1>1, <1>2, <1>3, <1>4, <1>5, <1>6 DEF Next

\* So does a step of nothing.
LEMMA StutterInd == ASSUME IndInv, UNCHANGED vars PROVE IndInv'
BY Zenon DEF IndInv, vars, servers, files, clients, Globals, Rounds, Queues, Owned, Live, Once,
       ServersTold, ClientsTold, Usable

\* The invariant keeps migrations apart: a datafile belongs to one server, and
\* there only the first in line has one.
LEMMA Apart == IndInv => CopiesApart
<1> SUFFICES ASSUME IndInv, NEW p \in Server, NEW q \in Server,
                    NEW j \in 1..Len(inst[p]), NEW k \in 1..Len(inst[q])
             PROVE  /\ inst[p][j].handle = inst[q][k].handle
                         => inst[p][j].handle = NoHandle \/ (p = q /\ j = k)
                    /\ \A s \in Server : Serves(p, j, s) /\ upd[s].resp \in Handle
                         => upd[s].resp = inst[p][j].handle
  BY Zenon DEF CopiesApart
<1>1. InstOk(p, j, inst[p][j]) /\ InstOk(q, k, inst[q][k])
  BY Zenon DEF IndInv, Queues
<1>2. /\ inst[p][j].handle # NoHandle => home[inst[p][j].handle] = p /\ j = 1
      /\ inst[q][k].handle # NoHandle => home[inst[q][k].handle] = q /\ k = 1
  BY SMTT(30), <1>1 DEF IndInv, Owned, InstOk, Early
<1>3. \A s \in Server : Serves(p, j, s) /\ upd[s].resp \in Handle => upd[s].resp = inst[p][j].handle
  BY DEF IndInv, Live, Waits, Serves
<1> QED
  BY Zenon, <1>2, <1>3

\* The invariant says that no target said it is busy.
LEMMA NotBusy == IndInv => BusyNotCandidate
BY Zenon DEF IndInv, Rounds, RoundOk, BusyNotCandidate, Report

-----------------------------------------------------------------------------
(* One server balances. *)

\* Acknowledged writes that met no migration.
Plain == acked \ exposed

\* A round of s moves a datafile of s, and only a server that balances does; no
\* plain write is added to the datafile behind the size that the source read, and
\* from its answer to the ack on all of them are in the new datafile.
RoundSafe(s, r) ==
    /\ r.pc \notin {"timer", "dead"} => s \in LBEnabled
    /\ r.handle # NoHandle => home[r.handle] = s
    /\ r.pc \in Active \ {"getattr"} => Plain \cap data[r.handle] \cap Extending \subseteq r.snap
    /\ r.pc \in {"send", "setattr"} => Plain \cap data[r.handle] \subseteq data[r.resp]

\* What a request that its source still waits for carries, and has stored; the
\* source's round is u.
InstSafe(i, u) ==
    /\ i.src \in LBEnabled /\ i.sent \subseteq acked
    /\ i.live /\ i.pc = "moved" => Plain \cap data[u.handle] \subseteq i.sent
    /\ i.live /\ i.pc \in {"recv", "told", "deferred"} =>
          Plain \cap data[u.handle] \subseteq data[i.handle]

\* A replacement asked for is of a datafile of a server that balances, and loses
\* no plain write.
Replaces(m) == home[m.old] \in LBEnabled /\ Plain \cap data[m.old] \subseteq data[m.new]

\* Every writer writes once.
Writes == /\ \A w \in Writer : w \in acked <=> io[w].pc = "done"
          /\ \A h \in Handle : data[h] \subseteq acked

Guarded == \A s \in Server : upd[s].handle # NoHandle => Refuses(s, upd[s].handle)

SafeSetattrs == \A m \in setattrs : Replaces(m)
SafeRounds == \A s \in Server : RoundSafe(s, upd[s])
SafeInsts == \A p \in Server : \A k \in 1..Len(inst[p]) :
                 InstSafe(inst[p][k], upd[inst[p][k].src])

SoloInv == Writes /\ AckedKept /\ Guarded /\ SafeSetattrs /\ SafeRounds /\ SafeInsts

\* One server balances at most.
OneBalancer == \A s, t \in LBEnabled : s = t

\* A server that receives a migration moves none itself.
LEMMA TargetIdle ==
    ASSUME OneBalancer, IndInv, SoloInv, NEW p \in Server, NEW k \in 1..Len(inst[p])
    PROVE  p \notin LBEnabled /\ upd[p].handle = NoHandle
<1>1. inst[p][k].src \in LBEnabled /\ inst[p][k].src # p
  BY Zenon DEF IndInv, Queues, InstOk, SoloInv, SafeInsts, InstSafe
<1>2. p \notin LBEnabled
  BY Zenon, <1>1 DEF OneBalancer
<1>3. upd[p].pc \in {"timer", "dead"}
  BY Zenon, <1>2 DEF SoloInv, SafeRounds, RoundSafe
<1> QED
  BY Zenon, <1>2, <1>3 DEF IndInv, Rounds, RoundOk, Active

\* A round that moves nothing is safe.
LEMMA IdleSafe ==
    ASSUME NEW s \in Server
    PROVE  /\ RoundSafe(s, Idle) /\ RoundSafe(s, [Idle EXCEPT !.pc = "dead"])
           /\ Idle.handle = NoHandle /\ [Idle EXCEPT !.pc = "dead"].handle = NoHandle
BY Zenon DEF RoundSafe, Idle, Active

\* What is known of a request in line.
LEMMA InstFacts ==
    ASSUME IndInv, SoloInv, NEW p \in Server, NEW k \in 1..Len(inst[p])
    PROVE  /\ InstOk(p, k, inst[p][k]) /\ InstSafe(inst[p][k], upd[inst[p][k].src])
           /\ inst[p][k].live => upd[inst[p][k].src].target = p
           /\ inst[p][k] \in Instance /\ inst[p][k].src \in Server /\ k \in Nat
<1>1. InstOk(p, k, inst[p][k]) /\ inst[p][k] \in Instance
  BY Zenon DEF IndInv, Queues, InstOk
<1>2. inst[p][k].live => upd[inst[p][k].src].target = p
  BY Zenon DEF IndInv, Live, Waits
<1>3. InstSafe(inst[p][k], upd[inst[p][k].src])
  BY Zenon DEF SoloInv, SafeInsts
<1> QED
  BY <1>1, <1>2, <1>3 DEF Instance

\* Only the round of s and its globals change.
LEMMA SourceStep ==
    ASSUME IndInv, SoloInv, NEW s \in Server,
           \A t \in Server \ {s} : /\ upd'[t] = upd[t] /\ mig_state'[t] = mig_state[t]
                                   /\ mig_datafile_handle'[t] = mig_datafile_handle[t],
           UNCHANGED <<home, data, io, acked, exposed>>, RoundSafe(s, upd'[s]),
           upd'[s].handle # NoHandle => mig_state'[s] = 1 /\ mig_datafile_handle'[s] = upd'[s].handle
    PROVE  Writes' /\ Guarded' /\ SafeRounds'
<1>1. Writes'
  BY Zenon DEF SoloInv, Writes
<1>2. Guarded'
  BY Zenon DEF SoloInv, Guarded, Refuses
<1>3. SafeRounds'
  BY DEF SoloInv, SafeRounds, RoundSafe, Plain
<1> QED
  BY Zenon, <1>1, <1>2, <1>3

\* No datafile, layout or request to the metadata server changes.
LEMMA FilesKept ==
    ASSUME SoloInv, UNCHANGED <<home, data, layout, setattrs, acked, exposed>>
    PROVE  AckedKept' /\ SafeSetattrs'
BY Zenon DEF SoloInv, AckedKept, SafeSetattrs, Replaces, Plain

\* The requests stay: a source that has one keeps its handle.
LEMMA InstsKept ==
    ASSUME IndInv, SoloInv, NEW s \in Server, \A t \in Server \ {s} : upd'[t] = upd[t],
           UNCHANGED <<inst, data, acked, exposed>>,
           upd[s].target = Nobody \/ upd'[s].handle = upd[s].handle
    PROVE  SafeInsts'
<1> SUFFICES ASSUME NEW p \in Server, NEW k \in 1..Len(inst[p])
             PROVE  InstSafe(inst[p][k], upd[inst[p][k].src])'
  BY Zenon DEF SafeInsts
<1> DEFINE i == inst[p][k]
<1>1. InstSafe(i, upd[i.src]) /\ i.src \in Server
  BY Zenon DEF SoloInv, SafeInsts, IndInv, Queues, InstOk, Instance
<1>2. i.live => upd[i.src].target = p /\ p # Nobody
  BY DEF IndInv, Live, Waits, Nobody, Server
<1>3. i.live => upd'[i.src].handle = upd[i.src].handle
  BY Zenon, <1>1, <1>2
<1> QED
  BY Zenon, <1>1, <1>3 DEF InstSafe, Plain

\* A source forgets its requests, or sends another one.
LEMMA InstsRenewed ==
    ASSUME IndInv, SoloInv, NEW s \in Server, s \in LBEnabled, Renewed(s),
           \A t \in Server \ {s} : upd'[t] = upd[t], UNCHANGED <<data, acked, exposed>>
    PROVE  SafeInsts'
<1> SUFFICES ASSUME NEW p \in Server, NEW k \in 1..Len(inst'[p])
             PROVE  InstSafe(inst[p][k], upd[inst[p][k].src])'
  BY Zenon DEF SafeInsts
<1>1. CASE k \in 1..Len(inst[p]) /\ AsBefore(s, inst'[p][k], inst[p][k])
  <2>1. InstSafe(inst[p][k], upd[inst[p][k].src]) /\ inst[p][k].src \in Server
    BY Zenon, <1>1, InstFacts
  <2> QED
    BY ZenonT(30), <1>1, <2>1 DEF AsBefore, InstSafe, Plain
<1>2. CASE inst'[p][k] = Request(s)
  <2>1. /\ inst'[p][k].src = s /\ inst'[p][k].pc = "new" /\ inst'[p][k].sent = {}
    BY <1>2 DEF Request
  <2> QED
    BY Zenon, <2>1 DEF InstSafe
<1> QED
  BY Zenon, <1>1, <1>2 DEF Renewed, RenewedAt

\* One request changes, and the others keep the handles of their sources.
LEMMA InstChanged ==
    ASSUME IndInv, SoloInv, NEW p \in Server, NEW k \in 1..Len(inst[p]), NEW i, InstOk(p, k, i),
           inst' = [inst EXCEPT ![p][k] = i], \A t \in Server : upd'[t].handle = upd[t].handle,
           i.src = inst[p][k].src, InstSafe(i, upd[i.src]), UNCHANGED <<data, acked, exposed>>
    PROVE  SafeInsts'
<1>1. /\ \A t \in Server : Len(inst'[t]) = Len(inst[t])
      /\ inst'[p][k] = i
      /\ \A t \in Server : \A j \in 1..Len(inst[t]) :
           t # p \/ j # k => inst'[t][j] = inst[t][j]
  BY ZenonT(30), InstSteps DEF IndInv
<1> SUFFICES ASSUME NEW t \in Server, NEW j \in 1..Len(inst[t])
             PROVE  InstSafe(inst[t][j], upd[inst[t][j].src])'
  BY Zenon, <1>1 DEF SafeInsts
<1>2. InstSafe(inst[t][j], upd[inst[t][j].src]) /\ inst[t][j].src \in Server /\ i.src \in Server
  BY Zenon DEF SoloInv, SafeInsts, IndInv, Queues, InstOk, Instance
<1>3. InstSafe(inst'[t][j], upd[inst'[t][j].src]) /\ inst'[t][j].src \in Server
  BY Zenon, <1>1, <1>2
<1>4. upd'[inst'[t][j].src].handle = upd[inst'[t][j].src].handle
  BY Zenon, <1>3
<1> QED
  BY Zenon, <1>3, <1>4 DEF InstSafe, Plain

-----------------------------------------------------------------------------
(* The rounds. *)

\* post_timer_fun: the round that ends leaves nothing to guard.
LEMMA FinalizeSafe ==
    ASSUME IndInv, SoloInv, NEW s \in Server, Finalize(s),
           UNCHANGED <<mig_datafile_handle, home, data, io, acked, exposed>>
    PROVE  Writes' /\ Guarded' /\ SafeRounds'
           /\ upd'[s] = Idle /\ \A t \in Server \ {s} : upd'[t] = upd[t]
<1>1. upd'[s] = Idle /\ \A t \in Server \ {s} : upd'[t] = upd[t] /\ mig_state'[t] = mig_state[t]
  BY Zenon DEF Finalize, IndInv, Rounds, Globals
<1> QED
  BY Zenon, <1>1, IdleSafe, SourceStep

\* cleanup, from wherever it is called.
LEMMA CleanupSafe ==
    ASSUME IndInv, SoloInv, NEW s \in Server, upd[s].pc \in Active, Cleanup(s),
           UNCHANGED <<files, clients>>
    PROVE  SoloInv'
<1>1. UNCHANGED <<mig_datafile_handle, home, data, layout, setattrs, io, acked, exposed>>
      /\ Finalize(s) /\ inst' = [inst EXCEPT ![upd[s].target] = Disowned(s)]
  BY Zenon DEF Cleanup, files, clients
<1>2. Writes' /\ Guarded' /\ SafeRounds' /\ \A t \in Server \ {s} : upd'[t] = upd[t]
  <2>1. Finalize(s) /\ UNCHANGED <<mig_datafile_handle, home, data, io, acked, exposed>>
    BY Zenon, <1>1
  <2> QED
    BY ZenonT(30), <2>1, FinalizeSafe
<1>3. s \in LBEnabled
  BY Zenon DEF SoloInv, SafeRounds, RoundSafe, Active
<1>4. SafeInsts'
  BY Zenon, <1>1, <1>2, <1>3, CleanupRenews, InstsRenewed
<1> QED
  BY Zenon, <1>1, <1>2, <1>4, FilesKept DEF SoloInv

\* The timer expires: only a server that balances goes on.
LEMMA PeriodSafe == ASSUME IndInv, SoloInv, NEW s \in Server, Period(s) PROVE SoloInv'
<1>1. /\ upd[s].pc = "timer"
      /\ UNCHANGED <<mig_datafile_handle, inst, home, data, layout, setattrs, io, acked, exposed>>
  BY Zenon DEF Period, files, clients
<1>2. upd[s].target = Nobody /\ upd[s].handle = NoHandle /\ upd[s] \in Round
  BY Zenon, <1>1 DEF IndInv, Rounds, RoundOk, Active
<1>3. CASE Finalize(s)
  BY Zenon, <1>1, <1>2, <1>3, FinalizeSafe, InstsKept, FilesKept DEF SoloInv
<1>4. CASE ~Finalize(s)
  <2>1. s \in LBEnabled /\ upd' = [upd EXCEPT ![s].pc = "collect"] /\ UNCHANGED mig_state
    BY Zenon, <1>4 DEF Period
  <2>2. /\ upd'[s].pc = "collect" /\ upd'[s].handle = NoHandle
        /\ \A t \in Server \ {s} : upd'[t] = upd[t]
    BY Zenon, <1>2, <2>1 DEF IndInv, Rounds, Round
  <2>3. RoundSafe(s, upd'[s])
    BY Zenon, <2>1, <2>2 DEF RoundSafe, Active
  <2>4. Writes' /\ Guarded' /\ SafeRounds'
    BY Zenon, <1>1, <2>1, <2>2, <2>3, SourceStep
  <2> QED
    BY Zenon, <1>1, <1>2, <2>2, <2>4, InstsKept, FilesKept DEF SoloInv
<1> QED
  BY Zenon, <1>3, <1>4

\* A peer answers.
LEMMA PerfMonSafe ==
    ASSUME IndInv, SoloInv, NEW p \in Server, NEW s \in Server, PerfMon(p, s)
    PROVE  SoloInv'
<1>1. /\ upd[s].pc = "collect"
      /\ UNCHANGED <<mig_state, mig_datafile_handle, inst, home, data, layout, setattrs, io,
                     acked, exposed>>
  BY Zenon DEF PerfMon, files, clients
<1>2. upd[s].target = Nobody /\ upd[s].handle = NoHandle /\ upd[s] \in Round
  BY Zenon, <1>1 DEF IndInv, Rounds, RoundOk, Active
<1>3. /\ upd'[s].pc = "collect" /\ upd'[s].handle = NoHandle
      /\ \A t \in Server \ {s} : upd'[t] = upd[t]
  BY Zenon, <1>1, <1>2 DEF PerfMon, IndInv, Rounds, Round
<1>4. RoundSafe(s, upd'[s])
  BY Zenon, <1>1, <1>3 DEF SoloInv, SafeRounds, RoundSafe, Active
<1>5. Writes' /\ Guarded' /\ SafeRounds'
  BY Zenon, <1>1, <1>3, <1>4, SourceStep
<1> QED
  BY Zenon, <1>1, <1>2, <1>3, <1>5, InstsKept, FilesKept DEF SoloInv

\* A peer does not answer.
LEMMA PollFailsSafe == ASSUME IndInv, SoloInv, NEW s \in Server, PollFails(s) PROVE SoloInv'
<1>1. /\ upd[s].pc = "collect"
      /\ UNCHANGED <<mig_datafile_handle, inst, home, data, layout, setattrs, io, acked, exposed>>
  BY Zenon DEF PollFails, files, clients
<1>2. upd[s].target = Nobody
  BY Zenon, <1>1 DEF IndInv, Rounds, RoundOk, Active
<1>3. /\ upd'[s] = [Idle EXCEPT !.pc = "dead"]
      /\ \A t \in Server \ {s} : upd'[t] = upd[t] /\ mig_state'[t] = mig_state[t]
  BY Zenon DEF PollFails, IndInv, Rounds, Globals
<1>4. Writes' /\ Guarded' /\ SafeRounds'
  BY Zenon, <1>1, <1>3, IdleSafe, SourceStep
<1> QED
  BY Zenon, <1>1, <1>2, <1>3, <1>4, InstsKept, FilesKept DEF SoloInv

\* mig_decide_fun marks the datafile, one of its own server, before it is read.
LEMMA MigDecideSafe == ASSUME IndInv, SoloInv, NEW s \in Server, MigDecide(s) PROVE SoloInv'
<1>1. /\ upd[s].pc = "collect"
      /\ UNCHANGED <<inst, home, data, layout, setattrs, io, acked, exposed>>
  BY Zenon DEF MigDecide, files, clients
<1>2. upd[s].target = Nobody /\ upd[s].handle = NoHandle /\ upd[s] \in Round
  BY Zenon, <1>1 DEF IndInv, Rounds, RoundOk, Active
<1>3. CASE Finalize(s) /\ UNCHANGED mig_datafile_handle
  BY Zenon, <1>1, <1>2, <1>3, FinalizeSafe, InstsKept, FilesKept DEF SoloInv
<1>4. CASE ~(Finalize(s) /\ UNCHANGED mig_datafile_handle)
  <2>1. PICK h \in Candidates(s) :
          /\ mig_state' = [mig_state EXCEPT ![s] = 1]
          /\ mig_datafile_handle' = [mig_datafile_handle EXCEPT ![s] = h]
          /\ upd' = [upd EXCEPT ![s].pc = "getattr", ![s].target = Coolest(s), ![s].handle = h]
    BY Zenon, <1>4 DEF MigDecide
  <2>2. home[h] = s
    BY Zenon DEF Candidates
  <2>3. /\ upd'[s].pc = "getattr" /\ upd'[s].handle = h
        /\ \A t \in Server \ {s} : upd'[t] = upd[t]
    BY Zenon, <1>2, <2>1 DEF IndInv, Rounds, Round
  <2>4. RoundSafe(s, upd'[s])
    BY Zenon, <1>1, <2>2, <2>3 DEF SoloInv, SafeRounds, RoundSafe, Active
  <2>5. /\ mig_state'[s] = 1 /\ mig_datafile_handle'[s] = h
        /\ \A t \in Server \ {s} : mig_state'[t] = mig_state[t]
                                   /\ mig_datafile_handle'[t] = mig_datafile_handle[t]
    BY Zenon, <2>1 DEF IndInv, Globals
  <2>6. Writes' /\ Guarded' /\ SafeRounds'
    BY Zenon, <1>1, <2>3, <2>4, <2>5, SourceStep
  <2> QED
    BY Zenon, <1>1, <1>2, <2>3, <2>6, InstsKept, FilesKept DEF SoloInv
<1> QED
  BY Zenon, <1>3, <1>4
=============================================================================
