-------------------------- MODULE Migration_proofs --------------------------
(***************************************************************************)
(* Theorems about Migration.  Two of them hold whoever balances.  The others*)
(* are about what the datafiles hold, and need that only one server does: a*)
(* server that is source and target loses its mark when it is no longer the*)
(* target (io_release clears mig_state).                                   *)
(***************************************************************************)
EXTENDS Migration_steps

-----------------------------------------------------------------------------
(* The source. *)

\* The round of s goes on with its datafile, and its globals stay.
LEMMA RoundSafeStep ==
    ASSUME IndInv, SoloInv, NEW s \in Server, NEW r, upd' = [upd EXCEPT ![s] = r],
           r.handle = upd[s].handle, RoundSafe(s, r),
           UNCHANGED <<mig_state, mig_datafile_handle, home, data, io, acked, exposed>>
    PROVE  /\ Writes' /\ Guarded' /\ SafeRounds'
           /\ upd'[s] = r /\ \A t \in Server \ {s} : upd'[t] = upd[t]
<1>1. upd'[s] = r /\ \A t \in Server \ {s} : upd'[t] = upd[t]
  BY Zenon DEF IndInv, Rounds
<1>2. r.handle # NoHandle => mig_state[s] = 1 /\ mig_datafile_handle[s] = r.handle
  BY Zenon DEF SoloInv, Guarded, Refuses
<1> QED
  BY Zenon, <1>1, <1>2, SourceStep

\* A request is sent, and carries nothing yet.
LEMMA SendSafe ==
    ASSUME IndInv, SoloInv, NEW s \in Server, upd[s].pc \in Active, Send(s), NEW r,
           upd' = [upd EXCEPT ![s] = r], r.handle = upd[s].handle, r.target = upd[s].target,
           r.pc = "request", r.resp = NoHandle, RoundSafe(s, r),
           UNCHANGED <<mig_state, mig_datafile_handle, files, clients>>
    PROVE  SoloInv'
<1>1. UNCHANGED <<home, data, layout, setattrs, io, acked, exposed>>
  BY Zenon DEF files, clients
<1>2. /\ Writes' /\ Guarded' /\ SafeRounds'
      /\ upd'[s] = r /\ \A t \in Server \ {s} : upd'[t] = upd[t]
  BY Zenon, <1>1, RoundSafeStep
<1>3. s \in LBEnabled
  BY Zenon DEF SoloInv, SafeRounds, RoundSafe, Active
<1>4. SafeInsts'
  BY Zenon, <1>1, <1>2, <1>3, SendRenews, InstsRenewed
<1> QED
  BY Zenon, <1>1, <1>2, <1>4, FilesKept DEF SoloInv

\* What the datafile holds is within the size that is read here.
LEMMA SendMigrationRequestSafe ==
    ASSUME IndInv, SoloInv, NEW s \in Server, SendMigrationRequest(s)
    PROVE  SoloInv'
<1>1. upd[s].pc = "getattr" /\ upd[s].pc \in Active /\ UNCHANGED <<files, clients>>
  BY Zenon DEF SendMigrationRequest, Active
<1>2. CASE Cleanup(s)
  BY Zenon, <1>1, <1>2, CleanupSafe
<1>3. CASE ~Cleanup(s)
  <2> DEFINE r == [upd[s] EXCEPT !.pc = "request", !.tries = 1, !.snap = data[upd[s].handle]]
  <2>1. upd' = [upd EXCEPT ![s] = r] /\ Send(s) /\ UNCHANGED <<mig_state, mig_datafile_handle>>
    BY Zenon, <1>3 DEF SendMigrationRequest, IndInv, Rounds
  <2>2. upd[s] \in Round /\ upd[s].resp = NoHandle
    BY Zenon, <1>1 DEF IndInv, Rounds, RoundOk
  <2>3. /\ r.pc = "request" /\ r.target = upd[s].target /\ r.handle = upd[s].handle
        /\ r.resp = NoHandle /\ r.snap = data[upd[s].handle]
    BY Zenon, <2>2 DEF Round
  <2> HIDE DEF r
  <2>4. RoundSafe(s, r)
    BY Zenon, <1>1, <2>3 DEF SoloInv, SafeRounds, RoundSafe
  <2> QED
    BY Zenon, <1>1, <2>1, <2>3, <2>4, SendSafe
<1> QED
  BY Zenon, <1>2, <1>3

\* A further attempt keeps the size.
LEMMA RequestTimesOutSafe ==
    ASSUME IndInv, SoloInv, NEW s \in Server, RequestTimesOut(s)
    PROVE  SoloInv'
<1>1. upd[s].pc = "request" /\ upd[s].pc \in Active /\ UNCHANGED <<files, clients>>
  BY Zenon DEF RequestTimesOut, Active
<1>2. CASE Cleanup(s)
  BY Zenon, <1>1, <1>2, CleanupSafe
<1>3. CASE ~Cleanup(s)
  <2> DEFINE r == [upd[s] EXCEPT !.tries = @ + 1, !.resp = NoHandle]
  <2>1. upd' = [upd EXCEPT ![s] = r] /\ Send(s) /\ UNCHANGED <<mig_state, mig_datafile_handle>>
    BY Zenon, <1>3 DEF RequestTimesOut, IndInv, Rounds
  <2>2. upd[s] \in Round
    BY Zenon DEF IndInv, Rounds
  <2>3. /\ r.pc = "request" /\ r.target = upd[s].target /\ r.handle = upd[s].handle
        /\ r.resp = NoHandle /\ r.snap = upd[s].snap
    BY Zenon, <1>1, <2>2 DEF Round
  <2> HIDE DEF r
  <2>4. RoundSafe(s, r)
    BY Zenon, <1>1, <2>3 DEF SoloInv, SafeRounds, RoundSafe
  <2> QED
    BY Zenon, <1>1, <2>1, <2>3, <2>4, SendSafe
<1> QED
  BY Zenon, <1>2, <1>3

\* The round goes on with what it has.
LEMMA SameSafe ==
    ASSUME IndInv, SoloInv, NEW s \in Server, NEW pc, NEW n,
           upd[s].pc \in Active \ {"getattr"}, pc \in Active \ {"getattr"},
           upd' = [upd EXCEPT ![s] = [@ EXCEPT !.pc = pc, !.tries = n]],
           pc \in {"send", "setattr"} => Plain \cap data[upd[s].handle] \subseteq data[upd[s].resp],
           UNCHANGED <<mig_state, mig_datafile_handle, inst, home, data, io, acked, exposed>>
    PROVE  Writes' /\ Guarded' /\ SafeRounds' /\ SafeInsts'
<1> DEFINE r == [upd[s] EXCEPT !.pc = pc, !.tries = n]
<1>1. upd' = [upd EXCEPT ![s] = r] /\ upd[s] \in Round
  BY Zenon DEF IndInv, Rounds
<1>2. /\ r.pc = pc /\ r.handle = upd[s].handle /\ r.snap = upd[s].snap
      /\ r.resp = upd[s].resp
  BY Zenon, <1>1 DEF Round
<1> HIDE DEF r
<1>3. RoundSafe(s, r)
  BY Zenon, <1>2 DEF SoloInv, SafeRounds, RoundSafe, Active
<1>4. /\ Writes' /\ Guarded' /\ SafeRounds'
      /\ upd'[s] = r /\ \A t \in Server \ {s} : upd'[t] = upd[t]
  BY Zenon, <1>1, <1>2, <1>3, RoundSafeStep
<1> QED
  BY Zenon, <1>2, <1>4, InstsKept

\* The flow starts.
LEMMA PostFlowSafe == ASSUME IndInv, SoloInv, NEW s \in Server, PostFlow(s) PROVE SoloInv'
<1>1. upd[s].pc = "request" /\ upd[s].pc \in Active /\ UNCHANGED <<files, clients>>
  BY Zenon DEF PostFlow, Active
<1>2. CASE Cleanup(s)
  BY Zenon, <1>1, <1>2, CleanupSafe
<1>3. CASE ~Cleanup(s)
  <2>1. /\ upd' = [upd EXCEPT ![s].pc = "flow"]
        /\ UNCHANGED <<mig_state, mig_datafile_handle, inst, home, data, layout, setattrs, io,
                       acked, exposed>>
    BY Zenon, <1>1, <1>3 DEF PostFlow, files, clients
  <2>2. upd' = [upd EXCEPT ![s] = [@ EXCEPT !.pc = "flow", !.tries = upd[s].tries]]
    BY Zenon, <2>1 DEF IndInv, Rounds, Round
  <2>3. upd[s].pc \in Active \ {"getattr"} /\ "flow" \in Active \ {"getattr"}
    BY Zenon, <1>1 DEF Active
  <2>4. Writes' /\ Guarded' /\ SafeRounds' /\ SafeInsts'
    BY Zenon, <2>1, <2>2, <2>3, SameSafe
  <2> QED
    BY Zenon, <2>1, <2>4, FilesKept DEF SoloInv
<1> QED
  BY Zenon, <1>2, <1>3

\* The flow of the source ends.
LEMMA PostCompleteAckSafe ==
    ASSUME IndInv, SoloInv, NEW s \in Server, PostCompleteAck(s) PROVE SoloInv'
<1>1. upd[s].pc \in {"flow", "moved"} /\ upd[s].pc \in Active /\ UNCHANGED <<files, clients>>
  BY Zenon DEF PostCompleteAck, Active
<1>2. CASE Cleanup(s)
  BY Zenon, <1>1, <1>2, CleanupSafe
<1>3. CASE ~Cleanup(s)
  <2>1. /\ upd' = [upd EXCEPT ![s].pc = "ack"]
        /\ UNCHANGED <<mig_state, mig_datafile_handle, inst, home, data, layout, setattrs, io,
                       acked, exposed>>
    BY Zenon, <1>1, <1>3 DEF PostCompleteAck, files, clients
  <2>2. upd' = [upd EXCEPT ![s] = [@ EXCEPT !.pc = "ack", !.tries = upd[s].tries]]
    BY Zenon, <2>1 DEF IndInv, Rounds, Round
  <2>3. upd[s].pc \in Active \ {"getattr"} /\ "ack" \in Active \ {"getattr"}
    BY Zenon, <1>1 DEF Active
  <2>4. Writes' /\ Guarded' /\ SafeRounds' /\ SafeInsts'
    BY Zenon, <2>1, <2>2, <2>3, SameSafe
  <2> QED
    BY Zenon, <2>1, <2>4, FilesKept DEF SoloInv
<1> QED
  BY Zenon, <1>2, <1>3

\* The round is over, and the datafile no longer guarded.
LEMMA RemoveDatafileHandleSafe ==
    ASSUME IndInv, SoloInv, NEW s \in Server, RemoveDatafileHandle(s) PROVE SoloInv'
BY Zenon, CleanupSafe DEF RemoveDatafileHandle, Active

\* The replacement that is asked for loses no plain write.
LEMMA ReplacementSafe ==
    ASSUME IndInv, SoloInv, NEW s \in Server, upd[s].pc \in {"send", "setattr"},
           setattrs' = setattrs \cup {Replacement(s)},
           UNCHANGED <<home, data, layout, acked, exposed>>
    PROVE  AckedKept' /\ SafeSetattrs' /\ Plain \cap data[upd[s].handle] \subseteq data[upd[s].resp]
<1>1. upd[s].handle # NoHandle
  BY DEF IndInv, Rounds, RoundOk, Active, NoHandle, Handle
<1>2. RoundSafe(s, upd[s])
  BY Zenon DEF SoloInv, SafeRounds
<1>3. Replaces(Replacement(s))
  BY Zenon, <1>1, <1>2 DEF RoundSafe, Replacement, Replaces
<1>4. \A m \in setattrs' : Replaces(m)
  BY Zenon, <1>3 DEF SoloInv, SafeSetattrs
<1>5. SafeSetattrs'
  BY Zenon, <1>4 DEF SafeSetattrs, Replaces, Plain
<1> QED
  BY Zenon, <1>2, <1>5 DEF SoloInv, AckedKept, RoundSafe

\* update_metadata.
LEMMA UpdateMetadataSafe ==
    ASSUME IndInv, SoloInv, NEW s \in Server, UpdateMetadata(s) PROVE SoloInv'
<1>1. upd[s].pc = "send" /\ upd[s].pc \in Active /\ UNCHANGED <<home, meta, data, layout, clients>>
  BY Zenon DEF UpdateMetadata, Active
<1>2. CASE Cleanup(s) /\ UNCHANGED setattrs
  BY Zenon, <1>1, <1>2, CleanupSafe DEF files
<1>3. CASE ~(Cleanup(s) /\ UNCHANGED setattrs)
  <2>1. /\ upd' = [upd EXCEPT ![s].pc = "setattr", ![s].tries = 1]
        /\ setattrs' = setattrs \cup {Replacement(s)}
        /\ UNCHANGED <<mig_state, mig_datafile_handle, inst, home, data, layout, io,
                       acked, exposed>>
    BY Zenon, <1>1, <1>3 DEF UpdateMetadata, clients
  <2>2. upd' = [upd EXCEPT ![s] = [@ EXCEPT !.pc = "setattr", !.tries = 1]]
    BY Zenon, <2>1 DEF IndInv, Rounds, Round
  <2> QED
    BY ZenonT(30), <1>1, <2>1, <2>2, SameSafe, ReplacementSafe DEF SoloInv, Active
<1> QED
  BY Zenon, <1>2, <1>3

\* The setattr is sent again.
LEMMA SetattrTimesOutSafe ==
    ASSUME IndInv, SoloInv, NEW s \in Server, SetattrTimesOut(s) PROVE SoloInv'
<1>1. /\ upd[s].pc = "setattr" /\ setattrs' = setattrs \cup {Replacement(s)}
      /\ UNCHANGED <<mig_state, mig_datafile_handle, inst, home, data, layout, io,
                     acked, exposed>>
  BY Zenon DEF SetattrTimesOut, clients
<1>2. upd' = [upd EXCEPT ![s] = [@ EXCEPT !.pc = "setattr", !.tries = upd[s].tries + 1]]
  BY Zenon, <1>1 DEF SetattrTimesOut, IndInv, Rounds, Round
<1> QED
  BY Zenon, <1>1, <1>2, SameSafe, ReplacementSafe DEF SoloInv, Active

\* What the flow carries is all that the datafile holds of plain writes.
LEMMA TransferSafe == ASSUME IndInv, SoloInv, NEW s \in Server, Transfer(s) PROVE SoloInv'
<1>1. /\ upd[s].pc = "flow" /\ upd' = [upd EXCEPT ![s].pc = "moved"]
      /\ UNCHANGED <<mig_state, mig_datafile_handle, home, data, layout, setattrs, io, acked,
                     exposed>>
  BY Zenon DEF Transfer, files, clients
<1>2. RoundOk(s, upd[s]) /\ upd[s].target \in Server /\ upd[s].handle \in Handle
  BY Zenon, <1>1 DEF IndInv, Rounds, RoundOk, Active, Answered, Peers
<1> DEFINE p == upd[s].target
<1>3. PICK k \in 1..Len(inst[p]) :
        /\ inst[p][k].pc = "flow" /\ inst[p][k].src = s
        /\ inst' = [inst EXCEPT ![p][k].pc = "moved", ![p][k].sent = Carried(s)]
  BY Zenon DEF Transfer, Serves
<1> DEFINE o == inst[p][k]
           i == [o EXCEPT !.pc = "moved", !.sent = Carried(s)]
           r == [upd[s] EXCEPT !.pc = "moved"]
<1>4. inst' = [inst EXCEPT ![p][k] = i] /\ upd' = [upd EXCEPT ![s] = r]
  BY ZenonT(30), <1>1, <1>2, <1>3 DEF IndInv, Queues, Rounds
<1>5. InstOk(p, k, o) /\ InstSafe(o, upd[s])
  BY Zenon, <1>2, <1>3 DEF IndInv, Queues, SoloInv, SafeInsts
<1>6. Carried(s) \in SUBSET Writer /\ Carried(s) \subseteq acked
      /\ Plain \cap data[upd[s].handle] \subseteq Carried(s)
  <2>1. RoundSafe(s, upd[s]) /\ data[upd[s].handle] \subseteq acked /\ acked \subseteq Writer
    BY Zenon, <1>2 DEF SoloInv, SafeRounds, Writes, IndInv, Globals
  <2> QED
    BY Zenon, <1>1, <2>1 DEF Carried, RoundSafe, Active
<1>7. /\ InstOk(p, k, i) /\ i.src = s /\ i.pc = "moved" /\ i.sent = Carried(s)
  BY Zenon, <1>3, <1>5, <1>6 DEF InstOk, Instance, Early
<1>8. /\ r.pc = "moved" /\ r.handle = upd[s].handle /\ r.snap = upd[s].snap
  BY Zenon, <1>2 DEF RoundOk, Round
<1> HIDE DEF i, r
<1>9. InstSafe(i, upd[i.src])
  BY Zenon, <1>3, <1>5, <1>6, <1>7 DEF InstSafe
<1>10. RoundSafe(s, r)
  BY Zenon, <1>1, <1>8 DEF SoloInv, SafeRounds, RoundSafe, Active
<1>11. /\ Writes' /\ Guarded' /\ SafeRounds'
       /\ upd'[s] = r /\ \A t \in Server \ {s} : upd'[t] = upd[t]
  BY Zenon, <1>1, <1>4, <1>8, <1>10, RoundSafeStep
<1>12. \A t \in Server : upd'[t].handle = upd[t].handle
  BY Zenon, <1>8, <1>11
<1>13. i.src = inst[p][k].src
  BY Zenon, <1>3, <1>7
<1>14. SafeInsts'
  <2>1. p \in Server
    BY Zenon, <1>2
  <2> HIDE DEF p
  <2> QED
    BY Zenon, <1>1, <2>1, <1>4, <1>7, <1>9, <1>12, <1>13, InstChanged
<1> QED
  BY Zenon, <1>1, <1>11, <1>14, FilesKept DEF SoloInv

\* The ack is answered: the new datafile holds all plain writes of the old one.
LEMMA AnswerAckSafe == ASSUME IndInv, SoloInv, NEW s \in Server, AnswerAck(s) PROVE SoloInv'
<1>1. upd[s].pc = "ack" /\ upd[s].pc \in Active /\ UNCHANGED <<files, clients>>
  BY Zenon DEF AnswerAck, Active
<1>2. CASE Cleanup(s)
  BY Zenon, <1>1, <1>2, CleanupSafe
<1>3. CASE ~Cleanup(s)
  <2> DEFINE p == upd[s].target
  <2>1. RoundOk(s, upd[s]) /\ p \in Server /\ upd[s].resp \in Handle
    BY Zenon, <1>1 DEF IndInv, Rounds, RoundOk, Active, Answered, Peers
  <2>2. PICK k \in 1..Len(inst[p]) :
          /\ inst[p][k].pc = "recv" /\ inst[p][k].src = s /\ inst[p][k].live
          /\ inst' = [inst EXCEPT ![p][k].pc = "told"]
          /\ upd' = [upd EXCEPT ![s].pc = "send"]
          /\ UNCHANGED <<mig_state, mig_datafile_handle>>
    BY Zenon, <1>3 DEF AnswerAck, Serves
  <2> DEFINE o == inst[p][k]
             i == [o EXCEPT !.pc = "told"]
             r == [upd[s] EXCEPT !.pc = "send"]
  <2>3. inst' = [inst EXCEPT ![p][k] = i] /\ upd' = [upd EXCEPT ![s] = r]
    BY Zenon, <2>1, <2>2 DEF IndInv, Queues, Rounds
  <2>4. InstOk(p, k, o) /\ InstSafe(o, upd[s]) /\ Waits(upd[s], p, o)
    BY Zenon, <2>1, <2>2 DEF IndInv, Queues, Live, SoloInv, SafeInsts
  <2>5. /\ InstOk(p, k, i) /\ i.src = s /\ i.live = o.live /\ i.sent = o.sent
        /\ i.handle = o.handle /\ i.pc = "told"
    BY Zenon, <2>2, <2>4 DEF InstOk, Instance, Early
  <2>6. /\ r.resp = upd[s].resp /\ r.handle = upd[s].handle /\ r.pc = "send"
        /\ r.snap = upd[s].snap
    BY Zenon, <2>1 DEF RoundOk, Round
  <2> HIDE DEF i, r
  <2>7. InstSafe(i, upd[i.src]) /\ i.src = inst[p][k].src
    BY ZenonT(30), <2>2, <2>4, <2>5 DEF InstSafe
  <2>8. Plain \cap data[upd[s].handle] \subseteq data[upd[s].resp]
    BY Zenon, <2>1, <2>2, <2>4 DEF InstSafe, Waits
  <2>9. RoundSafe(s, r)
    BY Zenon, <1>1, <2>6, <2>8 DEF SoloInv, SafeRounds, RoundSafe, Active
  <2>10. UNCHANGED <<home, data, layout, setattrs, io, acked, exposed>>
    BY Zenon, <1>1 DEF files, clients
  <2>11. /\ Writes' /\ Guarded' /\ SafeRounds'
         /\ upd'[s] = r /\ \A t \in Server \ {s} : upd'[t] = upd[t]
    BY Zenon, <2>2, <2>3, <2>6, <2>9, <2>10, RoundSafeStep
  <2>12. \A t \in Server : upd'[t].handle = upd[t].handle
    BY Zenon, <2>6, <2>11
  <2>13. SafeInsts'
    <3> HIDE DEF p
    <3> QED
      BY Zenon, <2>1, <2>3, <2>5, <2>7, <2>10, <2>12, InstChanged
  <2> QED
    BY Zenon, <2>10, <2>11, <2>13, FilesKept DEF SoloInv
<1> QED
  BY Zenon, <1>2, <1>3

-----------------------------------------------------------------------------
(* The metadata server, the target and the clients. *)

\* However late it comes, replace_datafile_handle names a datafile that holds
\* the plain writes of the one it replaces.
LEMMA SetAttrSafe == ASSUME IndInv, SoloInv, NEW m \in setattrs, SetAttr(m) PROVE SoloInv'
<1>1. /\ UNCHANGED <<mig_state, mig_datafile_handle, upd, inst, home, data, io, acked, exposed>>
      /\ setattrs' \subseteq setattrs
  BY Zenon DEF SetAttr, servers, clients
<1>2. AckedKept'
  <2> SUFFICES ASSUME NEW w \in Plain PROVE w \in data[layout'[Opens[w]]]
    BY Zenon, <1>1 DEF AckedKept, Plain
  <2>1. w \in data[layout[Opens[w]]] /\ Opens[w] \in File /\ layout \in [File -> Handle]
    BY Zenon, WriterAssumption DEF SoloInv, AckedKept, Plain, IndInv, Globals
  <2>2. Plain \cap data[m.old] \subseteq data[m.new]
    BY Zenon DEF SoloInv, SafeSetattrs, Replaces
  <2>3. layout'[Opens[w]] = layout[Opens[w]]
        \/ (layout[Opens[w]] = m.old /\ layout'[Opens[w]] = m.new)
    BY Zenon, <2>1 DEF SetAttr
  <2> QED
    BY Zenon, <2>1, <2>2, <2>3
<1>3. SafeSetattrs'
  BY Zenon, <1>1 DEF SoloInv, SafeSetattrs, Replaces, Plain
<1>4. Writes' /\ Guarded' /\ SafeRounds'
  <2>1. Writes' /\ Guarded'
    BY Zenon, <1>1 DEF SoloInv, Writes, Guarded, Refuses
  <2>2. SafeRounds'
    BY Zenon, <1>1 DEF SoloInv, SafeRounds, RoundSafe, Plain
  <2> QED
    BY Zenon, <2>1, <2>2
<1>5. SafeInsts'
  BY <1>1 DEF SoloInv, SafeInsts, InstSafe, Plain
<1> QED
  BY Zenon, <1>2, <1>3, <1>4, <1>5 DEF SoloInv

\* The globals of a target do not guard a datafile of its own.
LEMMA TargetGuards ==
    ASSUME OneBalancer, IndInv, SoloInv, NEW p \in Server, NEW k \in 1..Len(inst[p]),
           \A t \in Server : upd'[t].handle = upd[t].handle,
           \A t \in Server \ {p} : mig_state'[t] = mig_state[t]
                                   /\ mig_datafile_handle'[t] = mig_datafile_handle[t]
    PROVE  Guarded'
BY Zenon, TargetIdle DEF SoloInv, Guarded, Refuses

\* The new datafile is none that anybody knows.
LEMMA CreateNewDatafileSafe ==
    ASSUME OneBalancer, IndInv, SoloInv, NEW p \in Server, NEW k \in 1..Len(inst[p]),
           CreateNewDatafile(p, k)
    PROVE  SoloInv'
<1>1. /\ k = 1 /\ inst[p][k].pc = "new" /\ InstOk(p, k, inst[p][k])
      /\ UNCHANGED <<mig_datafile_handle, upd, data, layout, setattrs, io, acked, exposed>>
      /\ mig_state' = [mig_state EXCEPT ![p] = 1]
  BY Zenon DEF CreateNewDatafile, Scheduled, IndInv, Queues, clients
<1>2. PICK pc \in {"created", "failed"} :
        /\ inst' = [inst EXCEPT ![p][k].pc = pc]
        /\ home' = home \/ \E h \in Fresh : home' = [home EXCEPT ![h] = p]
  BY Zenon DEF CreateNewDatafile
<1>3. \A h \in Handle : home[h] # Nobody => home'[h] = home[h]
  BY Zenon, <1>2 DEF IndInv, Globals, Fresh
<1> DEFINE o == inst[p][k]
           i == [o EXCEPT !.pc = pc]
<1>4. inst' = [inst EXCEPT ![p][k] = i]
  BY Zenon, <1>2 DEF IndInv, Queues
<1>5. InstOk(p, k, i) /\ i.src = o.src /\ i.pc = pc /\ i.sent = o.sent
  BY SMTT(30), <1>1 DEF InstOk, Instance, Early
<1> HIDE DEF i
<1>6. InstSafe(i, upd[i.src])
  <2>1. InstSafe(o, upd[o.src])
    BY Zenon, InstFacts
  <2> QED
    BY Zenon, <1>5, <2>1 DEF InstSafe
<1>7. SafeInsts'
  BY Zenon, <1>1, <1>4, <1>5, <1>6, InstChanged
<1>8. Guarded'
  <2>1. \A t \in Server \ {p} : mig_state'[t] = mig_state[t]
    BY Zenon, <1>1 DEF IndInv, Globals
  <2> QED
    BY Zenon, <1>1, <2>1, TargetGuards
<1>9. \A s \in Server : s # Nobody
  BY DEF Server, Nobody
<1>10. SafeRounds'
  <2> SUFFICES ASSUME NEW s \in Server PROVE RoundSafe(s, upd[s])'
    BY Zenon DEF SafeRounds
  <2>1. RoundSafe(s, upd[s]) /\ upd[s].handle \in Handle \cup {NoHandle}
    BY Zenon DEF SoloInv, SafeRounds, IndInv, Rounds, Round
  <2>2. upd[s].handle # NoHandle => home'[upd[s].handle] = s
    BY Zenon, <1>3, <1>9, <2>1 DEF RoundSafe
  <2> QED
    BY Zenon, <1>1, <2>1, <2>2 DEF RoundSafe, Plain
<1>11. SafeSetattrs'
  <2> SUFFICES ASSUME NEW m \in setattrs PROVE Replaces(m)'
    BY Zenon, <1>1 DEF SafeSetattrs
  <2>1. Replaces(m) /\ m.old \in Handle
    BY Zenon DEF SoloInv, SafeSetattrs, IndInv, Globals
  <2>2. home'[m.old] = home[m.old]
    BY Zenon, <1>3, <1>9, <2>1, ServerAssumption DEF Replaces
  <2> QED
    BY Zenon, <1>1, <2>1, <2>2 DEF Replaces, Plain
<1>12. Writes' /\ AckedKept'
  BY Zenon, <1>1 DEF SoloInv, Writes, AckedKept
<1> QED
  BY Zenon, <1>7, <1>8, <1>10, <1>11, <1>12 DEF SoloInv

\* The globals of the target change, and the answer of a source that waits.
LEMMA SendAckSafe ==
    ASSUME OneBalancer, IndInv, SoloInv, NEW p \in Server, NEW k \in 1..Len(inst[p]),
           SendAck(p, k)
    PROVE  SoloInv'
<1> DEFINE o == inst[p][k]
<1>1. /\ k = 1 /\ o.pc \in {"created", "failed"} /\ InstOk(p, k, o) /\ InstSafe(o, upd[o.src])
      /\ mig_datafile_handle' = [mig_datafile_handle EXCEPT ![p] = new_handle[p]]
      /\ UNCHANGED <<mig_state, home, data, layout, setattrs, io, acked, exposed>>
  BY Zenon DEF SendAck, Scheduled, IndInv, Queues, SoloInv, SafeInsts, clients
<1>2. o.src \in Server
  BY Zenon, <1>1 DEF InstOk, Instance
<1>3. PICK a : upd' = IF o.live THEN [upd EXCEPT ![o.src].resp = a] ELSE upd
  BY Zenon DEF SendAck
<1>4. PICK i : /\ inst' = [inst EXCEPT ![p][k] = i] /\ InstOk(p, k, i)
               /\ i.src = o.src /\ i.sent = o.sent /\ i.pc \in {"refused", "flow"}
  <2>1. CASE inst' = [inst EXCEPT ![p][k].pc = "refused"]
    <3> DEFINE i == [o EXCEPT !.pc = "refused"]
    <3>1. inst' = [inst EXCEPT ![p][k] = i]
      BY Zenon, <2>1 DEF IndInv, Queues
    <3>2. InstOk(p, k, i) /\ i.src = o.src /\ i.pc = "refused" /\ i.sent = o.sent
      BY Zenon, <1>1 DEF InstOk, Instance, Early
    <3> QED
      BY Zenon, <3>1, <3>2
  <2>2. CASE /\ o.pc = "created"
             /\ inst' = [inst EXCEPT ![p][k].pc = "flow", ![p][k].handle = new_handle[p]]
    <3> DEFINE i == [o EXCEPT !.pc = "flow", !.handle = new_handle[p]]
    <3>1. inst' = [inst EXCEPT ![p][k] = i]
      BY Zenon, <2>2 DEF IndInv, Queues
    <3>2. new_handle[p] \in Handle /\ NoHandle \notin Handle
      BY <2>2 DEF IndInv, Owned, NoHandle, Handle
    <3>3. InstOk(p, k, i) /\ i.src = o.src /\ i.pc = "flow" /\ i.sent = o.sent
      BY ZenonT(30), <1>1, <3>2 DEF InstOk, Instance, Early
    <3> QED
      BY Zenon, <3>1, <3>3
  <2> QED
    BY Zenon, <2>1, <2>2 DEF SendAck
<1>5. InstSafe(i, upd[i.src])
  BY Zenon, <1>1, <1>4 DEF InstSafe
<1>6. upd[o.src] \in Round /\ upd \in [Server -> Round]
  BY Zenon, <1>2 DEF IndInv, Rounds
<1>7. /\ \A t \in Server : t # o.src \/ ~o.live => upd'[t] = upd[t]
      /\ o.live => /\ upd'[o.src].pc = upd[o.src].pc /\ upd'[o.src].handle = upd[o.src].handle
                   /\ upd'[o.src].snap = upd[o.src].snap
  BY Zenon, <1>2, <1>3, <1>6 DEF Round
<1>8. \A t \in Server : upd'[t].handle = upd[t].handle
  BY Zenon, <1>7
<1>9. SafeInsts'
  BY Zenon, <1>1, <1>4, <1>5, <1>8, InstChanged
<1>10. Guarded'
  <2>1. \A t \in Server \ {p} : mig_datafile_handle'[t] = mig_datafile_handle[t]
    BY Zenon, <1>1 DEF IndInv, Globals
  <2> QED
    BY Zenon, <1>1, <1>8, <2>1, TargetGuards
<1>11. o.live => upd[o.src].pc \notin {"send", "setattr"}
  <2>1. o.live => Waits(upd[o.src], p, o)
    BY Zenon DEF IndInv, Live
  <2>2. o.live => upd[o.src].resp = NoHandle
    BY Zenon, <1>1, <2>1 DEF Waits
  <2>3. RoundOk(o.src, upd[o.src])
    BY Zenon, <1>2 DEF IndInv, Rounds
  <2>4. upd[o.src].pc \in Answered => upd[o.src].resp # NoHandle
    <3>1. NoHandle \notin Handle
      BY DEF NoHandle, Handle
    <3> QED
      BY Zenon, <2>3, <3>1 DEF RoundOk
  <2> QED
    BY Zenon, <2>2, <2>4 DEF Answered
<1>12. SafeRounds'
  <2> SUFFICES ASSUME NEW s \in Server PROVE RoundSafe(s, upd[s])'
    BY Zenon DEF SafeRounds
  <2>1. RoundSafe(s, upd[s])
    BY Zenon DEF SoloInv, SafeRounds
  <2> QED
    BY <1>1, <1>7, <1>11, <2>1 DEF RoundSafe, Plain
<1> QED
  BY Zenon, <1>1, <1>9, <1>10, <1>12, FilesKept DEF SoloInv, Writes

\* A request that is safe stays so.
Stays == \A p \in Server, k \in Nat, i \in Instance :
            InstOk(p, k, i) /\ InstSafe(i, upd[i.src]) /\ (i.live => upd[i.src].target = p)
              => InstSafe(i, upd[i.src])'

\* Writes are added, none of them plain and to a datafile in a migration.
LEMMA DataGrows ==
    ASSUME IndInv, SoloInv, UNCHANGED <<upd, home, setattrs>>, acked \subseteq acked',
           \A h \in Handle : data[h] \subseteq data'[h],
           \A h \in Handle : InMigration(h) => Plain' \cap data'[h] \subseteq Plain \cap data[h]
    PROVE  SafeSetattrs' /\ SafeRounds' /\ Stays
<1>1. SafeSetattrs'
  <2> SUFFICES ASSUME NEW m \in setattrs PROVE Replaces(m)'
    BY Zenon DEF SafeSetattrs
  <2>1. Replaces(m) /\ m.old \in Handle /\ m.new \in Handle /\ InMigration(m.old)
    BY Zenon DEF SoloInv, SafeSetattrs, IndInv, Globals, InMigration
  <2>2. Plain' \cap data'[m.old] \subseteq data'[m.new]
    BY Zenon, <2>1 DEF Replaces
  <2> QED
    BY Zenon, <2>1, <2>2 DEF Replaces
<1>2. \A s \in Server : upd[s].target \in Server \/ upd[s].pc \in Active =>
         upd[s].handle \in Handle /\ InMigration(upd[s].handle)
  <2> TAKE s \in Server
  <2>1. Nobody \notin Server
    BY SMTT(30) DEF Nobody, Server
  <2> QED
    BY Zenon, <2>1 DEF IndInv, Rounds, RoundOk, InMigration
<1>3. SafeRounds'
  <2> SUFFICES ASSUME NEW s \in Server PROVE RoundSafe(s, upd[s])'
    BY Zenon DEF SafeRounds
  <2>1. RoundSafe(s, upd[s])
    BY Zenon DEF SoloInv, SafeRounds
  <2>2. upd[s].pc \in Active => Plain' \cap data'[upd[s].handle] \subseteq Plain \cap data[upd[s].handle]
    BY Zenon, <1>2
  <2>3. upd[s].pc \in {"send", "setattr"} => upd[s].resp \in Handle /\ upd[s].pc \in Active
    BY Zenon DEF IndInv, Rounds, RoundOk, Answered, Active
  <2>4. upd[s].pc \in {"send", "setattr"} => data[upd[s].resp] \subseteq data'[upd[s].resp]
    BY Zenon, <2>3
  <2> QED
    BY Zenon, <2>1, <2>2, <2>3, <2>4 DEF RoundSafe
<1>4. ASSUME NEW p \in Server, NEW k \in Nat, NEW i \in Instance, InstOk(p, k, i),
             InstSafe(i, upd[i.src]), i.live => upd[i.src].target = p
      PROVE  InstSafe(i, upd[i.src])'
  <2>1. i.src \in Server
    BY Zenon DEF Instance
  <2> DEFINE h == upd[i.src].handle
  <2>2. i.live => Plain' \cap data'[h] \subseteq Plain \cap data[h]
    BY Zenon, <1>2, <1>4, <2>1
  <2>3. i.pc \in {"recv", "told", "deferred"} => data[i.handle] \subseteq data'[i.handle]
    BY Zenon, <1>4 DEF InstOk, Instance, Early
  <2> QED
    BY Zenon, <1>4, <2>2, <2>3 DEF InstSafe
<1> QED
  BY Zenon, <1>1, <1>3, <1>4 DEF Stays

\* In particular one in line, which is x at first.
LEMMA StaysAt ==
    ASSUME IndInv, SoloInv, Stays, NEW p \in Server, NEW k \in 1..Len(inst[p]),
           NEW x, x = inst[p][k]
    PROVE  InstSafe(x, upd[x.src])'
BY Zenon, InstFacts DEF Stays

\* What the target stores goes to a datafile of its own, never to one that a
\* server that balances is moving.
LEMMA SendCompletionAckSafe ==
    ASSUME OneBalancer, IndInv, SoloInv, NEW p \in Server, NEW k \in 1..Len(inst[p]),
           SendCompletionAck(p, k)
    PROVE  SoloInv'
<1> DEFINE o == inst[p][k]
           i == [o EXCEPT !.pc = "recv"]
<1>1. /\ o.pc = "moved" /\ inst' = [inst EXCEPT ![p][k].pc = "recv"]
      /\ data' = [data EXCEPT ![o.handle] = @ \cup o.sent]
      /\ UNCHANGED <<mig_state, mig_datafile_handle, upd, home, layout, setattrs, io, acked,
                     exposed>>
  BY Zenon DEF SendCompletionAck, clients
<1>2. /\ InstOk(p, k, o) /\ InstSafe(o, upd[o.src]) /\ (o.live => upd[o.src].target = p)
      /\ o \in Instance
  BY DEF IndInv, Queues, Live, Waits, SoloInv, SafeInsts, InstOk
<1>3. inst' = [inst EXCEPT ![p][k] = i]
  BY Zenon, <1>1 DEF IndInv, Queues
<1>4. /\ InstOk(p, k, i) /\ i.src = o.src /\ i.live = o.live /\ i.handle = o.handle
      /\ i.pc = "recv" /\ i.sent = o.sent /\ o.handle \in Handle /\ home[o.handle] = p
  BY Zenon, <1>1, <1>2 DEF InstOk, Instance, Early, IndInv, Owned
<1> HIDE DEF i
<1>5. p \notin LBEnabled
  BY Zenon, TargetIdle
<1>6. /\ \A h \in Handle \ {o.handle} : data'[h] = data[h]
      /\ data'[o.handle] = data[o.handle] \cup o.sent
  BY Zenon, <1>1, <1>4 DEF IndInv, Globals
<1>7. \A h \in Handle : InMigration(h) => h # o.handle
  <2>1. \A m \in setattrs : m.old # o.handle
    BY Zenon, <1>4, <1>5 DEF SoloInv, SafeSetattrs, Replaces
  <2>2. \A s \in Server : upd[s].handle # o.handle
    <3> SUFFICES ASSUME NEW s \in Server, upd[s].handle = o.handle PROVE FALSE
      BY Zenon
    <3>1. upd[s].handle # NoHandle
      BY SMTT(30), <1>4 DEF NoHandle, Handle
    <3>2. s \in LBEnabled /\ home[upd[s].handle] = s
      BY Zenon, <3>1 DEF SoloInv, SafeRounds, RoundSafe, IndInv, Rounds, RoundOk, Active
    <3> QED
      BY Zenon, <1>4, <1>5, <3>2
  <2> QED
    BY Zenon, <2>1, <2>2 DEF InMigration
<1>8. SafeSetattrs' /\ SafeRounds' /\ Stays
  <2>1. \A h \in Handle : data[h] \subseteq data'[h]
    BY Zenon, <1>6
  <2>2. \A h \in Handle : InMigration(h) => Plain' \cap data'[h] \subseteq Plain \cap data[h]
    BY Zenon, <1>1, <1>6, <1>7 DEF Plain
  <2> QED
    BY Zenon, <1>1, <2>1, <2>2, DataGrows
<1>9. \A x \in Instance : x = i => InstSafe(x, upd[x.src])'
  <2> SUFFICES ASSUME NEW x \in Instance, x = i, NEW y \in Instance, y = o
               PROVE  InstSafe(x, upd[x.src])'
    BY Zenon, <1>2
  <2>1. InstSafe(y, upd[y.src])'
    BY Zenon, <1>8, StaysAt
  <2>2. /\ x.src = y.src /\ x.live = y.live /\ x.handle = y.handle /\ x.sent = y.sent
        /\ x.pc = "recv" /\ y.pc = "moved" /\ y.sent \subseteq data'[y.handle]
    BY Zenon, <1>1, <1>4, <1>6
  <2> QED
    BY ZenonT(30), <2>1, <2>2 DEF InstSafe
<1>10. SafeInsts'
  <2>1. /\ \A t \in Server : Len(inst'[t]) = Len(inst[t])
        /\ inst'[p][k] = i
        /\ \A t \in Server : \A j \in 1..Len(inst[t]) :
             t # p \/ j # k => inst'[t][j] = inst[t][j]
    BY ZenonT(30), <1>3, <1>4, InstSteps DEF IndInv
  <2>2. ASSUME NEW t \in Server, NEW j \in 1..Len(inst[t])
        PROVE  InstSafe(inst[t][j], upd[inst[t][j].src])'
    <3>1. CASE t = p /\ j = k
      <4>1. i \in Instance /\ inst'[t][j] = i
        BY Zenon, <1>4, <2>1, <3>1 DEF InstOk
      <4> QED
        BY Zenon, <1>9, <4>1 DEF InstSafe
    <3>2. CASE t # p \/ j # k
      <4>1. PICK x : x = inst[t][j]
        BY Zenon
      <4>2. InstSafe(x, upd[x.src])' /\ inst'[t][j] = x
        BY Zenon, <1>8, <2>1, <3>2, <4>1, StaysAt
      <4> QED
        BY Zenon, <4>2 DEF InstSafe
    <3> QED
      BY Zenon, <3>1, <3>2
  <2> QED
    BY Zenon, <2>1, <2>2 DEF SafeInsts
<1>11. Writes'
  <2>1. o.sent \subseteq acked
    BY Zenon, <1>2 DEF InstSafe
  <2> QED
    BY Zenon, <1>1, <1>6, <2>1 DEF SoloInv, Writes
<1>12. AckedKept'
  <2>1. \A w \in Plain : Opens[w] \in File /\ layout[Opens[w]] \in Handle
    BY Zenon, WriterAssumption DEF IndInv, Globals, Plain
  <2> QED
    BY Zenon, <1>1, <1>6, <2>1 DEF SoloInv, AckedKept, Plain
<1>13. Guarded'
  BY Zenon, <1>1 DEF SoloInv, Guarded, Refuses
<1> QED
  BY Zenon, <1>8, <1>10, <1>11, <1>12, <1>13 DEF SoloInv

\* The target defers, with the data stored.
LEMMA DecodeRecvMsgSafe ==
    ASSUME IndInv, SoloInv, NEW p \in Server, NEW k \in 1..Len(inst[p]), DecodeRecvMsg(p, k)
    PROVE  SoloInv'
<1> DEFINE o == inst[p][k]
           i == [o EXCEPT !.pc = "deferred"]
<1>1. /\ o.pc = "told" /\ inst' = [inst EXCEPT ![p][k].pc = "deferred"]
      /\ UNCHANGED <<mig_state, mig_datafile_handle, upd, home, data, layout, setattrs, io, acked,
                     exposed>>
  BY Zenon DEF DecodeRecvMsg, files, clients
<1>2. InstOk(p, k, o) /\ InstSafe(o, upd[o.src])
  BY Zenon DEF IndInv, Queues, SoloInv, SafeInsts
<1>3. inst' = [inst EXCEPT ![p][k] = i]
  BY Zenon, <1>1 DEF IndInv, Queues
<1>4. /\ InstOk(p, k, i) /\ i.src = o.src /\ i.live = o.live /\ i.handle = o.handle
      /\ i.pc = "deferred" /\ i.sent = o.sent
  BY Zenon, <1>1, <1>2 DEF InstOk, Instance, Early
<1> HIDE DEF i
<1>5. InstSafe(i, upd[i.src])
  BY Zenon, <1>1, <1>2, <1>4 DEF InstSafe
<1>6. SafeInsts'
  BY Zenon, <1>1, <1>3, <1>4, <1>5, InstChanged
<1>7. SafeRounds' /\ Guarded' /\ Writes'
  BY Zenon, <1>1 DEF SoloInv, SafeRounds, RoundSafe, Plain, Guarded, Refuses, Writes
<1> QED
  BY Zenon, <1>1, <1>6, <1>7, FilesKept DEF SoloInv

\* The first in line leaves: the target guarded nothing of its own.
LEMMA IoReleaseSafe ==
    ASSUME OneBalancer, IndInv, SoloInv, NEW p \in Server, NEW k \in 1..Len(inst[p]),
           IoRelease(p, k)
    PROVE  SoloInv'
<1> DEFINE q == SubSeq(inst[p], 1, k - 1) \o SubSeq(inst[p], k + 1, Len(inst[p]))
<1>1. /\ k = 1 /\ inst' = [inst EXCEPT ![p] = q] /\ mig_state' = [mig_state EXCEPT ![p] = 0]
      /\ UNCHANGED <<mig_datafile_handle, upd, home, data, layout, setattrs, io, acked, exposed>>
  BY Zenon DEF IoRelease, Leave, Scheduled, clients, files
<1>2. inst[p] \in Seq(Instance)
  BY Zenon DEF IndInv, Queues
<1>3. Len(q) = Len(inst[p]) - 1 /\ \A j \in 1..Len(q) : q[j] = inst[p][j + 1]
  BY <1>1, <1>2
<1> HIDE DEF q
<1>4. inst'[p] = q /\ \A t \in Server \ {p} : inst'[t] = inst[t]
  BY Zenon, <1>1 DEF IndInv, Queues
<1>5. SafeInsts'
  <2> SUFFICES ASSUME NEW t \in Server, NEW j \in 1..Len(inst'[t])
               PROVE  InstSafe(inst[t][j], upd[inst[t][j].src])'
    BY Zenon DEF SafeInsts
  <2>1. \E l \in 1..Len(inst[t]) : inst'[t][j] = inst[t][l]
    <3>1. CASE t = p
      <4>1. j + 1 \in 1..Len(inst[t]) /\ inst'[t][j] = inst[t][j + 1]
        BY <1>2, <1>3, <1>4, <3>1
      <4> QED
        BY Zenon, <4>1
    <3>2. CASE t # p
      BY Zenon, <1>4, <3>2
    <3> QED
      BY Zenon, <3>1, <3>2
  <2>2. InstSafe(inst'[t][j], upd[inst'[t][j].src])
    BY Zenon, <2>1 DEF SoloInv, SafeInsts
  <2> QED
    BY Zenon, <1>1, <2>2 DEF InstSafe, Plain
<1>6. Guarded'
  <2>1. \A t \in Server \ {p} : mig_state'[t] = mig_state[t]
    BY Zenon, <1>1 DEF IndInv, Globals
  <2> QED
    BY Zenon, <1>1, <2>1, TargetGuards
<1>7. SafeRounds' /\ Writes'
  BY Zenon, <1>1 DEF SoloInv, SafeRounds, RoundSafe, Plain, Writes
<1> QED
  BY Zenon, <1>1, <1>5, <1>6, <1>7, FilesKept DEF SoloInv

\* A client asks for the layout, or passes the test or not: nothing is written.
LEMMA AskSafe ==
    ASSUME IndInv, SoloInv, NEW w \in Writer, Open(w) \/ MigrationTest(w) PROVE SoloInv'
<1>1. UNCHANGED <<mig_state, mig_datafile_handle, upd, inst, home, data, layout, setattrs, acked,
                  exposed>>
  BY Zenon DEF Open, MigrationTest, servers, files
<1>2. /\ io[w].pc # "done" /\ io'[w].pc # "done"
      /\ \A v \in Writer \ {w} : io'[v] = io[v]
  BY DEF Open, MigrationTest, IndInv, Globals
<1>3. Writes'
  BY Zenon, <1>1, <1>2 DEF SoloInv, Writes
<1>4. SafeRounds' /\ Guarded'
  BY Zenon, <1>1 DEF SoloInv, SafeRounds, RoundSafe, Plain, Guarded, Refuses
<1>5. SafeInsts'
  BY Zenon, <1>1 DEF SoloInv, SafeInsts, InstSafe, Plain
<1> QED
  BY Zenon, <1>1, <1>3, <1>4, <1>5, FilesKept DEF SoloInv

\* A write that meets a migration is not plain, and one that does not is in the
\* datafile that the metafile names.
LEMMA WriteSafe ==
    ASSUME IndInv, SoloInv, NEW w \in Writer, io[w].pc \in {"sent", "flow"}, Write(w)
    PROVE  SoloInv'
<1> DEFINE g == io[w].handle
<1>1. /\ UNCHANGED <<mig_state, mig_datafile_handle, upd, inst, home, layout, setattrs>>
      /\ io' = [io EXCEPT ![w].pc = "done"] /\ data' = [data EXCEPT ![g] = @ \cup {w}]
      /\ acked' = acked \cup {w}
  BY Zenon DEF Write, servers
<1>2. g \in Handle /\ w \notin acked
  BY Zenon DEF IndInv, ClientsTold, Globals, SoloInv, Writes
<1>3. data'[g] = data[g] \cup {w} /\ \A h \in Handle \ {g} : data'[h] = data[h]
  BY Zenon, <1>1, <1>2 DEF IndInv, Globals
<1>4. w \notin Plain /\ exposed \subseteq acked
  BY Zenon, <1>2 DEF Plain, IndInv, Globals
<1>5. \/ Plain' = Plain
      \/ Plain' = Plain \cup {w} /\ ~InMigration(g) /\ layout[Opens[w]] = g
  <2>1. CASE InMigration(g) \/ layout[Opens[w]] # g
    BY Zenon, <1>1, <1>2, <2>1 DEF Write, Plain
  <2>2. CASE ~InMigration(g) /\ layout[Opens[w]] = g
    BY Zenon, <1>1, <1>2, <1>4, <2>2 DEF Write, Plain
  <2> QED
    BY Zenon, <2>1, <2>2
<1>6. Writes'
  <2>1. io'[w].pc = "done" /\ \A v \in Writer \ {w} : io'[v] = io[v]
    BY Zenon, <1>1 DEF IndInv, Globals
  <2>2. \A h \in Handle : data'[h] \subseteq acked'
    BY Zenon, <1>1, <1>3 DEF SoloInv, Writes
  <2> QED
    BY Zenon, <1>1, <2>1, <2>2 DEF SoloInv, Writes
<1>7. SafeSetattrs' /\ SafeRounds' /\ Stays
  <2>1. \A h \in Handle : data[h] \subseteq data'[h]
    BY Zenon, <1>3
  <2>2. \A h \in Handle : w \notin data[h]
    BY Zenon, <1>2 DEF SoloInv, Writes
  <2>3. \A h \in Handle : InMigration(h) => Plain' \cap data'[h] \subseteq Plain \cap data[h]
    BY Zenon, <1>3, <1>4, <1>5, <2>2
  <2> QED
    BY Zenon, <1>1, <2>1, <2>3, DataGrows
<1>8. SafeInsts'
  <2> SUFFICES ASSUME NEW t \in Server, NEW j \in 1..Len(inst[t])
               PROVE  InstSafe(inst[t][j], upd[inst[t][j].src])'
    BY Zenon, <1>1 DEF SafeInsts
  <2>1. PICK x : x = inst[t][j]
    BY Zenon
  <2>2. InstSafe(x, upd[x.src])' /\ inst'[t][j] = x
    BY Zenon, <1>1, <1>7, <2>1, StaysAt
  <2> QED
    BY Zenon, <2>2 DEF InstSafe
<1>9. AckedKept'
  <2>1. \A v \in Plain' : Opens[v] \in File /\ layout[Opens[v]] \in Handle
    BY <1>5, WriterAssumption DEF IndInv, Globals, Plain
  <2>2. \A v \in Plain : v \in data[layout[Opens[v]]]
    BY Zenon DEF SoloInv, AckedKept, Plain
  <2>3. \A v \in Plain' : v \in data'[layout[Opens[v]]]
    BY <1>3, <1>5, <2>1, <2>2
  <2> QED
    BY Zenon, <1>1, <2>3 DEF AckedKept, Plain
<1>10. Guarded'
  BY Zenon, <1>1 DEF SoloInv, Guarded, Refuses
<1> QED
  BY Zenon, <1>6, <1>7, <1>8, <1>9, <1>10 DEF SoloInv

\* The invariant holds at the start.
LEMMA InitSafe == Init => SoloInv
<1> SUFFICES ASSUME Init PROVE SoloInv
  BY Zenon
<1>1. Writes /\ AckedKept /\ SafeSetattrs
  BY Zenon DEF Init, Writes, AckedKept, SafeSetattrs
<1>3. SafeInsts
  <2>1. \A p \in Server : Len(inst[p]) = 0
    BY Zenon DEF Init
  <2> QED
    BY <2>1 DEF SafeInsts
<1>2. SafeRounds /\ Guarded
  BY Zenon, IdleSafe DEF Init, SafeRounds, Guarded
<1> QED
  BY Zenon, <1>1, <1>2, <1>3 DEF SoloInv

\* Every step keeps it, if one server balances.
LEMMA NextSafe ==
    ASSUME OneBalancer, IndInv, SoloInv, Next
    PROVE  SoloInv'
<1>1. ASSUME NEW s \in Server, Period(s) \/ PollFails(s) \/ MigDecide(s) PROVE SoloInv'
  BY Zenon, <1>1, PeriodSafe, PollFailsSafe, MigDecideSafe
<1>2. ASSUME NEW s \in Server, Source(s) PROVE SoloInv'
  BY Zenon, <1>1, <1>2, SendMigrationRequestSafe, RequestTimesOutSafe, PostFlowSafe,
     TransferSafe, PostCompleteAckSafe, AnswerAckSafe, UpdateMetadataSafe, SetattrTimesOutSafe,
     RemoveDatafileHandleSafe DEF Source
<1>3. ASSUME NEW p \in Server, Target(p) PROVE SoloInv'
  BY Zenon, <1>3, CreateNewDatafileSafe, SendAckSafe, SendCompletionAckSafe, DecodeRecvMsgSafe,
     IoReleaseSafe DEF Target
<1>4. ASSUME NEW p \in Server, NEW s \in Server, PerfMon(p, s) PROVE SoloInv'
  BY Zenon, <1>4, PerfMonSafe
<1>5. ASSUME NEW m \in setattrs, SetAttr(m) PROVE SoloInv'
  BY Zenon, <1>5, SetAttrSafe
<1>6. ASSUME NEW w \in Writer, Client(w) PROVE SoloInv'
  BY Zenon, <1>6, AskSafe, WriteSafe DEF Client, StartFlow, SmallIo
<1> QED
  BY Zenon, <1>1, <1>2, <1>3, <1>4, <1>5, <1>6 DEF Next

\* So does a step of nothing.
LEMMA StutterSafe == ASSUME SoloInv, UNCHANGED vars PROVE SoloInv'
<1> USE DEF SoloInv, vars, servers, files, clients
<1>1. Writes' /\ Guarded' /\ SafeRounds'
  BY Zenon DEF Writes, Guarded, Refuses, SafeRounds, RoundSafe, Plain
<1>2. SafeInsts'
  BY Zenon DEF SafeInsts, InstSafe, Plain
<1> QED
  BY Zenon, <1>1, <1>2, FilesKept

-----------------------------------------------------------------------------
INSTANCE WellFoundedInduction

\* A set of loads, or of servers, that is not empty has a least one.
LEMMA Least == LeastLaw
<1> SUFFICES ASSUME NEW S \in SUBSET Nat, S # {} PROVE \E x \in S : \A y \in S : x <= y
  BY Zenon DEF LeastLaw
<1>1. PICK x \in S : \A y \in S : <<y, x>> \notin OpToRel(<, Nat)
  BY Zenon, WFMin, NatLessThanWellFounded
<1>2. ASSUME NEW y \in S, y < x PROVE FALSE
  <2>1. <<y, x>> \in Nat \X Nat /\ <<y, x>>[1] = y /\ <<y, x>>[2] = x
    BY Zenon
  <2>2. <<y, x>> \in OpToRel(<, Nat)
    BY <1>2, <2>1, Zenon DEF OpToRel
  <2> QED
    BY <1>1, <2>2, Zenon
<1> QED
  BY <1>2

\* The invariant of sources and targets holds in every state, whoever balances.
THEOREM Inductive == Spec => []IndInv
<1>1. IndInv /\ [Next]_vars => IndInv'
  BY Zenon, NextInd, StutterInd, Least
<1> QED
  BY <1>1, InitInd, PTL DEF Spec

\* Every variable keeps its type.
THEOREM TypesHold == Spec => []TypeOK
BY Inductive, Types, PTL

\* No two migrations are received into one datafile, and io_send_ack tells a
\* source of the datafile its own request is received into, for any number of
\* servers that balance, of requests in line and of attempts.
THEOREM MigrationsApart == Spec => []CopiesApart
BY Inductive, Apart, PTL

\* mig_decide_fun never chooses a server that said it takes part in a migration.
THEOREM NoBusyTarget == Spec => []BusyNotCandidate
BY Inductive, NotBusy, PTL

\* With one server that balances, the invariant of what the datafiles hold.
THEOREM SoloInductive == ASSUME OneBalancer PROVE Spec => []SoloInv
<1>1. IndInv /\ SoloInv /\ [Next]_vars => SoloInv'
  BY Zenon, OneBalancer, NextSafe, StutterSafe
<1> QED
  BY <1>1, InitSafe, Inductive, PTL DEF Spec

\* With one server that balances, migration_test turns away whoever comes for a
\* datafile from mig_decide_fun to the end of its migration.
THEOREM MigrationGuarded == ASSUME OneBalancer PROVE Spec => []MigratedFileGuarded
<1>1. IndInv /\ SoloInv => MigratedFileGuarded
  BY Zenon, Types DEF SoloInv, Guarded, MigratedFileGuarded
<1> QED
  BY <1>1, OneBalancer, Inductive, SoloInductive, PTL

\* With one server that balances, an acknowledged write that met no migration is
\* in the datafile that replace_datafile_handle has left in the metafile.
THEOREM WritesKept == ASSUME OneBalancer PROVE Spec => []AckedKept
<1>1. SoloInv => AckedKept
  BY Zenon DEF SoloInv
<1> QED
  BY <1>1, OneBalancer, SoloInductive, PTL
=============================================================================
