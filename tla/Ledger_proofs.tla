--------------------------- MODULE Ledger_proofs ---------------------------
(* For every set of handles, of ranges and of threads: a handle is in one   *)
(* place (Apart), and none comes back before its time (SitsOut).  The       *)
(* result of a del in the roll-back of a create_list is not looked at in    *)
(* the code, so the proofs assume that it works.                            *)
EXTENDS Ledger, FiniteSetTheorems, TLAPS

\* What Apart needs to be inductive: the objects of an unfinished create_list
\* are in the database and belong to one thread; a thread has a handle in hand
\* from the allocation to the store, and from the del to the free; the
\* counter left does not run below one.
IndInv ==
    /\ Apart
    /\ \A t \in Thread :
         /\ th[t].out \subseteq stored
         /\ th[t].h = None <=> th[t].pc \in {"idle", "alloc", "undo"}
         /\ th[t].pc \in {"alloc", "store"} => th[t].left >= 1
    /\ \A t, u \in Thread : t # u => th[t].out \cap th[u].out = {}

\* The extents count their handles.
LEMMA TotalNat == Total \in Nat
BY Zenon, FS_CardinalityType, LedgerAssumption DEF Total

Op == [pc : {"idle", "alloc", "store", "undo", "keyval", "free"},
       kind : {"none", "create", "list", "remove"}, range : SUBSET Handle,
       h : Handle \cup {None}, out : SUBSET Handle, left : Nat]

\* A thread between two operations.
LEMMA IdleType == Idle \in Op
BY Zenon DEF Idle, Op

\* At the start a handle is free or in the database.
LEMMA InitInd == Init => IndInv
<1> SUFFICES ASSUME Init PROVE IndInv
  BY Zenon
<1>1. TypeOK
  BY Zenon, IdleType, TotalNat, LedgerAssumption DEF Init, TypeOK, List, NewNum, NewTime, Op
<1>2. \A t \in Thread : th[t] = Idle
  BY Zenon DEF Init
<1>3. \A t \in Thread : th[t].h = None /\ th[t].out = {} /\ th[t].pc = "idle"
  BY <1>2 DEF Idle
<1>4. Apart
  BY Zenon, <1>1, <1>3 DEF Apart, InHand, Init
<1> QED
  BY Zenon, <1>3, <1>4 DEF IndInv

\* A restart builds the free list from the database.
LEMMA RestartInd == ASSUME IndInv, Restart PROVE IndInv'
<1>1. TypeOK'
  BY IdleType, TotalNat, LedgerAssumption DEF IndInv, Apart, Restart, TypeOK, List, NewNum, NewTime, Op
<1>2. \A t \in Thread : th'[t] = Idle
  BY Zenon DEF Restart
<1>3. \A t \in Thread : th'[t].h = None /\ th'[t].out = {} /\ th'[t].pc = "idle"
  BY <1>2 DEF Idle
<1>4. Apart'
  BY Zenon, <1>1, <1>3 DEF Apart, InHand, Restart
<1> QED
  BY Zenon, <1>3, <1>4 DEF IndInv

\* A step of thread t that keeps the lists apart: what is left to show is
\* about what t has afterwards.
Lists == free \cup recent \cup overflow
ListsApart ==
    /\ free \cap recent = {} /\ free \cap overflow = {} /\ recent \cap overflow = {}
    /\ stored \cap Lists = {}

\* A thread that moves handles between the lists, its hands and the database.
LEMMA ThreadStep ==
    ASSUME IndInv, NEW t \in Thread, NEW s \in Op, Becomes(t, s), TypeOK', ListsApart',
           s.h # None => s.h \notin stored' \cup Lists',
           \A u \in Thread \ {t} : th[u].h # None =>
               th[u].h # s.h /\ th[u].h \notin stored' \cup Lists',
           \A u \in Thread \ {t} : th[u].out \subseteq stored' /\ th[u].out \cap s.out = {},
           s.out \subseteq stored',
           s.h = None <=> s.pc \in {"idle", "alloc", "undo"},
           s.pc \in {"alloc", "store"} => s.left >= 1
    PROVE  IndInv'
<1>1. th'[t] = s /\ \A u \in Thread \ {t} : th'[u] = th[u]
  BY DEF Becomes, IndInv, Apart, TypeOK
<1>2. \A u \in Thread : InHand(u)' \cap (stored \cup Lists)' = {}
  BY <1>1 DEF InHand
<1>3. \A u, v \in Thread : u # v => InHand(u)' \cap InHand(v)' = {}
  <2> SUFFICES ASSUME NEW u \in Thread, NEW v \in Thread, u # v
               PROVE  InHand(u)' \cap InHand(v)' = {}
    BY Zenon
  <2>1. CASE u # t /\ v # t
    BY <1>1, <2>1 DEF InHand, IndInv, Apart
  <2>2. CASE u = t \/ v = t
    BY <1>1, <2>2 DEF InHand
  <2> QED
    BY Zenon, <2>1, <2>2
<1>4. Apart'
  BY Zenon, <1>2, <1>3 DEF Apart, ListsApart, Lists
<1>5. \A u \in Thread :
         /\ th'[u].out \subseteq stored'
         /\ th'[u].h = None <=> th'[u].pc \in {"idle", "alloc", "undo"}
         /\ th'[u].pc \in {"alloc", "store"} => th'[u].left >= 1
  BY Zenon, <1>1 DEF IndInv
<1>6. \A u, v \in Thread : u # v => th'[u].out \cap th'[v].out = {}
  <2> SUFFICES ASSUME NEW u \in Thread, NEW v \in Thread, u # v
               PROVE  th'[u].out \cap th'[v].out = {}
    BY Zenon
  <2>1. CASE u # t /\ v # t
    BY <1>1, <2>1 DEF IndInv
  <2>2. CASE u = t \/ v = t
    BY Zenon, <1>1, <2>2
  <2> QED
    BY Zenon, <2>1, <2>2
<1> QED
  BY Zenon, <1>4, <1>5, <1>6 DEF IndInv

\* The steps that touch neither the lists nor the database.
LEMMA CreateInd == ASSUME IndInv, NEW t \in Thread, Create(t) PROVE IndInv'
<1>1. PICK kind \in {"create", "list"}, r \in Extents, n \in 1..MaxCount :
        Becomes(t, [Idle EXCEPT !.pc = "alloc", !.kind = kind, !.range = r, !.left = n])
  BY Zenon DEF Create
<1> DEFINE s == [Idle EXCEPT !.pc = "alloc", !.kind = kind, !.range = r, !.left = n]
<1>s. Idle \in Op /\ Idle.h = None /\ Idle.out = {}
  BY Zenon, IdleType DEF Idle
<1>n. n \in Nat /\ n >= 1 /\ r \subseteq Handle
  BY LedgerAssumption
<1>2. s \in Op /\ s.h = None /\ s.out = {} /\ s.pc = "alloc" /\ s.left >= 1
  BY Zenon, <1>s, <1>n DEF Op
<1>b. Becomes(t, s)
  BY Zenon, <1>1
<1>3. TypeOK'
  BY Zenon, <1>1, <1>2 DEF Create, Becomes, ledger, IndInv, Apart, TypeOK, Op
<1>4. ListsApart' /\ stored' = stored /\ Lists' = Lists
  BY Zenon DEF Create, ledger, IndInv, Apart, ListsApart, Lists
<1>5. \A u \in Thread : th[u].h # None => th[u].h \notin stored \cup Lists
  BY Zenon DEF IndInv, Apart, InHand, Lists
<1> HIDE DEF s
<1>6. \A u \in Thread \ {t} : th[u].h # None =>
        th[u].h # s.h /\ th[u].h \notin stored' \cup Lists'
  BY Zenon, <1>2, <1>4, <1>5
<1>7. \A u \in Thread \ {t} : th[u].out \subseteq stored' /\ th[u].out \cap s.out = {}
  BY Zenon, <1>2, <1>4 DEF IndInv
<1> QED
  BY Zenon, <1>b, <1>2, <1>3, <1>4, <1>6, <1>7, ThreadStep

\* A thread that stops with what it has in hand.
LEMMA StopInd ==
    ASSUME IndInv, NEW t \in Thread, Becomes(t, Idle), UNCHANGED <<ledger, stored>>,
           clock' \in Nat, faults' \in Nat
    PROVE  IndInv'
<1>1. TypeOK'
  BY Zenon, IdleType DEF Becomes, ledger, IndInv, Apart, TypeOK, Op
<1>2. ListsApart' /\ stored' = stored /\ Lists' = Lists
  BY Zenon DEF ledger, IndInv, Apart, ListsApart, Lists
<1>3. Idle.h = None /\ Idle.out = {} /\ Idle.pc = "idle"
  BY Zenon DEF Idle
<1> QED
  BY <1>1, <1>2, <1>3, IdleType, ThreadStep DEF IndInv, Apart, InHand, Lists

\* A handle leaves the free list for the hands of the thread.
LEMMA AllocInd == ASSUME IndInv, NEW t \in Thread, Alloc(t) PROVE IndInv'
<1>1. PICK h \in free \cap th[t].range :
        Taken(h) /\ Becomes(t, [th[t] EXCEPT !.pc = "store", !.h = h])
  BY Zenon DEF Alloc
<1> DEFINE s == [th[t] EXCEPT !.pc = "store", !.h = h]
<1>2. th[t] \in Op /\ h \in Handle /\ h # None
  BY LedgerAssumption DEF IndInv, Apart, TypeOK, Op
<1>3. s \in Op /\ s.h = h /\ s.out = th[t].out /\ s.pc = "store" /\ s.left = th[t].left
  BY Zenon, <1>2 DEF Op
<1>4. TypeOK'
  BY Zenon, <1>1, <1>3 DEF Alloc, Taken, Becomes, IndInv, Apart, TypeOK, Op
<1>5. ListsApart' /\ stored' = stored /\ Lists' = Lists \ {h}
  BY <1>1 DEF Alloc, Taken, IndInv, Apart, ListsApart, Lists
<1>6. \A u \in Thread : th[u].h # None => th[u].h # h /\ th[u].h \notin stored \cup Lists
  BY Zenon, <1>1 DEF IndInv, Apart, InHand, Lists
<1>7. h \notin stored
  BY Zenon, <1>1 DEF IndInv, Apart
<1>8. th[t].left >= 1
  BY Zenon DEF Alloc, IndInv
<1>9. \A u \in Thread \ {t} : th[u].out \subseteq stored /\ th[u].out \cap s.out = {}
  BY Zenon, <1>3 DEF IndInv
<1>10. s.out \subseteq stored
  BY Zenon, <1>3 DEF IndInv
<1>b. Becomes(t, s)
  BY Zenon, <1>1
<1> HIDE DEF s
<1> QED
  BY Zenon, <1>b, <1>2, <1>3, <1>4, <1>5, <1>6, <1>7, <1>8, <1>9, <1>10, ThreadStep

\* A stored handle is in the database and in no hand that could free it.
LEMMA StoreInd == ASSUME IndInv, NEW t \in Thread, StoreHandle(t) PROVE IndInv'
<1> DEFINE h == th[t].h
<1>1. th[t] \in Op /\ h \in Handle /\ h # None /\ th[t].left >= 1
  BY Zenon DEF StoreHandle, IndInv, Apart, TypeOK, Op
<1>2. faults' \in Nat
  BY DEF StoreHandle, Counted, IndInv, Apart, TypeOK
<1>3. h \notin stored \cup Lists /\ \A u \in Thread \ {t} : th[u].h # None => th[u].h # h
  BY <1>1 DEF IndInv, Apart, InHand, Lists
<1>4. CASE stored' = stored \cup {h} /\ Becomes(t, StoredOne(th[t]))
  <2> DEFINE s == StoredOne(th[t])
  <2>1. s \in Op /\ s.h = None /\ s.out \subseteq th[t].out \cup {h}
        /\ s.pc \in {"idle", "alloc"} /\ (s.pc = "alloc" => s.left >= 1)
    <3>1. CASE th[t].left = 1
      BY Zenon, <3>1, IdleType DEF StoredOne, Idle
    <3>2. CASE th[t].left # 1
      <4>1. s = [th[t] EXCEPT !.pc = "alloc", !.h = None, !.out = th[t].out \cup {h},
                             !.left = th[t].left - 1]
        BY Zenon, <3>2 DEF StoredOne
      <4>2. th[t].left - 1 \in Nat /\ th[t].left - 1 >= 1
        BY <1>1, <3>2 DEF Op
      <4>o. th[t].out \cup {h} \in SUBSET Handle
        BY Zenon, <1>1 DEF Op
      <4>3. s \in Op
        BY Zenon, <1>1, <4>1, <4>2, <4>o DEF Op
      <4>4. s.h = None /\ s.out = th[t].out \cup {h} /\ s.pc = "alloc" /\ s.left = th[t].left - 1
        BY Zenon, <1>1, <4>1 DEF Op
      <4> QED
        BY Zenon, <4>2, <4>3, <4>4
    <3> QED
      BY Zenon, <3>1, <3>2
  <2>2. TypeOK'
    BY <1>1, <1>2, <1>4, <2>1 DEF StoreHandle, ledger, Becomes, IndInv, Apart, TypeOK, Op
  <2>3. ListsApart' /\ Lists' = Lists
    BY <1>3, <1>4 DEF StoreHandle, ledger, IndInv, Apart, ListsApart, Lists
  <2>4. \A u \in Thread : th[u].h # None => th[u].h \notin stored \cup Lists
    BY Zenon DEF IndInv, Apart, InHand, Lists
  <2>5. \A u \in Thread \ {t} : th[u].out \subseteq stored' /\ th[u].out \cap s.out = {}
    BY <1>3, <1>4, <2>1 DEF IndInv
  <2>6. s.out \subseteq stored'
    BY Zenon, <1>4, <2>1 DEF IndInv
  <2> HIDE DEF s
  <2> QED
    BY Zenon, <1>3, <1>4, <2>1, <2>2, <2>3, <2>4, <2>5, <2>6, ThreadStep DEF s
<1>5. CASE stored' = stored /\ Becomes(t, NotStored(th[t]))
  <2> DEFINE s == NotStored(th[t])
  <2>1. s \in Op /\ s.out \subseteq th[t].out /\ s.pc \in {"idle", "undo", "free"}
        /\ s.h = IF s.pc = "free" THEN h ELSE None
    <3>1. CASE s = Idle
      BY <3>1, IdleType DEF Idle
    <3>2. CASE s = [th[t] EXCEPT !.pc = "free"]
      BY Zenon, <1>1, <3>2 DEF Op
    <3>3. CASE s = [th[t] EXCEPT !.pc = "undo", !.h = None]
      BY Zenon, <1>1, <3>3 DEF Op
    <3> QED
      BY <3>1, <3>2, <3>3 DEF NotStored
  <2>2. TypeOK'
    BY Zenon, <1>2, <1>5, <2>1 DEF StoreHandle, ledger, Becomes, IndInv, Apart, TypeOK, Op
  <2>3. ListsApart' /\ Lists' = Lists
    BY Zenon, <1>5 DEF StoreHandle, ledger, IndInv, Apart, ListsApart, Lists
  <2>4. \A u \in Thread : th[u].h # None => th[u].h \notin stored \cup Lists
    BY Zenon DEF IndInv, Apart, InHand, Lists
  <2>5. \A u \in Thread \ {t} : th[u].out \subseteq stored' /\ th[u].out \cap s.out = {}
    BY Zenon, <1>5, <2>1 DEF IndInv
  <2>6. s.out \subseteq stored'
    BY Zenon, <1>5, <2>1 DEF IndInv
  <2> HIDE DEF s
  <2> QED
    BY Zenon, <1>1, <1>3, <1>5, <2>1, <2>2, <2>3, <2>4, <2>5, <2>6, ThreadStep DEF s
<1> QED
  BY Zenon, <1>4, <1>5 DEF StoreHandle

\* The roll-back takes what nobody else has out of the database.
LEMMA UndoInd ==
    ASSUME IndInv, NEW t \in Thread, "undo" \notin Faults, UndoOne(t)
    PROVE  IndInv'
<1>1. PICK h \in th[t].out :
        /\ stored' = stored \ {h} /\ faults' \in Nat
        /\ Becomes(t, [th[t] EXCEPT !.pc = "free", !.h = h, !.out = @ \ {h}])
  BY Zenon DEF UndoOne, Outcome, Counted, IndInv, Apart, TypeOK
<1> DEFINE s == [th[t] EXCEPT !.pc = "free", !.h = h, !.out = @ \ {h}]
<1>2. th[t] \in Op /\ h \in Handle /\ h # None /\ h \in stored
  BY LedgerAssumption DEF IndInv, Apart, TypeOK, Op
<1>o. th[t].out \ {h} \in SUBSET Handle
  BY Zenon, <1>2 DEF Op
<1>3. s \in Op /\ s.h = h /\ s.out = th[t].out \ {h} /\ s.pc = "free"
  BY Zenon, <1>2, <1>o DEF Op
<1>b. Becomes(t, s)
  BY Zenon, <1>1
<1> HIDE DEF s
<1>4. TypeOK'
  BY <1>1, <1>b, <1>3 DEF UndoOne, ledger, Becomes, IndInv, Apart, TypeOK, Op
<1>5. ListsApart' /\ Lists' = Lists /\ h \notin stored' \cup Lists'
  BY Zenon, <1>1, <1>2 DEF UndoOne, ledger, IndInv, Apart, ListsApart, Lists
<1>6. \A u \in Thread \ {t} : th[u].h # None =>
        th[u].h # s.h /\ th[u].h \notin stored' \cup Lists'
  BY Zenon, <1>1, <1>2, <1>3, <1>5 DEF IndInv, Apart, InHand, Lists
<1>7. \A u \in Thread \ {t} : th[u].out \subseteq stored' /\ th[u].out \cap s.out = {}
  BY Zenon, <1>1, <1>3 DEF IndInv
<1>8. s.out \subseteq stored'
  BY Zenon, <1>1, <1>3 DEF IndInv
<1> QED
  BY Zenon, <1>b, <1>2, <1>3, <1>4, <1>5, <1>6, <1>7, <1>8, ThreadStep

\* A removed object is in the hands of the thread that removed it.
LEMMA RemoveInd == ASSUME IndInv, NEW t \in Thread, Remove(t) PROVE IndInv'
<1>1. PICK h \in stored \ New, f \in Outcome("del") :
        /\ Counted(f)
        /\ stored' = IF f = "ok" THEN stored \ {h} ELSE stored
        /\ Becomes(t, IF f = "ok" THEN [Idle EXCEPT !.pc = "keyval", !.kind = "remove", !.h = h]
                                  ELSE Idle)
  BY Zenon DEF Remove
<1>f. faults' \in Nat
  BY <1>1 DEF Counted, IndInv, Apart, TypeOK
<1>2. CASE f # "ok"
  BY Zenon, <1>1, <1>2, <1>f, StopInd DEF Remove, IndInv, Apart, TypeOK
<1>3. CASE f = "ok"
  <2> DEFINE s == [Idle EXCEPT !.pc = "keyval", !.kind = "remove", !.h = h]
  <2>1. h \in Handle /\ h # None /\ Idle \in Op /\ Idle.out = {}
    BY LedgerAssumption, IdleType DEF IndInv, Apart, TypeOK, Idle
  <2>2. s \in Op /\ s.h = h /\ s.out = {} /\ s.pc = "keyval"
    BY Zenon, <2>1 DEF Op
  <2>b. Becomes(t, s) /\ stored' = stored \ {h}
    BY Zenon, <1>1, <1>3
  <2> HIDE DEF s
  <2>3. TypeOK'
    BY Zenon, <1>f, <2>b, <2>2 DEF Remove, ledger, Becomes, IndInv, Apart, TypeOK, Op
  <2>4. ListsApart' /\ Lists' = Lists /\ h \notin stored' \cup Lists'
    BY Zenon, <2>b DEF Remove, ledger, IndInv, Apart, ListsApart, Lists
  <2>5. \A u \in Thread \ {t} : th[u].h # None =>
          th[u].h # s.h /\ th[u].h \notin stored' \cup Lists'
    BY <2>b, <2>2, <2>4 DEF IndInv, Apart, InHand, Lists
  <2>6. \A u \in Thread \ {t} : th[u].out \subseteq stored' /\ th[u].out \cap s.out = {}
    BY <2>b, <2>2 DEF IndInv, New
  <2> QED
    BY Zenon, <2>b, <2>1, <2>2, <2>3, <2>4, <2>5, <2>6, ThreadStep
<1> QED
  BY Zenon, <1>2, <1>3

\* Removing the keyvals moves no handle, or loses it.
LEMMA KeyvalInd == ASSUME IndInv, NEW t \in Thread, RemoveKeyvals(t) PROVE IndInv'
<1>1. PICK f \in Outcome("keyval") :
        Counted(f) /\ Becomes(t, IF f = "ok" THEN [th[t] EXCEPT !.pc = "free"] ELSE Idle)
  BY Zenon DEF RemoveKeyvals
<1>f. faults' \in Nat
  BY <1>1 DEF Counted, IndInv, Apart, TypeOK
<1>2. CASE f # "ok"
  BY Zenon, <1>1, <1>2, <1>f, StopInd DEF RemoveKeyvals, IndInv, Apart, TypeOK
<1>3. CASE f = "ok"
  <2> DEFINE s == [th[t] EXCEPT !.pc = "free"]
  <2>1. th[t] \in Op /\ th[t].h # None
    BY Zenon DEF RemoveKeyvals, IndInv, Apart, TypeOK, Op
  <2>2. s \in Op /\ s.h = th[t].h /\ s.out = th[t].out /\ s.pc = "free"
    BY Zenon, <2>1 DEF Op
  <2>b. Becomes(t, s)
    BY Zenon, <1>1, <1>3
  <2> HIDE DEF s
  <2>3. TypeOK'
    BY Zenon, <1>f, <2>b, <2>2 DEF RemoveKeyvals, ledger, Becomes, IndInv, Apart, TypeOK, Op
  <2>4. ListsApart' /\ Lists' = Lists /\ stored' = stored
    BY Zenon DEF RemoveKeyvals, ledger, IndInv, Apart, ListsApart, Lists
  <2>5. \A u \in Thread : th[u].h # None => th[u].h \notin stored' \cup Lists'
    BY Zenon, <2>4 DEF IndInv, Apart, InHand, Lists
  <2>6. \A u \in Thread \ {t} : th[u].h # None => th[u].h # s.h
    BY <2>1, <2>2 DEF IndInv, Apart, InHand
  <2>7. \A u \in Thread \ {t} : th[u].out \subseteq stored' /\ th[u].out \cap s.out = {}
    BY Zenon, <2>2, <2>4 DEF IndInv
  <2>8. s.out \subseteq stored'
    BY Zenon, <2>2, <2>4 DEF IndInv
  <2> QED
    BY Zenon, <2>b, <2>1, <2>2, <2>3, <2>4, <2>5, <2>6, <2>7, <2>8, ThreadStep
<1> QED
  BY Zenon, <1>2, <1>3

\* Freeing puts the handle on one list; recycling shifts whole lists.
LEMMA ReleasedApart ==
    ASSUME IndInv, NEW h \in Handle, h \notin stored \cup Lists, Released(h), stored' = stored
    PROVE  /\ ListsApart' /\ Lists' = Lists \cup {h}
           /\ num' \in [List -> Nat] /\ timestamp' \in [List -> Nat]
<1>1. Target \in {"recent", "overflow"}
  BY Zenon DEF Target
<1>2. /\ AddedNum(Target) \in [List -> Nat]
      /\ AddedTime(Target) \in [List -> Nat]
  BY <1>1 DEF AddedNum, AddedTime, List, IndInv, Apart, TypeOK
<1>3. CASE Recycles
  <2>1. /\ free' = free \cup With(recent, "recent", h)
        /\ recent' = With(overflow, "overflow", h) /\ overflow' = {}
    BY Zenon, <1>3 DEF Released
  <2>2. ListsApart' /\ Lists' = Lists \cup {h}
    BY <1>1, <2>1 DEF With, ListsApart, Lists, IndInv, Apart
  <2>3. num' \in [List -> Nat] /\ timestamp' \in [List -> Nat]
    BY <1>2, <1>3 DEF Released, List, IndInv, Apart, TypeOK
  <2> QED
    BY Zenon, <2>2, <2>3
<1>4. CASE ~Recycles
  <2>1. /\ free' = free
        /\ recent' = With(recent, "recent", h) /\ overflow' = With(overflow, "overflow", h)
    BY Zenon, <1>4 DEF Released
  <2>2. ListsApart' /\ Lists' = Lists \cup {h}
    BY <1>1, <2>1 DEF With, ListsApart, Lists, IndInv, Apart
  <2>3. num' \in [List -> Nat] /\ timestamp' \in [List -> Nat]
    BY Zenon, <1>2, <1>4 DEF Released
  <2> QED
    BY Zenon, <2>2, <2>3
<1> QED
  BY Zenon, <1>3, <1>4

\* trove_handle_free keeps the handles apart.
LEMMA FreeInd == ASSUME IndInv, NEW t \in Thread, Free(t) PROVE IndInv'
<1> DEFINE h == th[t].h
           s == IF th[t].out = {} THEN Idle ELSE [th[t] EXCEPT !.pc = "undo", !.h = None]
<1>1. th[t] \in Op /\ h \in Handle /\ h # None
  BY Zenon DEF Free, IndInv, Apart, TypeOK, Op
<1>2. h \notin stored \cup Lists /\ \A u \in Thread \ {t} : th[u].h # None => th[u].h # h
  BY <1>1 DEF IndInv, Apart, InHand, Lists
<1>3. /\ ListsApart' /\ Lists' = Lists \cup {h}
      /\ num' \in [List -> Nat] /\ timestamp' \in [List -> Nat]
  BY Zenon, <1>1, <1>2, ReleasedApart DEF Free
<1>4. s \in Op /\ s.h = None /\ s.out \subseteq th[t].out /\ s.pc \in {"idle", "undo"}
  <2>1. CASE th[t].out = {}
    BY Zenon, <2>1, IdleType DEF Idle
  <2>2. CASE th[t].out # {}
    BY Zenon, <1>1, <2>2 DEF Op
  <2> QED
    BY Zenon, <2>1, <2>2
<1>b. Becomes(t, s) /\ stored' = stored /\ clock' = clock /\ faults' = faults
      /\ freed' = [freed EXCEPT ![h] = clock]
  BY Zenon DEF Free
<1> HIDE DEF s
<1>5. freed' \in [Handle -> Nat \cup {None}]
  BY Zenon, <1>1, <1>b DEF IndInv, Apart, TypeOK
<1>6. th' \in [Thread -> Op]
  BY Zenon, <1>b, <1>4 DEF Becomes, IndInv, Apart, TypeOK, Op
<1>7. TypeOK'
  BY <1>1, <1>3, <1>5, <1>6, <1>b DEF Lists, IndInv, Apart, TypeOK, Op
<1>8. \A u \in Thread \ {t} : th[u].h # None =>
        th[u].h # s.h /\ th[u].h \notin stored' \cup Lists'
  BY <1>2, <1>3, <1>4, <1>b DEF IndInv, Apart, InHand, Lists
<1>9. \A u \in Thread \ {t} : th[u].out \subseteq stored' /\ th[u].out \cap s.out = {}
  BY Zenon, <1>4, <1>b DEF IndInv
<1>10. s.out \subseteq stored'
  BY Zenon, <1>4, <1>b DEF IndInv
<1> QED
  BY Zenon, <1>b, <1>3, <1>4, <1>7, <1>8, <1>9, <1>10, ThreadStep

\* Every step keeps the invariant, if no roll-back fails.
LEMMA NextInd == ASSUME "undo" \notin Faults, IndInv, [Next]_vars PROVE IndInv'
<1>1. CASE UNCHANGED vars
  BY Zenon, <1>1 DEF vars, ledger, IndInv, Apart, TypeOK, InHand
<1>2. CASE Tick
  BY <1>2 DEF Tick, ledger, IndInv, Apart, TypeOK, InHand
<1>3. ASSUME NEW t \in Thread, NoSpace(t) PROVE IndInv'
  BY Zenon, <1>3, StopInd DEF NoSpace, IndInv, Apart, TypeOK
<1> QED
  BY Zenon, <1>1, <1>2, <1>3, CreateInd, AllocInd, StoreInd, UndoInd, RemoveInd, KeyvalInd,
     FreeInd, RestartInd DEF Next

\* For every set of handles and of threads, a handle is on one list, in the
\* database or in the hands of one thread, as long as no del of a roll-back
\* fails.
THEOREM HandlesApart == "undo" \notin Faults => (Spec => []Apart)
<1> SUFFICES ASSUME "undo" \notin Faults PROVE Spec => []Apart
  BY Zenon
<1>1. IndInv /\ [Next]_vars => IndInv'
  BY Zenon, NextInd
<1>2. IndInv => Apart
  BY Zenon DEF IndInv
<1> QED
  BY InitInd, <1>1, <1>2, PTL DEF Spec

-----------------------------------------------------------------------------
\* num_handles of the free list never falls, so nothing comes back to it.
NoReturn == num["free"] >= Total /\ \A h \in free : freed[h] = None

\* The cutoff is less than the handles there are.
LEMMA CutoffBelow == cutoff \in Nat /\ cutoff < Total
BY TotalNat, LedgerAssumption DEF cutoff

\* Freeing recycles nothing as long as the free list is full enough.
LEMMA FreeNoReturn ==
    ASSUME IndInv, NoReturn, NEW t \in Thread, Free(t)
    PROVE  NoReturn'
<1>1. ~Recycles
  BY CutoffBelow, TotalNat DEF Recycles, NoReturn, IndInv, Apart, TypeOK, List
<1>2. free' = free /\ num' = AddedNum(Target)
  BY Zenon, <1>1 DEF Free, Released
<1>3. num'["free"] = num["free"]
  BY Zenon, <1>2 DEF AddedNum, Target, IndInv, Apart, TypeOK, List
<1>4. th[t].h \in Handle /\ th[t].h \notin free
  BY Zenon DEF Free, IndInv, Apart, TypeOK, InHand
<1>5. \A h \in free : freed'[h] = freed[h]
  BY Zenon, <1>4 DEF Free, IndInv, Apart, TypeOK
<1> QED
  BY Zenon, <1>2, <1>3, <1>5 DEF NoReturn

\* No step brings the free list below the cutoff.
LEMMA NextNoReturn == ASSUME IndInv, NoReturn, [Next]_vars PROVE NoReturn'
<1>1. CASE UNCHANGED ledger
  BY Zenon, <1>1 DEF ledger, NoReturn
<1>2. ASSUME NEW t \in Thread, Alloc(t) PROVE NoReturn'
  BY <1>2 DEF Alloc, Taken, NoReturn, IndInv, Apart, TypeOK
<1>3. CASE Restart
  BY <1>3, TotalNat DEF Restart, NewNum, List, NoReturn, IndInv, Apart, TypeOK
<1> QED
  BY Zenon, <1>1, <1>2, <1>3, FreeNoReturn DEF Next, vars, Create, NoSpace, StoreHandle, UndoOne,
     Remove, RemoveKeyvals, Tick

\* For every set of at least two handles and every purgatory, a handle that
\* was given back is not given out before the purgatory has passed: the ledger
\* gives it out no more until the server restarts.
THEOREM FreedSitOut == "undo" \notin Faults => (Spec => []SitsOut)
<1> SUFFICES ASSUME "undo" \notin Faults PROVE Spec => []SitsOut
  BY Zenon
<1>1. Init => NoReturn
  BY TotalNat DEF Init, NewNum, List, NoReturn
<1>2. IndInv /\ [Next]_vars => IndInv'
  BY Zenon, NextInd
<1>3. IndInv /\ NoReturn /\ [Next]_vars => NoReturn'
  BY Zenon, NextNoReturn
<1>4. NoReturn => SitsOut
  BY Zenon DEF NoReturn, SitsOut
<1> QED
  BY InitInd, <1>1, <1>2, <1>3, <1>4, PTL DEF Spec

=============================================================================
