------------------------------- MODULE Ledger -------------------------------
(* The handles of a collection: trove-ledger.c, trove-extentlist.c and      *)
(* trove-handle-mgmt.c under io/trove/trove-handle-mgmt, and the operations *)
(* of dbpf-dspace.c that take a handle, store an object under it, remove    *)
(* the object and give the handle back.  Several threads of the storage do  *)
(* this at once.  The mutex trove_handle_mutex makes one step of each call  *)
(* of the ledger, but is not held from there to the database.  The extents  *)
(* of a list are the runs of adjacent members of a set of handles, since    *)
(* they are joined when a handle comes in and split when one goes.          *)
EXTENDS Naturals, FiniteSets

CONSTANTS
    Handle,         \* the handle ranges of the server
    Extents,        \* what requests ask for: the metadata and the data ranges
    Thread,
    MaxCount,       \* handles asked for by a create_list
    Purgatory,      \* s_extentlist_purgatory
    Faults,         \* "store", "del", "keyval", "undo": what may go wrong
    MaxFaults, MaxClock,    \* bounds of the model
    None

Total == Cardinality(Handle)

ASSUME LedgerAssumption ==
    /\ IsFiniteSet(Handle) /\ Total >= 2 /\ None \notin Handle
    /\ Extents \subseteq SUBSET Handle
    /\ MaxCount \in Nat /\ Purgatory \in Nat /\ MaxClock \in Nat /\ MaxFaults \in Nat

VARIABLES
    free,           \* handles of free_list,
    recent,         \*   of recently_freed_list
    overflow,       \*   and of overflow_list
    num,            \* their num_handles
    timestamp,      \*   and timestamps
    stored,         \* handles with an object in the database
    th,             \* the operation of each thread
    freed,          \* when a handle was given back, if it was since the start and
                    \*   is not given out again
    clock, faults

ledger == <<free, recent, overflow, num, timestamp, freed>>
vars == <<ledger, stored, th, clock, faults>>

List == {"free", "recent", "overflow"}
Idle == [pc |-> "idle", kind |-> "none", range |-> {}, h |-> None, out |-> {}, left |-> 0]

\* trove_handle_ledger_set_threshold
cutoff == (Total \div 4) + 1

\* trove_map_handle_ranges adds all the handles, trove_check_handle_ranges
\* takes those in the database away again; num_handles counts all of them.
NewNum == [l \in List |-> IF l = "free" THEN Total ELSE 0]
NewTime == [l \in List |-> clock]

Init ==
    /\ clock = 0 /\ faults = 0
    /\ stored \in SUBSET Handle
    /\ free = Handle \ stored /\ recent = {} /\ overflow = {}
    /\ num = NewNum /\ timestamp = NewTime
    /\ freed = [h \in Handle |-> None]
    /\ th = [t \in Thread |-> Idle]

Outcome(f) == {"ok"} \cup IF f \in Faults /\ faults < MaxFaults THEN {f} ELSE {}
Counted(f) == faults' = IF f = "ok" THEN faults ELSE faults + 1

Becomes(t, s) == th' = [th EXCEPT ![t] = s]
-----------------------------------------------------------------------------
(* dbpf_dspace_create_op_svc, dbpf_dspace_create_list_op_svc               *)

Create(t) ==
    /\ th[t].pc = "idle"
    /\ \E kind \in {"create", "list"}, r \in Extents, n \in 1..MaxCount :
         /\ kind = "create" => n = 1
         /\ Becomes(t, [Idle EXCEPT !.pc = "alloc", !.kind = kind, !.range = r, !.left = n])
    /\ UNCHANGED <<ledger, stored, clock, faults>>

\* Mutant of Taken: num_handles counts what is left.
TakenCounted(h) ==
    /\ free' = free \ {h} /\ num' = [num EXCEPT !["free"] = @ - 1]
    /\ freed' = [freed EXCEPT ![h] = None]
    /\ UNCHANGED <<recent, overflow, timestamp>>

\* extentlist_handle_remove leaves num_handles as it is.
Taken(h) ==
    /\ free' = free \ {h}
    /\ freed' = [freed EXCEPT ![h] = None]
    /\ UNCHANGED <<recent, overflow, num, timestamp>>

\* trove_handle_alloc_from_range: one of the free handles of the range.
Alloc(t) ==
    /\ th[t].pc = "alloc"
    /\ \E h \in free \cap th[t].range :
         Taken(h) /\ Becomes(t, [th[t] EXCEPT !.pc = "store", !.h = h])
    /\ UNCHANGED <<stored, clock, faults>>

\* -TROVE_ENOSPC; the objects that a create_list has stored already stay.
NoSpace(t) ==
    /\ th[t].pc = "alloc" /\ free \cap th[t].range = {}
    /\ Becomes(t, Idle)
    /\ UNCHANGED <<ledger, stored, clock, faults>>

\* The next handle, or the end.  A create_list remembers what it has got.
StoredOne(s) ==
    IF s.left = 1 THEN Idle
    ELSE [s EXCEPT !.pc = "alloc", !.h = None, !.out = @ \cup {s.h}, !.left = @ - 1]

\* After a failure a create gives its handle back.  A create_list goes through
\* its array, where the handle that could not be stored is not entered.
NotStored(s) ==
    CASE s.kind = "create" -> [s EXCEPT !.pc = "free"]
      [] s.out = {} -> Idle
      [] OTHER -> [s EXCEPT !.pc = "undo", !.h = None]

\* dbpf_dspace_create_store_handle
StoreHandle(t) ==
    /\ th[t].pc = "store"
    /\ \E f \in Outcome("store") :
         /\ Counted(f)
         /\ IF f = "ok" /\ th[t].h \notin stored
            THEN stored' = stored \cup {th[t].h} /\ Becomes(t, StoredOne(th[t]))
            ELSE stored' = stored /\ Becomes(t, NotStored(th[t]))
    /\ UNCHANGED <<ledger, clock>>

\* Mutant of UndoOne: the object stays in the database.
UndoOneKeeps(t) ==
    /\ th[t].pc = "undo"
    /\ \E h \in th[t].out :
         Becomes(t, [th[t] EXCEPT !.pc = "free", !.h = h, !.out = @ \ {h}])
    /\ UNCHANGED <<ledger, stored, clock, faults>>

\* The result of del is not looked at.
UndoOne(t) ==
    /\ th[t].pc = "undo"
    /\ \E h \in th[t].out, f \in Outcome("undo") :
         /\ Counted(f)
         /\ stored' = IF f = "ok" THEN stored \ {h} ELSE stored
         /\ Becomes(t, [th[t] EXCEPT !.pc = "free", !.h = h, !.out = @ \ {h}])
    /\ UNCHANGED <<ledger, clock>>

-----------------------------------------------------------------------------
(* dbpf_dspace_remove_op_svc: remove_one_handle.  What a create_list is     *)
(* still at work on is known to nobody else.                                *)

New == UNION {th[t].out : t \in Thread}

Remove(t) ==
    /\ th[t].pc = "idle"
    /\ \E h \in stored \ New, f \in Outcome("del") :
         /\ Counted(f)
         /\ stored' = IF f = "ok" THEN stored \ {h} ELSE stored
         /\ Becomes(t, IF f = "ok" THEN [Idle EXCEPT !.pc = "keyval", !.kind = "remove", !.h = h]
                                   ELSE Idle)
    /\ UNCHANGED <<ledger, clock>>

\* If the keyvals cannot be removed, the handle is not given back.
RemoveKeyvals(t) ==
    /\ th[t].pc = "keyval"
    /\ \E f \in Outcome("keyval") :
         Counted(f) /\ Becomes(t, IF f = "ok" THEN [th[t] EXCEPT !.pc = "free"] ELSE Idle)
    /\ UNCHANGED <<ledger, stored, clock>>

-----------------------------------------------------------------------------
(* trove_ledger_handle_free                                                *)

\* extentlist_hit_cutoff
Target == IF num["recent"] > cutoff THEN "overflow" ELSE "recent"

\* extentlist_addextent: num_handles and timestamp of the list.
AddedNum(l) == [num EXCEPT ![l] = @ + 1]
AddedTime(l) == [timestamp EXCEPT ![l] = clock]
With(S, l, h) == IF Target = l THEN S \cup {h} ELSE S

\* The free list runs out and extentlist_endured_purgatory holds: recently
\* freed was changed more than the purgatory later than overflow.
Recycles ==
    LET ts == AddedTime(Target) IN
    num["free"] <= cutoff /\ ts["recent"] > ts["overflow"] + Purgatory

\* handle_recycle: recently freed handles are free, those of the overflow list
\* recently freed.
Released(h) ==
    IF Recycles
    THEN /\ free' = free \cup With(recent, "recent", h)
         /\ recent' = With(overflow, "overflow", h)
         /\ overflow' = {}
         /\ LET n == AddedNum(Target) ts == AddedTime(Target) IN
            /\ num' = [l \in List |->
                 CASE l = "free" -> n["free"] + n["recent"]
                   [] l = "recent" -> n["overflow"]
                   [] OTHER -> 0]
            /\ timestamp' = [l \in List |-> IF l = "recent" THEN ts["overflow"] ELSE clock]
    ELSE /\ free' = free
         /\ recent' = With(recent, "recent", h)
         /\ overflow' = With(overflow, "overflow", h)
         /\ num' = AddedNum(Target) /\ timestamp' = AddedTime(Target)

Free(t) ==
    /\ th[t].pc = "free"
    /\ Released(th[t].h)
    /\ freed' = [freed EXCEPT ![th[t].h] = clock]
    /\ Becomes(t, IF th[t].out = {} THEN Idle ELSE [th[t] EXCEPT !.pc = "undo", !.h = None])
    /\ UNCHANGED <<stored, clock, faults>>

-----------------------------------------------------------------------------
Tick == /\ clock < MaxClock /\ clock' = clock + 1
        /\ UNCHANGED <<ledger, stored, th, faults>>

\* The server stops, and trove_set_handle_ranges makes a new ledger.
Restart ==
    /\ free' = Handle \ stored /\ recent' = {} /\ overflow' = {}
    /\ num' = NewNum /\ timestamp' = NewTime
    /\ freed' = [h \in Handle |-> None]
    /\ th' = [t \in Thread |-> Idle]
    /\ UNCHANGED <<stored, clock, faults>>

Next ==
    \/ \E t \in Thread : \/ Create(t) \/ Alloc(t) \/ NoSpace(t) \/ StoreHandle(t) \/ UndoOne(t)
                         \/ Remove(t) \/ RemoveKeyvals(t) \/ Free(t)
    \/ Tick \/ Restart

Spec == Init /\ [][Next]_vars

-----------------------------------------------------------------------------
TypeOK ==
    /\ free \subseteq Handle /\ recent \subseteq Handle /\ overflow \subseteq Handle
    /\ stored \subseteq Handle
    /\ num \in [List -> Nat] /\ timestamp \in [List -> Nat]
    /\ clock \in Nat /\ faults \in Nat
    /\ freed \in [Handle -> Nat \cup {None}]
    /\ th \in [Thread -> [pc : {"idle", "alloc", "store", "undo", "keyval", "free"},
                          kind : {"none", "create", "list", "remove"}, range : SUBSET Handle,
                          h : Handle \cup {None}, out : SUBSET Handle, left : Nat]]

\* What a thread has in hand: a handle outside the lists and the database.
InHand(t) == {th[t].h} \ {None}

\* A handle is in one place: on one of the three lists of the ledger, in the
\* database, or in the hands of one thread.  So what trove_handle_alloc_from_range
\* gives out is not the handle of an object, nor given to two creates, however
\* creates, their roll-back, removes and restarts interleave.
Apart ==
    /\ TypeOK
    /\ free \cap recent = {} /\ free \cap overflow = {} /\ recent \cap overflow = {}
    /\ stored \cap (free \cup recent \cup overflow) = {}
    /\ \A t \in Thread : InHand(t) \cap (stored \cup free \cup recent \cup overflow) = {}
    /\ \A t, u \in Thread : t # u => InHand(t) \cap InHand(u) = {}

\* "controls how long a handle, once freed, will sit on the sidelines before
\* returning to the pool of avaliable handles" (trove-handle-mgmt.c): what may
\* be given out was not given back, since the server started, less than the
\* purgatory ago.  It holds because nothing is ever recycled: num_handles of
\* the free list does not fall when a handle is taken from a range, so the
\* ledger never finds it at its cutoff.  endured_purgatory would not ensure
\* it: it looks at the time of the latest free, not of the earliest.
SitsOut ==
    \A h \in free : freed[h] # None => clock > freed[h] + Purgatory

=============================================================================
