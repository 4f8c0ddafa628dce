----------------------------- MODULE HandleLock -----------------------------
(***************************************************************************)
(* What the request scheduler promises for each handle: a shared lock that *)
(* is given in the order of arrival.  The requests of a handle stand in    *)
(* line; those that were let go are a front part of the line, and share    *)
(* the handle.  How the scheduler finds out whom to let go, its ready      *)
(* queue and its modes are hidden.                                         *)
(***************************************************************************)
EXTENDS Naturals, Sequences

CONSTANTS
    Req,            \* those who may want a handle
    Handle,
    Kind,           \* what they want it for
    None,           \* of a request that stands in no line
    Shares(_, _)    \* two kinds may have a handle together

VARIABLES
    line,           \* of each handle, in the order of arrival
    granted,        \* the requests that were let go
    kind            \* of each request

lockVars == <<line, granted, kind>>

Without(s, i) == SubSeq(s, 1, i - 1) \o SubSeq(s, i + 1, Len(s))

LockInit ==
    /\ line = [h \in Handle |-> <<>>]
    /\ granted = {}
    /\ kind = [r \in Req |-> None]

\* A request is let go at once when everybody in line was, and it can share
\* the handle with all of them.  It never has to wait for nobody.
Arrive(r, k, h) ==
    /\ kind[r] = None
    /\ kind' = [kind EXCEPT ![r] = k]
    /\ line' = [line EXCEPT ![h] = Append(@, r)]
    /\ \/ /\ line[h] # <<>>
          /\ UNCHANGED granted
       \/ /\ \A i \in 1..Len(line[h]) :
                line[h][i] \in granted /\ Shares(k, kind[line[h][i]])
          /\ granted' = granted \cup {r}

\* The i-th in line leaves, whether it was let go or not.  Then the first n of
\* the others, none of whom was let go before and all of whom can share, are
\* let go; there is such a one when nobody has the handle any more.
Depart(h, i, n) ==
    LET l == Without(line[h], i)
    IN  /\ n <= Len(l)
        /\ line' = [line EXCEPT ![h] = l]
        /\ kind' = [kind EXCEPT ![line[h][i]] = None]
        /\ granted' = (granted \ {line[h][i]}) \cup {l[j] : j \in 1..n}
        /\ \A j \in 1..n : l[j] \notin granted
        /\ \A j, k \in 1..n : j # k => Shares(kind[l[j]], kind[l[k]])
        /\ l # <<>> => l[1] \in granted'

LockNext ==
    \/ \E r \in Req, k \in Kind, h \in Handle : Arrive(r, k, h)
    \/ \E h \in Handle : \E i \in 1..Len(line[h]) :
          \E n \in 0..Len(line[h]) : Depart(h, i, n)

LockSpec == LockInit /\ [][LockNext]_lockVars
=============================================================================
