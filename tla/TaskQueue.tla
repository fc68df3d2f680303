------------------------------- MODULE TaskQueue -------------------------------
(***************************************************************************)
(* What the thread pool promises to the rest of the server, without its    *)
(* linked list, mutex and condition variable (thread_pool.h, lines 4-8):   *)
(* clients are handed to the worker threads one at a time, each exactly    *)
(* once, in the order they were submitted, and a worker quits only after   *)
(* the pool is closed and every submitted client has been handed over.     *)
(* ThreadPool is shown to implement this specification.                    *)
(***************************************************************************)
EXTENDS Naturals, Sequences, Functions

CONSTANTS Workers,   \* the worker threads
          Clients,   \* the client connections
          NULL       \* "no client"

VARIABLES submitted, \* the clients submitted so far, in order
          taken,     \* the clients handed to a worker so far, in order
          holds,     \* the client each worker is busy with, or NULL
          open,      \* the pool accepts clients
          quit       \* the workers that have terminated

vars == <<submitted, taken, holds, open, quit>>

Init ==
    /\ submitted = <<>>
    /\ taken = <<>>
    /\ holds = [w \in Workers |-> NULL]
    /\ open = TRUE
    /\ quit = {}

Submit(c) ==
    /\ open
    /\ c \notin Range(submitted)
    /\ submitted' = Append(submitted, c)
    /\ UNCHANGED <<taken, holds, open, quit>>

Take(w) ==
    /\ holds[w] = NULL
    /\ w \notin quit
    /\ Len(taken) < Len(submitted)
    /\ taken' = Append(taken, submitted[Len(taken) + 1])
    /\ holds' = [holds EXCEPT ![w] = submitted[Len(taken) + 1]]
    /\ UNCHANGED <<submitted, open, quit>>

Finish(w) ==
    /\ holds[w] # NULL
    /\ holds' = [holds EXCEPT ![w] = NULL]
    /\ UNCHANGED <<submitted, taken, open, quit>>

Close ==
    /\ open
    /\ open' = FALSE
    /\ UNCHANGED <<submitted, taken, holds, quit>>

Quit(w) ==
    /\ ~open
    /\ holds[w] = NULL
    /\ Len(taken) = Len(submitted)
    /\ quit' = quit \cup {w}
    /\ UNCHANGED <<submitted, taken, holds, open>>

Next ==
    \/ \E c \in Clients : Submit(c)
    \/ \E w \in Workers : Take(w) \/ Finish(w) \/ Quit(w)
    \/ Close

Spec == Init /\ [][Next]_vars
================================================================================
