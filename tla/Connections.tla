------------------------------ MODULE Connections ------------------------------
(***************************************************************************)
(* The life of a client connection: accepted by main() (server/src/main.c),*)
(* queued, taken by a worker, greeted and served by handle_client          *)
(* (server/src/client_handler.c), closed.  What travels through the queue  *)
(* is only the number of a descriptor; the kernel gives the lowest free    *)
(* number to the next connection, so a number says which client is meant   *)
(* only as long as nobody has closed it.                                   *)
(*                                                                         *)
(* The queue is the one TaskQueue promises (ThreadPool implements it).     *)
(* What a client says while it is served is the matter of ClientHandler.   *)
(***************************************************************************)
EXTENDS Naturals, Sequences, Functions

CONSTANTS Workers, Clients, NULL,
          Fds,    \* the numbers accept() may return
          Polite  \* the clients that speak first, or complete the handshake

ASSUME ConnAssumption ==
    /\ NULL \notin Workers \cup Clients \cup Fds
    /\ Fds \subseteq Nat
    /\ Polite \subseteq Clients

VARIABLES submitted, taken, holds, open, quit, \* the queue, see TaskQueue
          desc,   \* the descriptor table: the connection behind each number
          fdOf,   \* client_fd: the number accept() returned for each client
          adding, \* the client main() has accepted and not yet queued
          stage   \* how far each worker is with its client

queue == <<submitted, taken, holds, open, quit>>
vars  == <<queue, desc, fdOf, adding, stage>>

Queue == INSTANCE TaskQueue

Stages == {"idle", "hello", "serve", "early", "finish"}

Init ==
    /\ Queue!Init
    /\ desc = [f \in Fds |-> NULL]
    /\ fdOf = [c \in Clients |-> NULL]
    /\ adding = NULL
    /\ stage = [w \in Workers |-> "idle"]

ClientFd(w) == fdOf[holds[w]]
GotoNeverIdle(w, s) ==
    stage' = IF s = "idle" THEN stage ELSE [stage EXCEPT ![w] = s]
Goto(w, s)  == stage' = [stage EXCEPT ![w] = s]
CloseFd(f)  == desc' = [desc EXCEPT ![f] = NULL]
--------------------------------------------------------------------------------
(* accept() returns the lowest free number. *)
Accept(c) ==
    /\ open /\ adding = NULL /\ fdOf[c] = NULL
    /\ \E f \in Fds :
          /\ desc[f] = NULL
          /\ \A g \in Fds : desc[g] = NULL => f <= g
          /\ desc' = [desc EXCEPT ![f] = c]
          /\ fdOf' = [fdOf EXCEPT ![c] = f]
    /\ adding' = c
    /\ UNCHANGED <<queue, stage>>

(* thread_pool_add_task *)
AddTask ==
    /\ adding # NULL
    /\ Queue!Submit(adding)
    /\ adding' = NULL
    /\ UNCHANGED <<desc, fdOf, stage>>

(* A worker takes the next client and calls handle_client, which waits for  *)
(* the first bytes (recv with MSG_PEEK).                                    *)
Take(w) ==
    /\ Queue!Take(w)
    /\ Goto(w, "hello")
    /\ UNCHANGED <<desc, fdOf, adding>>

(* The first bytes came, and the handshake succeeded if it was a GET.       *)
Greet(w) ==
    /\ stage[w] = "hello" /\ desc[ClientFd(w)] # NULL
    /\ Goto(w, "serve")
    /\ UNCHANGED <<queue, desc, fdOf, adding>>

(* Nothing could be read, or the handshake failed: handle_client closes the *)
(* socket itself and returns.                                               *)
Refuse(w) ==
    /\ stage[w] = "hello" /\ desc[ClientFd(w)] \notin Polite
    /\ CloseFd(ClientFd(w))
    /\ Goto(w, "early")
    /\ UNCHANGED <<queue, fdOf, adding>>

(* The command loop ends: the client closed the connection, or an error.    *)
(* Here handle_client leaves the socket to the worker.                      *)
HandlerCloses(w) == CloseFd(ClientFd(w))
LeaveOpen(w) == UNCHANGED desc
LoopEnds(w) ==
    /\ stage[w] = "serve"
    /\ LeaveOpen(w)
    /\ Goto(w, "finish")
    /\ UNCHANGED <<queue, fdOf, adding>>

(* handle_client has returned, either way: the worker closes the socket.    *)
ReturnedEarly(w) == stage[w] = "early"
Returned(w) == stage[w] \in {"early", "finish"}
CloseUnlessFinished(w) ==
    IF stage[w] = "finish" THEN UNCHANGED desc ELSE CloseFd(ClientFd(w))
CloseAfter(w) == CloseFd(ClientFd(w))
CloseClient(w) ==
    /\ Returned(w)
    /\ CloseAfter(w)
    /\ Queue!Finish(w)
    /\ Goto(w, "idle")
    /\ UNCHANGED <<fdOf, adding>>

(* Ctrl+C: main() never gets back to its loop. *)
Interrupt ==
    /\ Queue!Close
    /\ UNCHANGED <<desc, fdOf, adding, stage>>

WorkerQuits(w) ==
    /\ Queue!Quit(w)
    /\ UNCHANGED <<desc, fdOf, adding, stage>>

Next ==
    \/ \E c \in Clients : Accept(c)
    \/ AddTask
    \/ \E w \in Workers :
          \/ Take(w) \/ Greet(w) \/ Refuse(w) \/ LoopEnds(w)
          \/ CloseClient(w) \/ WorkerQuits(w)
    \/ Interrupt

Spec == Init /\ [][Next]_vars

(* Workers go on with what they have.  Nobody makes a client speak or leave:*)
(* recv has no timeout.                                                     *)
ServingSpec ==
    /\ Spec
    /\ \A w \in Workers : WF_vars(Take(w)) /\ WF_vars(CloseClient(w))
--------------------------------------------------------------------------------
Pending == {submitted[i] : i \in Len(taken) + 1 .. Len(submitted)}
Held(c, S) == \E w \in Workers : holds[w] = c /\ stage[w] \in S

(* Types; a worker is past "idle" exactly while it holds a client.          *)
ConnTypeOK ==
    /\ submitted \in Seq(Clients) /\ taken \in Seq(Clients)
    /\ holds \in [Workers -> Clients \cup {NULL}]
    /\ open \in BOOLEAN /\ quit \in SUBSET Workers
    /\ desc \in [Fds -> Clients \cup {NULL}]
    /\ fdOf \in [Clients -> Fds \cup {NULL}]
    /\ adding \in Clients \cup {NULL}
    /\ stage \in [Workers -> Stages]
    /\ \A w \in Workers : holds[w] = NULL <=> stage[w] = "idle"

(* No descriptor leaks: every open one belongs to the client it was opened  *)
(* for, and that client is still on its way to a close(): main() is adding  *)
(* it, it is queued, or a worker has it.  This holds although a number may  *)
(* be closed twice (client_handler.c, lines 291 and 301, then thread_pool.c,*)
(* line 59) and given to somebody else in between.                          *)
OpenIsOwned ==
    \A f \in Fds : desc[f] # NULL =>
        /\ fdOf[desc[f]] = f
        /\ \/ desc[f] = adding
           \/ desc[f] \in Pending
           \/ Held(desc[f], {"hello", "serve", "finish"})

(* A client keeps its connection from accept() until its own worker closes  *)
(* it: nobody else closes it while it waits in the queue (thread_pool.h,    *)
(* line 6) or is served.                                                    *)
ConnectionKept ==
    \A c \in Clients :
        c = adding \/ c \in Pending \/ Held(c, {"hello", "serve", "finish"})
            => fdOf[c] # NULL /\ desc[fdOf[c]] = c

(* It is so as long as only polite clients have connected: then no socket   *)
(* is closed twice, although worker and handle_client both close sockets.   *)
KeptAmongPolite ==
    (\A c \in Clients \ Polite : fdOf[c] = NULL) => ConnectionKept

(* No worker is held by a client for ever, be it one that says nothing      *)
(* (client_handler.c, line 289) or one that never leaves (line 322).        *)
ClientsMoveOn == \A w \in Workers : []<>(stage[w] \notin {"hello", "serve"})

(* thread_pool.c, lines 29-61: if the clients that are being served go some *)
(* day, every connection that was queued is taken and closed, also when     *)
(* the server is shut down meanwhile.                                       *)
QueuedIsClosed ==
    ClientsMoveOn => \A c \in Clients : c \in Pending ~> \A f \in Fds : desc[f] # c
================================================================================
