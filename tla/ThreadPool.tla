------------------------------ MODULE ThreadPool ------------------------------
(***************************************************************************)
(* The server's thread pool (server/src/thread_pool.c) with the two        *)
(* functions of server/src/main.c that drive it: the accept loop of main() *)
(* and signal_handler(), which runs on the main thread, on top of whatever *)
(* main() was doing, and never returns to it (it ends in exit(0)).         *)
(*                                                                         *)
(* The queue is the linked list of the code: head, tail and the `next'     *)
(* field of every task_t.  A task_t is allocated for one accepted client   *)
(* and freed by the worker that takes it, so the client names the node.    *)
(* Steps are split where another thread, or the signal, can get in between *)
(* (lock, body, unlock); the body of a critical section is one step.       *)
(*                                                                         *)
(* pthread_cond_wait and pthread_cond_signal follow POSIX: wait releases   *)
(* the mutex and joins the wait set atomically, signal removes a waiter if *)
(* there is one, a waiter may wake up spuriously, and a woken thread must  *)
(* acquire the mutex again before it goes on.  The mutex is a default one: *)
(* a thread that locks it twice blocks on itself.                          *)
(***************************************************************************)
EXTENDS Naturals, Sequences, FiniteSets, Functions

CONSTANTS Workers,      \* the threads that thread_pool_init creates
          Clients,      \* the connections accept() returns, each at most once
          Main,         \* the main thread
          NULL,         \* the null pointer, and "no owner" of the mutex
          SignalPoints  \* where SIGINT may interrupt the main thread

MainPoints == {"accept", "add_lock", "add_link"}

ASSUME PoolAssumption ==
    /\ Workers # {}
    /\ IsFiniteSet(Workers)
    /\ Main \notin Workers
    /\ NULL \notin Workers \cup Clients \cup {Main}
    /\ SignalPoints \subseteq MainPoints

VARIABLES mutex,      \* pool->mutex: its owner, or NULL
          running,    \* pool->running
          waiting,    \* workers blocked on pool->cond, not yet woken
          head, tail, \* pool->queue_head, pool->queue_tail
          next,       \* the next field of each client's task_t
          live,       \* the task_t nodes allocated and not freed
          pc,         \* where each worker is
          task,       \* the client each worker has taken, or NULL
          main,       \* where the main thread is
          fresh,      \* the node thread_pool_add_task is adding, or NULL
          submitted,  \* history: the clients put in the queue, in order
          taken,      \* history: the clients workers took, in order
          served      \* history: the clients whose handle_client returned

list    == <<head, tail, next>>
history == <<submitted, taken, served>>
vars == <<mutex, running, waiting, list, live, pc, task, main, fresh, history>>

WorkerPoints == {"lock", "check", "wait", "free", "handle", "exit"}
HandlerPoints == {"shut_lock", "shut_body", "join", "stopped"}
--------------------------------------------------------------------------------
(* thread_pool_init has returned: an empty queue, every worker started. *)
Init ==
    /\ mutex = NULL
    /\ running = TRUE
    /\ waiting = {}
    /\ head = NULL /\ tail = NULL
    /\ next = [c \in Clients |-> NULL]
    /\ live = {}
    /\ pc = [w \in Workers |-> "lock"]
    /\ task = [w \in Workers |-> NULL]
    /\ main = "accept"
    /\ fresh = NULL
    /\ submitted = <<>> /\ taken = <<>> /\ served = {}

Goto(w, point) == pc' = [pc EXCEPT ![w] = point]

(* pthread_cond_signal: one of the waiting workers, if any, is woken. *)
SignalNobody == UNCHANGED waiting
SignalIfQueueWasEmpty ==
    IF tail = NULL /\ waiting # {}
    THEN \E w \in waiting : waiting' = waiting \ {w}
    ELSE UNCHANGED waiting
Signal ==
    \/ waiting = {} /\ UNCHANGED waiting
    \/ \E w \in waiting : waiting' = waiting \ {w}

(* pthread_cond_broadcast: every waiting worker is woken. *)
WakeOne == Signal
Broadcast == waiting' = {}

--------------------------------------------------------------------------------
(* The worker threads. *)

(* The top of the loop: pthread_mutex_lock. *)
WorkerLock(w) ==
    /\ pc[w] = "lock" /\ mutex = NULL
    /\ mutex' = w
    /\ Goto(w, "check")
    /\ UNCHANGED <<running, waiting, list, live, task, main, fresh, history>>

(* Nothing to do and the pool is running: pthread_cond_wait blocks. *)
WorkerWait(w) ==
    /\ pc[w] = "check" /\ head = NULL /\ running
    /\ waiting' = waiting \cup {w}
    /\ mutex' = NULL
    /\ Goto(w, "wait")
    /\ UNCHANGED <<running, list, live, task, main, fresh, history>>

(* A wakeup without a signal, which POSIX allows. *)
SpuriousWakeup(w) ==
    /\ w \in waiting
    /\ waiting' = waiting \ {w}
    /\ UNCHANGED <<mutex, running, list, live, pc, task, main, fresh, history>>

(* A woken worker returns from pthread_cond_wait with the mutex and tests   *)
(* the while condition again.                                               *)
WorkerRelock(w) ==
    /\ pc[w] = "wait" /\ w \notin waiting /\ mutex = NULL
    /\ mutex' = w
    /\ Goto(w, "check")
    /\ UNCHANGED <<running, waiting, list, live, task, main, fresh, history>>

(* The pool is stopped and the queue is empty: unlock and leave the loop.   *)
ExitAtOnce == ~running
CanExit == ~running /\ head = NULL
WorkerExit(w) ==
    /\ pc[w] = "check" /\ CanExit
    /\ mutex' = NULL
    /\ Goto(w, "exit")
    /\ UNCHANGED <<running, waiting, list, live, task, main, fresh, history>>

(* Unlinking the first node; an emptied list loses its tail too. *)
UnlinkKeepsTail ==
    /\ head' = next[head]
    /\ UNCHANGED <<tail, next>>
Unlink ==
    /\ head' = next[head]
    /\ tail' = IF next[head] = NULL THEN NULL ELSE tail
    /\ UNCHANGED next

(* The first task is taken off the list and the mutex released. *)
WorkerTake(w) ==
    /\ pc[w] = "check" /\ head # NULL
    /\ task' = [task EXCEPT ![w] = head]
    /\ Unlink
    /\ taken' = Append(taken, head)
    /\ mutex' = NULL
    /\ Goto(w, "free")
    /\ UNCHANGED <<running, waiting, live, main, fresh, submitted, served>>

(* client_fd is read from the task, the node is freed, handle_client runs. *)
NoFree(w) == UNCHANGED live
FreeTask(w) == live' = live \ {task[w]}
WorkerFree(w) ==
    /\ pc[w] = "free"
    /\ FreeTask(w)
    /\ Goto(w, "handle")
    /\ UNCHANGED <<mutex, running, waiting, list, task, main, fresh, history>>

(* handle_client returns (its client went away), the socket is closed and   *)
(* the worker goes back to the top of the loop.                             *)
WorkerDone(w) ==
    /\ pc[w] = "handle"
    /\ served' = served \cup {task[w]}
    /\ task' = [task EXCEPT ![w] = NULL]
    /\ Goto(w, "lock")
    /\ UNCHANGED <<mutex, running, waiting, list, live, main, fresh, submitted, taken>>

--------------------------------------------------------------------------------
(* The main thread: the accept loop and thread_pool_add_task. *)

(* accept() returns a new client; its task_t is allocated. *)
AllocNull(c) == fresh' = NULL /\ UNCHANGED <<live, next>>
AllocTask(c) ==
    /\ fresh' = c
    /\ live' = live \cup {c}
    /\ next' = [next EXCEPT ![c] = NULL]
Accept(c) ==
    /\ main = "accept" /\ c \notin Range(submitted)
    /\ AllocTask(c)
    /\ main' = "add_lock"
    /\ UNCHANGED <<mutex, running, waiting, head, tail, pc, task, history>>

AddLock ==
    /\ main = "add_lock" /\ mutex = NULL
    /\ mutex' = Main
    /\ main' = "add_link"
    /\ UNCHANGED <<running, waiting, list, live, pc, task, fresh, history>>

(* The new node goes behind the tail, or becomes the whole list. *)
LinkAtHead ==
    /\ head' = fresh
    /\ tail' = IF tail = NULL THEN fresh ELSE tail
    /\ next' = [next EXCEPT ![fresh] = head]
LinkAtTail ==
    /\ IF tail = NULL
       THEN head' = fresh /\ UNCHANGED next
       ELSE next' = [next EXCEPT ![tail] = fresh] /\ UNCHANGED head
    /\ tail' = fresh

(* The node is linked, one waiting worker signalled, the mutex released. *)
AddLink ==
    /\ main = "add_link"
    /\ LinkAtTail
    /\ Signal
    /\ submitted' = Append(submitted, fresh)
    /\ fresh' = NULL
    /\ mutex' = NULL
    /\ main' = "accept"
    /\ UNCHANGED <<running, live, pc, task, taken, served>>

--------------------------------------------------------------------------------
(* Ctrl+C: signal_handler and thread_pool_shutdown, on the main thread. *)

(* SIGINT interrupts main(); what main() held, it goes on holding. *)
Sigint ==
    /\ main \in SignalPoints
    /\ main' = "shut_lock"
    /\ UNCHANGED <<mutex, running, waiting, list, live, pc, task, fresh, history>>

ShutdownLock ==
    /\ main = "shut_lock" /\ mutex = NULL
    /\ mutex' = Main
    /\ main' = "shut_body"
    /\ UNCHANGED <<running, waiting, list, live, pc, task, fresh, history>>

(* running is cleared, every waiter woken, the mutex released. *)
ShutdownBroadcast ==
    /\ main = "shut_body"
    /\ running' = FALSE
    /\ Broadcast
    /\ mutex' = NULL
    /\ main' = "join"
    /\ UNCHANGED <<list, live, pc, task, fresh, history>>

(* Every pthread_join has returned: the mutex and the condition variable are *)
(* destroyed, the database and the listening socket closed, exit(0).         *)
ShutdownJoined ==
    /\ main = "join"
    /\ \A w \in Workers : pc[w] = "exit"
    /\ main' = "stopped"
    /\ UNCHANGED <<mutex, running, waiting, list, live, pc, task, fresh, history>>

(* The process has exited. *)
Stopped == main = "stopped" /\ UNCHANGED vars

--------------------------------------------------------------------------------
Locks(w)  == WorkerLock(w) \/ WorkerRelock(w)
Bodies(w) == WorkerWait(w) \/ WorkerExit(w) \/ WorkerTake(w) \/ WorkerFree(w)
MainLocks  == AddLock \/ ShutdownLock
MainBodies == AddLink \/ ShutdownBroadcast \/ ShutdownJoined

Next ==
    \/ \E w \in Workers :
          Locks(w) \/ Bodies(w) \/ SpuriousWakeup(w) \/ WorkerDone(w)
    \/ \E c \in Clients : Accept(c)
    \/ MainLocks \/ MainBodies \/ Sigint \/ Stopped

Spec == Init /\ [][Next]_vars

(* Every thread that can run does run, and a thread blocked on the mutex    *)
(* gets it if it is released again and again (strong fairness: the mutex is *)
(* free only now and then).  Nothing forces a client to connect, to leave,  *)
(* or the operator to press Ctrl+C.                                         *)
SchedulerFairness ==
    /\ \A w \in Workers : SF_vars(Locks(w)) /\ WF_vars(Bodies(w))
    /\ SF_vars(MainLocks) /\ WF_vars(MainBodies)

FairSpec == Spec /\ SchedulerFairness

(* Every client that is being served leaves eventually, so that its         *)
(* handle_client returns.  Assumed where a property says so.                *)
ClientsLeave == \A w \in Workers : WF_vars(WorkerDone(w))
--------------------------------------------------------------------------------
Pending == {submitted[i] : i \in Len(taken) + 1 .. Len(submitted)}
Busy(w) == pc[w] \in {"free", "handle"}
Awake   == {w \in Workers : pc[w] \in {"lock", "check"}
                              \/ (pc[w] = "wait" /\ w \notin waiting)}

(* The variables have the shape the code gives them; a worker has a task    *)
(* exactly while it is busy, main has a node exactly while it adds one.     *)
TypeOK ==
    /\ mutex \in Workers \cup {Main, NULL}
    /\ running \in BOOLEAN
    /\ waiting \in SUBSET Workers
    /\ head \in Clients \cup {NULL} /\ tail \in Clients \cup {NULL}
    /\ next \in [Clients -> Clients \cup {NULL}]
    /\ live \in SUBSET Clients
    /\ pc \in [Workers -> WorkerPoints]
    /\ task \in [Workers -> Clients \cup {NULL}]
    /\ \A w \in Workers : task[w] # NULL <=> Busy(w)
    /\ main \in MainPoints \cup HandlerPoints
    /\ fresh \in Clients \cup {NULL}
    /\ main \in {"add_lock", "add_link"} => fresh # NULL
    /\ main = "accept" => fresh = NULL
    /\ submitted \in Seq(Clients) /\ taken \in Seq(Clients)
    /\ served \in SUBSET Clients

(* The linked list is what its clients believe it is: the workers have      *)
(* taken a prefix of what main() submitted, and the nodes from queue_head   *)
(* along `next' to queue_tail are the rest of it, in the same order; an     *)
(* empty queue has neither head nor tail, so that the next client is not    *)
(* linked behind a node that is gone (thread_pool.c, lines 45-49, 100-106). *)
QueueShape ==
    /\ Len(taken) <= Len(submitted)
    /\ \A i \in 1..Len(taken) : taken[i] = submitted[i]
    /\ Len(taken) = Len(submitted) => head = NULL /\ tail = NULL
    /\ Len(taken) < Len(submitted) =>
          /\ head = submitted[Len(taken) + 1]
          /\ tail = submitted[Len(submitted)]
          /\ next[tail] = NULL
    /\ \A i \in Len(taken) + 1 .. Len(submitted) - 1 :
          next[submitted[i]] = submitted[i + 1]

(* Every task_t is freed exactly once and never used afterwards: the nodes  *)
(* allocated are those in the queue, the one main() is adding and those a   *)
(* worker has taken and not yet freed (malloc in thread_pool_add_task, free *)
(* in worker), and no two workers ever have the same client.                *)
NodesOwnedOnce ==
    /\ live = Pending \cup ({fresh} \ {NULL})
                      \cup {task[w] : w \in {v \in Workers : pc[v] = "free"}}
    /\ \A v, w \in Workers : Busy(v) /\ task[v] = task[w] => v = w
    /\ \A w \in Workers : Busy(w) => task[w] \notin Pending \cup {fresh} \cup served

(* No wakeup is lost: while some worker sleeps in pthread_cond_wait there   *)
(* are at least as many workers on their way to the queue as there are      *)
(* clients in it, so one signal per client (thread_pool.c, line 109) is     *)
(* enough however the wakeups are stolen or spurious.                       *)
NoLostWakeup ==
    waiting # {} => Len(submitted) - Len(taken) <= Cardinality(Awake)

(* Shutdown leaves nothing behind: when the process exits, every client     *)
(* that was ever put in the queue, also after Ctrl+C woke the workers, has  *)
(* been served to its end.                                                  *)
AllServedAtStop == main = "stopped" => served = Range(submitted)

(* The pool implements its contract: clients are handed out in submission   *)
(* order, each once, and no worker quits before the queue is drained.       *)
Contract == INSTANCE TaskQueue WITH
    holds <- task, open <- running, quit <- {w \in Workers : pc[w] = "exit"}
QueueContract == Contract!Spec

(* A queued client is never forgotten while a worker is free to take it:    *)
(* again and again it has been taken, or every worker is with a client      *)
(* (thread_pool.h, lines 6-8: only when all are busy must a client wait).   *)
QueuedClientIsPickedUp ==
    \A c \in Clients :
        []<>(c \notin Pending \/ \A w \in Workers : Busy(w) \/ pc[w] = "exit")

(* If clients leave eventually, every client put in the queue is served,    *)
(* even when there are more clients than workers.                           *)
EveryClientServed ==
    ClientsLeave => \A c \in Clients : c \in Pending ~> c \in served

(* Ctrl+C, once clients leave, ends the server in an orderly way (main.c,   *)
(* lines 38-41): the handler gets the mutex, joins all workers and exits.   *)
ShutdownCompletes == ClientsLeave => (main = "shut_lock" ~> main = "stopped")
================================================================================
