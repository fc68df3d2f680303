--------------------------- MODULE ThreadPoolProofs ---------------------------
(* Proofs about ThreadPool, for any workers, clients and signal points. *)
EXTENDS ThreadPool, FiniteSetTheorems, TLAPS

(* The pool starts well-typed, and every step keeps it so. *)
LEMMA InitType == Init => TypeOK
  BY PoolAssumption DEF Init, TypeOK, Busy, WorkerPoints, MainPoints, HandlerPoints

(* Every step keeps the types. *)
LEMMA NextType == TypeOK /\ [Next]_vars => TypeOK'
<1> SUFFICES ASSUME TypeOK, [Next]_vars PROVE TypeOK'
  OBVIOUS
<1> USE PoolAssumption
    DEF TypeOK, Busy, WorkerPoints, MainPoints, HandlerPoints, list, history
<1>1. ASSUME NEW w \in Workers, WorkerLock(w) PROVE TypeOK'
  BY <1>1 DEF WorkerLock, Goto
<1>2. ASSUME NEW w \in Workers, WorkerRelock(w) PROVE TypeOK'
  BY <1>2 DEF WorkerRelock, Goto
<1>3. ASSUME NEW w \in Workers, WorkerWait(w) PROVE TypeOK'
  BY <1>3 DEF WorkerWait, Goto
<1>4. ASSUME NEW w \in Workers, SpuriousWakeup(w) PROVE TypeOK'
  BY <1>4 DEF SpuriousWakeup
<1>5. ASSUME NEW w \in Workers, WorkerExit(w) PROVE TypeOK'
  BY <1>5 DEF WorkerExit, Goto
<1>6. ASSUME NEW w \in Workers, WorkerTake(w) PROVE TypeOK'
  BY <1>6 DEF WorkerTake, Unlink, Goto
<1>7. ASSUME NEW w \in Workers, WorkerFree(w) PROVE TypeOK'
  BY <1>7 DEF WorkerFree, FreeTask, Goto
<1>8. ASSUME NEW w \in Workers, WorkerDone(w) PROVE TypeOK'
  BY <1>8 DEF WorkerDone, Goto
<1>9. ASSUME NEW c \in Clients, Accept(c) PROVE TypeOK'
  BY <1>9 DEF Accept, AllocTask
<1>10. CASE AddLock
  BY <1>10 DEF AddLock
<1>11. CASE AddLink
  BY <1>11 DEF AddLink, LinkAtTail, Signal
<1>12. CASE Sigint
  BY <1>12 DEF Sigint
<1>13. CASE ShutdownLock
  BY <1>13 DEF ShutdownLock
<1>14. CASE ShutdownBroadcast
  BY <1>14 DEF ShutdownBroadcast, Broadcast
<1>15. CASE ShutdownJoined
  BY <1>15 DEF ShutdownJoined
<1>16. CASE UNCHANGED vars
  BY <1>16 DEF vars
<1>17. QED
  BY <1>1, <1>2, <1>3, <1>4, <1>5, <1>6, <1>7, <1>8, <1>9, <1>10, <1>11, <1>12,
     <1>13, <1>14, <1>15, <1>16
  DEF Next, Locks, Bodies, MainLocks, MainBodies, Stopped

(* Every variable of the pool keeps its type, and a worker has a task, or   *)
(* main() a node, exactly while it is at work on it (thread_pool.c).        *)
THEOREM TypeCorrect == Spec => []TypeOK
  BY InitType, NextType, PTL DEF Spec

--------------------------------------------------------------------------------
(* The mutex: a worker owns it exactly inside its critical section, and     *)
(* main() inside its own, or in the signal handler that interrupted it.     *)
LockInv ==
    /\ \A w \in Workers : pc[w] = "check" <=> mutex = w
    /\ main \in {"add_link", "shut_body"} => mutex = Main
    /\ mutex = Main => main \in {"add_link", "shut_lock", "shut_body"}

(* Only a worker inside pthread_cond_wait waits. *)
WaitInv == \A w \in waiting : pc[w] = "wait"

(* No client is submitted twice, and the node being added is a new one that *)
(* ends the list.                                                           *)
FreshInv ==
    /\ \A i, j \in 1..Len(submitted) : submitted[i] = submitted[j] => i = j
    /\ \A i \in 1..Len(submitted) : submitted[i] # fresh
    /\ fresh # NULL => next[fresh] = NULL

(* The pool stops when the signal handler says so, and from then on nothing *)
(* is submitted; a worker leaves only a drained queue.                      *)
StopInv ==
    /\ ~running <=> main \in {"join", "stopped"}
    /\ ~running => waiting = {}
    /\ \A w \in Workers :
          pc[w] = "exit" => ~running /\ Len(taken) = Len(submitted)
    /\ main = "stopped" => \A w \in Workers : pc[w] = "exit"

ListInv == LockInv /\ WaitInv /\ FreshInv /\ QueueShape /\ StopInv

(* The two history sequences, seen as sets. *)
LEMMA RangeIs ==
  ASSUME TypeOK
  PROVE  /\ Range(submitted) = {submitted[i] : i \in 1..Len(submitted)}
         /\ Range(taken) = {taken[i] : i \in 1..Len(taken)}
  BY DEF TypeOK, Range

(* The empty list satisfies the invariant. *)
LEMMA InitList == Init => ListInv
  BY PoolAssumption
  DEF Init, ListInv, LockInv, WaitInv, FreshInv, QueueShape, StopInv, Range

(* Only the owner of the mutex is inside a critical section. *)
LEMMA NextLock == TypeOK /\ LockInv /\ [Next]_vars => LockInv'
<1> SUFFICES ASSUME TypeOK, LockInv, [Next]_vars PROVE LockInv'
  OBVIOUS
<1> USE PoolAssumption DEF TypeOK, LockInv
<1>1. ASSUME NEW w \in Workers, Locks(w) PROVE LockInv'
  BY <1>1 DEF Locks, WorkerLock, WorkerRelock, Goto
<1>2. ASSUME NEW w \in Workers, WorkerWait(w) PROVE LockInv'
  BY <1>2 DEF WorkerWait, Goto
<1>3. ASSUME NEW w \in Workers, WorkerExit(w) PROVE LockInv'
  BY <1>3 DEF WorkerExit, Goto
<1>4. ASSUME NEW w \in Workers, WorkerTake(w) PROVE LockInv'
  BY <1>4 DEF WorkerTake, Goto
<1>5. ASSUME NEW w \in Workers, WorkerFree(w) PROVE LockInv'
  BY <1>5 DEF WorkerFree, Goto
<1>6. ASSUME NEW w \in Workers, WorkerDone(w) PROVE LockInv'
  BY <1>6 DEF WorkerDone, Goto
<1>7. ASSUME NEW w \in Workers, SpuriousWakeup(w) PROVE LockInv'
  BY <1>7 DEF SpuriousWakeup
<1>8. ASSUME NEW c \in Clients, Accept(c) PROVE LockInv'
  BY <1>8 DEF Accept
<1>9. CASE MainLocks
  BY <1>9 DEF MainLocks, AddLock, ShutdownLock
<1>10. CASE MainBodies
  BY <1>10 DEF MainBodies, AddLink, ShutdownBroadcast, ShutdownJoined
<1>11. CASE Sigint
  BY <1>11 DEF Sigint, MainPoints
<1>12. CASE UNCHANGED vars
  BY <1>12 DEF vars
<1>13. QED
  BY <1>1, <1>2, <1>3, <1>4, <1>5, <1>6, <1>7, <1>8, <1>9, <1>10, <1>11, <1>12
  DEF Next, Bodies, Stopped

(* Workers in the wait set are where they wait. *)
LEMMA NextWait == TypeOK /\ WaitInv /\ [Next]_vars => WaitInv'
<1> SUFFICES ASSUME TypeOK, WaitInv, [Next]_vars PROVE WaitInv'
  OBVIOUS
<1> USE DEF TypeOK, WaitInv
<1>1. ASSUME NEW w \in Workers,
             Locks(w) \/ Bodies(w) \/ SpuriousWakeup(w) \/ WorkerDone(w)
      PROVE  WaitInv'
  BY <1>1 DEF Locks, WorkerLock, WorkerRelock, Bodies, WorkerWait, WorkerExit,
              WorkerTake, WorkerFree, SpuriousWakeup, WorkerDone, Goto
<1>2. CASE MainLocks \/ MainBodies \/ Sigint \/ UNCHANGED vars
  BY <1>2 DEF MainLocks, AddLock, ShutdownLock, MainBodies, AddLink, Signal,
              ShutdownBroadcast, Broadcast, ShutdownJoined, Sigint, vars
<1>3. ASSUME NEW c \in Clients, Accept(c) PROVE WaitInv'
  BY <1>3 DEF Accept
<1>4. QED
  BY <1>1, <1>2, <1>3 DEF Next, Stopped

(* The steps that touch neither the list nor the histories of its use. *)
Elsewhere ==
    \/ \E w \in Workers : \/ Locks(w) \/ WorkerWait(w) \/ WorkerExit(w)
                          \/ WorkerFree(w) \/ WorkerDone(w) \/ SpuriousWakeup(w)
    \/ MainLocks \/ ShutdownBroadcast \/ ShutdownJoined \/ Sigint
    \/ UNCHANGED vars

(* The steps, sorted by what they do to the list and to its owners. *)
LEMMA NextSplit ==
  ASSUME [Next]_vars
  PROVE  \/ \E w \in Workers : WorkerTake(w)
         \/ \E c \in Clients : Accept(c)
         \/ AddLink
         \/ Elsewhere
  BY DEF Next, Locks, Bodies, MainLocks, MainBodies, Stopped, Elsewhere

(* The other steps leave the list and the histories alone. *)
LEMMA ElsewhereKeeps ==
  ASSUME Elsewhere
  PROVE  UNCHANGED <<head, tail, next, fresh, submitted, taken>>
  BY DEF Elsewhere, Locks, WorkerLock, WorkerRelock, WorkerWait, WorkerExit,
         WorkerFree, WorkerDone, SpuriousWakeup, MainLocks, AddLock,
         ShutdownLock, ShutdownBroadcast, ShutdownJoined, Sigint, vars, list,
         history

(* Taking the first node, adding a node, allocating one: what happens to    *)
(* the list.                                                                *)
LEMMA NextShape ==
  ASSUME TypeOK, LockInv, FreshInv, QueueShape, [Next]_vars
  PROVE  QueueShape' /\ FreshInv'
<1> USE PoolAssumption
<1>1. ASSUME NEW w \in Workers, WorkerTake(w) PROVE QueueShape' /\ FreshInv'
  <2>1. Len(taken) < Len(submitted)
    BY <1>1 DEF WorkerTake, QueueShape, TypeOK
  <2>2. head = submitted[Len(taken) + 1] /\ tail = submitted[Len(submitted)]
        /\ next[tail] = NULL
    BY <2>1 DEF QueueShape
  <2>3. /\ taken' \in Seq(Clients) /\ Len(taken') = Len(taken) + 1
        /\ \A i \in 1..Len(taken) : taken'[i] = taken[i]
        /\ taken'[Len(taken) + 1] = head
    BY <1>1 DEF WorkerTake, TypeOK
  <2>4. UNCHANGED <<next, submitted, fresh>> /\ head' = next[head]
        /\ tail' = IF next[head] = NULL THEN NULL ELSE tail
    BY <1>1 DEF WorkerTake, Unlink
  <2>5. CASE Len(taken) + 1 = Len(submitted)
    <3>1. head' = NULL /\ tail' = NULL
      BY <2>2, <2>4, <2>5
    <3>2. QED
      BY <2>1, <2>2, <2>3, <2>4, <2>5, <3>1, SMTT(20) DEF QueueShape, FreshInv, TypeOK
  <2>6. CASE Len(taken) + 1 < Len(submitted)
    <3>1. next[head] = submitted[Len(taken) + 2]
      BY <2>2, <2>6 DEF QueueShape, TypeOK
    <3>2. next[head] # NULL
      BY <3>1, <2>6 DEF TypeOK
    <3>3. QED
      BY <2>1, <2>2, <2>3, <2>4, <2>6, <3>1, <3>2, SMTT(20) DEF QueueShape, FreshInv, TypeOK
  <2>7. QED
    BY <2>1, <2>5, <2>6 DEF TypeOK
<1>2. ASSUME NEW c \in Clients, Accept(c) PROVE QueueShape' /\ FreshInv'
  <2>1. \A i \in 1..Len(submitted) : submitted[i] # c
    BY <1>2, RangeIs DEF Accept, TypeOK
  <2>2. /\ UNCHANGED <<head, tail, submitted, taken>>
        /\ fresh' = c /\ next' = [next EXCEPT ![c] = NULL]
    BY <1>2 DEF Accept, AllocTask, history
  <2>3. FreshInv'
    BY <2>1, <2>2 DEF FreshInv, TypeOK
  <2>4. \A i \in 1..Len(submitted) : next'[submitted[i]] = next[submitted[i]]
    BY <2>1, <2>2 DEF TypeOK
  <2>5. ASSUME Len(taken) < Len(submitted)
        PROVE  Len(submitted) \in 1..Len(submitted)
    BY <2>5 DEF TypeOK
  <2>6. QueueShape'
    BY <2>2, <2>4, <2>5 DEF QueueShape, TypeOK
  <2>7. QED
    BY <2>3, <2>6
<1>3. CASE AddLink
  <2>1. fresh \in Clients /\ fresh # NULL /\ next[fresh] = NULL
    BY <1>3 DEF AddLink, TypeOK, FreshInv
  <2>2. /\ submitted' \in Seq(Clients) /\ Len(submitted') = Len(submitted) + 1
        /\ \A i \in 1..Len(submitted) : submitted'[i] = submitted[i]
        /\ submitted'[Len(submitted) + 1] = fresh
    BY <1>3, <2>1 DEF AddLink, TypeOK
  <2>3. tail' = fresh /\ fresh' = NULL /\ taken' = taken
    BY <1>3 DEF AddLink, LinkAtTail
  <2>4. FreshInv'
    BY <2>1, <2>2, <2>3, SMTT(60) DEF FreshInv, TypeOK
  <2>5. CASE Len(taken) = Len(submitted)
    <3>1. head' = fresh /\ next' = next
      BY <1>3, <2>5 DEF AddLink, LinkAtTail, QueueShape
    <3>2. QED
      BY <2>1, <2>2, <2>3, <2>4, <2>5, <3>1 DEF QueueShape, TypeOK
  <2>6. CASE Len(taken) < Len(submitted)
    <3>1. tail = submitted[Len(submitted)] /\ tail \in Clients
          /\ head = submitted[Len(taken) + 1]
      BY <2>6 DEF QueueShape, TypeOK
    <3>2. head' = head /\ next' = [next EXCEPT ![tail] = fresh]
      BY <1>3, <3>1 DEF AddLink, LinkAtTail
    <3>3. next'[fresh] = NULL
      BY <2>1, <3>1, <3>2, <2>6 DEF FreshInv, TypeOK
    <3>4. \A i \in Len(taken) + 1 .. Len(submitted) - 1 :
             next'[submitted[i]] = submitted[i + 1]
      BY <3>1, <3>2 DEF FreshInv, QueueShape, TypeOK
    <3>5. next'[submitted[Len(submitted)]] = fresh
      BY <3>1, <3>2 DEF TypeOK
    <3>6. \A i \in 1..Len(taken') : taken'[i] = submitted'[i]
      BY <2>2, <2>3, <2>6 DEF QueueShape, TypeOK
    <3>7. head' = submitted'[Len(taken') + 1] /\ tail' = submitted'[Len(submitted')]
      BY <2>2, <2>3, <2>6, <3>1, <3>2, SMTT(20) DEF TypeOK
    <3>8. \A i \in Len(taken') + 1 .. Len(submitted') - 1 :
             next'[submitted'[i]] = submitted'[i + 1]
      <4> SUFFICES ASSUME NEW i \in Len(taken) + 1 .. Len(submitted)
                   PROVE  next'[submitted'[i]] = submitted'[i + 1]
        BY <2>2, <2>3 DEF TypeOK
      <4>1. submitted'[i] = submitted[i]
        BY <2>2, <2>6 DEF TypeOK
      <4>2. CASE i = Len(submitted)
        BY <4>1, <4>2, <2>2, <3>5
      <4>3. CASE i < Len(submitted)
        <5>1. i \in Len(taken) + 1 .. Len(submitted) - 1 /\ i + 1 \in 1..Len(submitted)
          BY <4>3 DEF TypeOK
        <5>2. QED
          BY <5>1, <4>1, <2>2, <3>4
      <4>4. QED
        BY <4>2, <4>3 DEF TypeOK
    <3>9. QED
      BY <2>2, <2>3, <2>4, <2>6, <3>3, <3>6, <3>7, <3>8 DEF QueueShape, TypeOK
  <2>7. QED
    BY <2>5, <2>6 DEF QueueShape, TypeOK
<1>4. CASE Elsewhere
  BY <1>4, ElsewhereKeeps DEF QueueShape, FreshInv
<1>5. QED
  BY <1>1, <1>2, <1>3, <1>4, NextSplit

(* A worker leaves its loop only when the pool is stopped and drained. *)
LEMMA NextStop ==
  ASSUME TypeOK, LockInv, QueueShape, StopInv, [Next]_vars
  PROVE  StopInv'
<1> USE PoolAssumption DEF TypeOK, StopInv, list, history
<1>1. ASSUME NEW w \in Workers, WorkerTake(w) PROVE StopInv'
  BY <1>1 DEF WorkerTake, QueueShape, Goto
<1>2. ASSUME NEW w \in Workers, WorkerExit(w) PROVE StopInv'
  <2>1. Len(taken) = Len(submitted)
    BY <1>2 DEF WorkerExit, CanExit, QueueShape
  <2>2. QED
    BY <1>2, <2>1 DEF WorkerExit, CanExit, Goto
<1>3. ASSUME NEW w \in Workers,
             Locks(w) \/ WorkerWait(w) \/ WorkerFree(w) \/ WorkerDone(w)
               \/ SpuriousWakeup(w)
      PROVE  StopInv'
  BY <1>3 DEF Locks, WorkerLock, WorkerRelock, WorkerWait, WorkerFree, WorkerDone,
              SpuriousWakeup, Goto
<1>4. ASSUME NEW c \in Clients, Accept(c) PROVE StopInv'
  BY <1>4 DEF Accept
<1>5. CASE AddLink
  <2>1. running /\ \A w \in Workers : pc[w] # "exit"
    BY <1>5 DEF AddLink
  <2>2. QED
    BY <1>5, <2>1 DEF AddLink
<1>6. CASE MainLocks \/ ShutdownBroadcast \/ ShutdownJoined \/ Sigint
  BY <1>6 DEF MainLocks, AddLock, ShutdownLock, ShutdownBroadcast, Broadcast,
              ShutdownJoined, Sigint, MainPoints
<1>7. CASE UNCHANGED vars
  BY <1>7 DEF vars
<1>8. QED
  BY <1>1, <1>2, <1>3, <1>4, <1>5, <1>6, <1>7, NextSplit DEF Elsewhere

(* QueueShape is inductive only together with the owner of the mutex, the   *)
(* freshness of the node being added, and the shutdown order.               *)
LEMMA ListInvariant == Spec => []ListInv
<1>1. TypeOK /\ ListInv /\ [Next]_vars => ListInv'
  BY NextLock, NextWait, NextShape, NextStop DEF ListInv
<1>2. QED
  BY InitList, <1>1, TypeCorrect, PTL DEF Spec

(* The linked list between queue_head and queue_tail is exactly the clients *)
(* that were added and not yet taken, in order (thread_pool.c, lines 45-49  *)
(* and 100-106).                                                            *)
THEOREM QueueSafe == Spec => []QueueShape
<1>1. ListInv => QueueShape
  BY DEF ListInv
<1>2. QED
  BY ListInvariant, <1>1, PTL

--------------------------------------------------------------------------------
(* Who has which client: those taken are served or with exactly one worker. *)
TakenSet == {taken[i] : i \in 1..Len(taken)}
OwnInv ==
    /\ TakenSet = served \cup {task[w] : w \in {v \in Workers : Busy(v)}}
    /\ \A w \in Workers : Busy(w) => task[w] \notin served
    /\ \A v, w \in Workers : Busy(v) /\ task[v] = task[w] => v = w
    /\ live = Pending \cup ({fresh} \ {NULL})
                      \cup {task[w] : w \in {v \in Workers : pc[v] = "free"}}

(* What is pending has not been taken and is not being added. *)
LEMMA Apart ==
  ASSUME TypeOK, ListInv
  PROVE  /\ \A c \in Pending : c \notin TakenSet /\ c # fresh /\ c \in Clients
         /\ \A c \in TakenSet : c # fresh /\ c \in Clients
<1>1. \A i \in 1..Len(taken) : taken[i] = submitted[i] /\ i \in 1..Len(submitted)
  BY DEF TypeOK, ListInv, QueueShape
<1>2. \A i \in Len(taken) + 1 .. Len(submitted) : i \in 1..Len(submitted)
  BY DEF TypeOK
<1>3. \A i \in 1..Len(submitted) : submitted[i] \in Clients /\ submitted[i] # fresh
  BY DEF TypeOK, ListInv, FreshInv
<1>4. \A i \in 1..Len(taken), j \in Len(taken) + 1 .. Len(submitted) : taken[i] # submitted[j]
  <2> SUFFICES ASSUME NEW i \in 1..Len(taken),
                      NEW j \in Len(taken) + 1 .. Len(submitted)
               PROVE  submitted[i] # submitted[j]
    BY <1>1
  <2>1. i # j /\ i \in 1..Len(submitted) /\ j \in 1..Len(submitted)
    BY <1>1, <1>2 DEF TypeOK
  <2>2. QED
    BY <2>1 DEF ListInv, FreshInv
<1>5. QED
  BY <1>1, <1>2, <1>3, <1>4 DEF Pending, TakenSet

(* At the start nobody owns a node. *)
LEMMA InitOwn == Init => OwnInv
  BY DEF Init, OwnInv, TakenSet, Pending, Busy

(* A taken client leaves the queue for its worker. *)
LEMMA TakeMoves ==
  ASSUME TypeOK, ListInv, NEW w \in Workers, WorkerTake(w)
  PROVE  /\ Len(taken) < Len(submitted)
         /\ head = submitted[Len(taken) + 1]
         /\ head \in Pending
         /\ TakenSet' = TakenSet \cup {head}
         /\ Pending' = Pending \ {head}
<1>1. Len(taken) < Len(submitted)
  BY DEF WorkerTake, ListInv, QueueShape, TypeOK
<1>2. head = submitted[Len(taken) + 1] /\ head \in Clients
  BY <1>1 DEF ListInv, QueueShape, TypeOK
<1>3. submitted' = submitted /\ taken' = Append(taken, head)
  BY DEF WorkerTake
<1>4. TakenSet' = TakenSet \cup {head}
  <2>1. /\ Len(taken') = Len(taken) + 1 /\ taken'[Len(taken) + 1] = head
        /\ \A i \in 1..Len(taken) : taken'[i] = taken[i]
    BY <1>2, <1>3 DEF TypeOK
  <2>2. 1..Len(taken') = (1..Len(taken)) \cup {Len(taken) + 1}
    BY <2>1 DEF TypeOK
  <2>3. QED
    BY <2>1, <2>2 DEF TakenSet
<1>5. \A i \in Len(taken) + 2 .. Len(submitted) : submitted[i] # head
  BY <1>1, <1>2 DEF ListInv, FreshInv, TypeOK
<1>6. Pending' = {submitted[i] : i \in Len(taken) + 2 .. Len(submitted)}
  BY <1>2, <1>3 DEF Pending, TypeOK
<1>7. Len(taken) + 1 .. Len(submitted)
        = {Len(taken) + 1} \cup (Len(taken) + 2 .. Len(submitted))
  BY <1>1 DEF TypeOK
<1>8. Pending = {head} \cup Pending'
  BY <1>2, <1>6, <1>7 DEF Pending
<1>9. QED
  BY <1>1, <1>2, <1>4, <1>5, <1>6, <1>8

(* An added client joins the queue. *)
LEMMA AddGrows ==
  ASSUME TypeOK, ListInv, AddLink
  PROVE  Pending' = Pending \cup {fresh}
<1>1. /\ fresh \in Clients /\ taken' = taken /\ submitted' = Append(submitted, fresh)
      /\ Len(taken) <= Len(submitted)
  BY DEF AddLink, TypeOK, ListInv, QueueShape
<1>2. /\ Len(submitted') = Len(submitted) + 1
      /\ submitted'[Len(submitted) + 1] = fresh
      /\ \A i \in 1..Len(submitted) : submitted'[i] = submitted[i]
  BY <1>1 DEF TypeOK
<1>3. QED
  BY <1>1, <1>2 DEF Pending, TypeOK

(* Every step keeps one owner for every node. *)
LEMMA NextOwn ==
  ASSUME TypeOK, ListInv, OwnInv, [Next]_vars
  PROVE  OwnInv'
<1> USE PoolAssumption
<1>0. TypeOK'
  BY NextType
<1>1. ASSUME NEW w \in Workers, WorkerTake(w) PROVE OwnInv'
  <2>1. /\ pc[w] = "check" /\ ~Busy(w) /\ Busy(w)'
        /\ pc' = [pc EXCEPT ![w] = "free"] /\ task' = [task EXCEPT ![w] = head]
        /\ UNCHANGED <<served, live, fresh>>
    BY <1>1 DEF WorkerTake, Goto, Busy, TypeOK
  <2>2. head \in Clients /\ head \notin TakenSet
    BY <1>1, TakeMoves, Apart
  <2>3. \A v \in Workers : v # w => /\ Busy(v)' <=> Busy(v)
                                   /\ task'[v] = task[v] /\ pc'[v] = pc[v]
    BY <2>1 DEF Busy, TypeOK
  <2>4. task'[w] = head /\ pc'[w] = "free"
    BY <2>1 DEF TypeOK
  <2>5. TakenSet' = served' \cup {task'[v] : v \in {u \in Workers : Busy(u)'}}
    BY <1>1, TakeMoves, <2>1, <2>3, <2>4 DEF OwnInv
  <2>6. /\ \A v \in Workers : Busy(v)' => task'[v] \notin served'
        /\ \A v, u \in Workers : Busy(v)' /\ task'[v] = task'[u] => v = u
    <3>1. \A v \in Workers : Busy(v) => task[v] \in TakenSet
      BY DEF OwnInv
    <3>2. head \notin served
      BY <2>2 DEF OwnInv
    <3>3. \A v \in Workers : ~Busy(v) => task[v] = NULL
      BY DEF TypeOK
    <3>4. QED
      BY <2>1, <2>2, <2>3, <2>4, <3>1, <3>2, <3>3 DEF OwnInv
  <2>7. live' = Pending' \cup ({fresh'} \ {NULL})
                  \cup {task'[v] : v \in {u \in Workers : pc'[u] = "free"}}
    BY <1>1, TakeMoves, <2>1, <2>3, <2>4 DEF OwnInv
  <2>8. QED
    BY <2>5, <2>6, <2>7 DEF OwnInv, Busy
<1>2. ASSUME NEW w \in Workers, WorkerFree(w) PROVE OwnInv'
  <2>1. /\ pc[w] = "free" /\ pc' = [pc EXCEPT ![w] = "handle"]
        /\ live' = live \ {task[w]}
        /\ UNCHANGED <<task, served, fresh, submitted, taken>>
    BY <1>2 DEF WorkerFree, FreeTask, Goto, history
  <2>2. \A v \in Workers : Busy(v)' <=> Busy(v)
    BY <2>1 DEF Busy, TypeOK
  <2>3. UNCHANGED <<TakenSet, Pending>>
    BY <2>1 DEF TakenSet, Pending
  <2>4. task[w] \in TakenSet
    BY <2>1 DEF OwnInv, Busy
  <2>5. \A v \in Workers : pc'[v] = "free" <=> pc[v] = "free" /\ v # w
    BY <2>1 DEF TypeOK
  <2>6. \A v \in Workers : pc[v] = "free" /\ v # w => task[v] # task[w]
    BY <2>1 DEF OwnInv, Busy
  <2>7. live' = Pending' \cup ({fresh'} \ {NULL})
                  \cup {task'[v] : v \in {u \in Workers : pc'[u] = "free"}}
    BY <2>1, <2>3, <2>4, <2>5, <2>6, Apart DEF OwnInv
  <2>8. QED
    BY <2>1, <2>2, <2>3, <2>7 DEF OwnInv
<1>3. ASSUME NEW w \in Workers, WorkerDone(w) PROVE OwnInv'
  <2>1. /\ pc[w] = "handle" /\ Busy(w) /\ ~Busy(w)'
        /\ pc' = [pc EXCEPT ![w] = "lock"] /\ task' = [task EXCEPT ![w] = NULL]
        /\ served' = served \cup {task[w]}
        /\ UNCHANGED <<live, fresh, submitted, taken>>
    BY <1>3 DEF WorkerDone, Goto, Busy, TypeOK
  <2>2. \A v \in Workers : v # w => /\ Busy(v)' <=> Busy(v)
                                   /\ task'[v] = task[v] /\ pc'[v] = pc[v]
    BY <2>1 DEF Busy, TypeOK
  <2>3. UNCHANGED <<TakenSet, Pending>> /\ task'[w] = NULL /\ pc'[w] = "lock"
    BY <2>1 DEF TakenSet, Pending, TypeOK
  <2>4. TakenSet' = served' \cup {task'[v] : v \in {u \in Workers : Busy(u)'}}
    BY <2>1, <2>2, <2>3 DEF OwnInv
  <2>5. /\ \A v \in Workers : Busy(v)' => task'[v] \notin served'
        /\ \A v, u \in Workers : Busy(v)' /\ task'[v] = task'[u] => v = u
    <3>1. \A v \in Workers : v # w /\ Busy(v) => task[v] # NULL /\ task[v] # task[w]
      BY <2>1 DEF TypeOK, OwnInv
    <3>2. QED
      BY <2>1, <2>2, <2>3, <3>1 DEF OwnInv
  <2>6. live' = Pending' \cup ({fresh'} \ {NULL})
                  \cup {task'[v] : v \in {u \in Workers : pc'[u] = "free"}}
    BY <2>1, <2>2, <2>3 DEF OwnInv
  <2>7. QED
    BY <2>4, <2>5, <2>6 DEF OwnInv, Busy
<1>4. ASSUME NEW w \in Workers,
             Locks(w) \/ WorkerWait(w) \/ WorkerExit(w) \/ SpuriousWakeup(w)
      PROVE  OwnInv'
  <2>1. UNCHANGED <<task, served, live, fresh, submitted, taken>>
    BY <1>4 DEF Locks, WorkerLock, WorkerRelock, WorkerWait, WorkerExit,
                SpuriousWakeup, history
  <2>2. \A v \in Workers : (Busy(v)' <=> Busy(v)) /\ (pc'[v] = "free" <=> pc[v] = "free")
    BY <1>4 DEF Locks, WorkerLock, WorkerRelock, WorkerWait, WorkerExit,
                SpuriousWakeup, Goto, Busy, TypeOK
  <2>3. QED
    BY <2>1, <2>2 DEF OwnInv, TakenSet, Pending
<1>5. ASSUME NEW c \in Clients, Accept(c) PROVE OwnInv'
  <2>1. /\ fresh = NULL /\ fresh' = c /\ c # NULL /\ live' = live \cup {c}
        /\ UNCHANGED <<pc, task, served, submitted, taken>>
    BY <1>5 DEF Accept, AllocTask, history, TypeOK
  <2>2. QED
    BY <2>1 DEF OwnInv, TakenSet, Pending, Busy
<1>6. CASE AddLink
  <2>1. /\ fresh # NULL /\ fresh' = NULL
        /\ UNCHANGED <<pc, task, served, live, taken>>
    BY <1>6 DEF AddLink, TypeOK
  <2>2. QED
    BY <1>6, AddGrows, <2>1 DEF OwnInv, TakenSet, Busy
<1>7. CASE MainLocks \/ ShutdownBroadcast \/ ShutdownJoined \/ Sigint \/ UNCHANGED vars
  <2>1. UNCHANGED <<pc, task, served, live, fresh, submitted, taken>>
    BY <1>7 DEF MainLocks, AddLock, ShutdownLock, ShutdownBroadcast,
                ShutdownJoined, Sigint, vars, history
  <2>2. QED
    BY <2>1 DEF OwnInv, TakenSet, Pending, Busy
<1>8. QED
  BY <1>1, <1>2, <1>3, <1>4, <1>5, <1>6, <1>7, NextSplit DEF Elsewhere

(* Nodes have one owner at all times. *)
LEMMA OwnInvariant == Spec => []OwnInv
<1>1. QED
  BY InitOwn, NextOwn, TypeCorrect, ListInvariant, PTL DEF Spec

(* Every task_t has one owner, is freed once and not used again.            *)
THEOREM NodesSafe == Spec => []NodesOwnedOnce
<1>1. TypeOK /\ ListInv /\ OwnInv => NodesOwnedOnce
  BY Apart DEF OwnInv, NodesOwnedOnce, TakenSet
<1>2. QED
  BY <1>1, TypeCorrect, ListInvariant, OwnInvariant, PTL

(* When the process exits, every client that was submitted has been served. *)
THEOREM StopSafe == Spec => []AllServedAtStop
<1>1. ASSUME TypeOK, ListInv, OwnInv PROVE AllServedAtStop
  <2> SUFFICES ASSUME main = "stopped" PROVE served = Range(submitted)
    BY DEF AllServedAtStop
  <2>1. \A w \in Workers : pc[w] = "exit"
    BY <1>1 DEF ListInv, StopInv
  <2>2. Len(taken) = Len(submitted)
    BY <1>1, <2>1, PoolAssumption DEF ListInv, StopInv
  <2>3. TakenSet = served
    BY <1>1, <2>1 DEF OwnInv, Busy
  <2>4. TakenSet = Range(submitted)
    BY <1>1, <2>2, RangeIs DEF TakenSet, ListInv, QueueShape, TypeOK
  <2>5. QED
    BY <2>3, <2>4
<1>2. QED
  BY <1>1, TypeCorrect, ListInvariant, OwnInvariant, PTL

--------------------------------------------------------------------------------
(* One more or one less awake worker. *)
LEMMA AwakeSize ==
  ASSUME TypeOK
  PROVE  /\ IsFiniteSet(Awake) /\ Cardinality(Awake) \in Nat
         /\ \A w \in Workers \ Awake : Cardinality(Awake \cup {w}) = Cardinality(Awake) + 1
         /\ \A w \in Awake : Cardinality(Awake \ {w}) = Cardinality(Awake) - 1
<1>1. IsFiniteSet(Awake)
  BY PoolAssumption, FS_Subset DEF Awake
<1>2. QED
  BY <1>1, FS_CardinalityType, FS_AddElement, FS_RemoveElement DEF Awake

(* More workers awake is a larger number. *)
LEMMA AwakeMore ==
  ASSUME TypeOK, TypeOK', Awake \subseteq Awake'
  PROVE  Cardinality(Awake) <= Cardinality(Awake')
<1>1. IsFiniteSet(Awake')
  BY PoolAssumption, FS_Subset DEF Awake
<1>2. QED
  BY <1>1, FS_Subset

(* Every step keeps enough workers awake for the clients in the queue. *)
LEMMA NextWakeup ==
  ASSUME TypeOK, ListInv, NoLostWakeup, [Next]_vars
  PROVE  NoLostWakeup'
<1> USE PoolAssumption
<1>0. TypeOK' /\ ListInv'
  BY NextType, NextLock, NextWait, NextShape, NextStop DEF ListInv
<1>1. ASSUME NEW w \in Workers, WorkerTake(w) PROVE NoLostWakeup'
  <2>1. /\ w \in Awake /\ waiting' = waiting /\ submitted' = submitted
        /\ Len(taken') = Len(taken) + 1
    BY <1>1 DEF WorkerTake, Awake, TypeOK
  <2>2. Awake' = Awake \ {w}
    BY <1>1 DEF WorkerTake, Goto, Awake, TypeOK
  <2>3. QED
    BY <2>1, <2>2, AwakeSize DEF NoLostWakeup, TypeOK
<1>2. ASSUME NEW w \in Workers, WorkerExit(w) PROVE NoLostWakeup'
  BY <1>2 DEF WorkerExit, CanExit, ListInv, StopInv, NoLostWakeup
<1>3. ASSUME NEW w \in Workers, WorkerWait(w) PROVE NoLostWakeup'
  <2>1. Len(taken') = Len(taken) /\ Len(submitted') = Len(submitted)
    BY <1>3 DEF WorkerWait, history
  <2>2. Len(taken) = Len(submitted)
    BY <1>3 DEF WorkerWait, ListInv, QueueShape, TypeOK
  <2>3. Cardinality(Awake') \in Nat
    BY <1>0, FS_Subset, FS_CardinalityType DEF Awake
  <2>4. QED
    BY <2>1, <2>2, <2>3 DEF NoLostWakeup, TypeOK
<1>4. ASSUME NEW w \in Workers,
             Locks(w) \/ WorkerFree(w) \/ WorkerDone(w) \/ SpuriousWakeup(w)
      PROVE  NoLostWakeup'
  <2>1. UNCHANGED <<submitted, taken>> /\ waiting' \subseteq waiting
    BY <1>4 DEF Locks, WorkerLock, WorkerRelock, WorkerFree, WorkerDone,
                SpuriousWakeup, history
  <2>2. Awake \subseteq Awake'
    BY <1>4 DEF Locks, WorkerLock, WorkerRelock, WorkerFree, WorkerDone,
                SpuriousWakeup, Goto, Awake, TypeOK
  <2>3. Cardinality(Awake) <= Cardinality(Awake')
    BY <1>0, <2>2, AwakeMore
  <2>4. Cardinality(Awake) \in Nat /\ Cardinality(Awake') \in Nat
    BY <1>0, FS_Subset, FS_CardinalityType DEF Awake
  <2>5. QED
    BY <2>1, <2>3, <2>4 DEF NoLostWakeup, TypeOK
<1>5. CASE AddLink
  <2>1. CASE waiting = {}
    BY <1>5, <2>1 DEF AddLink, Signal, NoLostWakeup
  <2>2. CASE waiting # {}
    <3>1. PICK w \in waiting : waiting' = waiting \ {w}
      BY <1>5, <2>2 DEF AddLink, Signal
    <3>2. w \in Workers \ Awake /\ Awake' = Awake \cup {w}
      BY <1>5, <3>1 DEF AddLink, Awake, ListInv, WaitInv, TypeOK
    <3>3. Len(taken') = Len(taken) /\ Len(submitted') = Len(submitted) + 1
      BY <1>5 DEF AddLink, TypeOK
    <3>4. QED
      BY <2>2, <3>2, <3>3, AwakeSize DEF NoLostWakeup, TypeOK
  <2>3. QED
    BY <2>1, <2>2
<1>6. CASE ShutdownBroadcast
  BY <1>6 DEF ShutdownBroadcast, Broadcast, NoLostWakeup
<1>7. ASSUME MainLocks \/ ShutdownJoined \/ Sigint \/ UNCHANGED vars
               \/ \E c \in Clients : Accept(c)
      PROVE  NoLostWakeup'
  <2>1. UNCHANGED <<waiting, pc, submitted, taken>>
    BY <1>7 DEF MainLocks, AddLock, ShutdownLock, ShutdownJoined, Sigint, Accept,
                vars, history
  <2>2. QED
    BY <2>1 DEF NoLostWakeup, Awake
<1>8. QED
  BY <1>1, <1>2, <1>3, <1>4, <1>5, <1>6, <1>7, NextSplit DEF Elsewhere

(* No wakeup is ever lost, however many workers and clients there are.      *)
THEOREM WakeupSafe == Spec => []NoLostWakeup
<1>1. Init => NoLostWakeup
  BY DEF Init, NoLostWakeup
<1>2. QED
  BY <1>1, NextWakeup, TypeCorrect, ListInvariant, PTL DEF Spec

--------------------------------------------------------------------------------
(* The pool starts as its contract does. *)
LEMMA InitContract == Init => Contract!Init
  BY PoolAssumption DEF Init, Contract!Init

(* Every step of the pool is a step of the contract, or none at all. *)
LEMMA NextContract ==
  ASSUME TypeOK, ListInv, [Next]_vars
  PROVE  [Contract!Next]_(Contract!vars)
<1> DEFINE quit == {w \in Workers : pc[w] = "exit"}
<1> USE PoolAssumption
<1>1. ASSUME NEW w \in Workers, WorkerTake(w) PROVE Contract!Take(w)
  <2>1. /\ pc[w] = "check" /\ pc' = [pc EXCEPT ![w] = "free"]
        /\ task' = [task EXCEPT ![w] = head] /\ taken' = Append(taken, head)
        /\ UNCHANGED <<submitted, running>>
    BY <1>1 DEF WorkerTake, Goto
  <2>2. task[w] = NULL /\ w \notin quit /\ quit' = quit
    BY <2>1 DEF TypeOK, Busy
  <2>3. QED
    BY <1>1, TakeMoves, <2>1, <2>2 DEF Contract!Take
<1>2. ASSUME NEW w \in Workers, WorkerDone(w) PROVE Contract!Finish(w)
  <2>1. /\ pc[w] = "handle" /\ pc' = [pc EXCEPT ![w] = "lock"]
        /\ task' = [task EXCEPT ![w] = NULL]
        /\ UNCHANGED <<submitted, taken, running>>
    BY <1>2 DEF WorkerDone, Goto
  <2>2. task[w] # NULL /\ quit' = quit
    BY <2>1 DEF TypeOK, Busy
  <2>3. QED
    BY <2>1, <2>2 DEF Contract!Finish
<1>3. ASSUME NEW w \in Workers, WorkerExit(w) PROVE Contract!Quit(w)
  <2>1. /\ pc[w] = "check" /\ pc' = [pc EXCEPT ![w] = "exit"]
        /\ ~running /\ head = NULL
        /\ UNCHANGED <<submitted, taken, running, task>>
    BY <1>3 DEF WorkerExit, CanExit, Goto, history
  <2>2. task[w] = NULL /\ quit' = quit \cup {w}
    BY <2>1 DEF TypeOK, Busy
  <2>3. Len(taken) = Len(submitted)
    BY <2>1 DEF ListInv, QueueShape, TypeOK
  <2>4. QED
    BY <2>1, <2>2, <2>3 DEF Contract!Quit
<1>4. CASE AddLink
  <2>1. /\ mutex = Main /\ main = "add_link" /\ running
    BY <1>4 DEF AddLink, ListInv, LockInv, StopInv
  <2>2. fresh \in Clients /\ fresh \notin Range(submitted)
    BY <1>4, RangeIs DEF AddLink, ListInv, FreshInv, TypeOK
  <2>3. Contract!Submit(fresh)
    BY <1>4, <2>1, <2>2 DEF AddLink, Contract!Submit, Contract!Range, Range
  <2>4. QED
    BY <2>2, <2>3 DEF Contract!Next
<1>5. CASE ShutdownBroadcast
  <2>1. running
    BY <1>5 DEF ShutdownBroadcast, ListInv, StopInv
  <2>2. Contract!Close
    BY <1>5, <2>1 DEF ShutdownBroadcast, history, Contract!Close
  <2>3. QED
    BY <2>2 DEF Contract!Next
<1>6. ASSUME NEW w \in Workers,
             Locks(w) \/ WorkerWait(w) \/ WorkerFree(w) \/ SpuriousWakeup(w)
      PROVE  UNCHANGED Contract!vars
  <2>1. UNCHANGED <<submitted, taken, task, running>>
    BY <1>6 DEF Locks, WorkerLock, WorkerRelock, WorkerWait, WorkerFree,
                SpuriousWakeup, history
  <2>2. quit' = quit
    BY <1>6 DEF Locks, WorkerLock, WorkerRelock, WorkerWait, WorkerFree,
                SpuriousWakeup, Goto, TypeOK
  <2>3. QED
    BY <2>1, <2>2 DEF Contract!vars
<1>7. ASSUME MainLocks \/ ShutdownJoined \/ Sigint \/ UNCHANGED vars
               \/ \E c \in Clients : Accept(c)
      PROVE  UNCHANGED Contract!vars
  BY <1>7 DEF MainLocks, AddLock, ShutdownLock, ShutdownJoined, Sigint, Accept,
              vars, history, Contract!vars
<1>8. QED
  BY <1>1, <1>2, <1>3, <1>4, <1>5, <1>6, <1>7, NextSplit DEF Elsewhere, Contract!Next

(* The linked list, mutex and condition variable implement the contract.    *)
THEOREM PoolImplementsContract == Spec => QueueContract
  BY InitContract, NextContract, TypeCorrect, ListInvariant, PTL
  DEF Spec, QueueContract, Contract!Spec
================================================================================
