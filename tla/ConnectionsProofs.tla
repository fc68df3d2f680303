--------------------------- MODULE ConnectionsProofs ---------------------------
(* Proofs about Connections, for any workers, clients and descriptors.      *)
EXTENDS Connections, TLAPS

(* The server starts without connections. *)
LEMMA InitConn == Init => ConnTypeOK
  BY ConnAssumption DEF Init, Queue!Init, ConnTypeOK, Stages

(* Every step keeps the types. *)
LEMMA NextConn == ConnTypeOK /\ [Next]_vars => ConnTypeOK'
<1> SUFFICES ASSUME ConnTypeOK, [Next]_vars PROVE ConnTypeOK'
  OBVIOUS
<1> USE ConnAssumption DEF ConnTypeOK, Stages, Goto, CloseFd, queue
<1>1. ASSUME NEW c \in Clients, Accept(c) PROVE ConnTypeOK'
  BY <1>1 DEF Accept
<1>2. CASE AddTask
  BY <1>2 DEF AddTask, Queue!Submit
<1>3. ASSUME NEW w \in Workers, Take(w) PROVE ConnTypeOK'
  <2>1. submitted[Len(taken) + 1] \in Clients
    BY <1>3 DEF Take, Queue!Take
  <2>2. QED
    BY <1>3, <2>1 DEF Take, Queue!Take
<1>4. ASSUME NEW w \in Workers, Greet(w) \/ Refuse(w) \/ LoopEnds(w) PROVE ConnTypeOK'
  BY <1>4 DEF Greet, Refuse, LoopEnds, LeaveOpen
<1>5. ASSUME NEW w \in Workers, CloseClient(w) PROVE ConnTypeOK'
  BY <1>5 DEF CloseClient, Returned, CloseAfter, Queue!Finish
<1>6. ASSUME NEW w \in Workers, WorkerQuits(w) PROVE ConnTypeOK'
  BY <1>6 DEF WorkerQuits, Queue!Quit
<1>7. CASE Interrupt
  BY <1>7 DEF Interrupt, Queue!Close
<1>8. CASE UNCHANGED vars
  BY <1>8 DEF vars
<1>9. QED
  BY <1>1, <1>2, <1>3, <1>4, <1>5, <1>6, <1>7, <1>8 DEF Next

(* Every variable keeps its type, and a worker is idle exactly when it has  *)
(* no client.                                                               *)
THEOREM ConnTypeCorrect == Spec => []ConnTypeOK
  BY InitConn, NextConn, PTL DEF Spec

--------------------------------------------------------------------------------
(* What the queue does to the clients that wait in it. *)
TakenOfSubmitted == Len(taken) <= Len(submitted)

(* Adding a client makes it wait in the queue. *)
LEMMA SubmitPending ==
  ASSUME ConnTypeOK, TakenOfSubmitted, AddTask
  PROVE  Pending' = Pending \cup {adding} /\ TakenOfSubmitted'
<1>1. /\ adding \in Clients /\ taken' = taken
      /\ submitted' = Append(submitted, adding)
  BY DEF AddTask, Queue!Submit, ConnTypeOK
<1>2. /\ Len(submitted') = Len(submitted) + 1
      /\ submitted'[Len(submitted) + 1] = adding
      /\ \A i \in 1..Len(submitted) : submitted'[i] = submitted[i]
  BY <1>1 DEF ConnTypeOK
<1>3. QED
  BY <1>1, <1>2 DEF ConnTypeOK, TakenOfSubmitted, Pending

(* Taking one makes it the worker's. *)
LEMMA TakePending ==
  ASSUME ConnTypeOK, TakenOfSubmitted, NEW w \in Workers, Take(w)
  PROVE  /\ \E c \in Pending :
               /\ holds' = [holds EXCEPT ![w] = c]
               /\ Pending \subseteq Pending' \cup {c}
         /\ Pending' \subseteq Pending
         /\ TakenOfSubmitted'
<1> DEFINE c == submitted[Len(taken) + 1]
<1>1. /\ Len(taken) < Len(submitted) /\ submitted' = submitted
      /\ taken' = Append(taken, c) /\ holds' = [holds EXCEPT ![w] = c]
  BY DEF Take, Queue!Take
<1>2. c \in Clients /\ c \in Pending
  <2>1. Len(taken) + 1 \in Len(taken) + 1 .. Len(submitted)
    BY <1>1 DEF ConnTypeOK
  <2>2. QED
    BY <2>1 DEF ConnTypeOK, Pending
<1>3. Len(taken') = Len(taken) + 1
  BY <1>1, <1>2 DEF ConnTypeOK
<1>4. Pending' = {submitted[i] : i \in Len(taken) + 2 .. Len(submitted)}
  BY <1>1, <1>3 DEF ConnTypeOK, Pending
<1>5. Len(taken) + 1 .. Len(submitted)
        = {Len(taken) + 1} \cup (Len(taken) + 2 .. Len(submitted))
  BY <1>1 DEF ConnTypeOK
<1>6. Pending = Pending' \cup {c}
  BY <1>4, <1>5 DEF Pending
<1>7. TakenOfSubmitted'
  BY <1>1, <1>3 DEF ConnTypeOK, TakenOfSubmitted
<1> HIDE DEF c
<1>8. QED
  BY <1>1, <1>2, <1>6, <1>7

(* OpenIsOwned is inductive with the types and the order of the queue: each *)
(* step hands the client on, and the close() that ends its way is the one   *)
(* of its own number, since fdOf of an open descriptor's client is that     *)
(* descriptor.                                                              *)
OwnedInv == TakenOfSubmitted /\ OpenIsOwned

(* Every step keeps an owner for every open descriptor. *)
LEMMA NextOwned ==
  ASSUME ConnTypeOK, OwnedInv, [Next]_vars
  PROVE  OwnedInv'
<1> USE ConnAssumption DEF OwnedInv
<1>0. ConnTypeOK'
  BY NextConn
<1>1. ASSUME NEW c \in Clients, Accept(c) PROVE OwnedInv'
  <2>1. PICK f \in Fds : /\ desc[f] = NULL /\ fdOf[c] = NULL
                         /\ desc' = [desc EXCEPT ![f] = c]
                         /\ fdOf' = [fdOf EXCEPT ![c] = f]
    BY <1>1 DEF Accept
  <2>2. /\ adding = NULL /\ adding' = c
        /\ UNCHANGED <<submitted, taken, holds, stage>>
    BY <1>1 DEF Accept, queue
  <2>3. UNCHANGED Pending /\ TakenOfSubmitted'
    BY <2>2 DEF Pending, TakenOfSubmitted
  <2>4. QED
    BY <2>1, <2>2, <2>3 DEF OpenIsOwned, Held, ConnTypeOK
<1>2. CASE AddTask
  <2>1. UNCHANGED <<desc, fdOf, holds, stage>>
    BY <1>2 DEF AddTask, Queue!Submit
  <2>2. QED
    BY <1>2, <2>1, SubmitPending DEF OpenIsOwned, Held, ConnTypeOK
<1>3. ASSUME NEW w \in Workers, Take(w) PROVE OwnedInv'
  <2>1. PICK c \in Pending : /\ holds' = [holds EXCEPT ![w] = c]
                             /\ Pending \subseteq Pending' \cup {c}
    BY <1>3, TakePending
  <2>2. /\ UNCHANGED <<desc, fdOf, adding>> /\ holds[w] = NULL
        /\ stage' = [stage EXCEPT ![w] = "hello"]
    BY <1>3 DEF Take, Queue!Take, Goto
  <2>3. holds'[w] = c /\ stage'[w] = "hello"
    BY <2>1, <2>2 DEF ConnTypeOK
  <2>4. \A v \in Workers : v # w => holds'[v] = holds[v] /\ stage'[v] = stage[v]
    BY <2>1, <2>2 DEF ConnTypeOK
  <2>5. \A d \in Clients : Held(d, {"hello", "serve", "finish"})
                             => Held(d, {"hello", "serve", "finish"})'
    BY <2>2, <2>4 DEF Held
  <2>6. QED
    BY <1>3, TakePending, <2>1, <2>2, <2>3, <2>5 DEF OpenIsOwned, Held, ConnTypeOK
<1>4. ASSUME NEW w \in Workers, Greet(w) \/ LoopEnds(w) PROVE OwnedInv'
  <2>1. /\ UNCHANGED <<desc, fdOf, adding, holds, submitted, taken>>
        /\ stage[w] \in {"hello", "serve", "finish"}
        /\ \E s \in {"serve", "finish"} : stage' = [stage EXCEPT ![w] = s]
    BY <1>4 DEF Greet, LoopEnds, LeaveOpen, Goto, queue
  <2>2. \A d \in Clients : Held(d, {"hello", "serve", "finish"})
                             => Held(d, {"hello", "serve", "finish"})'
    BY <2>1 DEF Held, ConnTypeOK
  <2>3. UNCHANGED Pending /\ TakenOfSubmitted'
    BY <2>1 DEF Pending, TakenOfSubmitted
  <2>4. QED
    BY <2>1, <2>2, <2>3 DEF OpenIsOwned, ConnTypeOK
<1>5. ASSUME NEW w \in Workers, Refuse(w) \/ CloseClient(w) PROVE OwnedInv'
  <2>1. /\ UNCHANGED <<fdOf, adding, submitted, taken>>
        /\ desc' = [desc EXCEPT ![fdOf[holds[w]]] = NULL]
        /\ \A v \in Workers : v # w => holds'[v] = holds[v] /\ stage'[v] = stage[v]
    BY <1>5 DEF Refuse, CloseClient, CloseAfter, Queue!Finish, CloseFd, ClientFd,
                Goto, queue, ConnTypeOK
  <2>2. \A f \in Fds : desc'[f] # NULL => desc[f] # NULL /\ desc'[f] = desc[f]
                                           /\ f # fdOf[holds[w]]
    BY <2>1 DEF ConnTypeOK
  <2>3. \A f \in Fds : desc'[f] # NULL => desc[f] # holds[w]
    BY <2>2 DEF OpenIsOwned
  <2>4. \A d \in Clients : d # holds[w] /\ Held(d, {"hello", "serve", "finish"})
                             => Held(d, {"hello", "serve", "finish"})'
    BY <2>1 DEF Held
  <2>5. UNCHANGED Pending /\ TakenOfSubmitted'
    BY <2>1 DEF Pending, TakenOfSubmitted
  <2>6. QED
    BY <2>1, <2>2, <2>3, <2>4, <2>5 DEF OpenIsOwned, ConnTypeOK
<1>6. ASSUME (\E w \in Workers : WorkerQuits(w)) \/ Interrupt \/ UNCHANGED vars
      PROVE  OwnedInv'
  <2>1. UNCHANGED <<desc, fdOf, adding, stage, holds, submitted, taken>>
    BY <1>6 DEF WorkerQuits, Queue!Quit, Interrupt, Queue!Close, vars, queue
  <2>2. QED
    BY <2>1 DEF OpenIsOwned, Held, Pending, TakenOfSubmitted
<1>7. QED
  BY <1>1, <1>2, <1>3, <1>4, <1>5, <1>6 DEF Next

(* No descriptor is ever leaked, whoever closes what in whatever order.     *)
THEOREM NoLeak == Spec => []OpenIsOwned
<1>1. Init => OwnedInv
  BY ConnAssumption DEF Init, Queue!Init, OwnedInv, TakenOfSubmitted, OpenIsOwned
<1>2. OwnedInv => OpenIsOwned
  BY DEF OwnedInv
<1>3. QED
  BY <1>1, <1>2, NextOwned, ConnTypeCorrect, PTL DEF Spec
--------------------------------------------------------------------------------
(* KeptAmongPolite is not inductive: a client might be queued twice, or be  *)
(* held by two workers, and the close() for one would end the other's       *)
(* connection.  So every client is in one place of its way at most.         *)
InOnePlace ==
    /\ TakenOfSubmitted
    /\ \A i, j \in 1..Len(submitted) : submitted[i] = submitted[j] => i = j
    /\ \A i \in 1..Len(submitted) : submitted[i] # adding /\ fdOf[submitted[i]] # NULL
    /\ adding # NULL => fdOf[adding] # NULL
    /\ \A w \in Workers : holds[w] # NULL => \E i \in 1..Len(taken) : holds[w] = submitted[i]
    /\ \A v, w \in Workers : holds[v] = holds[w] /\ holds[w] # NULL => v = w

AllPolite == \A c \in Clients \ Polite : fdOf[c] = NULL
KeptInv   == AllPolite => ConnectionKept /\ \A w \in Workers : stage[w] # "early"

(* Every step leaves each client in one place. *)
LEMMA NextOnePlace ==
  ASSUME ConnTypeOK, InOnePlace, [Next]_vars
  PROVE  InOnePlace'
<1> USE ConnAssumption DEF InOnePlace
<1>1. ASSUME NEW c \in Clients, Accept(c) PROVE InOnePlace'
  <2>1. PICK f \in Fds : fdOf[c] = NULL /\ fdOf' = [fdOf EXCEPT ![c] = f]
    BY <1>1 DEF Accept
  <2>2. adding' = c /\ UNCHANGED <<submitted, taken, holds>>
    BY <1>1 DEF Accept, queue
  <2>3. \A d \in Clients : fdOf[d] # NULL => fdOf'[d] # NULL
    BY <2>1 DEF ConnTypeOK
  <2>4. \A i \in 1..Len(submitted) : submitted[i] \in Clients
    BY DEF ConnTypeOK
  <2>5. QED
    BY <2>1, <2>2, <2>3, <2>4 DEF ConnTypeOK, TakenOfSubmitted
<1>2. CASE AddTask
  <2>1. /\ adding \in Clients /\ adding' = NULL /\ submitted' = Append(submitted, adding)
        /\ UNCHANGED <<taken, holds, fdOf>>
    BY <1>2 DEF AddTask, Queue!Submit, ConnTypeOK
  <2>2. /\ Len(submitted') = Len(submitted) + 1 /\ Len(submitted) \in Nat
        /\ submitted'[Len(submitted) + 1] = adding
        /\ \A i \in 1..Len(submitted) : submitted'[i] = submitted[i] /\ submitted[i] \in Clients
    BY <2>1 DEF ConnTypeOK
  <2>3. 1..Len(submitted') = 1..Len(submitted) \cup {Len(submitted) + 1}
    BY <2>2
  <2>4. \A i \in 1..Len(submitted') : submitted'[i] # adding' /\ fdOf'[submitted'[i]] # NULL
    BY <2>1, <2>2, <2>3
  <2>5. \A i, j \in 1..Len(submitted') : submitted'[i] = submitted'[j] => i = j
    BY <2>1, <2>2, <2>3
  <2>6. \A i \in 1..Len(taken) : i \in 1..Len(submitted) /\ submitted'[i] = submitted[i]
    BY <2>2 DEF ConnTypeOK, TakenOfSubmitted
  <2>7. QED
    BY <1>2, <2>1, <2>4, <2>5, <2>6, SubmitPending
<1>3. ASSUME NEW w \in Workers, Take(w) PROVE InOnePlace'
  <2> DEFINE n == Len(taken) + 1
  <2>1. /\ submitted' = submitted /\ adding' = adding /\ fdOf' = fdOf
        /\ taken' = Append(taken, submitted[n]) /\ n \in 1..Len(submitted)
        /\ holds' = [holds EXCEPT ![w] = submitted[n]]
    BY <1>3 DEF Take, Queue!Take, ConnTypeOK
  <2>2. Len(taken') = n /\ 1..n = 1..Len(taken) \cup {n}
    BY <2>1 DEF ConnTypeOK
  <2>3. \A v \in Workers : holds'[v] = IF v = w THEN submitted[n] ELSE holds[v]
    BY <2>1 DEF ConnTypeOK
  <2>4. \A v \in Workers : v # w => holds[v] # submitted[n]
    <3> SUFFICES ASSUME NEW v \in Workers, v # w, holds[v] = submitted[n] PROVE FALSE
      OBVIOUS
    <3>1. submitted[n] # NULL
      BY <2>1 DEF ConnTypeOK
    <3>2. PICK i \in 1..Len(taken) : submitted[n] = submitted[i]
      BY <3>1
    <3>3. i \in 1..Len(submitted) /\ i # n
      BY <2>1 DEF ConnTypeOK
    <3>4. QED
      BY <2>1, <3>2, <3>3
  <2>5. TakenOfSubmitted'
    BY <1>3, TakePending
  <2> HIDE DEF n
  <2>6. \A v \in Workers : holds'[v] # NULL => \E i \in 1..n : holds'[v] = submitted[i]
    BY <2>2, <2>3
  <2>7. \A u, v \in Workers : holds'[u] = holds'[v] /\ holds'[v] # NULL => u = v
    BY <2>3, <2>4
  <2>8. QED
    BY <2>1, <2>2, <2>5, <2>6, <2>7
<1>4. ASSUME NEW w \in Workers, CloseClient(w) PROVE InOnePlace'
  <2>1. UNCHANGED <<submitted, taken, adding, fdOf>> /\ holds' = [holds EXCEPT ![w] = NULL]
    BY <1>4 DEF CloseClient, Queue!Finish
  <2>2. QED
    BY <2>1 DEF ConnTypeOK, TakenOfSubmitted
<1>5. ASSUME \/ \E w \in Workers : Greet(w) \/ Refuse(w) \/ LoopEnds(w) \/ WorkerQuits(w)
             \/ Interrupt \/ UNCHANGED vars
      PROVE  InOnePlace'
  <2>1. UNCHANGED <<submitted, taken, adding, fdOf, holds>>
    BY <1>5 DEF Greet, Refuse, LoopEnds, WorkerQuits, Queue!Quit, Interrupt, Queue!Close,
                vars, queue
  <2>2. QED
    BY <2>1 DEF TakenOfSubmitted
<1>6. QED
  BY <1>1, <1>2, <1>3, <1>4, <1>5 DEF Next

(* Who is on his way. *)
Underway(c) == c = adding \/ c \in Pending \/ Held(c, {"hello", "serve", "finish"})

(* A client that a worker has is neither being added nor queued, nor has    *)
(* another worker it.                                                       *)
LEMMA HeldAlone ==
  ASSUME ConnTypeOK, InOnePlace, NEW w \in Workers, holds[w] # NULL
  PROVE  /\ holds[w] \in Clients
         /\ holds[w] # adding
         /\ holds[w] \notin Pending
         /\ \A v \in Workers : holds[v] = holds[w] => v = w
<1>1. PICK i \in 1..Len(taken) : holds[w] = submitted[i]
  BY DEF InOnePlace
<1>2. i \in 1..Len(submitted) /\ \A j \in Len(taken) + 1 .. Len(submitted) :
                                    j \in 1..Len(submitted) /\ j # i
  BY DEF InOnePlace, TakenOfSubmitted, ConnTypeOK
<1>3. holds[w] # adding /\ \A j \in Len(taken) + 1 .. Len(submitted) : submitted[j] # holds[w]
  BY <1>1, <1>2 DEF InOnePlace
<1>4. QED
  BY <1>3 DEF ConnTypeOK, InOnePlace, Pending

(* Among polite clients no step takes a connection away from anybody but    *)
(* the client whose worker is through with it.                              *)
LEMMA NextKept ==
  ASSUME ConnTypeOK, InOnePlace, KeptInv, [Next]_vars, AllPolite'
  PROVE  ConnectionKept' /\ \A w \in Workers : stage'[w] # "early"
<1> USE ConnAssumption DEF KeptInv
<1> DEFINE Kept(c) == fdOf[c] # NULL /\ desc[fdOf[c]] = c
<1>0. \A c \in Clients : fdOf'[c] = NULL => fdOf[c] = NULL
  <2>1. ASSUME NEW c \in Clients, Accept(c) PROVE \A d \in Clients : fdOf'[d] = NULL => fdOf[d] = NULL
    BY <2>1 DEF Accept, ConnTypeOK
  <2>2. ASSUME ~\E c \in Clients : Accept(c) PROVE fdOf' = fdOf
    BY <2>2 DEF Next, vars, AddTask, Take, Greet, Refuse, LoopEnds, CloseClient, Interrupt, WorkerQuits
  <2>3. QED
    BY <2>1, <2>2
<1>1. AllPolite /\ ConnectionKept /\ \A w \in Workers : stage[w] # "early"
  BY <1>0 DEF AllPolite
<1>2. \A c \in Clients : Underway(c) => Kept(c)
  BY <1>1 DEF ConnectionKept, Underway
<1>3. SUFFICES (\A c \in Clients : Underway(c)' => Kept(c)') /\ \A w \in Workers : stage'[w] # "early"
  BY DEF ConnectionKept, Underway
<1>4. ASSUME NEW c \in Clients, Accept(c)
      PROVE  (\A d \in Clients : Underway(d)' => Kept(d)') /\ \A w \in Workers : stage'[w] # "early"
  <2>1. PICK f \in Fds : /\ desc[f] = NULL /\ fdOf[c] = NULL
                         /\ desc' = [desc EXCEPT ![f] = c]
                         /\ fdOf' = [fdOf EXCEPT ![c] = f]
    BY <1>4 DEF Accept
  <2>2. adding' = c /\ UNCHANGED <<submitted, taken, holds, stage>>
    BY <1>4 DEF Accept, queue
  <2>3. Kept(c)'
    BY <2>1 DEF ConnTypeOK
  <2>4. \A d \in Clients : d # c /\ Underway(d)' => Underway(d)
    BY <2>2 DEF Underway, Held, Pending
  <2>5. \A d \in Clients : d # c /\ Kept(d) => Kept(d)'
    BY <2>1 DEF ConnTypeOK
  <2>6. QED
    BY <1>1, <1>2, <2>2, <2>3, <2>4, <2>5
<1>5. ASSUME NEW w \in Workers, Refuse(w) PROVE FALSE
  <2>1. holds[w] \in Clients /\ stage[w] = "hello"
    BY <1>5 DEF Refuse, ConnTypeOK
  <2>2. Kept(holds[w])
    BY <1>2, <2>1 DEF Underway, Held
  <2>3. holds[w] \notin Polite
    BY <1>5, <2>2 DEF Refuse, ClientFd
  <2>4. QED
    BY <1>1, <2>1, <2>2, <2>3 DEF AllPolite
<1>6. ASSUME NEW w \in Workers, CloseClient(w)
      PROVE  (\A d \in Clients : Underway(d)' => Kept(d)') /\ \A v \in Workers : stage'[v] # "early"
  <2>1. /\ holds[w] # NULL /\ stage[w] = "finish"
        /\ UNCHANGED <<fdOf, adding, submitted, taken>>
        /\ desc' = [desc EXCEPT ![fdOf[holds[w]]] = NULL]
        /\ holds' = [holds EXCEPT ![w] = NULL] /\ stage' = [stage EXCEPT ![w] = "idle"]
    BY <1>1, <1>6 DEF CloseClient, Returned, CloseAfter, Queue!Finish, CloseFd, ClientFd, Goto
  <2>2. Kept(holds[w])
    BY <1>2, <2>1, HeldAlone DEF Underway, Held
  <2>3. \A d \in Clients : Underway(d)' => Underway(d) /\ d # holds[w]
    <3>1. \A v \in Workers : v # w => holds'[v] = holds[v] /\ stage'[v] = stage[v]
      BY <2>1 DEF ConnTypeOK
    <3>2. holds'[w] = NULL /\ Pending' = Pending
      BY <2>1 DEF ConnTypeOK, Pending
    <3>3. QED
      BY <2>1, <3>1, <3>2, HeldAlone DEF Underway, Held
  <2>4. \A d \in Clients : Kept(d) /\ d # holds[w] => Kept(d)'
    BY <2>1, <2>2 DEF ConnTypeOK
  <2>5. \A v \in Workers : stage'[v] # "early"
    BY <1>1, <2>1 DEF ConnTypeOK
  <2>6. QED
    BY <1>2, <2>3, <2>4, <2>5
<1>7. CASE AddTask
  <2>1. adding' = NULL /\ UNCHANGED <<desc, fdOf, holds, stage>>
    BY <1>7 DEF AddTask, Queue!Submit
  <2>2. \A d \in Clients : Underway(d)' => Underway(d)
    BY <1>7, <2>1, SubmitPending DEF Underway, Held, InOnePlace
  <2>3. QED
    BY <1>1, <1>2, <2>1, <2>2
<1>8. ASSUME NEW w \in Workers, Take(w)
      PROVE  (\A d \in Clients : Underway(d)' => Kept(d)') /\ \A v \in Workers : stage'[v] # "early"
  <2>1. PICK c \in Pending : holds' = [holds EXCEPT ![w] = c] /\ Pending' \subseteq Pending
    BY <1>8, TakePending DEF InOnePlace
  <2>2. /\ UNCHANGED <<desc, fdOf, adding>>
        /\ stage' = [stage EXCEPT ![w] = "hello"]
    BY <1>8 DEF Take, Queue!Take, Goto
  <2>3. /\ holds'[w] = c /\ stage'[w] = "hello"
        /\ \A v \in Workers : v # w => holds'[v] = holds[v] /\ stage'[v] = stage[v]
    BY <2>1, <2>2 DEF ConnTypeOK
  <2>4. \A d \in Clients : Underway(d)' => Underway(d)
    BY <2>1, <2>2, <2>3 DEF Underway, Held
  <2>5. QED
    BY <1>1, <1>2, <2>2, <2>3, <2>4
<1>9. ASSUME NEW w \in Workers, Greet(w) \/ LoopEnds(w)
      PROVE  (\A d \in Clients : Underway(d)' => Kept(d)') /\ \A v \in Workers : stage'[v] # "early"
  <2>1. /\ UNCHANGED <<desc, fdOf, adding, holds, submitted, taken>>
        /\ stage[w] \in {"hello", "serve"}
        /\ \E s \in {"serve", "finish"} : stage' = [stage EXCEPT ![w] = s]
    BY <1>9 DEF Greet, LoopEnds, LeaveOpen, Goto, queue
  <2>2. \A d \in Clients : Underway(d)' => Underway(d)
    BY <2>1 DEF Underway, Held, Pending, ConnTypeOK
  <2>3. QED
    BY <1>1, <1>2, <2>1, <2>2 DEF ConnTypeOK
<1>10. ASSUME (\E w \in Workers : WorkerQuits(w)) \/ Interrupt \/ UNCHANGED vars
       PROVE  (\A d \in Clients : Underway(d)' => Kept(d)') /\ \A v \in Workers : stage'[v] # "early"
  <2>1. UNCHANGED <<desc, fdOf, adding, stage, holds, submitted, taken>>
    BY <1>10 DEF WorkerQuits, Queue!Quit, Interrupt, Queue!Close, vars, queue
  <2>2. QED
    BY <1>1, <1>2, <2>1 DEF Underway, Held, Pending
<1>11. QED
  BY <1>4, <1>5, <1>6, <1>7, <1>8, <1>9, <1>10 DEF Next

(* Among clients that speak first, or complete the handshake, a connection  *)
(* is closed by nobody but its own worker, however many clients there are.  *)
THEOREM PoliteAreKept == Spec => []KeptAmongPolite
<1>1. Init => InOnePlace /\ KeptInv
  BY ConnAssumption DEF Init, Queue!Init, InOnePlace, TakenOfSubmitted, KeptInv,
     ConnectionKept, Pending, Held
<1>2. ConnTypeOK /\ InOnePlace /\ KeptInv /\ [Next]_vars => (InOnePlace /\ KeptInv)'
  BY NextOnePlace, NextKept DEF KeptInv
<1>3. KeptInv => KeptAmongPolite
  BY DEF KeptInv, KeptAmongPolite, AllPolite
<1>4. QED
  BY <1>1, <1>2, <1>3, ConnTypeCorrect, PTL DEF Spec
================================================================================
