--------------------------- MODULE OnlineUsersProofs ---------------------------
(* Proofs about OnlineCalls, for a table of any size, any accounts and      *)
(* sockets and any number of threads: the count is exact, the array         *)
(* implements Presence, and a call is one step.                             *)
EXTENDS OnlineCalls, FiniteSetTheorems, WellFoundedInduction, TLAPS

(* A non-empty set of slots has a first one. *)
LEMMA FirstIn ==
  ASSUME NEW S \in SUBSET Nat, S # {}
  PROVE  FirstOf(S) \in S
<1>1. IsWellFoundedOn(OpToRel(<, Nat), Nat)
  BY NatLessThanWellFounded
<1>2. PICK i \in S : \A j \in S : ~(<<j, i>> \in OpToRel(<, Nat))
  BY <1>1, WFMin
<1>3. ASSUME NEW j \in S PROVE i <= j
  <2>1. ~(j < i)
    BY <1>2 DEF OpToRel
  <2>2. QED
    BY <2>1
<1>4. QED
  BY <1>3 DEF FirstOf

(* There are MAX_ONLINE_USERS slots. *)
LEMMA SlotsFinite ==
  /\ IsFiniteSet(Slots) /\ Cardinality(Slots) = MAX_ONLINE_USERS
  /\ Slots \subseteq Nat
<1>1. IsFiniteSet(Slots)
      /\ Cardinality(Slots) = IF 0 > MAX_ONLINE_USERS - 1 THEN 0
                              ELSE MAX_ONLINE_USERS - 1 - 0 + 1
  BY TableAssumption, FS_Interval DEF Slots
<1>2. QED
  BY <1>1, TableAssumption DEF Slots

(* The first one is where the loop stops: nothing before it is in the set.  *)
LEMMA FirstIs ==
  ASSUME NEW S \in SUBSET Nat, NEW i \in S, \A j \in S : i <= j
  PROVE  FirstOf(S) = i
<1>1. FirstOf(S) \in S /\ \A j \in S : FirstOf(S) <= j
  BY DEF FirstOf
<1>2. FirstOf(S) \in Nat /\ i \in Nat /\ FirstOf(S) <= i /\ i <= FirstOf(S)
  BY <1>1
<1>3. QED
  BY <1>2

(* The number of active slots, and what it means when it is maximal. *)
LEMMA ActiveFinite ==
  /\ IsFiniteSet(Active) /\ Cardinality(Active) \in Nat
  /\ Cardinality(Active) <= MAX_ONLINE_USERS
  /\ Cardinality(Active) = MAX_ONLINE_USERS => Active = Slots
<1>1. Active \in SUBSET Slots
  BY DEF Active
<1>2. QED
  BY <1>1, SlotsFinite, FS_Subset, FS_CardinalityType

(* What is done to the slots: a session is written into a free one, or one  *)
(* that held a session is freed.                                            *)
Occupy(i, s) ==
    /\ i \in Slots /\ i \notin Active /\ s \in Session
    /\ users' = [users EXCEPT ![i] = s]
Vacate(i) ==
    /\ i \in Active
    /\ users' = [users EXCEPT ![i] = FREE]

(* Either keeps the array well formed and moves the number of active slots  *)
(* by one.                                                                  *)
LEMMA OccupyActive ==
  ASSUME users \in [Slots -> Session \cup {FREE}],
         NEW i \in Slots, NEW s \in Session, Occupy(i, s)
  PROVE  /\ users' \in [Slots -> Session \cup {FREE}]
         /\ Cardinality(Active') = Cardinality(Active) + 1
<1> USE TableAssumption
<1>1. users' \in [Slots -> Session \cup {FREE}]
  BY DEF Occupy
<1>2. Active' = Active \cup {i}
  BY DEF Occupy, Active
<1>3. Cardinality(Active \cup {i}) = Cardinality(Active) + 1
  BY ActiveFinite, FS_AddElement DEF Occupy
<1>4. QED
  BY <1>1, <1>2, <1>3

(* The same for a slot that is freed. *)
LEMMA VacateActive ==
  ASSUME users \in [Slots -> Session \cup {FREE}], NEW i \in Active, Vacate(i)
  PROVE  /\ users' \in [Slots -> Session \cup {FREE}]
         /\ Cardinality(Active') = Cardinality(Active) - 1
<1> USE TableAssumption
<1>1. users' \in [Slots -> Session \cup {FREE}]
  BY DEF Vacate
<1>2. Active' = Active \ {i}
  BY DEF Vacate, Active
<1>3. Cardinality(Active \ {i}) = Cardinality(Active) - 1
  BY ActiveFinite, FS_RemoveElement
<1>4. QED
  BY <1>1, <1>2, <1>3

--------------------------------------------------------------------------------
(* What a call is, and that an answer changes nothing else of it.           *)
LEMMA RequestShape ==
  /\ IDLE \notin Request
  /\ \A c \in Request :
       /\ c.op \in {"add", "remove", "find"} /\ c.answer \in Answers
       /\ c.op = "add" => c.arg \in Session
       /\ c.op = "remove" => c.arg \in Fds
       /\ c.op = "find" => c.arg \in Logins
<1> DEFINE Wide == [op : {"add", "remove", "find"}, arg : Session \cup Fds \cup Logins,
                    answer : Int \cup {PENDING}]
<1>1. Answers \subseteq Int \cup {PENDING}
  <2>1. Fds \subseteq Int
    BY TableAssumption
  <2>2. 0 \in Int /\ 1 \in Int /\ -1 \in Int
    OBVIOUS
  <2>3. \A a \in Answers : a \in Fds \/ a = 0 \/ a = 1 \/ a = -1 \/ a = PENDING
    BY Zenon DEF Answers
  <2>4. QED
    BY <2>1, <2>2, <2>3, Zenon
<1>2. [op : {"add"}, arg : Session, answer : Answers] \subseteq Wide
  BY <1>1
<1>3. [op : {"remove"}, arg : Fds, answer : Answers] \subseteq Wide
  BY <1>1
<1>4. [op : {"find"}, arg : Logins, answer : Answers] \subseteq Wide
  BY <1>1
<1>5. IDLE \notin Request
  BY <1>2, <1>3, <1>4, CallsAssumption DEF Request
<1>6. QED
  BY <1>5 DEF Request

(* An answer changes only the answer. *)
LEMMA Answering ==
  \A c \in Request, a \in Answers :
     LET d == [c EXCEPT !.answer = a]
     IN  d \in Request /\ d.op = c.op /\ d.arg = c.arg /\ d.answer = a
<1> SUFFICES ASSUME NEW c \in Request, NEW a \in Answers
             PROVE  LET d == [c EXCEPT !.answer = a]
                    IN  /\ d \in Request /\ d.op = c.op
                        /\ d.arg = c.arg /\ d.answer = a
  OBVIOUS
<1>1. CASE c \in [op : {"add"}, arg : Session, answer : Answers]
  BY <1>1 DEF Request
<1>2. CASE c \in [op : {"remove"}, arg : Fds, answer : Answers]
  BY <1>2 DEF Request
<1>3. CASE c \in [op : {"find"}, arg : Logins, answer : Answers]
  BY <1>3 DEF Request
<1>4. QED
  BY <1>1, <1>2, <1>3 DEF Request

(* Where a thread stands in its call.  The loop has passed over the slots   *)
(* before its index, since none of them fits.                               *)
Entered(s) ==
    \E a \in Accounts, fd \in Fds :
       s = [user_id |-> a[1], login |-> Cut[a[2]], socket_fd |-> fd]
Where(t) ==
    /\ call[t] = IDLE <=> at[t] = "out"
    /\ at[t] # "out" =>
          /\ call[t].answer = PENDING <=> at[t] \in {"lock", "search", "hit"}
          /\ call[t].op = "add" => Entered(call[t].arg)
    /\ at[t] = "count" => call[t].op \in {"add", "remove"}
    /\ at[t] \in {"search", "hit"} =>
          \A j \in Slots : j < slot[t] => ~Fits(call[t], j)
    /\ at[t] = "hit" => Fits(call[t], slot[t])
    /\ at[t] \notin Inside => slot[t] = 0

(* The count lags behind the slots while somebody is about to move it.      *)
CountIs ==
    /\ \A t \in Threads : at[t] = "count" =>
          count = Cardinality(Active) + IF call[t].op = "add" THEN -1 ELSE 1
    /\ (\A t \in Threads : at[t] # "count") => count = Cardinality(Active)

(* The inductive invariant: the type invariant with the mutex, where every  *)
(* thread stands, and the count.                                            *)
Inv == CallsTypeOK /\ CountIs /\ \A t \in Threads : Where(t)

(* What a step of one thread leaves alone. *)
Others(t) ==
    \A u \in Threads : u # t =>
       at'[u] = at[u] /\ call'[u] = call[u] /\ slot'[u] = slot[u]
(* It leaves what is true of the others, provided that it writes to a slot  *)
(* only with the mutex.                                                     *)
LEMMA OthersStay ==
  ASSUME Inv, NEW t \in Threads, Others(t),
         users' = users \/ mutex = t,
         at' \in [Threads -> {"out", "lock", "return"} \cup Inside],
         slot' \in [Threads -> 0 .. MAX_ONLINE_USERS],
         call' \in [Threads -> Request \cup {IDLE}],
         \/ mutex' = mutex
         \/ mutex = NOBODY /\ mutex' = t
         \/ mutex = t /\ mutex' = NOBODY,
         at'[t] \in Inside <=> mutex' = t,
         at'[t] = "hit" => slot'[t] \in Slots,
         Where(t)', TableTypeOK', CountIs'
  PROVE  Inv'
<1>1. mutex' \in Threads \cup {NOBODY}
  BY DEF Inv, CallsTypeOK
<1>2. ASSUME NEW u \in Threads PROVE at'[u] \in Inside <=> mutex' = u
  BY CallsAssumption DEF Inv, CallsTypeOK, Others
<1>3. ASSUME NEW u \in Threads, at'[u] = "hit" PROVE slot'[u] \in Slots
  BY <1>3 DEF Inv, CallsTypeOK, Others
<1>4. ASSUME NEW u \in Threads, u # t PROVE Where(u)'
  <2>1. Where(u) /\ at'[u] = at[u] /\ call'[u] = call[u] /\ slot'[u] = slot[u]
    BY <1>4 DEF Inv, Others
  <2>2. CASE at[u] \in Inside
    <3>1. users' = users
      BY <1>4, <2>2 DEF Inv, CallsTypeOK
    <3>2. QED
      BY <2>1, <3>1 DEF Where, Fits
  <2>3. CASE at[u] \notin Inside
    BY <2>1, <2>3 DEF Where, Inside
  <2>4. QED
    BY <2>2, <2>3
<1>5. CallsTypeOK'
  BY <1>1, <1>2, <1>3 DEF CallsTypeOK, Inside
<1>6. QED
  BY <1>4, <1>5 DEF Inv

(* The count is as due when a step that moves neither the slots nor the     *)
(* count neither comes to it nor leaves it.                                 *)
LEMMA CountStays ==
  ASSUME Inv, NEW t \in Threads, Others(t), UNCHANGED table,
         at[t] # "count", at'[t] # "count"
  PROVE  CountIs' /\ TableTypeOK'
<1>1. Active' = Active
  BY DEF table, Active
<1>2. TableTypeOK'
  BY DEF Inv, CallsTypeOK, TableTypeOK, table
<1>3. QED
  BY <1>1, <1>2 DEF CountIs, Inv, Others, table

(* Who stands inside, holds the mutex. *)
LEMMA Holds ==
  ASSUME Inv, NEW t \in Threads
  PROVE  /\ at[t] \in Inside <=> mutex = t
         /\ at[t] \in {"out", "lock", "return"} \cup Inside
         /\ slot[t] \in 0 .. MAX_ONLINE_USERS
         /\ call[t] \in Request \cup {IDLE}
         /\ Where(t)
  BY DEF Inv, CallsTypeOK

(* A call begins: no slot and no count changes. *)
LEMMA CallKeeps ==
  ASSUME Inv, NEW t \in Threads, Calls(t)
  PROVE  Inv'
<1> USE TableAssumption, CallsAssumption
<1>1. PICK op \in {"add", "remove", "find"},
           arg \in Session \cup Fds \cup Logins :
        /\ Call(t, op, arg)
        /\ [op |-> op, arg |-> arg, answer |-> PENDING] \in Request
        /\ op = "add" => Entered(arg)
  <2>1. ASSUME NEW a \in Accounts, NEW fd \in Fds
        PROVE  LET s == [user_id |-> a[1], login |-> Cut[a[2]], socket_fd |-> fd]
               IN  /\ s \in Session /\ Entered(s)
                   /\ [op |-> "add", arg |-> s, answer |-> PENDING] \in Request
    BY DEF Session, UserIds, Logins, Entered, Request, Answers
  <2>2. ASSUME NEW fd \in Fds
        PROVE  [op |-> "remove", arg |-> fd, answer |-> PENDING] \in Request
    BY DEF Request, Answers
  <2>3. ASSUME NEW l \in Logins
        PROVE  [op |-> "find", arg |-> l, answer |-> PENDING] \in Request
    BY DEF Request, Answers
  <2>4. QED
    BY <2>1, <2>2, <2>3 DEF Calls
<1> DEFINE c == [op |-> op, arg |-> arg, answer |-> PENDING]
<1>2. /\ at[t] = "out" /\ at' = [at EXCEPT ![t] = "lock"]
      /\ call' = [call EXCEPT ![t] = c]
      /\ UNCHANGED <<table, mutex, slot>>
  BY <1>1 DEF Call, Goto
<1>3. /\ at'[t] = "lock" /\ call'[t] = c /\ Others(t)
      /\ at' \in [Threads -> {"out", "lock", "return"} \cup Inside]
      /\ call' \in [Threads -> Request \cup {IDLE}]
  BY <1>1, <1>2 DEF Inv, CallsTypeOK, Others
<1>4. Where(t)'
  BY <1>1, <1>2, <1>3, RequestShape, Holds DEF Where, Inside
<1>5. mutex # t
  BY <1>2, Holds DEF Inside
<1>6. QED
  BY <1>2, <1>3, <1>4, <1>5, OthersStay, CountStays DEF table, Inside, Inv, CallsTypeOK

(* The mutex is taken, and no slot is passed over yet. *)
LEMMA AcquireKeeps ==
  ASSUME Inv, NEW t \in Threads, Acquire(t)
  PROVE  Inv'
<1> USE TableAssumption, CallsAssumption
<1>1. /\ at[t] = "lock" /\ at' = [at EXCEPT ![t] = "search"]
      /\ mutex = NOBODY /\ mutex' = t
      /\ UNCHANGED <<table, call, slot>>
  BY DEF Acquire, Goto
<1>2. /\ at'[t] = "search" /\ Others(t)
      /\ at' \in [Threads -> {"out", "lock", "return"} \cup Inside]
  BY <1>1 DEF Inv, CallsTypeOK, Others, Inside
<1>3. slot[t] = 0
  BY <1>1, Holds DEF Where, Inside
<1>4. Where(t)'
  BY <1>1, <1>2, <1>3, Holds DEF Where, Slots, Inside
<1>5. QED
  BY <1>1, <1>2, <1>4, OthersStay, CountStays DEF table, Inside, Inv, CallsTypeOK

(* The loop stops at a slot that fits, or passes over one that does not. *)
LEMMA SearchKeeps ==
  ASSUME Inv, NEW t \in Threads, Search(t)
  PROVE  Inv'
<1> USE TableAssumption, CallsAssumption
<1>1. /\ at[t] = "search" /\ slot[t] < MAX_ONLINE_USERS
      /\ UNCHANGED <<table, mutex, call>>
  BY DEF Search
<1>2. slot[t] \in Slots /\ slot[t] \in Nat
  BY <1>1, Holds DEF Slots
<1>3. /\ \A j \in Slots : j < slot[t] => ~Fits(call[t], j)
      /\ call[t] # IDLE /\ call[t].answer = PENDING /\ mutex = t
      /\ call[t].op = "add" => Entered(call[t].arg)
  BY <1>1, Holds DEF Where, Inside
<1>4. CASE Fits(call[t], slot[t])
  <2>1. at' = [at EXCEPT ![t] = "hit"] /\ slot' = slot
    BY <1>4 DEF Search, Goto
  <2>2. /\ at'[t] = "hit" /\ Others(t)
        /\ at' \in [Threads -> {"out", "lock", "return"} \cup Inside]
    BY <1>1, <2>1 DEF Inv, CallsTypeOK, Others, Inside
  <2>3. Where(t)'
    BY <1>1, <1>3, <1>4, <2>1, <2>2 DEF Where, Fits, table, Inside
  <2>4. QED
    BY <1>1, <1>2, <1>3, <2>1, <2>2, <2>3, OthersStay, CountStays
    DEF table, Inside, Inv, CallsTypeOK
<1>5. CASE ~Fits(call[t], slot[t])
  <2>1. at' = at /\ slot' = [slot EXCEPT ![t] = slot[t] + 1]
    BY <1>5 DEF Search
  <2>2. slot[t] + 1 \in 0 .. MAX_ONLINE_USERS
    BY <1>1, <1>2
  <2>3. /\ slot'[t] = slot[t] + 1 /\ Others(t)
        /\ slot' \in [Threads -> 0 .. MAX_ONLINE_USERS]
    BY <1>1, <2>1, <2>2 DEF Inv, CallsTypeOK, Others
  <2>4. \A j \in Slots : j < slot[t] + 1 => ~Fits(call[t], j)
    <3>1. \A j \in Slots : j < slot[t] + 1 => j < slot[t] \/ j = slot[t]
      BY <1>2 DEF Slots
    <3>2. QED
      BY <1>3, <1>5, <3>1
  <2>5. Where(t)'
    BY <1>1, <1>3, <2>1, <2>3, <2>4 DEF Where, Fits, table, Inside
  <2>6. QED
    BY <1>1, <1>3, <2>1, <2>3, <2>5, OthersStay, CountStays
    DEF table, Inside, Inv, CallsTypeOK
<1>6. QED
  BY <1>4, <1>5

(* An answer is given, and the thread goes on to a label inside.            *)
LEMMA AnswerGiven ==
  ASSUME Inv, NEW t \in Threads, at[t] \in {"search", "hit"},
         NEW label \in {"count", "unlock"}, Goto(t, label),
         \E a \in Answers \ {PENDING} : Answer(t, a),
         label = "count" => call[t].op # "find",
         UNCHANGED <<mutex, slot>>
  PROVE  /\ Others(t) /\ mutex = t /\ at'[t] = label
         /\ call'[t].op = call[t].op
         /\ at' \in [Threads -> {"out", "lock", "return"} \cup Inside]
         /\ call' \in [Threads -> Request \cup {IDLE}]
         /\ Where(t)'
<1>1. PICK a \in Answers : a # PENDING /\ call' = [call EXCEPT ![t].answer = a]
  BY DEF Answer
<1>2. call[t] \in Request /\ Where(t) /\ mutex = t
  BY Holds DEF Where, Inside
<1>3. PICK d \in Request : /\ d = [call[t] EXCEPT !.answer = a]
                           /\ d.op = call[t].op /\ d.arg = call[t].arg
                           /\ d.answer = a
  BY <1>2, Answering
<1>4. call' = [call EXCEPT ![t] = d]
  BY <1>1, <1>3 DEF Inv, CallsTypeOK
<1>5. /\ call'[t] = d /\ Others(t) /\ at'[t] = label
      /\ at' \in [Threads -> {"out", "lock", "return"} \cup Inside]
      /\ call' \in [Threads -> Request \cup {IDLE}]
  BY <1>4 DEF Inv, CallsTypeOK, Others, Goto, Inside
<1>6. d # IDLE /\ d.op \in {"add", "remove", "find"}
  BY RequestShape
<1>7. Where(t)'
  BY <1>1, <1>2, <1>3, <1>5, <1>6 DEF Where, Inside
<1>8. QED
  BY <1>2, <1>3, <1>5, <1>7

(* The loop ran out of slots: no slot and no count changes. *)
LEMMA MissKeeps ==
  ASSUME Inv, NEW t \in Threads, Miss(t)
  PROVE  Inv'
<1>1. \E a \in Answers \ {PENDING} : Answer(t, a)
  BY CallsAssumption DEF Miss, Answers
<1>2. at[t] = "search" /\ Goto(t, "unlock") /\ UNCHANGED <<table, mutex, slot>>
  BY DEF Miss
<1>3. /\ Others(t) /\ mutex = t /\ at'[t] = "unlock" /\ Where(t)'
      /\ at' \in [Threads -> {"out", "lock", "return"} \cup Inside]
      /\ call' \in [Threads -> Request \cup {IDLE}]
  BY <1>1, <1>2, AnswerGiven
<1>4. QED
  BY <1>2, <1>3, OthersStay, CountStays DEF table, Inside, Inv, CallsTypeOK

(* A socket is found: no slot and no count changes. *)
LEMMA ReadKeeps ==
  ASSUME Inv, NEW t \in Threads, Read(t)
  PROVE  Inv'
<1>1. /\ at[t] = "hit" /\ call[t].op = "find" /\ Goto(t, "unlock")
      /\ Answer(t, users[slot[t]].socket_fd) /\ UNCHANGED <<table, mutex, slot>>
  BY DEF Read, Hit
<1>2. slot[t] \in Slots /\ users[slot[t]] # FREE
  BY <1>1 DEF Inv, CallsTypeOK, Where, Fits
<1>3. users[slot[t]] \in Session
  BY <1>2 DEF Inv, CallsTypeOK, TableTypeOK
<1>4. users[slot[t]].socket_fd \in Fds /\ users[slot[t]].socket_fd # PENDING
  BY <1>3, TableAssumption, CallsAssumption DEF Session
<1>5. \E a \in Answers \ {PENDING} : Answer(t, a)
  BY <1>1, <1>4 DEF Answers
<1>6. /\ Others(t) /\ mutex = t /\ at'[t] = "unlock" /\ Where(t)'
      /\ at' \in [Threads -> {"out", "lock", "return"} \cup Inside]
      /\ call' \in [Threads -> Request \cup {IDLE}]
  BY <1>1, <1>5, AnswerGiven
<1>7. QED
  BY <1>1, <1>6, OthersStay, CountStays DEF table, Inside, Inv, CallsTypeOK

(* A session is put in, and the count is due. *)
LEMMA FillKeeps ==
  ASSUME Inv, NEW t \in Threads, Fill(t)
  PROVE  Inv' /\ Occupy(slot[t], call[t].arg) /\ call[t].arg \in Session
<1> USE TableAssumption, CallsAssumption
<1>1. /\ at[t] = "hit" /\ call[t].op = "add" /\ Goto(t, "count")
      /\ users' = [users EXCEPT ![slot[t]] = call[t].arg]
      /\ Answer(t, 1) /\ UNCHANGED <<count, mutex, slot>>
  BY DEF Fill, Hit
<1>2. /\ Others(t) /\ mutex = t /\ at'[t] = "count" /\ Where(t)'
      /\ call'[t].op = call[t].op
      /\ at' \in [Threads -> {"out", "lock", "return"} \cup Inside]
      /\ call' \in [Threads -> Request \cup {IDLE}]
  <2>1. \E a \in Answers \ {PENDING} : Answer(t, a)
    BY <1>1 DEF Answers
  <2>2. "count" = "count" => call[t].op # "find"
    BY <1>1
  <2>3. QED
    BY <1>1, <2>1, <2>2, AnswerGiven
<1>3. slot[t] \in Slots /\ users[slot[t]] = FREE /\ call[t] # IDLE
  BY <1>1 DEF Inv, CallsTypeOK, Where, Fits
<1>4. call[t].arg \in Session
  BY <1>1, <1>3, RequestShape, Holds
<1>5. Occupy(slot[t], call[t].arg)
  BY <1>1, <1>3, <1>4 DEF Occupy, Active
<1>6. PICK i \in Slots, s \in Session : i = slot[t] /\ s = call[t].arg
  BY <1>3, <1>4
<1>7. /\ users' \in [Slots -> Session \cup {FREE}]
      /\ Cardinality(Active') = Cardinality(Active) + 1
  BY <1>5, <1>6, OccupyActive DEF Inv, CallsTypeOK, TableTypeOK
<1>8. count = Cardinality(Active)
  <2>1. \A u \in Threads : at[u] # "count"
    BY <1>1, <1>2, Holds DEF Inside
  <2>2. QED
    BY <2>1 DEF Inv, CountIs
<1>9. TableTypeOK'
  BY <1>1, <1>7 DEF Inv, CallsTypeOK, TableTypeOK
<1>10. CountIs'
  <2>1. count' = Cardinality(Active') + -1
    BY <1>1, <1>7, <1>8, ActiveFinite
  <2>2. \A u \in Threads : at'[u] = "count" => call'[u].op = "add"
    <3>1. \A u \in Threads : u # t => at[u] \notin Inside
      BY <1>2, Holds
    <3>2. QED
      BY <1>1, <1>2, <3>1 DEF Others, Inside
  <2>3. QED
    BY <1>2, <2>1, <2>2 DEF CountIs
<1>11. Inv'
  BY <1>1, <1>2, <1>9, <1>10, OthersStay DEF Inside, Inv, CallsTypeOK
<1>12. QED
  BY <1>4, <1>5, <1>11

(* A session is taken out, and the count is due. *)
LEMMA ClearKeeps ==
  ASSUME Inv, NEW t \in Threads, Clear(t)
  PROVE  Inv' /\ Vacate(slot[t]) /\ slot[t] \in Active
<1> USE TableAssumption, CallsAssumption
<1>1. /\ at[t] = "hit" /\ call[t].op = "remove" /\ Goto(t, "count")
      /\ users' = [users EXCEPT ![slot[t]] = FREE]
      /\ Answer(t, 0) /\ UNCHANGED <<count, mutex, slot>>
  BY DEF Clear, Hit
<1>2. /\ Others(t) /\ mutex = t /\ at'[t] = "count" /\ Where(t)'
      /\ call'[t].op = call[t].op
      /\ at' \in [Threads -> {"out", "lock", "return"} \cup Inside]
      /\ call' \in [Threads -> Request \cup {IDLE}]
  <2>1. \E a \in Answers \ {PENDING} : Answer(t, a)
    BY <1>1 DEF Answers
  <2>2. "count" = "count" => call[t].op # "find"
    BY <1>1
  <2>3. QED
    BY <1>1, <2>1, <2>2, AnswerGiven
<1>3. slot[t] \in Active
  BY <1>1 DEF Inv, CallsTypeOK, Where, Fits, Active
<1>4. Vacate(slot[t])
  BY <1>1, <1>3 DEF Vacate
<1>5. PICK i \in Active : i = slot[t]
  BY <1>3
<1>6. /\ users' \in [Slots -> Session \cup {FREE}]
      /\ Cardinality(Active') = Cardinality(Active) - 1
  BY <1>4, <1>5, VacateActive DEF Inv, CallsTypeOK, TableTypeOK
<1>7. count = Cardinality(Active)
  <2>1. \A u \in Threads : at[u] # "count"
    BY <1>1, <1>2, Holds DEF Inside
  <2>2. QED
    BY <2>1 DEF Inv, CountIs
<1>8. TableTypeOK'
  BY <1>1, <1>6 DEF Inv, CallsTypeOK, TableTypeOK
<1>9. CountIs'
  <2>1. count' = Cardinality(Active') + 1
    BY <1>1, <1>6, <1>7, ActiveFinite
  <2>2. \A u \in Threads : at'[u] = "count" => call'[u].op # "add"
    <3>1. \A u \in Threads : u # t => at[u] \notin Inside
      BY <1>2, Holds
    <3>2. QED
      BY <1>1, <1>2, <3>1 DEF Others, Inside
  <2>3. QED
    BY <1>2, <2>1, <2>2 DEF CountIs
<1>10. Inv'
  BY <1>1, <1>2, <1>8, <1>9, OthersStay DEF Inside, Inv, CallsTypeOK
<1>11. QED
  BY <1>3, <1>4, <1>10

(* The count catches up. *)
LEMMA CountKeeps ==
  ASSUME Inv, NEW t \in Threads, Count(t)
  PROVE  Inv'
<1> USE TableAssumption, CallsAssumption
<1>1. /\ at[t] = "count" /\ at' = [at EXCEPT ![t] = "unlock"]
      /\ count' = (IF call[t].op = "add" THEN count + 1 ELSE count - 1)
      /\ UNCHANGED <<users, mutex, call, slot>>
  BY DEF Count, Goto
<1>2. /\ at'[t] = "unlock" /\ Others(t) /\ mutex = t
      /\ at' \in [Threads -> {"out", "lock", "return"} \cup Inside]
  BY <1>1 DEF Inv, CallsTypeOK, Others, Inside
<1>3. Where(t)'
  BY <1>1, <1>2, Holds DEF Where, Inside
<1>4. Active' = Active
  BY <1>1 DEF Active
<1>5. count' = Cardinality(Active)
  <2>1. count = Cardinality(Active) + IF call[t].op = "add" THEN -1 ELSE 1
    BY <1>1 DEF Inv, CountIs
  <2>2. QED
    BY <1>1, <2>1, ActiveFinite
<1>6. TableTypeOK'
  BY <1>1, <1>5, ActiveFinite DEF Inv, CallsTypeOK, TableTypeOK
<1>7. \A u \in Threads : at'[u] # "count"
  <2>1. \A u \in Threads : u # t => at[u] \notin Inside
    BY <1>2, Holds
  <2>2. QED
    BY <1>2, <2>1 DEF Others, Inside
<1>8. CountIs'
  BY <1>4, <1>5, <1>7 DEF CountIs
<1>9. QED
  BY <1>1, <1>2, <1>3, <1>6, <1>8, OthersStay DEF Inside, Inv, CallsTypeOK

(* The mutex is given back. *)
LEMMA UnlockKeeps ==
  ASSUME Inv, NEW t \in Threads, Unlock(t)
  PROVE  Inv'
<1> USE TableAssumption, CallsAssumption
<1>1. /\ at[t] = "unlock" /\ at' = [at EXCEPT ![t] = "return"]
      /\ mutex' = NOBODY /\ slot' = [slot EXCEPT ![t] = 0]
      /\ UNCHANGED <<table, call>>
  BY DEF Unlock, Goto
<1>2. /\ at'[t] = "return" /\ slot'[t] = 0 /\ Others(t) /\ mutex = t
      /\ at' \in [Threads -> {"out", "lock", "return"} \cup Inside]
      /\ slot' \in [Threads -> 0 .. MAX_ONLINE_USERS]
  BY <1>1 DEF Inv, CallsTypeOK, Others, Inside
<1>3. Where(t)'
  BY <1>1, <1>2, Holds DEF Where, Inside
<1>4. QED
  BY <1>1, <1>2, <1>3, OthersStay, CountStays DEF table, Inside, Inv, CallsTypeOK

(* The call is over. *)
LEMMA ReturnKeeps ==
  ASSUME Inv, NEW t \in Threads, Return(t)
  PROVE  Inv'
<1> USE TableAssumption, CallsAssumption
<1>1. /\ at[t] = "return" /\ at' = [at EXCEPT ![t] = "out"]
      /\ call' = [call EXCEPT ![t] = IDLE]
      /\ UNCHANGED <<table, mutex, slot>>
  BY DEF Return, Goto
<1>2. /\ at'[t] = "out" /\ call'[t] = IDLE /\ Others(t) /\ mutex # t
      /\ at' \in [Threads -> {"out", "lock", "return"} \cup Inside]
      /\ call' \in [Threads -> Request \cup {IDLE}]
  BY <1>1 DEF Inv, CallsTypeOK, Others, Inside
<1>3. Where(t)'
  BY <1>1, <1>2, Holds DEF Where, Inside
<1>4. QED
  BY <1>1, <1>2, <1>3, OthersStay, CountStays DEF table, Inside, Inv, CallsTypeOK

(* The empty table, with nobody in a call. *)
LEMMA InitInv == Init => Inv
<1> SUFFICES ASSUME Init PROVE Inv
  OBVIOUS
<1>1. Active = {}
  BY DEF Init, InitTable, Active
<1>2. TableTypeOK /\ count = Cardinality(Active)
  BY <1>1, TableAssumption, FS_EmptySet DEF Init, InitTable, TableTypeOK
<1>3. \A t \in Threads : Where(t)
  BY DEF Init, InitCalls, Where, Inside
<1>4. CallsTypeOK
  BY <1>2, TableAssumption, CallsAssumption DEF Init, InitCalls, CallsTypeOK, Inside
<1>5. QED
  BY <1>2, <1>3, <1>4 DEF Inv, CountIs, Init, InitCalls

(* Every step keeps the invariant. *)
LEMMA NextInv ==
  ASSUME Inv, [Next]_vars
  PROVE  Inv'
<1>1. CASE UNCHANGED vars
  <2>1. TableTypeOK'
    BY <1>1 DEF vars, Inv, CallsTypeOK, TableTypeOK
  <2>2. CallsTypeOK'
    BY <1>1, <2>1 DEF vars, Inv, CallsTypeOK
  <2>3. Active' = Active
    BY <1>1 DEF vars, Active
  <2>4. CountIs'
    BY <1>1, <2>3 DEF vars, Inv, CountIs
  <2>5. \A t \in Threads : Where(t)'
    BY <1>1 DEF vars, Inv, Where, Fits
  <2>6. QED
    BY <2>2, <2>4, <2>5 DEF Inv
<1>2. ASSUME NEW t \in Threads, Calls(t) \/ Acquire(t) \/ Body(t) PROVE Inv'
  BY <1>2, CallKeeps, AcquireKeeps, SearchKeeps, MissKeeps, FillKeeps, ClearKeeps,
     ReadKeeps, CountKeeps, UnlockKeeps, ReturnKeeps DEF Body
<1>3. QED
  BY <1>1, <1>2 DEF Next

(* So it holds at all times. *)
LEMMA Invariant == Spec => []Inv
  BY InitInv, NextInv, PTL DEF Spec

(* The table never leaves its shape and its count never its range, one      *)
(* thread at most is inside, with the mutex, and no index is out of range.  *)
THEOREM CallsTyped == Spec => []CallsTypeOK
<1>1. Inv => CallsTypeOK
  BY DEF Inv
<1>2. QED
  BY Invariant, <1>1, PTL

(* After any calls of any threads, ou->count is the number of active slots  *)
(* whenever nobody is inside.                                               *)
THEOREM CountIsExact == Spec => []CountExact
<1>1. Inv => CountExact
  <2> SUFFICES ASSUME Inv, mutex = NOBODY PROVE count = Cardinality(Active)
    BY DEF CountExact
  <2>1. \A t \in Threads : at[t] # "count"
    BY Holds, CallsAssumption DEF Inside
  <2>2. QED
    BY <2>1 DEF Inv, CountIs
<1>2. QED
  BY Invariant, <1>1, PTL

--------------------------------------------------------------------------------
(* How often a session is in the table, before and after a slot changes.    *)
LEMMA CopiesFinite ==
  ASSUME NEW s
  PROVE  IsFiniteSet(Holding(s)) /\ Copies(s) \in Nat
<1>1. Holding(s) \in SUBSET Slots
  BY DEF Holding
<1>2. QED
  BY <1>1, SlotsFinite, FS_Subset, FS_CardinalityType DEF Copies

(* Occupying a slot adds one copy of that session and of no other. *)
LEMMA OccupyCopies ==
  ASSUME TableTypeOK, NEW i \in Slots, NEW s \in Session, Occupy(i, s)
  PROVE  /\ Copies(s)' = Copies(s) + 1
         /\ \A t \in Session : t # s => Copies(t)' = Copies(t)
<1>1. users[i] = FREE /\ \A j \in Slots : users'[j] = IF j = i THEN s ELSE users[j]
  BY DEF Occupy, Active, TableTypeOK
<1>2. Holding(s)' = Holding(s) \cup {i} /\ i \notin Holding(s)
  BY <1>1, TableAssumption DEF Holding
<1>3. Copies(s)' = Copies(s) + 1
  BY <1>2, CopiesFinite, FS_AddElement DEF Copies
<1>4. ASSUME NEW t \in Session, t # s PROVE Holding(t)' = Holding(t)
  BY <1>1, <1>4, TableAssumption DEF Holding
<1>5. QED
  BY <1>3, <1>4 DEF Copies

(* Vacating a slot takes away one copy of what was in it. *)
LEMMA VacateCopies ==
  ASSUME TableTypeOK, NEW i \in Active, Vacate(i), NEW s \in Session, s = users[i]
  PROVE  /\ Copies(s) > 0 /\ Copies(s)' = Copies(s) - 1
         /\ \A t \in Session : t # s => Copies(t)' = Copies(t)
<1>1. i \in Slots /\ s # FREE
  BY TableAssumption DEF Active
<1>2. \A j \in Slots : users'[j] = IF j = i THEN FREE ELSE users[j]
  BY <1>1 DEF Vacate, TableTypeOK
<1>3. Holding(s)' = Holding(s) \ {i} /\ i \in Holding(s)
  BY <1>1, <1>2 DEF Holding
<1>4. Cardinality(Holding(s) \ {i}) = Copies(s) - 1
  BY <1>3, CopiesFinite, FS_RemoveElement DEF Copies
<1>5. Copies(s) > 0
  <2>1. IsFiniteSet(Holding(s) \ {i})
    BY CopiesFinite, FS_RemoveElement
  <2>2. Copies(s) - 1 \in Nat
    BY <1>4, <2>1, FS_CardinalityType
  <2>3. QED
    BY <2>2, CopiesFinite
<1>6. ASSUME NEW t \in Session, t # s PROVE Holding(t)' = Holding(t)
  <2>1. t # FREE
    BY TableAssumption
  <2>2. QED
    BY <1>1, <1>2, <1>6, <2>1 DEF Holding
<1>7. QED
  BY <1>3, <1>4, <1>5, <1>6 DEF Copies

(* What the loop finds when it stops: the first slot that fits, or none.    *)
LEMMA HitIsFirst ==
  ASSUME Inv, NEW t \in Threads, at[t] = "hit"
  PROVE  FirstOf({i \in Slots : Fits(call[t], i)}) = slot[t]
<1> DEFINE S == {i \in Slots : Fits(call[t], i)}
<1>1. /\ slot[t] \in S /\ \A j \in Slots : j < slot[t] => ~Fits(call[t], j)
  BY DEF Inv, CallsTypeOK, Where
<1>2. PICK k \in S : k = slot[t]
  BY <1>1
<1>3. S \in SUBSET Nat
  BY SlotsFinite
<1>4. \A j \in S : k <= j
  BY <1>1, <1>2, <1>3
<1>5. FirstOf(S) = k
  BY <1>3, <1>4, FirstIs
<1>6. QED
  BY <1>2, <1>5

(* A loop that ran out of slots has seen that none fits. *)
LEMMA MissIsEmpty ==
  ASSUME Inv, NEW t \in Threads, at[t] = "search", slot[t] = MAX_ONLINE_USERS
  PROVE  \A i \in Slots : ~Fits(call[t], i)
  BY TableAssumption DEF Inv, Where, Slots

--------------------------------------------------------------------------------
(* The steps of a call as steps of the promise.                             *)
LEMMA InitPromise == Init => Promise!Init
<1> SUFFICES ASSUME Init PROVE Promise!Init
  OBVIOUS
<1>1. ASSUME NEW s \in Session PROVE Copies(s) = 0
  <2>1. Holding(s) = {}
    BY TableAssumption DEF Init, InitTable, Holding
  <2>2. QED
    BY <2>1, FS_EmptySet DEF Copies
<1>2. Cardinality(Active) = 0
  <2>1. Active = {}
    BY DEF Init, InitTable, Active
  <2>2. QED
    BY <2>1, FS_EmptySet
<1>3. QED
  BY <1>1, <1>2 DEF Init, InitCalls, Promise!Init

(* As long as no slot changes, neither does the bag. *)
LEMMA SameBag ==
  ASSUME UNCHANGED users
  PROVE  UNCHANGED <<[s \in Session |-> Copies(s)], Cardinality(Active)>>
  BY DEF Copies, Holding, Active

(* An active slot holds a session, of which there is a copy. *)
LEMMA InSlot ==
  ASSUME Inv, NEW i \in Active
  PROVE  users[i] \in Session /\ Copies(users[i]) > 0
<1>1. users[i] \in Session /\ i \in Slots
  BY DEF Active, Inv, CallsTypeOK, TableTypeOK
<1>2. PICK s \in Session : s = users[i]
  BY <1>1
<1>3. i \in Holding(s)
  BY <1>1, <1>2 DEF Holding
<1>4. Cardinality(Holding(s)) # 0
  BY <1>3, CopiesFinite, FS_EmptySet
<1>5. QED
  BY <1>1, <1>2, <1>4, CopiesFinite DEF Copies

(* Without an active slot that holds it, a session has no copy. *)
LEMMA NoSlot ==
  ASSUME NEW s \in Session, \A i \in Active : users[i] # s
  PROVE  Copies(s) = 0
<1>1. Holding(s) = {}
  BY TableAssumption DEF Holding, Active
<1>2. QED
  BY <1>1, FS_EmptySet DEF Copies

(* A session put in is a Join. *)
LEMMA FillPromise ==
  ASSUME Inv, NEW t \in Threads, Fill(t)
  PROVE  Promise!Join(t)
<1>1. /\ call[t].op = "add" /\ at[t] = "hit" /\ Answer(t, 1)
      /\ Inv' /\ Occupy(slot[t], call[t].arg)
      /\ call[t].arg \in Session /\ slot[t] \in Slots
  BY FillKeeps DEF Fill, Hit, Inv, CallsTypeOK
<1>2. call[t] # IDLE /\ call[t].answer = PENDING
  BY <1>1 DEF Inv, Where
<1>3. PICK i \in Slots, s \in Session : i = slot[t] /\ s = call[t].arg
  BY <1>1
<1>4. /\ Copies(s)' = Copies(s) + 1
      /\ \A u \in Session : u # s => Copies(u)' = Copies(u)
  BY <1>1, <1>3, OccupyCopies DEF Inv, CallsTypeOK
<1>5. Cardinality(Active') = Cardinality(Active) + 1
  BY <1>1, <1>3, OccupyActive DEF Inv, CallsTypeOK, TableTypeOK
<1>6. Cardinality(Active) < MAX_ONLINE_USERS
  <2>1. Active # Slots
    BY <1>1 DEF Occupy
  <2>2. QED
    BY <2>1, ActiveFinite, TableAssumption
<1> DEFINE bag == [u \in Session |-> Copies(u)]
<1>7. bag' = [bag EXCEPT ![s] = @ + 1]
  BY <1>4
<1>8. QED
  BY <1>1, <1>2, <1>3, <1>5, <1>6, <1>7 DEF Promise!Join, Promise!Calls, Promise!Answer, Answer

(* A session taken out is a Leave, of the socket of the call. *)
LEMMA ClearPromise ==
  ASSUME Inv, NEW t \in Threads, Clear(t)
  PROVE  Promise!Leave(t)
<1>1. /\ call[t].op = "remove" /\ at[t] = "hit" /\ Answer(t, 0)
      /\ Vacate(slot[t]) /\ slot[t] \in Active
  BY ClearKeeps DEF Clear, Hit
<1>2. /\ call[t] # IDLE /\ call[t].answer = PENDING
      /\ users[slot[t]].socket_fd = call[t].arg
  BY <1>1 DEF Inv, Where, Fits
<1>3. PICK i \in Active : i = slot[t]
  BY <1>1
<1>4. PICK s \in Session : s = users[i]
  BY InSlot
<1>5. /\ Copies(s) > 0 /\ Copies(s)' = Copies(s) - 1
      /\ \A u \in Session : u # s => Copies(u)' = Copies(u)
  BY <1>1, <1>3, <1>4, VacateCopies DEF Inv, CallsTypeOK
<1>6. Cardinality(Active') = Cardinality(Active) - 1
  BY <1>1, <1>3, VacateActive DEF Inv, CallsTypeOK, TableTypeOK
<1> DEFINE bag == [u \in Session |-> Copies(u)]
<1>7. bag' = [bag EXCEPT ![s] = @ - 1] /\ bag[s] > 0
  BY <1>5
<1>8. SocketOf(s) = call[t].arg
  BY <1>2, <1>3, <1>4 DEF SocketOf
<1>9. QED
  BY <1>1, <1>2, <1>6, <1>7, <1>8 DEF Promise!Leave, Promise!Calls, Promise!Answer, Answer

(* A socket read is one that Find may answer. *)
LEMMA ReadPromise ==
  ASSUME Inv, NEW t \in Threads, Read(t)
  PROVE  Promise!Find(t)
<1>1. /\ call[t].op = "find" /\ at[t] = "hit" /\ UNCHANGED users
      /\ Answer(t, users[slot[t]].socket_fd)
  BY DEF Read, Hit, table
<1>2. /\ call[t] # IDLE /\ call[t].answer = PENDING /\ slot[t] \in Active
      /\ users[slot[t]].login = call[t].arg
  BY <1>1 DEF Inv, CallsTypeOK, Where, Fits, Active
<1>3. PICK i \in Active : i = slot[t]
  BY <1>2
<1>4. PICK s \in Session : s = users[i] /\ Copies(s) > 0
  BY InSlot
<1>5. NameOf(s) = call[t].arg /\ SocketOf(s) = users[slot[t]].socket_fd
  BY <1>2, <1>3, <1>4 DEF SocketOf, NameOf
<1>6. QED
  BY <1>1, <1>2, <1>4, <1>5, SameBag
  DEF Promise!Find, Promise!Calls, Promise!Answer, Answer

(* A loop that ran out of slots says what Presence allows only then. *)
LEMMA MissPromise ==
  ASSUME Inv, NEW t \in Threads, Miss(t)
  PROVE  Promise!Refuse(t) \/ Promise!LeaveNobody(t) \/ Promise!Find(t)
<1>1. /\ at[t] = "search" /\ slot[t] = MAX_ONLINE_USERS /\ UNCHANGED users
      /\ Answer(t, IF call[t].op = "find" THEN -1 ELSE 0)
  BY DEF Miss, table
<1>2. call[t] # IDLE /\ call[t].answer = PENDING
  BY <1>1 DEF Inv, Where
<1>3. \A i \in Slots : ~Fits(call[t], i)
  BY <1>1, MissIsEmpty
<1>4. call[t].op \in {"add", "remove", "find"}
  BY <1>2, RequestShape, Holds
<1>5. UNCHANGED <<[s \in Session |-> Copies(s)], Cardinality(Active)>>
  BY <1>1, SameBag
<1>6. CASE call[t].op = "add"
  <2>1. Active = Slots
    BY <1>3, <1>6 DEF Fits, Active
  <2>2. Cardinality(Active) = MAX_ONLINE_USERS
    BY <2>1, SlotsFinite
  <2>3. QED
    BY <1>1, <1>2, <1>5, <1>6, <2>2
    DEF Promise!Refuse, Promise!Calls, Promise!Answer, Answer
<1>7. CASE call[t].op = "remove"
  <2>1. ASSUME NEW s \in Session, SocketOf(s) = call[t].arg PROVE Copies(s) = 0
    BY <1>3, <1>7, <2>1, NoSlot DEF Fits, Active, SocketOf
  <2>2. QED
    BY <1>1, <1>2, <1>5, <1>7, <2>1
    DEF Promise!LeaveNobody, Promise!Calls, Promise!Answer, Answer
<1>8. CASE call[t].op = "find"
  <2>1. ASSUME NEW s \in Session, NameOf(s) = call[t].arg PROVE Copies(s) = 0
    BY <1>3, <1>8, <2>1, NoSlot DEF Fits, Active, NameOf
  <2>2. QED
    BY <1>1, <1>2, <1>5, <1>8, <2>1
    DEF Promise!Find, Promise!Calls, Promise!Answer, Answer
<1>9. QED
  BY <1>4, <1>6, <1>7, <1>8

(* A call that begins, begins. *)
LEMMA CallPromise ==
  ASSUME Inv, NEW t \in Threads, Calls(t)
  PROVE  Promise!Next
<1>1. PICK op \in {"add", "remove", "find"},
           arg \in Session \cup Fds \cup Logins :
        /\ Call(t, op, arg)
        /\ op = "add" => arg \in Session
        /\ op = "remove" => arg \in Fds
        /\ op = "find" => arg \in Logins
  <2>1. ASSUME NEW a \in Accounts, NEW fd \in Fds
        PROVE  [user_id |-> a[1], login |-> Cut[a[2]], socket_fd |-> fd] \in Session
    BY TableAssumption DEF Session, UserIds, Logins
  <2>2. QED
    BY <2>1 DEF Calls
<1>2. call[t] = IDLE /\ UNCHANGED users
  BY <1>1 DEF Call, Inv, Where, table
<1>3. Promise!Begin(t, op, arg)
  BY <1>1, <1>2, SameBag DEF Call, Promise!Begin
<1>4. QED
  BY <1>1, <1>3 DEF Promise!Next

(* Every step is a step of the promise, or changes nothing of it.           *)
LEMMA NextPromise ==
  ASSUME Inv, [Next]_vars
  PROVE  [Promise!Next]_(Promise!vars)
<1>1. ASSUME UNCHANGED <<users, call>> PROVE UNCHANGED Promise!vars
  BY <1>1, SameBag DEF Promise!vars
<1>2. ASSUME NEW t \in Threads, Return(t) PROVE Promise!Return(t)
  <2>1. /\ call[t] # IDLE /\ call[t].answer # PENDING /\ UNCHANGED users
        /\ call' = [call EXCEPT ![t] = IDLE]
    BY <1>2 DEF Return, Inv, Where, table
  <2>2. QED
    BY <2>1, SameBag DEF Promise!Return
<1>3. ASSUME NEW t \in Threads,
             Acquire(t) \/ Search(t) \/ Count(t) \/ Unlock(t)
      PROVE  UNCHANGED <<users, call>>
  BY <1>3 DEF Acquire, Search, Count, Unlock, table
<1>4. ASSUME NEW t \in Threads, Calls(t) \/ Acquire(t) \/ Body(t)
      PROVE  Promise!Next \/ UNCHANGED Promise!vars
  BY <1>1, <1>2, <1>3, <1>4, FillPromise, ClearPromise, ReadPromise, MissPromise, CallPromise
  DEF Body, Promise!Next
<1>5. QED
  BY <1>1, <1>4 DEF Next, vars

(* The array of slots, with its mutex and its loops, implements the bag of  *)
(* sessions with a capacity, whatever calls its threads make.               *)
THEOREM TableImplementsPresence == Spec => TableIsBag
  BY InitPromise, NextPromise, Invariant, PTL DEF Spec, TableIsBag, Promise!Spec

--------------------------------------------------------------------------------
(* Nothing is decided for the other threads. *)
LEMMA OnlyDecides ==
  ASSUME Inv, NEW t \in Threads, Others(t), NEW u \in Threads, Decides(u)
  PROVE  u = t
  BY DEF Others, Decides

(* An addition does what online_users_add does alone. *)
LEMMA FillAlone ==
  ASSUME Inv, NEW t \in Threads, Fill(t)
  PROVE  Effect(t)
<1>1. /\ call[t].op = "add" /\ at[t] = "hit" /\ slot[t] \in Slots
      /\ users' = [users EXCEPT ![slot[t]] = call[t].arg]
      /\ Answer(t, 1) /\ users[slot[t]] = FREE /\ call[t] # IDLE
      /\ Entered(call[t].arg)
  BY DEF Fill, Hit, Inv, CallsTypeOK, Where, Fits
<1>2. {i \in Slots : Fits(call[t], i)} = Slots \ Active
  BY <1>1 DEF Fits, Active
<1>3. FirstOf(Slots \ Active) = slot[t] /\ AddSucceeds
  BY <1>1, <1>2, HitIsFirst DEF AddSucceeds, Active
<1>4. Cardinality(Active)' = Cardinality(Active) + 1
  <2>1. PICK i \in Slots, s \in Session : i = slot[t] /\ s = call[t].arg /\ Occupy(i, s)
    BY <1>1, FillKeeps
  <2>2. QED
    BY <2>1, OccupyActive DEF Inv, CallsTypeOK, TableTypeOK
<1>5. PICK a \in Accounts, fd \in Fds :
        call[t].arg = [user_id |-> a[1], login |-> Cut[a[2]], socket_fd |-> fd]
  BY <1>1 DEF Entered
<1>6. users' = [users EXCEPT ![FirstOf(Slots \ Active)] =
                   [user_id |-> a[1], login |-> Cut[a[2]], socket_fd |-> fd]]
  BY <1>1, <1>3, <1>5
<1>7. Seen!Add(a[1], a[2], fd)
  BY <1>3, <1>4, <1>6
  DEF Seen!Add, Seen!AddSucceeds, Seen!FirstOf, Seen!Slots, Seen!Active,
      AddSucceeds, FirstOf, Slots, Active
<1>8. call'[t].answer = 1
  BY <1>1 DEF Answer, Inv, CallsTypeOK
<1>9. QED
  BY <1>1, <1>3, <1>5, <1>7, <1>8 DEF Effect

(* A removal does what online_users_remove does alone. *)
LEMMA ClearAlone ==
  ASSUME Inv, NEW t \in Threads, Clear(t)
  PROVE  Effect(t)
<1>1. /\ call[t].op = "remove" /\ at[t] = "hit" /\ slot[t] \in Active
      /\ users' = [users EXCEPT ![slot[t]] = FREE] /\ Vacate(slot[t])
      /\ Fits(call[t], slot[t])
  BY ClearKeeps DEF Clear, Hit, Inv, Where
<1>2. {i \in Slots : Fits(call[t], i)} = SlotsOf(call[t].arg)
  BY <1>1 DEF Fits, Active, SlotsOf
<1>3. FirstOf(SlotsOf(call[t].arg)) = slot[t] /\ SlotsOf(call[t].arg) # {}
  BY <1>1, <1>2, HitIsFirst DEF Active
<1>4. Cardinality(Active)' = Cardinality(Active) - 1
  <2>1. PICK i \in Active : i = slot[t]
    BY <1>1
  <2>2. QED
    BY <1>1, <2>1, VacateActive DEF Inv, CallsTypeOK, TableTypeOK
<1>5. users' = [users EXCEPT ![FirstOf(SlotsOf(call[t].arg))] = FREE]
  BY <1>1, <1>3
<1>6. Seen!Remove(call[t].arg)
  BY <1>3, <1>4, <1>5
  DEF Seen!Remove, Seen!SlotsOf, Seen!FirstOf, Seen!Active, Seen!Slots,
      SlotsOf, FirstOf, Active, Slots
<1>7. QED
  BY <1>1, <1>6 DEF Effect

(* A search answers what online_users_find_by_login answers alone. *)
LEMMA ReadAlone ==
  ASSUME Inv, NEW t \in Threads, Read(t)
  PROVE  Effect(t)
<1>1. /\ call[t].op = "find" /\ at[t] = "hit" /\ UNCHANGED users
      /\ Answer(t, users[slot[t]].socket_fd) /\ Fits(call[t], slot[t])
      /\ slot[t] \in Slots
  BY DEF Read, Hit, Inv, Where, CallsTypeOK, table
<1>2. {i \in Slots : Fits(call[t], i)} = {i \in Active : users[i].login = call[t].arg}
  BY <1>1 DEF Fits, Active
<1>3. FindByLogin(call[t].arg) = users[slot[t]].socket_fd
  BY <1>1, <1>2, HitIsFirst DEF FindByLogin
<1>4. call'[t].answer = users[slot[t]].socket_fd
  BY <1>1 DEF Answer, Inv, CallsTypeOK
<1>5. QED
  BY <1>1, <1>3, <1>4 DEF Effect

(* A call that finds no slot does and answers what it would alone. *)
LEMMA MissAlone ==
  ASSUME Inv, NEW t \in Threads, Miss(t)
  PROVE  Effect(t) /\ UNCHANGED users
<1>1. /\ at[t] = "search" /\ slot[t] = MAX_ONLINE_USERS /\ UNCHANGED <<users, count>>
      /\ Answer(t, IF call[t].op = "find" THEN -1 ELSE 0)
  BY DEF Miss, table
<1>2. call[t] # IDLE /\ (call[t].op = "add" => Entered(call[t].arg))
  BY <1>1 DEF Inv, Where
<1>3. \A i \in Slots : ~Fits(call[t], i)
  BY <1>1, MissIsEmpty
<1>4. call[t].op \in {"add", "remove", "find"}
  BY <1>2, RequestShape, Holds
<1>5. Cardinality(Active)' = Cardinality(Active)
  BY <1>1, SameBag
<1>6. call'[t].answer = IF call[t].op = "find" THEN -1 ELSE 0
  BY <1>1 DEF Answer, Inv, CallsTypeOK
<1>7. CASE call[t].op = "add"
  <2>1. ~AddSucceeds
    BY <1>3, <1>7 DEF Fits, Active, AddSucceeds
  <2>2. PICK a \in Accounts, fd \in Fds :
          call[t].arg = [user_id |-> a[1], login |-> Cut[a[2]], socket_fd |-> fd]
    BY <1>2, <1>7 DEF Entered
  <2>3. Seen!Add(a[1], a[2], fd)
    BY <1>1, <1>5, <2>1
    DEF Seen!Add, Seen!AddSucceeds, Seen!Active, Seen!Slots, Seen!table,
        AddSucceeds, Active, Slots
  <2>4. QED
    BY <1>1, <1>6, <1>7, <2>1, <2>2, <2>3 DEF Effect
<1>8. CASE call[t].op = "remove"
  <2>1. SlotsOf(call[t].arg) = {}
    BY <1>3, <1>8 DEF Fits, Active, SlotsOf
  <2>2. Seen!Remove(call[t].arg)
    BY <1>1, <1>5, <2>1
    DEF Seen!Remove, Seen!SlotsOf, Seen!Active, Seen!Slots, Seen!table,
        SlotsOf, Active, Slots
  <2>3. QED
    BY <1>1, <1>8, <2>2 DEF Effect
<1>9. CASE call[t].op = "find"
  <2>1. {i \in Active : users[i].login = call[t].arg} = {}
    BY <1>3, <1>9 DEF Fits, Active
  <2>2. FindByLogin(call[t].arg) = -1
    BY <2>1 DEF FindByLogin
  <2>3. QED
    BY <1>1, <1>6, <1>9, <2>2 DEF Effect
<1>10. QED
  BY <1>1, <1>4, <1>7, <1>8, <1>9

(* A call takes effect in one step, as it would alone, and decides its      *)
(* answer there; no slot changes at any other step.                         *)
THEOREM CallsAreAtomic == Spec => AsAtomic
<1> DEFINE Good == /\ \A t \in Threads : Decides(t) => Effect(t)
                   /\ (\A t \in Threads : ~Decides(t)) => UNCHANGED users
<1>1. ASSUME Inv, [Next]_vars PROVE [Good]_vars
  <2>1. ASSUME NEW t \in Threads, Calls(t) \/ Acquire(t) \/ Body(t) PROVE Good
    <3>1. Others(t)
      BY <1>1, <2>1
      DEF Calls, Call, Acquire, Body, Search, Miss, Fill, Clear, Read, Hit, Count,
          Unlock, Return, Goto, Answer, Others, Inv, CallsTypeOK
    <3>2. \A u \in Threads : Decides(u) => u = t
      BY <1>1, <3>1, OnlyDecides
    <3>3. CASE Fill(t)
      <4>1. Effect(t)
        BY <1>1, <3>3, FillAlone
      <4>2. Decides(t)
        <5>1. /\ at[t] = "hit" /\ at'[t] = "count"
          BY <1>1, <3>3 DEF Fill, Hit, Goto, Inv, CallsTypeOK
        <5>2. Inv'
          BY <1>1, NextInv
        <5>3. QED
          BY <1>1, <5>1, <5>2 DEF Decides, Inv, Where
      <4>3. QED
        BY <3>2, <4>1, <4>2
    <3>4. CASE Clear(t)
      <4>1. Effect(t)
        BY <1>1, <3>4, ClearAlone
      <4>2. Decides(t)
        <5>1. /\ at[t] = "hit" /\ at'[t] = "count"
          BY <1>1, <3>4 DEF Clear, Hit, Goto, Inv, CallsTypeOK
        <5>2. Inv'
          BY <1>1, NextInv
        <5>3. QED
          BY <1>1, <5>1, <5>2 DEF Decides, Inv, Where
      <4>3. QED
        BY <3>2, <4>1, <4>2
    <3>5. CASE Read(t)
      <4>1. Effect(t) /\ UNCHANGED users
        BY <1>1, <3>5, ReadAlone DEF Read, table
      <4>2. QED
        BY <3>2, <4>1
    <3>6. CASE Miss(t)
      <4>1. Effect(t) /\ UNCHANGED users
        BY <1>1, <3>6, MissAlone
      <4>2. QED
        BY <3>2, <4>1
    <3>7. CASE Calls(t) \/ Acquire(t) \/ Search(t) \/ Count(t) \/ Unlock(t) \/ Return(t)
      <4>1. UNCHANGED users
        BY <3>7 DEF Calls, Call, Acquire, Search, Count, Unlock, Return, table
      <4>2. ~Decides(t)
        <5>1. Inv /\ Inv'
          BY <1>1, NextInv
        <5>2. \/ at[t] = "out" \/ at[t] \in {"count", "unlock", "return"}
              \/ at'[t] \in {"lock", "search", "hit"}
          BY <1>1, <3>7
          DEF Calls, Call, Acquire, Search, Count, Unlock, Return, Goto, Inv,
              CallsTypeOK
        <5>3. QED
          BY <5>1, <5>2 DEF Decides, Inv, Where
      <4>3. QED
        BY <3>2, <4>1, <4>2
    <3>8. QED
      BY <2>1, <3>3, <3>4, <3>5, <3>6, <3>7 DEF Body
  <2>2. QED
    BY <1>1, <2>1 DEF Next
<1>2. QED
  BY <1>1, Invariant, PTL DEF Spec, AsAtomic
================================================================================
