------------------------------ MODULE OnlineCalls ------------------------------
(***************************************************************************)
(* The calls of the table of online users (server/src/online_users.c) by   *)
(* several threads, down to the mutex and the loop over the slots.  Any    *)
(* thread may make any call at any time.                                   *)
(*                                                                         *)
(* What is written or read in the slot the loop stopped at is one step:    *)
(* only the holder of the mutex looks at a slot.  The count is read once   *)
(* without the mutex, by the log line after an addition (lines 37-38),     *)
(* which changes nothing.                                                  *)
(***************************************************************************)
EXTENDS OnlineUsers

CONSTANTS Threads,
          NOBODY,  \* holds the mutex when it is free
          IDLE,    \* a thread that is not in a call
          PENDING  \* a call whose answer is not decided

ASSUME CallsAssumption ==
    /\ NOBODY \notin Threads
    /\ IDLE \notin [op : {"add", "remove", "find"},
                    arg : Session \cup Fds \cup Logins,
                    answer : Int \cup {PENDING}]
    /\ PENDING \notin Int

VARIABLES mutex, \* ou->mutex: the thread that holds it
          call,  \* the call of each thread: its arguments and its answer
          at,    \* where each thread is in it
          slot   \* the index i of its loop, 0 outside

vars == <<users, count, mutex, call, at, slot>>

InitCalls ==
    /\ mutex = NOBODY
    /\ call = [t \in Threads |-> IDLE]
    /\ at = [t \in Threads |-> "out"]
    /\ slot = [t \in Threads |-> 0]
Init == InitTable /\ InitCalls

Goto(t, label) == at' = [at EXCEPT ![t] = label]
Answer(t, a) == call' = [call EXCEPT ![t].answer = a]

Call(t, op, arg) ==
    /\ at[t] = "out" /\ Goto(t, "lock")
    /\ call' = [call EXCEPT ![t] = [op |-> op, arg |-> arg, answer |-> PENDING]]
    /\ UNCHANGED <<table, mutex, slot>>

(* pthread_mutex_lock; the loop begins at slot 0. *)
EnterAnyway(t) ==
    /\ at[t] = "lock" /\ Goto(t, "search")
    /\ mutex' = t
    /\ UNCHANGED <<table, call, slot>>
SkipFirst(t) ==
    /\ at[t] = "lock" /\ Goto(t, "search")
    /\ mutex = NOBODY /\ mutex' = t
    /\ slot' = [slot EXCEPT ![t] = 1]
    /\ UNCHANGED <<table, call>>
Acquire(t) ==
    /\ at[t] = "lock" /\ Goto(t, "search")
    /\ mutex = NOBODY /\ mutex' = t
    /\ UNCHANGED <<table, call, slot>>

(* The test of each loop: a free slot for an addition, an active slot of    *)
(* that socket for a removal, of that login for a search.                   *)
TakesAny(c, i) ==
    \/ c.op = "add"
    \/ c.op = "remove" /\ users[i] # FREE /\ users[i].socket_fd = c.arg
    \/ c.op = "find" /\ users[i] # FREE /\ users[i].login = c.arg
Fits(c, i) ==
    \/ c.op = "add" /\ users[i] = FREE
    \/ c.op = "remove" /\ users[i] # FREE /\ users[i].socket_fd = c.arg
    \/ c.op = "find" /\ users[i] # FREE /\ users[i].login = c.arg

Search(t) ==
    /\ at[t] = "search" /\ slot[t] < MAX_ONLINE_USERS
    /\ IF Fits(call[t], slot[t])
       THEN Goto(t, "hit") /\ UNCHANGED slot
       ELSE slot' = [slot EXCEPT ![t] = @ + 1] /\ UNCHANGED at
    /\ UNCHANGED <<table, mutex, call>>

(* The loop ran out of slots: the table is full, or nobody was found.       *)
CountAnyway(t) ==
    /\ at[t] = "search" /\ slot[t] = MAX_ONLINE_USERS /\ Goto(t, "count")
    /\ Answer(t, IF call[t].op = "find" THEN -1 ELSE 0)
    /\ UNCHANGED <<table, mutex, slot>>
Miss(t) ==
    /\ at[t] = "search" /\ slot[t] = MAX_ONLINE_USERS /\ Goto(t, "unlock")
    /\ Answer(t, IF call[t].op = "find" THEN -1 ELSE 0)
    /\ UNCHANGED <<table, mutex, slot>>

(* The three bodies under the test; only the first two change the table.    *)
Hit(t, op, label) == at[t] = "hit" /\ call[t].op = op /\ Goto(t, label)
Fill(t) ==
    /\ Hit(t, "add", "count")
    /\ users' = [users EXCEPT ![slot[t]] = call[t].arg]
    /\ Answer(t, 1)
    /\ UNCHANGED <<count, mutex, slot>>
Clear(t) ==
    /\ Hit(t, "remove", "count")
    /\ users' = [users EXCEPT ![slot[t]] = FREE]
    /\ Answer(t, 0)
    /\ UNCHANGED <<count, mutex, slot>>
Read(t) ==
    /\ Hit(t, "find", "unlock")
    /\ Answer(t, users[slot[t]].socket_fd)
    /\ UNCHANGED <<table, mutex, slot>>

Count(t) ==
    /\ at[t] = "count" /\ Goto(t, "unlock")
    /\ count' = IF call[t].op = "add" THEN count + 1 ELSE count - 1
    /\ UNCHANGED <<users, mutex, call, slot>>

(* pthread_mutex_unlock: after the loop, and before the return inside it;   *)
(* the index is gone.                                                       *)
ReturnLocked(t) ==
    /\ at[t] = "unlock" /\ Goto(t, "return")
    /\ mutex' = IF call[t].answer = 1 THEN mutex ELSE NOBODY
    /\ slot' = [slot EXCEPT ![t] = 0]
    /\ UNCHANGED <<table, call>>
Unlock(t) ==
    /\ at[t] = "unlock" /\ Goto(t, "return")
    /\ mutex' = NOBODY
    /\ slot' = [slot EXCEPT ![t] = 0]
    /\ UNCHANGED <<table, call>>

Return(t) ==
    /\ at[t] = "return" /\ Goto(t, "out")
    /\ call' = [call EXCEPT ![t] = IDLE]
    /\ UNCHANGED <<table, mutex, slot>>

Calls(t) ==
    \/ \E a \in Accounts, fd \in Fds :
          Call(t, "add", [user_id |-> a[1], login |-> Cut[a[2]], socket_fd |-> fd])
    \/ \E fd \in Fds : Call(t, "remove", fd)
    \/ \E l \in Logins : Call(t, "find", l)
Body(t) ==
    \/ Search(t) \/ Miss(t) \/ Fill(t) \/ Clear(t) \/ Read(t) \/ Count(t)
    \/ Unlock(t) \/ Return(t)

Next == \E t \in Threads : Calls(t) \/ Acquire(t) \/ Body(t)

Spec == Init /\ [][Next]_vars

(* Threads run, and none is passed over for ever at the mutex.              *)
FairSpec ==
    /\ Spec
    /\ \A t \in Threads : SF_vars(Acquire(t)) /\ WF_vars(Body(t))
--------------------------------------------------------------------------------
Inside == {"search", "hit", "count", "unlock"}
Answers == {0, 1, -1} \cup Fds \cup {PENDING}
Request ==
    [op : {"add"}, arg : Session, answer : Answers]
      \cup [op : {"remove"}, arg : Fds, answer : Answers]
      \cup [op : {"find"}, arg : Logins, answer : Answers]

(* A thread that is inside holds the mutex, so at most one is; the table is *)
(* well formed, and an index in use is in range.                            *)
CallsTypeOK ==
    /\ TableTypeOK
    /\ mutex \in Threads \cup {NOBODY}
    /\ at \in [Threads -> {"out", "lock", "return"} \cup Inside]
    /\ slot \in [Threads -> 0 .. MAX_ONLINE_USERS]
    /\ call \in [Threads -> Request \cup {IDLE}]
    /\ \A t \in Threads : at[t] \in Inside <=> mutex = t
    /\ \A t \in Threads : at[t] = "hit" => slot[t] \in Slots

(* ou->count, which the code only ever increments and decrements, is the    *)
(* number of active slots, which the code never counts, whenever nobody is  *)
(* inside: after any additions and removals by any threads, refused and     *)
(* empty ones included.                                                     *)
CountExact == mutex = NOBODY => count = Cardinality(Active)

(* The array behaves like a bag of sessions with a capacity, whatever slots *)
(* were freed and reused and whoever called at the same time.  Nothing that *)
(* was added disappears or is there twice; a removal takes one session of   *)
(* its own socket, and none only if there is none; an addition is refused   *)
(* only when MAX_ONLINE_USERS sessions are there; the socket found is one   *)
(* that was online under that login during the call, and -1 is only said if *)
(* there was a moment in the call when there was none.                      *)
Holding(s) == {i \in Slots : users[i] = s}
Copies(s) == Cardinality(Holding(s))
SocketOf(s) == s.socket_fd
NameOf(s) == s.login
Promise == INSTANCE Presence WITH
    Capacity <- MAX_ONLINE_USERS,
    FdOf <- SocketOf, LoginOf <- NameOf,
    sessions <- [s \in Session |-> Copies(s)],
    online <- Cardinality(Active)
TableIsBag == Promise!Spec

(* A call is one step for everybody else.  At the moment its answer is      *)
(* decided the table changes exactly as the call alone would change it, the *)
(* slot it takes included, and the answer is the one it would give then;    *)
(* at no other moment does a slot change.  ClientHandler makes its calls in *)
(* one step on the strength of this.                                        *)
Seen == INSTANCE OnlineUsers WITH count <- Cardinality(Active)
Decides(t) ==
    /\ call[t] # IDLE /\ call[t].answer = PENDING
    /\ call'[t] # IDLE /\ call'[t].answer # PENDING
Effect(t) ==
    \/ /\ call[t].op = "add"
       /\ \E a \in Accounts, fd \in Fds :
             /\ call[t].arg = [user_id |-> a[1], login |-> Cut[a[2]],
                               socket_fd |-> fd]
             /\ Seen!Add(a[1], a[2], fd)
       /\ call'[t].answer = IF AddSucceeds THEN 1 ELSE 0
    \/ /\ call[t].op = "remove" /\ Seen!Remove(call[t].arg)
    \/ /\ call[t].op = "find" /\ UNCHANGED users
       /\ call'[t].answer = FindByLogin(call[t].arg)
AsAtomic ==
    [][/\ \A t \in Threads : Decides(t) => Effect(t)
       /\ (\A t \in Threads : ~Decides(t)) => UNCHANGED users]_vars

(* Every call returns, whatever the others do: every way out of a loop, the *)
(* return in the middle of online_users_add included, gives the mutex back. *)
CallsReturn == \A t \in Threads : at[t] # "out" ~> at[t] = "out"
================================================================================
