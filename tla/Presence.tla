------------------------------- MODULE Presence --------------------------------
(***************************************************************************)
(* What the table of online users promises to the threads that call it     *)
(* (online_users.h): it holds the sessions that were added and not yet     *)
(* removed, as many times as they were added, up to a capacity.  A call    *)
(* takes effect at one moment between its beginning and its return, and    *)
(* its answer is right at that moment.  Which slot of the array a session  *)
(* sits in is not part of the promise.                                     *)
(***************************************************************************)
EXTENDS Integers

CONSTANTS Threads,
          Session,    \* what is recorded about one session
          Fds, Logins,
          FdOf(_), LoginOf(_), \* the socket and the login of a session
          Capacity,   \* how many sessions fit
          IDLE,       \* a thread that is not in a call
          PENDING     \* a call that has not taken effect

VARIABLES sessions, \* how many times each session is in the table
          online,   \* how many sessions there are
          call      \* what each thread has called, and the answer

vars == <<sessions, online, call>>

Init ==
    /\ sessions = [s \in Session |-> 0]
    /\ online = 0
    /\ call = [t \in Threads |-> IDLE]

Begin(t, op, arg) ==
    /\ call[t] = IDLE
    /\ call' = [call EXCEPT ![t] = [op |-> op, arg |-> arg, answer |-> PENDING]]
    /\ UNCHANGED <<sessions, online>>

Calls(t, op) == call[t] # IDLE /\ call[t].op = op /\ call[t].answer = PENDING
Answer(t, a) == call' = [call EXCEPT ![t].answer = a]

(* online_users_add: 1 if the session was added, 0 if the table is full.    *)
Join(t) ==
    /\ Calls(t, "add") /\ online < Capacity
    /\ sessions' = [sessions EXCEPT ![call[t].arg] = @ + 1]
    /\ online' = online + 1
    /\ Answer(t, 1)
Refuse(t) ==
    /\ Calls(t, "add") /\ online = Capacity
    /\ Answer(t, 0)
    /\ UNCHANGED <<sessions, online>>

(* online_users_remove: takes away one session of the socket, if there is   *)
(* one; returns nothing.                                                    *)
Leave(t) ==
    /\ Calls(t, "remove")
    /\ \E s \in Session :
          /\ FdOf(s) = call[t].arg /\ sessions[s] > 0
          /\ sessions' = [sessions EXCEPT ![s] = @ - 1]
    /\ online' = online - 1
    /\ Answer(t, 0)
LeaveNobody(t) ==
    /\ Calls(t, "remove")
    /\ \A s \in Session : FdOf(s) = call[t].arg => sessions[s] = 0
    /\ Answer(t, 0)
    /\ UNCHANGED <<sessions, online>>

(* online_users_find_by_login: the socket of a session with that login, or  *)
(* -1 if there is none.                                                     *)
Find(t) ==
    /\ Calls(t, "find")
    /\ \/ \E s \in Session :
             LoginOf(s) = call[t].arg /\ sessions[s] > 0 /\ Answer(t, FdOf(s))
       \/ /\ \A s \in Session : LoginOf(s) = call[t].arg => sessions[s] = 0
          /\ Answer(t, -1)
    /\ UNCHANGED <<sessions, online>>

Return(t) ==
    /\ call[t] # IDLE /\ call[t].answer # PENDING
    /\ call' = [call EXCEPT ![t] = IDLE]
    /\ UNCHANGED <<sessions, online>>

Next ==
    \E t \in Threads :
       \/ \E s \in Session : Begin(t, "add", s)
       \/ \E fd \in Fds : Begin(t, "remove", fd)
       \/ \E l \in Logins : Begin(t, "find", l)
       \/ Join(t) \/ Refuse(t) \/ Leave(t) \/ LeaveNobody(t) \/ Find(t)
       \/ Return(t)

Spec == Init /\ [][Next]_vars
================================================================================
