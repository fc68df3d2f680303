------------------------------ MODULE OnlineUsers ------------------------------
(***************************************************************************)
(* The table of online users (server/src/online_users.c): an array of      *)
(* slots, each free or holding one session, and a count.  Here is what     *)
(* each call does when it runs alone, as one step; the client handlers     *)
(* (module ClientHandler) make the calls.  That a call is one step for     *)
(* everybody is the work of the table's mutex, and shown in OnlineCalls.   *)
(*                                                                         *)
(* A slot that is not active is FREE: online_users_init and _remove zero   *)
(* it.  A login is stored cut to the 63 bytes of online_user_t.login, while*)
(* the database admits VARCHAR(50), 100 bytes in Cyrillic: Cut gives what  *)
(* is stored for a login.                                                  *)
(***************************************************************************)
EXTENDS Integers, FiniteSets

CONSTANTS MAX_ONLINE_USERS,
          Accounts,  \* the registered <<user id, login>> pairs
          Cut,       \* Cut[l]: the login stored for l
          Fds,       \* the sockets
          FREE       \* a slot that is not active

Slots   == 0 .. MAX_ONLINE_USERS - 1
UserIds == {a[1] : a \in Accounts}
Logins  == {a[2] : a \in Accounts}
Session == [user_id : UserIds, login : Logins, socket_fd : Fds]

ASSUME TableAssumption ==
    /\ MAX_ONLINE_USERS \in Nat
    /\ \A a, b \in Accounts : a[1] = b[1] <=> a[2] = b[2]
    /\ Cut \in [Logins -> Logins]
    /\ Fds \subseteq Nat \ {0}
    /\ FREE \notin Session

VARIABLES users, \* ou->users
          count  \* ou->count

table == <<users, count>>

(* online_users_init *)
InitTable ==
    /\ users = [i \in Slots |-> FREE]
    /\ count = 0

Active == {i \in Slots : users[i] # FREE}

(* The loops of the code stop at the first slot that fits. *)
FirstOf(S) == CHOOSE i \in S : \A j \in S : i <= j

(* online_users_add takes the first free slot; a full table is left alone.  *)
(* AddSucceeds is what it returns.                                          *)
AddSucceeds == Active # Slots
Add(id, l, fd) ==
    IF AddSucceeds
    THEN /\ users' = [users EXCEPT ![FirstOf(Slots \ Active)] =
                         [user_id |-> id, login |-> Cut[l], socket_fd |-> fd]]
         /\ count' = count + 1
    ELSE UNCHANGED table

(* online_users_remove frees the first active slot of the socket, if any.   *)
SlotsOf(fd) == {i \in Active : users[i].socket_fd = fd}
Remove(fd) ==
    IF SlotsOf(fd) = {} THEN UNCHANGED table
    ELSE /\ users' = [users EXCEPT ![FirstOf(SlotsOf(fd))] = FREE]
         /\ count' = count - 1

(* online_users_find_by_login: the socket in the first active slot with     *)
(* that login, or -1.  (online_users_find_by_id has no caller.)             *)
FindByLogin(l) ==
    LET matches == {i \in Active : users[i].login = l}
    IN  IF matches = {} THEN -1 ELSE users[FirstOf(matches)].socket_fd
--------------------------------------------------------------------------------
(* A slot is free or holds a session, and the count is a number of slots.   *)
TableTypeOK ==
    /\ users \in [Slots -> Session \cup {FREE}]
    /\ count \in 0 .. MAX_ONLINE_USERS
================================================================================
