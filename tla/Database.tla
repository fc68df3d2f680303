------------------------------- MODULE Database --------------------------------
(***************************************************************************)
(* The tables of sql/schema.sql that the server reads back, and the        *)
(* statements that db.c and client_handler.c send to them.  Each PQexec is *)
(* one transaction of its own: a statement takes effect wholly or not at   *)
(* all, and between two statements of a handler other handlers may run     *)
(* theirs.  If DbFails, any statement may also fail for reasons of the     *)
(* database (no connection, a statement of another thread in progress on   *)
(* the same PGconn).                                                       *)
(*                                                                         *)
(* A user's id and login determine each other (login is UNIQUE), so the    *)
(* login stands for both; NULL is the id -1 of nobody.  Chats and messages *)
(* are numbered in the order of their insertion.  The tables sessions and  *)
(* server_logs are written and never read, and are left out.               *)
(***************************************************************************)
EXTENDS Naturals, Sequences

CONSTANTS Users,     \* the logins, and the user ids
          Passwords, \* the password hashes
          NULL,
          DbFails    \* whether statements may fail

VARIABLES accounts,  \* users: the password hash of each login, NULL if none
          chats,     \* chats and chat_members: the members of each chat
          messages   \* messages, with the sender and the chat of each

tables == <<accounts, chats, messages>>

Registered == {u \in Users : accounts[u] # NULL}

InitTables(initial) ==
    /\ accounts = initial
    /\ chats = <<>>
    /\ messages = <<>>

StatementFails == DbFails /\ UNCHANGED tables

(* INSERT INTO users: login is UNIQUE. *)
InsertUser(u, hash) ==
    /\ u \notin Registered
    /\ accounts' = [accounts EXCEPT ![u] = hash]
    /\ UNCHANGED <<chats, messages>>

(* The private chats of two users: a user may be joined with himself.       *)
PrivateChats(a, b) == {id \in DOMAIN chats : {a, b} \subseteq chats[id]}

InsertChat ==
    /\ chats' = Append(chats, {})
    /\ UNCHANGED <<accounts, messages>>

(* INSERT INTO chat_members of two rows: both users must exist, and the     *)
(* rows must differ (PRIMARY KEY); otherwise neither is inserted.           *)
InsertMembers(id, a, b) ==
    /\ chats' = IF a # b /\ {a, b} \subseteq Registered
                THEN [chats EXCEPT ![id] = {a, b}] ELSE chats
    /\ UNCHANGED <<accounts, messages>>

(* INSERT INTO messages: the sender must exist. *)
InsertMessage(m) ==
    /\ m.sender \in Registered
    /\ messages' = Append(messages, m)
    /\ UNCHANGED <<accounts, chats>>
================================================================================
