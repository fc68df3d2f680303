----------------------------- MODULE ClientHandler -----------------------------
(***************************************************************************)
(* handle_client (server/src/client_handler.c) as the worker threads run   *)
(* it side by side: each worker serves one connection and executes its     *)
(* commands, against the database, the table of online users and, for a    *)
(* message, the recipient's connection.                                    *)
(*                                                                         *)
(* current_user_id, current_user_login and client_is_websocket are static  *)
(* variables of the file: there is one of each for all workers, and they   *)
(* are read and written without a lock.  A handler is cut into steps at    *)
(* its accesses to these, to the table, to the database and to sockets.    *)
(*                                                                         *)
(* Connections speak first and complete the handshake (Connections shows   *)
(* the others), one recv returns one command, and a frame is sent in one   *)
(* piece.  The statements of two workers on the one PGconn are serialised; *)
(* that they may fail is a parameter of Database.  log_event and the       *)
(* tables that are only written are left out.                              *)
(***************************************************************************)
EXTENDS Integers, Sequences, FiniteSets, Database

CONSTANTS Workers, Clients,
          Kind,      \* "tcp" or "ws", for each client
          Script,    \* Script[c][n]: what c may send as its n-th command
          Initially, \* the accounts in the database at the start
          Fds, Cut, FREE, MAX_ONLINE_USERS, \* see OnlineUsers
          TORN       \* a login that is a mixture of two

(* A command with too few arguments, or an unknown one, is "BAD". *)
Command == {m \in [op : {"REGISTER", "LOGIN", "MSG", "CHECK_USER", "HISTORY", "LOGOUT", "BAD"},
                   login : Users \cup {NULL}, password : Passwords \cup {NULL}] :
               /\ m.op \in {"REGISTER", "LOGIN", "MSG", "CHECK_USER"} => m.login \in Users
               /\ m.op \in {"REGISTER", "LOGIN"} => m.password \in Passwords}

ASSUME HandlerAssumption ==
    /\ NULL \notin Users /\ NULL \notin Passwords /\ NULL \notin Clients
    /\ TORN \notin Users \cup {NULL}
    /\ Kind \in [Clients -> {"tcp", "ws"}]
    /\ \A c \in Clients : Script[c] \in Seq(SUBSET Command)
    /\ Initially \in [Users -> Passwords \cup {NULL}]
    /\ Fds \subseteq Nat \ {0}
    /\ Cut \in [Users -> Users]
    /\ FREE \notin [user_id : Users, login : Users, socket_fd : Fds]
    /\ MAX_ONLINE_USERS \in Nat

VARIABLES users, count,        \* the table of online users
          current_user_id, current_user_login, client_is_websocket,
          pc,                  \* where each worker is
          frame,               \* its locals, see NoFrame
          desc,                \* the connection behind each descriptor
          sent,                \* what was sent on each connection
          gone, reset,         \* connections that are over, and reset ones
          alive,               \* the server process has not been killed
          issued,              \* how many commands each client has sent
          presented,           \* history: who sent which login and password
          session              \* history: the user each client logged in as

Online == INSTANCE OnlineUsers WITH Accounts <- {<<u, u>> : u \in Users}

table    == <<users, count>>
identity == <<current_user_id, current_user_login>>
statics  == <<identity, client_is_websocket>>
network  == <<desc, sent, gone, reset, alive>>
history  == <<issued, presented, session>>
vars == <<tables, table, statics, pc, frame, network, history>>

(* The locals of handle_client and of the handler it calls: the client (a   *)
(* history variable) and client_fd, the command, its text (by whom, to      *)
(* whom, and the author's session), chat_id, recipient_fd, the next reply.  *)
NoFrame == [client |-> NULL, fd |-> -1, cmd |-> NULL, text |-> NULL,
            chat |-> -1, rfd |-> -1, answer |-> NULL]

Init ==
    /\ InitTables(Initially)
    /\ Online!InitTable
    /\ current_user_id = NULL /\ current_user_login = NULL
    /\ client_is_websocket = FALSE
    /\ pc = [w \in Workers |-> "idle"]
    /\ frame = [w \in Workers |-> NoFrame]
    /\ desc = [f \in Fds |-> NULL]
    /\ sent = [c \in Clients |-> <<>>]
    /\ gone = {} /\ reset = {} /\ alive = TRUE
    /\ issued = [c \in Clients |-> 0]
    /\ presented = {}
    /\ session = [c \in Clients |-> NULL]

Cmd(w) == frame[w].cmd
At(w, point)   == pc[w] = point
Goto(w, point) == pc' = [pc EXCEPT ![w] = point]
Answer(w, what, ref) ==
    /\ frame' = [frame EXCEPT ![w].answer = [what |-> what, ref |-> ref]]
    /\ Goto(w, "reply")
Fetch(w, field, value, point) ==
    /\ frame' = [frame EXCEPT ![w][field] = value]
    /\ Goto(w, point)
--------------------------------------------------------------------------------
(* Sockets. *)

(* send(): a peer that has closed its end answers the first packet with a   *)
(* reset, and writing to a connection that was reset raises SIGPIPE, which  *)
(* the server does not handle: the process is killed.                       *)
Send(f, packet) ==
    LET c == desc[f]
    IN  /\ sent' = IF c = NULL THEN sent ELSE [sent EXCEPT ![c] = Append(@, packet)]
        /\ reset' = IF c \in gone THEN reset \cup {c} ELSE reset
        /\ alive' = (c \notin reset)
        /\ UNCHANGED <<desc, gone>>

(* send_to_client: the framing is that of client_is_websocket.  A command   *)
(* ends with its reply, but handle_msg goes on to forward the message.      *)
Reply(w) ==
    /\ At(w, "reply")
    /\ Send(frame[w].fd, [what   |-> frame[w].answer.what,
                          ref    |-> frame[w].answer.ref,
                          framed |-> client_is_websocket])
    /\ Goto(w, IF frame[w].answer.what = "sent" THEN "route" ELSE "loop")
    /\ UNCHANGED <<tables, table, statics, frame, history>>

(* A worker is given a new client, with the lowest free descriptor.  (A TCP *)
(* client is greeted as by Reply, a browser always with a frame.)           *)
Connect(w, c) ==
    /\ At(w, "idle") /\ c \notin gone
    /\ issued[c] = 0 /\ \A v \in Workers : frame[v].client # c
    /\ \E f \in Fds :
          /\ desc[f] = NULL /\ \A g \in Fds : desc[g] = NULL => f <= g
          /\ desc' = [desc EXCEPT ![f] = c]
          /\ frame' = [frame EXCEPT ![w] = [NoFrame EXCEPT !.client = c, !.fd = f]]
    /\ client_is_websocket' = (Kind[c] = "ws")
    /\ Goto(w, "greet")
    /\ UNCHANGED <<tables, table, identity, sent, gone, reset, alive, history>>

Greet(w) ==
    /\ At(w, "greet")
    /\ Send(frame[w].fd,
            [what   |-> "greeting", ref |-> NULL,
             framed |-> client_is_websocket \/ Kind[frame[w].client] = "ws"])
    /\ Goto(w, "loop")
    /\ UNCHANGED <<tables, table, statics, frame, history>>

(* The peer closes the connection, whatever the server is doing with it.    *)
HangUp(c) ==
    /\ c \notin gone /\ \E f \in Fds : desc[f] = c
    /\ gone' = gone \cup {c}
    /\ UNCHANGED <<tables, table, statics, pc, frame, desc, sent, reset, alive, history>>

(* recv returns a command, perhaps one sent before the peer closed.         *)
Receive(w) ==
    LET c == frame[w].client
        n == issued[c] + 1
    IN  /\ At(w, "loop") /\ c \notin reset /\ n <= Len(Script[c])
        /\ \E command \in Script[c][n] :
              /\ frame' = [frame EXCEPT
                    ![w].cmd = command,
                    ![w].text = [by |-> c, nth |-> n, to |-> command.login,
                                 author |-> session[c]]]
              /\ Goto(w, command.op)
              /\ presented' = IF command.op = "LOGIN"
                    THEN presented \cup {<<c, command.login, command.password>>}
                    ELSE presented
        /\ issued' = [issued EXCEPT ![c] = n]
        /\ UNCHANGED <<tables, table, statics, network, session>>

(* recv returns 0 or an error, or ws_recv 0 because the browser, still      *)
(* there, has sent a ping, a close frame or an empty one (Wire has the      *)
(* frames): the loop ends, and the user is removed from the table ...       *)
LeaveAtOnce(w) == UNCHANGED table
RemoveOnline(w) == Online!Remove(frame[w].fd)
Leave(w) ==
    /\ At(w, "loop")
    /\ frame[w].client \in gone \/ Kind[frame[w].client] = "ws"
    /\ RemoveOnline(w)
    /\ Goto(w, "close")
    /\ UNCHANGED <<tables, statics, frame, network, history>>

(* ... and the worker closes the socket, which ends the connection also for *)
(* a peer that has not.                                                     *)
LeaveOpen(w) == UNCHANGED desc
CloseSocket(w) == desc' = [desc EXCEPT ![frame[w].fd] = NULL]
Close(w) ==
    /\ At(w, "close")
    /\ CloseSocket(w)
    /\ gone' = gone \cup {frame[w].client}
    /\ frame' = [frame EXCEPT ![w] = NoFrame]
    /\ Goto(w, "idle")
    /\ UNCHANGED <<tables, table, statics, sent, reset, alive, history>>
--------------------------------------------------------------------------------
(* Commands that change at most the database. *)

(* Unparseable, unknown, or with too few arguments. *)
Malformed(w) ==
    /\ At(w, "BAD")
    /\ Answer(w, "error", NULL)
    /\ UNCHANGED <<tables, table, statics, network, history>>

(* db_register_user: a SELECT, then an INSERT. *)
RegisterCheck(w) ==
    /\ At(w, "REGISTER")
    /\ \/ Cmd(w).login \in Registered /\ Answer(w, "taken", NULL)
       \/ Cmd(w).login \notin Registered /\ Goto(w, "reg_insert") /\ UNCHANGED frame
       \/ DbFails /\ Answer(w, "dberror", NULL)
    /\ UNCHANGED <<tables, table, statics, network, history>>

RegisterInsert(w) ==
    /\ At(w, "reg_insert")
    /\ \/ InsertUser(Cmd(w).login, Cmd(w).password) /\ Answer(w, "registered", NULL)
       \/ (DbFails \/ Cmd(w).login \in Registered)
             /\ Answer(w, "dberror", NULL) /\ UNCHANGED tables
    /\ UNCHANGED <<table, statics, network, history>>

CheckUser(w) ==
    /\ At(w, "CHECK_USER")
    /\ \/ Cmd(w).login \in Registered /\ Answer(w, "exists", NULL)
       \/ (DbFails \/ Cmd(w).login \notin Registered) /\ Answer(w, "error", NULL)
    /\ UNCHANGED <<tables, table, statics, network, history>>

(* The history is printed on the server's console, not sent. *)
History(w) ==
    /\ At(w, "HISTORY")
    /\ Answer(w, IF current_user_id = NULL THEN "error" ELSE "printed", NULL)
    /\ UNCHANGED <<tables, table, statics, network, history>>
--------------------------------------------------------------------------------
(* LOGIN and LOGOUT. *)

(* db_authenticate_user *)
KnownLogin(u, hash)  == u \in Registered
Matches(u, hash) == u \in Registered /\ accounts[u] = hash
Authenticate(w) ==
    /\ At(w, "LOGIN")
    /\ \/ /\ Matches(Cmd(w).login, Cmd(w).password)
          /\ Goto(w, "set_id")
          /\ session' = [session EXCEPT ![frame[w].client] = Cmd(w).login]
          /\ UNCHANGED frame
       \/ /\ DbFails \/ ~Matches(Cmd(w).login, Cmd(w).password)
          /\ Answer(w, "error", NULL)
          /\ UNCHANGED session
    /\ UNCHANGED <<tables, table, statics, network, issued, presented>>

SetId(w) ==
    /\ At(w, "set_id")
    /\ current_user_id' = Cmd(w).login
    /\ Goto(w, "set_login")
    /\ UNCHANGED <<tables, table, current_user_login, client_is_websocket,
                   frame, network, history>>

(* strncpy writes byte by byte: whoever reads the login meanwhile, and the  *)
(* result when another worker wrote in between, may be a mixture.           *)
SetLoginBegin(w) ==
    /\ At(w, "set_login")
    /\ current_user_login' = TORN
    /\ Goto(w, "set_login_end")
    /\ UNCHANGED <<tables, table, current_user_id, client_is_websocket,
                   frame, network, history>>

SetLoginEnd(w) ==
    LET alone == /\ current_user_login = TORN
                 /\ \A v \in Workers \ {w} : ~At(v, "set_login_end")
    IN  /\ At(w, "set_login_end")
        /\ current_user_login' \in {Cut[Cmd(w).login]} \cup (IF alone THEN {} ELSE {TORN})
        /\ Goto(w, "enter")
        /\ UNCHANGED <<tables, table, current_user_id, client_is_websocket,
                       frame, network, history>>

(* Welcome, also if the table of online users is full. *)
Enter(w) ==
    /\ At(w, "enter")
    /\ Online!Add(Cmd(w).login, Cmd(w).login, frame[w].fd)
    /\ Answer(w, "welcome", NULL)
    /\ UNCHANGED <<tables, statics, network, history>>

(* Whoever is current_user is logged out, and this client's socket removed. *)
Logout(w) ==
    /\ At(w, "LOGOUT")
    /\ IF current_user_id = NULL
       THEN Answer(w, "bye", NULL) /\ UNCHANGED table
       ELSE Goto(w, "clear_id") /\ Online!Remove(frame[w].fd) /\ UNCHANGED frame
    /\ session' = [session EXCEPT ![frame[w].client] = NULL]
    /\ UNCHANGED <<tables, statics, network, issued, presented>>

ClearId(w) ==
    /\ At(w, "clear_id")
    /\ current_user_id' = NULL
    /\ Goto(w, "clear_login")
    /\ UNCHANGED <<tables, table, current_user_login, client_is_websocket,
                   frame, network, history>>

ClearLogin(w) ==
    /\ At(w, "clear_login")
    /\ current_user_login' = NULL
    /\ Answer(w, "bye", NULL)
    /\ UNCHANGED <<tables, table, current_user_id, client_is_websocket, network, history>>
--------------------------------------------------------------------------------
(* MSG: current_user_id is read again at every step that needs it. *)

MsgGate(w) ==
    /\ At(w, "MSG")
    /\ \/ current_user_id = NULL /\ Answer(w, "error", NULL)
       \/ current_user_id # NULL /\ Goto(w, "lookup") /\ UNCHANGED frame
    /\ UNCHANGED <<tables, table, statics, network, history>>

FindRecipient(w) ==
    /\ At(w, "lookup")
    /\ \/ Cmd(w).login \in Registered /\ Goto(w, "find_chat") /\ UNCHANGED frame
       \/ (DbFails \/ Cmd(w).login \notin Registered) /\ Answer(w, "error", NULL)
    /\ UNCHANGED <<tables, table, statics, network, history>>

(* Any of the chats may be the first row; a query that fails finds none.    *)
FindChat(w) ==
    LET common == PrivateChats(current_user_id, Cmd(w).login)
    IN  /\ At(w, "find_chat")
        /\ \/ \E id \in common : Fetch(w, "chat", id, "save")
           \/ (DbFails \/ common = {}) /\ Fetch(w, "chat", -1, "new_chat")
        /\ UNCHANGED <<tables, table, statics, network, history>>

CreateChat(w) ==
    /\ At(w, "new_chat")
    /\ \/ InsertChat /\ Fetch(w, "chat", Len(chats) + 1, "members")
       \/ StatementFails /\ Answer(w, "error", NULL)
    /\ UNCHANGED <<table, statics, network, history>>

(* Nobody looks at the result. *)
AddMembers(w) ==
    /\ At(w, "members")
    /\ \/ InsertMembers(frame[w].chat, current_user_id, Cmd(w).login)
       \/ StatementFails
    /\ Goto(w, "save")
    /\ UNCHANGED <<table, statics, frame, network, history>>

(* db_save_message, and the number of the message for the acknowledgment.   *)
Save(w, otherwise) ==
    \/ /\ InsertMessage([sender |-> current_user_id, chat |-> frame[w].chat,
                         text |-> frame[w].text])
       /\ Answer(w, "sent", Len(messages) + 1)
    \/ /\ DbFails \/ current_user_id \notin Registered
       /\ UNCHANGED tables
       /\ otherwise
SaveUnchecked(w) == Save(w, Answer(w, "sent", Len(messages)))
SaveSilently(w) == Save(w, Goto(w, "loop") /\ UNCHANGED frame)
SaveMessage(w) == Save(w, Answer(w, "error", NULL))
Store(w) ==
    /\ At(w, "save")
    /\ SaveMessage(w)
    /\ UNCHANGED <<table, statics, network, history>>

(* After the acknowledgment: the recipient's socket, if he is online ...    *)
NotZero(f)  == f # 0
IsOnline(f) == f > 0
Route(w) ==
    LET f == Online!FindByLogin(Cmd(w).login)
    IN  /\ At(w, "route")
        /\ Fetch(w, "rfd", f, IF IsOnline(f) THEN "forward" ELSE "loop")
        /\ UNCHANGED <<tables, table, statics, network, history>>

(* ... and the message itself, never framed, to whoever has it now.         *)
TryAgain(w) == Goto(w, "route")
Done(w) == Goto(w, "loop")
Forward(w) ==
    /\ At(w, "forward")
    /\ Send(frame[w].rfd, [what |-> "message", ref |-> frame[w].text,
                           framed |-> FALSE, from |-> current_user_login])
    /\ Done(w)
    /\ UNCHANGED <<tables, table, statics, frame, history>>
--------------------------------------------------------------------------------
Commands(w) ==
    \/ Malformed(w) \/ RegisterCheck(w) \/ RegisterInsert(w) \/ CheckUser(w) \/ History(w)
    \/ Authenticate(w) \/ SetId(w) \/ SetLoginBegin(w) \/ SetLoginEnd(w) \/ Enter(w)
    \/ Logout(w) \/ ClearId(w) \/ ClearLogin(w)
    \/ MsgGate(w) \/ FindRecipient(w) \/ FindChat(w) \/ CreateChat(w) \/ AddMembers(w)
    \/ Store(w) \/ Route(w) \/ Forward(w)
Serving(w) == alive /\ (Commands(w) \/ Greet(w) \/ Reply(w) \/ Leave(w) \/ Close(w))
Arriving(w) == alive /\ (Receive(w) \/ \E c \in Clients : Connect(w, c))

Next ==
    \/ \E w \in Workers : Serving(w) \/ Arriving(w)
    \/ alive /\ \E c \in Clients : HangUp(c)

Spec == Init /\ [][Next]_vars

(* Workers keep running; clients need neither come, speak nor hang up, and  *)
(* no browser need end the loop that is still there.                        *)
Obliged(w) ==
    /\ Serving(w)
    /\ At(w, "loop") => frame[w].client \in gone
FairSpec == Spec /\ \A w \in Workers : WF_vars(Obliged(w))
--------------------------------------------------------------------------------
PacketsOf(c) == {sent[c][i] : i \in DOMAIN sent[c]}
Answers(c)   == {i \in DOMAIN sent[c] : sent[c][i].what # "message"}
ServedBy(w)  == frame[w].client
Correct(c, u) == u \in Registered /\ <<c, u, accounts[u]>> \in presented
Proven == {u \in Users : \E c \in Clients : Correct(c, u)}

(* The program points of a worker, and what it has at hand at each; only    *)
(* registered users are ever in the tables and in current_user_id.          *)
HandlerTypeOK ==
    /\ current_user_id \in Registered \cup {NULL}
    /\ current_user_login \in {Cut[u] : u \in Users} \cup {NULL, TORN}
    /\ client_is_websocket \in BOOLEAN /\ alive \in BOOLEAN
    /\ Online!TableTypeOK
    /\ desc \in [Fds -> Clients \cup {NULL}]
    /\ gone \subseteq Clients /\ reset \subseteq gone
    /\ \A i \in DOMAIN chats : chats[i] \subseteq Registered
    /\ \A i \in DOMAIN messages : messages[i].chat \in DOMAIN chats
    /\ \A w \in Workers :
          /\ At(w, "idle") => frame[w] = NoFrame
          /\ ~At(w, "idle") => desc[frame[w].fd] = ServedBy(w)
          /\ pc[w] \in {"members", "save"} => frame[w].chat \in DOMAIN chats
          /\ At(w, "forward") => frame[w].rfd \in Fds

(* Every command is answered exactly once, on the connection it came from,  *)
(* before the next one is read, along every path through the handlers; the  *)
(* console and the web clients count on that to tell answers apart.         *)
OneAnswerEach ==
    \A w \in Workers :
        LET c == ServedBy(w)
            greeted == IF At(w, "greet") THEN 0 ELSE 1
            pending == IF pc[w] \in {"greet", "loop", "close", "route", "forward"}
                       THEN 0 ELSE 1
        IN  c # NULL => Cardinality(Answers(c)) = greeted + issued[c] - pending

(* Nobody acts as a user whose password was never given: every stored       *)
(* message, every entry of the table and current_user_id itself belongs to  *)
(* a user whose login some connection presented with the right password.    *)
ActorsAuthenticated ==
    /\ \A i \in DOMAIN messages : messages[i].sender \in Proven
    /\ \A i \in Online!Active : users[i].user_id \in Proven
    /\ current_user_id \in Proven \cup {NULL}

(* How often a client has been let in, the welcome on its way included. *)
Welcomes(c) ==
    Cardinality({i \in DOMAIN sent[c] : sent[c][i].what = "welcome"})
  + Cardinality({w \in Workers : /\ ServedBy(w) = c /\ At(w, "reply")
                                 /\ frame[w].answer.what = "welcome"})

(* As long as no client logs in twice on its connection, an entry in the    *)
(* table means a user who is there: its socket is open and being served,    *)
(* its client has given that user's password, and no socket has two entries *)
(* (online_users.h, lines 47-49: -1 if the user is not online).  After a    *)
(* second login the disconnect removes one entry of two (line 374).         *)
OnlineIsConnected ==
    (\A c \in Clients : Welcomes(c) <= 1) =>
    /\ \A i \in Online!Active :
          LET c == desc[users[i].socket_fd]
          IN  /\ c \in {ServedBy(w) : w \in Workers} \ {NULL}
              /\ Correct(c, users[i].user_id)
    /\ \A i, j \in Online!Active : users[i].socket_fd = users[j].socket_fd => i = j

(* How the service looks from outside (module Mail): where each client is    *)
(* follows from the point at which its worker is, a message is named by its *)
(* author and the number of the command, and of an answer it only counts    *)
(* whether it is an acknowledgment.                                         *)
StageAt(point) ==
    IF point = "greet" THEN "away"
    ELSE IF point = "loop" THEN "free"
    ELSE IF point \in {"route", "forward"} THEN "after"
    ELSE IF point = "close" THEN "left" ELSE "owed"
PointsOf(c) == {pc[w] : w \in {v \in Workers : ServedBy(v) = c}}
Stage(c) ==
    IF PointsOf(c) # {} THEN StageAt(CHOOSE point \in PointsOf(c) : TRUE)
    ELSE IF c \in gone THEN "left" ELSE "away"
Named(text) == <<text.by, text.nth>>
Heard(p) ==
    IF p.what = "message" THEN <<"message", Named(p.ref)>>
    ELSE IF p.what = "sent" THEN <<"sent", p.ref>>
    ELSE IF p.what = "greeting" THEN <<"greeting">> ELSE <<"answer">>
MailService == INSTANCE Mail WITH
    asked <- issued,
    stage <- [c \in Clients |-> Stage(c)],
    kept  <- [i \in DOMAIN messages |-> Named(messages[i].text)],
    told  <- [c \in Clients |-> [i \in DOMAIN sent[c] |-> Heard(sent[c][i])]]

(* Whatever the workers do to each other, the server keeps the promise of   *)
(* Mail: a message is stored during its own command and at most once, the   *)
(* answer to the command tells whether it was, and with which number, and   *)
(* only after that, before the next command of its author, it is forwarded, *)
(* to one connection at most (handle_msg, lines 191-217).                   *)
KeepsMailContract == MailService!Spec

(* What reaches a recipient is a stored message, word for word, and what    *)
(* the contract entails: "Message sent (msg_id=n)" is the truth whatever    *)
(* fails underneath, it is told of every stored message once its command is *)
(* answered, and only then, and no message is stored, acknowledged or       *)
(* forwarded twice (handle_msg, lines 192-213).                             *)
SentMeansStored ==
    /\ \A c \in Clients : \A p \in PacketsOf(c) :
          p.what = "message" => \E m \in DOMAIN messages : messages[m].text = p.ref
    /\ MailService!MailRight

(* A client whose connection is over is forgotten: some day no descriptor   *)
(* is his, and no entry of the table is on a closed one, whichever step of  *)
(* a handler it came between and whatever statements fail (lines 373-377).  *)
(* Not so if the process is killed while it writes to a connection that was *)
(* reset, nor once somebody has logged in twice on a connection: that adds  *)
(* two entries (line 107), and Remove takes one; the other stays for ever.  *)
GoneIsForgotten ==
    \A c \in Clients :
        c \in gone ~> \/ ~alive
                      \/ \E d \in Clients : Welcomes(d) > 1
                      \/ /\ \A f \in Fds : desc[f] # c
                         /\ \A i \in Online!Active : desc[users[i].socket_fd] # NULL
--------------------------------------------------------------------------------
(* What the source says and the code does not do. *)

(* The logged-in user is kept for this session (client_handler.c, line 35): *)
(* a message is stored under the user its author is logged in as.           *)
SenderIsAuthor ==
    \A i \in DOMAIN messages : messages[i].sender = messages[i].text.author

(* A message is forwarded to its recipient (line 207): to a connection that *)
(* has logged in as him.                                                    *)
ForwardedToRecipient ==
    \A c \in Clients : \A p \in PacketsOf(c) :
        p.what = "message" => Correct(c, p.ref.to)

(* send_to_client answers a browser through ws_send and a console through   *)
(* send (lines 43-44): every answer has the framing that its client reads.  *)
AnswersFramed ==
    \A c \in Clients : \A p \in PacketsOf(c) :
        p.what # "message" => p.framed = (Kind[c] = "ws")
================================================================================
