-------------------------- MODULE ClientHandlerProofs --------------------------
(* Proofs about ClientHandler, for any workers, clients, scripts, accounts   *)
(* and table, whether or not statements of the database fail.                *)
EXTENDS ClientHandler, FiniteSetTheorems, WellFoundedInduction, TLAPS

Points == {"idle", "greet", "loop", "reply", "close", "BAD", "REGISTER", "reg_insert",
           "CHECK_USER", "HISTORY", "LOGIN", "set_id", "set_login", "set_login_end",
           "enter", "LOGOUT", "clear_id", "clear_login", "MSG", "lookup", "find_chat",
           "new_chat", "members", "save", "route", "forward"}
Words == {"error", "taken", "registered", "dberror", "exists", "printed", "welcome",
          "bye", "sent"}

Texts == [by : Clients, nth : Nat, to : Users \cup {NULL}, author : Users \cup {NULL}]
Replies == [what : Words, ref : Int \cup {NULL}]
Frames == [client : Clients \cup {NULL}, fd : Fds \cup {-1}, cmd : Command \cup {NULL},
           text : Texts \cup {NULL}, chat : Int, rfd : Int, answer : Replies \cup {NULL}]
Entry == [user_id : Users, login : Users, socket_fd : Fds]
Message == [sender : Users, chat : Int, text : Texts \cup {NULL}]

(* The types that the argument needs. *)
TablesTyped ==
    /\ accounts \in [Users -> Passwords \cup {NULL}]
    /\ chats \in Seq(SUBSET Users)
    /\ messages \in Seq(Message)
    /\ users \in [Online!Slots -> Entry \cup {FREE}]
HistoryTyped ==
    /\ issued \in [Clients -> Nat]
    /\ presented \subseteq Clients \X Users \X Passwords
    /\ session \in [Clients -> Users \cup {NULL}]
ControlTyped ==
    /\ current_user_id \in Users \cup {NULL}
    /\ pc \in [Workers -> Points]
    /\ frame \in [Workers -> Frames]
TypeInv == TablesTyped /\ HistoryTyped /\ ControlTyped

(* A non-empty set of slots has a first one. *)
LEMMA FirstIn ==
  ASSUME NEW S \in SUBSET Nat, S # {}
  PROVE  Online!FirstOf(S) \in S
<1>1. PICK i \in S : \A j \in S : ~(<<j, i>> \in OpToRel(<, Nat))
  BY NatLessThanWellFounded, WFMin
<1>2. ASSUME NEW j \in S PROVE i <= j
  <2>1. ~(j < i)
    BY <1>1 DEF OpToRel
  <2>2. QED
    BY <2>1
<1>3. QED
  BY <1>2 DEF Online!FirstOf

(* The server starts with nobody logged in. *)
LEMMA InitType == Init => TypeInv
<1> SUFFICES ASSUME Init PROVE TypeInv
  OBVIOUS
<1> USE HandlerAssumption DEF Init, InitTables, Online!InitTable
<1>1. NoFrame \in Frames
  BY DEF NoFrame, Frames
<1>2. TablesTyped
  BY DEF TablesTyped
<1>3. HistoryTyped
  BY DEF HistoryTyped
<1>4. ControlTyped
  BY <1>1 DEF ControlTyped, Points
<1>5. QED
  BY <1>2, <1>3, <1>4 DEF TypeInv

NeedsLogin == {"REGISTER", "reg_insert", "CHECK_USER", "LOGIN", "set_id", "set_login",
               "set_login_end", "enter", "MSG", "lookup", "find_chat", "new_chat",
               "members", "save"}
Accepted == {"set_id", "set_login", "set_login_end", "enter"}

(* What the command of a worker is worth at each point: it has its login;   *)
(* before the password is checked it has been presented by the client of    *)
(* this worker, and afterwards that client has proven to be its user.       *)
CmdInv ==
    \A w \in Workers :
        /\ pc[w] # "idle" => frame[w].client \in Clients /\ frame[w].fd \in Fds
        /\ pc[w] \in NeedsLogin => frame[w].cmd \in Command /\ frame[w].cmd.login \in Users
        /\ pc[w] \in {"REGISTER", "reg_insert"} => frame[w].cmd.password \in Passwords
        /\ pc[w] = "LOGIN" =>
              <<frame[w].client, frame[w].cmd.login, frame[w].cmd.password>> \in presented
        /\ pc[w] \in Accepted => Correct(frame[w].client, frame[w].cmd.login)

IdentityInv == TypeInv /\ CmdInv /\ ActorsAuthenticated

(* A worker moves to a point, and what its client asked for stays as it is. *)
MovesTo(w, point) ==
    /\ pc' = [pc EXCEPT ![w] = point]
    /\ frame' \in [Workers -> Frames]
    /\ \A v \in Workers : /\ frame'[v].cmd = frame[v].cmd
                          /\ frame'[v].text = frame[v].text
                          /\ frame'[v].client = frame[v].client
                          /\ frame'[v].fd = frame[v].fd

(* A reply is such a move. *)
LEMMA AnswerMoves ==
  ASSUME ControlTyped, NEW w \in Workers, NEW what \in Words,
         NEW ref \in Int \cup {NULL}, Answer(w, what, ref)
  PROVE  MovesTo(w, "reply")
  BY DEF Answer, Goto, Frames, Replies, ControlTyped, MovesTo

(* A fetched value is such a move. *)
LEMMA FetchMoves ==
  ASSUME ControlTyped, NEW w \in Workers, NEW field \in {"chat", "rfd"},
         NEW value \in Int, NEW point \in Points, Fetch(w, field, value, point)
  PROVE  MovesTo(w, point)
  BY DEF Fetch, Goto, Frames, ControlTyped, MovesTo

(* A jump is such a move. *)
LEMMA JumpMoves ==
  ASSUME ControlTyped, NEW w \in Workers, NEW point \in Points,
         Goto(w, point), UNCHANGED frame
  PROVE  MovesTo(w, point)
  BY DEF Goto, ControlTyped, MovesTo

(* Moves that never skip the reading of a login or the check of a password. *)
Follows(a, b) ==
    /\ a # "idle" /\ b \notin {"idle", "LOGIN", "REGISTER"}
    /\ b \in NeedsLogin => a \in NeedsLogin
    /\ b = "reg_insert" => a = "REGISTER"
    /\ b \in Accepted => a \in Accepted

(* Steps that only move, and leave users, messages and identities alone.    *)
Bystander ==
    /\ UNCHANGED <<accounts, messages, users, current_user_id, history>>
    /\ chats' \in Seq(SUBSET Users)
Quiet(w) == Bystander /\ \E b \in Points : MovesTo(w, b) /\ Follows(pc[w], b)

(* Answering is quiet wherever it happens. *)
LEMMA QuietAnswer ==
  ASSUME ControlTyped, NEW w \in Workers, NEW what \in Words,
         NEW ref \in Int \cup {NULL}, Answer(w, what, ref), pc[w] # "idle", Bystander
  PROVE  Quiet(w)
<1>1. MovesTo(w, "reply")
  BY AnswerMoves
<1>2. Follows(pc[w], "reply")
  BY DEF Follows, NeedsLogin, Accepted
<1>3. QED
  BY <1>1, <1>2 DEF Quiet, Points

(* Most steps of a command are quiet. *)
LEMMA QuietCommand ==
  ASSUME TablesTyped, ControlTyped, NEW w \in Workers,
         \/ Malformed(w) \/ RegisterCheck(w) \/ CheckUser(w) \/ History(w)
         \/ SetLoginBegin(w) \/ SetLoginEnd(w) \/ ClearLogin(w)
         \/ MsgGate(w) \/ FindRecipient(w) \/ Forward(w)
  PROVE  Quiet(w)
<1> DEFINE Jump(b) == Goto(w, b) /\ UNCHANGED frame /\ Follows(pc[w], b)
<1>1. Bystander /\ pc[w] # "idle"
  BY DEF Malformed, RegisterCheck, CheckUser, History, SetLoginBegin, SetLoginEnd,
         ClearLogin, MsgGate, FindRecipient, Forward, At, tables, table, history,
         statics, identity, Bystander, TablesTyped
<1>2. \/ \E what \in Words : Answer(w, what, NULL)
      \/ \E b \in Points : Jump(b)
  <2> USE DEF Follows, NeedsLogin, Accepted, Words, Points, At
  <2>1. CASE Malformed(w) \/ CheckUser(w) \/ History(w) \/ ClearLogin(w)
    BY <2>1 DEF Malformed, CheckUser, History, ClearLogin
  <2>2. CASE RegisterCheck(w) \/ MsgGate(w) \/ FindRecipient(w)
    BY <2>2 DEF RegisterCheck, MsgGate, FindRecipient
  <2>3. CASE SetLoginBegin(w) \/ SetLoginEnd(w) \/ Forward(w)
    BY <2>3 DEF SetLoginBegin, SetLoginEnd, Forward, Done
  <2>4. QED
    BY <2>1, <2>2, <2>3
<1>3. CASE \E what \in Words : Answer(w, what, NULL)
  BY <1>1, <1>3, QuietAnswer
<1>4. CASE \E b \in Points : Jump(b)
  BY <1>1, <1>4, JumpMoves DEF Quiet
<1>5. QED
  BY <1>2, <1>3, <1>4

(* The table finds the descriptor of an entry, or -1.                       *)
LEMMA FoundIsOpen ==
  ASSUME TablesTyped, NEW login
  PROVE  Online!FindByLogin(login) \in Fds \cup {-1}
<1> DEFINE matches == {i \in Online!Active : users[i].login = login}
<1>1. matches # {} => Online!FirstOf(matches) \in matches
  <2>1. matches \in SUBSET Nat
    BY HandlerAssumption DEF Online!Active, Online!Slots
  <2> HIDE DEF matches
  <2>2. QED
    BY <2>1, FirstIn
<1>2. \A i \in Online!Active : users[i].socket_fd \in Fds
  <2>1. \A i \in Online!Active : users[i] \in Entry
    BY DEF Online!Active, TablesTyped
  <2>2. \A e \in Entry : e.socket_fd \in Fds
    BY DEF Entry
  <2>3. QED
    BY <2>1, <2>2
<1>3. QED
  BY <1>1, <1>2 DEF Online!FindByLogin

(* So are those that fetch something, and those at the ends of a command.   *)
LEMMA QuietRest ==
  ASSUME TablesTyped, ControlTyped, NEW w \in Workers,
         \/ FindChat(w) \/ CreateChat(w) \/ AddMembers(w)
         \/ Route(w) \/ Greet(w) \/ Reply(w)
  PROVE  Quiet(w)
<1> USE DEF Bystander, tables, table, history, statics, identity, TablesTyped
<1>1. CASE FindChat(w)
  <2>1. Bystander /\ pc[w] = "find_chat"
    BY <1>1 DEF FindChat, At
  <2>2. DOMAIN chats \subseteq Int
    OBVIOUS
  <2>3. PICK id \in Int, b \in {"save", "new_chat"} : Fetch(w, "chat", id, b)
    BY <1>1, <2>2 DEF FindChat, PrivateChats
  <2>4. MovesTo(w, b) /\ Follows(pc[w], b)
    BY <2>1, <2>3, FetchMoves DEF Points, Follows, NeedsLogin, Accepted
  <2>5. QED
    BY <2>1, <2>4 DEF Quiet, Points
<1>2. CASE CreateChat(w)
  <2>1. Bystander /\ pc[w] = "new_chat"
    BY <1>2 DEF CreateChat, InsertChat, StatementFails, At
  <2>2. CASE Answer(w, "error", NULL)
    BY <2>1, <2>2, QuietAnswer DEF Words
  <2>3. CASE Fetch(w, "chat", Len(chats) + 1, "members")
    <3>1. MovesTo(w, "members") /\ Follows(pc[w], "members")
      BY <2>1, <2>3, FetchMoves DEF Points, Follows, NeedsLogin, Accepted
    <3>2. QED
      BY <2>1, <3>1 DEF Quiet, Points
  <2>4. QED
    BY <1>2, <2>2, <2>3 DEF CreateChat
<1>3. CASE AddMembers(w)
  <2>1. chats' \in Seq(SUBSET Users)
    <3>1. CASE InsertMembers(frame[w].chat, current_user_id, Cmd(w).login)
      <4> DEFINE id == frame[w].chat
                 both == {current_user_id, Cmd(w).login}
      <4>1. chats \in [1..Len(chats) -> SUBSET Users]
        OBVIOUS
      <4>2. chats' = chats \/ (chats' = [chats EXCEPT ![id] = both] /\ both \subseteq Users)
        BY <3>1 DEF InsertMembers, Registered
      <4>3. chats' \in [1..Len(chats) -> SUBSET Users] /\ Len(chats) \in Nat
        BY <4>1, <4>2
      <4>4. QED
        BY <4>3
    <3>2. QED
      BY <1>3, <3>1 DEF AddMembers, StatementFails
  <2>2. Bystander /\ pc[w] = "members" /\ Goto(w, "save") /\ UNCHANGED frame
    BY <1>3, <2>1 DEF AddMembers, InsertMembers, StatementFails, At
  <2>3. MovesTo(w, "save") /\ Follows(pc[w], "save")
    BY <2>2, JumpMoves DEF Points, Follows, NeedsLogin, Accepted
  <2>4. QED
    BY <2>2, <2>3 DEF Quiet, Points
<1>4. CASE Route(w)
  <2>1. Bystander /\ pc[w] = "route"
    BY <1>4 DEF Route, At
  <2>2. Online!FindByLogin(Cmd(w).login) \in Int
    <3>1. PICK login : login = Cmd(w).login
      OBVIOUS
    <3>2. Online!FindByLogin(login) \in Fds \cup {-1}
      BY FoundIsOpen
    <3>3. Online!FindByLogin(Cmd(w).login) = Online!FindByLogin(login)
      BY <3>1 DEF Online!FindByLogin
    <3>4. Fds \cup {-1} \subseteq Int
      BY HandlerAssumption
    <3>5. QED
      BY <3>2, <3>3, <3>4
  <2>3. PICK f \in Int, b \in {"forward", "loop"} : Fetch(w, "rfd", f, b)
    BY <1>4, <2>2 DEF Route
  <2>4. MovesTo(w, b) /\ Follows(pc[w], b)
    BY <2>1, <2>3, FetchMoves DEF Points, Follows, NeedsLogin, Accepted
  <2>5. QED
    BY <2>1, <2>4 DEF Quiet, Points
<1>5. CASE Greet(w) \/ Reply(w)
  <2>1. Bystander /\ pc[w] \in {"greet", "reply"} /\ UNCHANGED frame
    BY <1>5 DEF Greet, Reply, At
  <2>2. PICK b \in {"loop", "route"} : Goto(w, b)
    BY <1>5 DEF Greet, Reply
  <2>3. MovesTo(w, b) /\ Follows(pc[w], b)
    BY <2>1, <2>2, JumpMoves DEF Points, Follows, NeedsLogin, Accepted
  <2>4. QED
    BY <2>1, <2>3 DEF Quiet, Points
<1>6. QED
  BY <1>1, <1>2, <1>3, <1>4, <1>5

(* What was proven stays so: accounts are only added, and a password once   *)
(* presented was presented.                                                 *)
ProofsKept == \A c, u : Correct(c, u) => Correct(c, u)'
LEMMA ProvenGrows ==
  ASSUME presented \subseteq presented',
         \A u \in Registered : accounts'[u] = accounts[u]
  PROVE  ProofsKept /\ Proven \subseteq Proven'
  BY DEF ProofsKept, Proven, Correct, Registered

(* That holds of the user a worker has at hand. *)
LEMMA StillCorrect ==
  ASSUME ProofsKept, NEW w \in Workers,
         frame'[w].client = frame[w].client, frame'[w].cmd = frame[w].cmd
  PROVE  Correct(frame[w].client, frame[w].cmd.login) =>
             Correct(frame[w].client, frame[w].cmd.login)'
<1>1. PICK c, u : c = frame[w].client /\ u = frame[w].cmd.login
  OBVIOUS
<1>2. Correct(c, u) => Correct(c, u)'
  BY DEF ProofsKept
<1>3. QED
  BY <1>1, <1>2 DEF Correct, Registered

(* So the users who act stay proven as long as nobody else does.            *)
LEMMA ActorsKept ==
  ASSUME ActorsAuthenticated, Proven \subseteq Proven',
         UNCHANGED <<messages, users, current_user_id>>
  PROVE  ActorsAuthenticated'
  BY DEF ActorsAuthenticated, Online!Active

(* A move keeps what is known of the commands.                              *)
LEMMA CmdMoves ==
  ASSUME ControlTyped, CmdInv, NEW w \in Workers, NEW b \in Points, MovesTo(w, b),
         \/ Follows(pc[w], b)
         \/ /\ pc[w] = "LOGIN" /\ b = "set_id"
            /\ Correct(frame[w].client, Cmd(w).login),
         presented \subseteq presented', ProofsKept
  PROVE  CmdInv' /\ pc' \in [Workers -> Points] /\ frame' \in [Workers -> Frames]
<1>1. pc' \in [Workers -> Points] /\ frame' \in [Workers -> Frames]
  BY DEF MovesTo, ControlTyped
<1>2. CmdInv'
  <2> SUFFICES ASSUME NEW v \in Workers
               PROVE  /\ pc'[v] # "idle" => frame'[v].client \in Clients /\ frame'[v].fd \in Fds
                      /\ pc'[v] \in NeedsLogin => /\ frame'[v].cmd \in Command
                                                  /\ frame'[v].cmd.login \in Users
                      /\ pc'[v] \in {"REGISTER", "reg_insert"} =>
                            frame'[v].cmd.password \in Passwords
                      /\ pc'[v] = "LOGIN" => <<frame'[v].client, frame'[v].cmd.login,
                                               frame'[v].cmd.password>> \in presented'
                      /\ pc'[v] \in Accepted =>
                            Correct(frame[v].client, frame[v].cmd.login)'
    BY DEF CmdInv
  <2>1. /\ frame'[v].cmd = frame[v].cmd
        /\ frame'[v].client = frame[v].client
        /\ frame'[v].fd = frame[v].fd
    BY DEF MovesTo
  <2>2. Correct(frame[v].client, frame[v].cmd.login) =>
            Correct(frame[v].client, frame[v].cmd.login)'
    BY <2>1, StillCorrect
  <2>3. CASE v # w
    <3>1. pc'[v] = pc[v]
      BY <2>3 DEF MovesTo, ControlTyped
    <3>2. QED
      BY <2>1, <2>2, <3>1 DEF CmdInv
  <2>4. CASE v = w
    <3>1. pc'[w] = b
      BY DEF MovesTo, ControlTyped
    <3>2. CASE Follows(pc[w], b)
      BY <2>1, <2>2, <2>4, <3>1, <3>2 DEF CmdInv, Follows
    <3>3. CASE pc[w] = "LOGIN" /\ b = "set_id" /\ Correct(frame[w].client, Cmd(w).login)
      BY <2>1, <2>2, <2>4, <3>1, <3>3 DEF CmdInv, NeedsLogin, Accepted, Cmd
    <3>4. QED
      BY <3>2, <3>3
  <2>5. QED
    BY <2>3, <2>4
<1>3. QED
  BY <1>1, <1>2

(* Quiet steps keep the invariant. *)
LEMMA QuietKeeps ==
  ASSUME IdentityInv, NEW w \in Workers, Quiet(w)
  PROVE  IdentityInv'
<1> USE DEF IdentityInv, TypeInv
<1>1. PICK b \in Points : MovesTo(w, b) /\ Follows(pc[w], b)
  BY DEF Quiet
<1>2. Bystander
  BY DEF Quiet
<1>3. presented \subseteq presented' /\ ProofsKept /\ Proven \subseteq Proven'
  BY <1>2, ProvenGrows DEF Bystander, history
<1>4. CmdInv' /\ pc' \in [Workers -> Points] /\ frame' \in [Workers -> Frames]
  BY <1>1, <1>3, CmdMoves
<1>5. ActorsAuthenticated'
  BY <1>2, <1>3, ActorsKept DEF Bystander
<1>6. TypeInv'
  BY <1>2, <1>4 DEF Bystander, history, TablesTyped, HistoryTyped, ControlTyped
<1>7. QED
  BY <1>4, <1>5, <1>6

(* Registration: a new account, hence none that was proven before.          *)
LEMMA RegisterKeeps ==
  ASSUME IdentityInv, NEW w \in Workers, RegisterInsert(w)
  PROVE  IdentityInv'
<1> USE DEF IdentityInv, TypeInv
<1>1. CASE UNCHANGED tables
  <2>1. PICK what \in Words : Answer(w, what, NULL)
    BY DEF RegisterInsert, Words
  <2>2. Bystander /\ pc[w] # "idle"
    BY <1>1 DEF RegisterInsert, At, Bystander, tables, table, statics, identity,
                history, TablesTyped
  <2>3. QED
    BY <2>1, <2>2, QuietAnswer, QuietKeeps
<1>2. CASE InsertUser(Cmd(w).login, Cmd(w).password) /\ Answer(w, "registered", NULL)
  <2>1. pc[w] = "reg_insert" /\ UNCHANGED <<users, current_user_id, history>>
    BY DEF RegisterInsert, At, table, statics, identity, history
  <2>2. /\ Cmd(w).login \notin Registered /\ UNCHANGED <<chats, messages>>
        /\ accounts' = [accounts EXCEPT ![Cmd(w).login] = Cmd(w).password]
    BY <1>2 DEF InsertUser
  <2>3. Cmd(w).login \in Users /\ Cmd(w).password \in Passwords
    BY <2>1 DEF CmdInv, NeedsLogin, Cmd
  <2>4. presented \subseteq presented' /\ ProofsKept /\ Proven \subseteq Proven'
    <3>1. \A u \in Registered : accounts'[u] = accounts[u]
      BY <2>2 DEF TablesTyped, Registered
    <3>2. presented \subseteq presented'
      BY <2>1 DEF history
    <3>3. QED
      BY <3>1, <3>2, ProvenGrows
  <2>5. MovesTo(w, "reply") /\ Follows(pc[w], "reply")
    BY <1>2, <2>1, AnswerMoves DEF Words, Follows, NeedsLogin, Accepted
  <2>6. CmdInv' /\ pc' \in [Workers -> Points] /\ frame' \in [Workers -> Frames]
    BY <2>4, <2>5, CmdMoves DEF Points
  <2>7. ActorsAuthenticated'
    BY <2>1, <2>2, <2>4, ActorsKept
  <2>8. TypeInv'
    BY <2>1, <2>2, <2>3, <2>6 DEF history, TablesTyped, HistoryTyped, ControlTyped
  <2>9. QED
    BY <2>6, <2>7, <2>8
<1>3. QED
  BY <1>1, <1>2 DEF RegisterInsert

(* The check of the password: what was presented, and matches, is proven.   *)
LEMMA AuthenticateKeeps ==
  ASSUME IdentityInv, NEW w \in Workers, Authenticate(w)
  PROVE  IdentityInv'
<1> USE DEF IdentityInv, TypeInv
<1>1. /\ pc[w] = "LOGIN"
      /\ UNCHANGED <<accounts, chats, messages, users, current_user_id, issued, presented>>
  BY DEF Authenticate, At, tables, table, statics, identity
<1>2. presented \subseteq presented' /\ ProofsKept /\ Proven \subseteq Proven'
  BY <1>1, ProvenGrows
<1>3. Cmd(w).login \in Users /\ frame[w].client \in Clients
  BY <1>1 DEF CmdInv, NeedsLogin, Cmd
<1>4. /\ CmdInv' /\ pc' \in [Workers -> Points] /\ frame' \in [Workers -> Frames]
      /\ session' \in [Clients -> Users \cup {NULL}]
  <2>1. CASE /\ Matches(Cmd(w).login, Cmd(w).password) /\ Goto(w, "set_id")
             /\ session' = [session EXCEPT ![frame[w].client] = Cmd(w).login]
             /\ UNCHANGED frame
    <3>1. Correct(frame[w].client, Cmd(w).login)
      BY <1>1, <2>1 DEF CmdInv, Matches, Correct, Cmd
    <3>2. MovesTo(w, "set_id")
      BY <2>1, JumpMoves DEF Points
    <3>3. session' \in [Clients -> Users \cup {NULL}]
      BY <1>3, <2>1 DEF HistoryTyped
    <3>4. QED
      BY <1>1, <1>2, <3>1, <3>2, <3>3, CmdMoves DEF Points
  <2>2. CASE Answer(w, "error", NULL) /\ UNCHANGED session
    <3>1. MovesTo(w, "reply") /\ Follows(pc[w], "reply")
      BY <1>1, <2>2, AnswerMoves DEF Words, Follows, NeedsLogin, Accepted
    <3>2. QED
      BY <1>2, <2>2, <3>1, CmdMoves DEF Points, HistoryTyped
  <2>3. QED
    BY <2>1, <2>2 DEF Authenticate
<1>5. ActorsAuthenticated'
  BY <1>1, <1>2, ActorsKept
<1>6. TypeInv'
  BY <1>1, <1>4 DEF TablesTyped, HistoryTyped, ControlTyped
<1>7. QED
  BY <1>4, <1>5, <1>6

(* Becoming current_user and leaving that place.                            *)
LEMMA CurrentUserKeeps ==
  ASSUME IdentityInv, NEW w \in Workers, SetId(w) \/ ClearId(w)
  PROVE  IdentityInv'
<1> USE DEF IdentityInv, TypeInv
<1>1. UNCHANGED <<accounts, chats, messages, users, history, frame>>
  BY DEF SetId, ClearId, tables, table
<1>2. presented \subseteq presented' /\ ProofsKept /\ Proven \subseteq Proven'
  BY <1>1, ProvenGrows DEF history
<1>3. /\ CmdInv' /\ pc' \in [Workers -> Points] /\ frame' \in [Workers -> Frames]
      /\ current_user_id' \in Proven \cup {NULL}
  <2>1. CASE SetId(w)
    <3>1. MovesTo(w, "set_login") /\ Follows(pc[w], "set_login")
      BY <1>1, <2>1, JumpMoves DEF SetId, At, Points, Follows, NeedsLogin, Accepted
    <3>2. current_user_id' \in Proven
      BY <2>1 DEF SetId, At, CmdInv, NeedsLogin, Accepted, Cmd, Proven
    <3>3. QED
      BY <1>2, <3>1, <3>2, CmdMoves DEF Points
  <2>2. CASE ClearId(w)
    <3>1. MovesTo(w, "clear_login") /\ Follows(pc[w], "clear_login")
      BY <1>1, <2>2, JumpMoves DEF ClearId, At, Points, Follows, NeedsLogin, Accepted
    <3>2. QED
      BY <1>2, <2>2, <3>1, CmdMoves DEF Points, ClearId
  <2>3. QED
    BY <2>1, <2>2
<1>4. ActorsAuthenticated'
  BY <1>1, <1>2, <1>3 DEF ActorsAuthenticated, Online!Active
<1>5. TypeInv'
  BY <1>1, <1>3 DEF history, TablesTyped, HistoryTyped, ControlTyped, Proven
<1>6. QED
  BY <1>3, <1>4, <1>5
(* Entering and leaving the table: an entry is proven, or was there.        *)
LEMMA TableKeeps ==
  ASSUME IdentityInv, NEW w \in Workers, Enter(w) \/ Logout(w) \/ Leave(w)
  PROVE  IdentityInv'
<1> USE DEF IdentityInv, TypeInv
<1>1. UNCHANGED <<accounts, chats, messages, current_user_id, issued, presented>>
  BY DEF Enter, Logout, Leave, tables, statics, identity, history
<1>2. presented \subseteq presented' /\ ProofsKept /\ Proven \subseteq Proven'
  BY <1>1, ProvenGrows
<1>3. /\ users' \in [Online!Slots -> Entry \cup {FREE}]
      /\ \A i \in Online!Slots : \/ users'[i] \in {users[i], FREE}
                                 \/ users'[i].user_id \in Proven
  <2>1. CASE Enter(w)
    <3> DEFINE entry == [user_id |-> Cmd(w).login, login |-> Cut[Cmd(w).login],
                         socket_fd |-> frame[w].fd]
    <3>1. Cmd(w).login \in Proven /\ frame[w].fd \in Fds
      BY <2>1 DEF Enter, At, CmdInv, NeedsLogin, Accepted, Cmd, Proven
    <3>2. entry \in Entry /\ entry.user_id \in Proven
      BY <3>1, HandlerAssumption DEF Entry, Proven
    <3>3. \/ users' = users
          \/ users' = [users EXCEPT ![Online!FirstOf(Online!Slots \ Online!Active)] = entry]
      BY <2>1 DEF Enter, Online!Add, Online!table
    <3> HIDE DEF entry
    <3>4. QED
      BY <3>2, <3>3 DEF TablesTyped
  <2>2. CASE Logout(w) \/ Leave(w)
    <3>1. users' = users \/ \E i : users' = [users EXCEPT ![i] = FREE]
      BY <2>2 DEF Logout, Leave, RemoveOnline, Online!Remove, Online!table, table
    <3>2. QED
      BY <3>1 DEF TablesTyped
  <2>3. QED
    BY <2>1, <2>2
<1>4. /\ CmdInv' /\ pc' \in [Workers -> Points] /\ frame' \in [Workers -> Frames]
      /\ session' \in [Clients -> Users \cup {NULL}]
  <2>1. PICK b \in Points : MovesTo(w, b) /\ Follows(pc[w], b)
    <3>1. CASE Enter(w) \/ (Logout(w) /\ current_user_id = NULL)
      <4>1. (Answer(w, "welcome", NULL) \/ Answer(w, "bye", NULL)) /\ pc[w] # "idle"
        BY <3>1 DEF Enter, Logout, At
      <4>2. MovesTo(w, "reply") /\ Follows(pc[w], "reply")
        BY <4>1, AnswerMoves DEF Words, Follows, NeedsLogin, Accepted
      <4>3. QED
        BY <4>2 DEF Points
    <3>2. CASE Leave(w) \/ (Logout(w) /\ current_user_id # NULL)
      <4>1. PICK b \in {"close", "clear_id"} : Goto(w, b) /\ UNCHANGED frame /\ pc[w] # "idle"
        BY <3>2 DEF Leave, Logout, At
      <4>2. MovesTo(w, b) /\ Follows(pc[w], b)
        BY <4>1, JumpMoves DEF Points, Follows, NeedsLogin, Accepted
      <4>3. QED
        BY <4>2 DEF Points
    <3>3. QED
      BY <3>1, <3>2
  <2>2. session' \in [Clients -> Users \cup {NULL}]
    BY DEF Enter, Logout, Leave, history, HistoryTyped
  <2>3. QED
    BY <1>2, <2>1, <2>2, CmdMoves
<1>5. ActorsAuthenticated'
  BY <1>1, <1>2, <1>3 DEF ActorsAuthenticated, Online!Active
<1>6. TypeInv'
  BY <1>1, <1>3, <1>4 DEF TablesTyped, HistoryTyped, ControlTyped
<1>7. QED
  BY <1>4, <1>5, <1>6

(* Storing a message: its author is current_user, who is proven.            *)
LEMMA StoreKeeps ==
  ASSUME IdentityInv, NEW w \in Workers, Store(w)
  PROVE  IdentityInv'
<1> USE DEF IdentityInv, TypeInv
<1>1. /\ pc[w] = "save"
      /\ UNCHANGED <<accounts, chats, users, current_user_id, history>>
  BY DEF Store, SaveMessage, Save, InsertMessage, At, tables, table, statics, identity, history
<1>2. presented \subseteq presented' /\ ProofsKept /\ Proven \subseteq Proven'
  BY <1>1, ProvenGrows DEF history
<1> DEFINE message == [sender |-> current_user_id, chat |-> frame[w].chat,
                       text |-> frame[w].text]
<1>3. /\ MovesTo(w, "reply")
      /\ messages' \in Seq(Message)
      /\ \A i \in DOMAIN messages' : messages'[i].sender \in Proven
  <2>1. CASE /\ InsertMessage(message)
             /\ Answer(w, "sent", Len(messages) + 1)
    <3>1. message \in Message /\ message.sender \in Proven /\ messages' = Append(messages, message)
      <4>1. current_user_id \in Users /\ messages' = Append(messages, message)
        BY <2>1 DEF InsertMessage, Registered
      <4>2. current_user_id \in Proven
        BY <4>1, HandlerAssumption DEF ActorsAuthenticated
      <4>3. frame[w] \in Frames
        BY DEF ControlTyped
      <4>4. frame[w].chat \in Int /\ frame[w].text \in Texts \cup {NULL}
        BY <4>3 DEF Frames
      <4>5. QED
        BY <4>1, <4>2, <4>4 DEF Message
    <3>2. Len(messages) + 1 \in Int /\ messages \in Seq(Message)
      BY DEF TablesTyped
    <3>3. MovesTo(w, "reply")
      BY <2>1, <3>2, AnswerMoves DEF Words
    <3> HIDE DEF message
    <3>4. messages' \in Seq(Message)
      BY <3>1, <3>2
    <3>5. ASSUME NEW i \in DOMAIN messages' PROVE messages'[i].sender \in Proven
      BY <3>1, <3>2 DEF ActorsAuthenticated
    <3>6. QED
      BY <3>3, <3>4, <3>5
  <2>2. CASE Answer(w, "error", NULL) /\ UNCHANGED tables
    <3>1. MovesTo(w, "reply")
      BY <2>2, AnswerMoves DEF Words
    <3>2. QED
      BY <2>2, <3>1 DEF tables, TablesTyped, ActorsAuthenticated
  <2>3. QED
    BY <2>1, <2>2 DEF Store, SaveMessage, Save
<1>4. CmdInv' /\ pc' \in [Workers -> Points] /\ frame' \in [Workers -> Frames]
  <2>1. Follows(pc[w], "reply")
    BY <1>1 DEF Follows, NeedsLogin, Accepted
  <2>2. QED
    BY <1>2, <1>3, <2>1, CmdMoves DEF Points
<1>5. ActorsAuthenticated'
  BY <1>1, <1>2, <1>3 DEF ActorsAuthenticated, Online!Active
<1>6. TypeInv'
  BY <1>1, <1>3, <1>4 DEF history, TablesTyped, HistoryTyped, ControlTyped
<1>7. QED
  BY <1>4, <1>5, <1>6
(* A step that only gives one worker a new frame, with which it knows what   *)
(* its point asks for, keeps the invariant.                                 *)
LEMMA FreshFrameKeeps ==
  ASSUME IdentityInv, NEW w \in Workers, NEW b \in Points, NEW f \in Frames,
         pc' = [pc EXCEPT ![w] = b], frame' = [frame EXCEPT ![w] = f],
         UNCHANGED <<tables, table, current_user_id>>, HistoryTyped',
         presented \subseteq presented', b \notin Accepted,
         b # "idle" => f.client \in Clients /\ f.fd \in Fds,
         b \in NeedsLogin => f.cmd \in Command /\ f.cmd.login \in Users,
         b \in {"REGISTER", "reg_insert"} => f.cmd.password \in Passwords,
         b = "LOGIN" => <<f.client, f.cmd.login, f.cmd.password>> \in presented'
  PROVE  IdentityInv'
<1> USE DEF IdentityInv, TypeInv
<1>1. ProofsKept /\ Proven \subseteq Proven'
  BY ProvenGrows DEF tables
<1>2. pc' \in [Workers -> Points] /\ frame' \in [Workers -> Frames]
  BY DEF ControlTyped
<1>3. pc'[w] = b /\ frame'[w] = f
  BY DEF ControlTyped
<1>4. \A v \in Workers \ {w} : pc'[v] = pc[v] /\ frame'[v] = frame[v]
  BY DEF ControlTyped
<1>5. CmdInv'
  <2>1. \A v \in Workers \ {w} : Correct(frame[v].client, frame[v].cmd.login) =>
                                    Correct(frame[v].client, frame[v].cmd.login)'
    BY <1>1, <1>4, StillCorrect
  <2>2. QED
    BY <1>1, <1>3, <1>4, <2>1 DEF CmdInv
<1>6. ActorsAuthenticated'
  BY <1>1, ActorsKept DEF tables, table
<1>7. TypeInv'
  BY <1>2 DEF tables, table, TablesTyped, ControlTyped
<1>8. QED
  BY <1>5, <1>6, <1>7

(* A new client, and the end of one. *)
LEMMA ClientsKeep ==
  ASSUME IdentityInv, NEW w \in Workers,
         Close(w) \/ \E c \in Clients : Connect(w, c)
  PROVE  IdentityInv'
<1> USE DEF IdentityInv, TypeInv
<1>1. /\ UNCHANGED <<tables, table, current_user_id>> /\ presented \subseteq presented'
      /\ HistoryTyped'
  BY DEF Close, Connect, statics, identity, history, HistoryTyped
<1>2. NoFrame \in Frames
  BY DEF NoFrame, Frames
<1>3. CASE Close(w)
  <2>1. pc' = [pc EXCEPT ![w] = "idle"] /\ frame' = [frame EXCEPT ![w] = NoFrame]
    BY <1>3 DEF Close, Goto
  <2>2. QED
    BY <1>1, <1>2, <2>1, FreshFrameKeeps DEF Points, NeedsLogin, Accepted
<1>4. ASSUME NEW c \in Clients, Connect(w, c) PROVE IdentityInv'
  <2>1. PICK g \in Fds : frame' = [frame EXCEPT ![w] = [NoFrame EXCEPT !.client = c, !.fd = g]]
    BY <1>4 DEF Connect
  <2> DEFINE f == [NoFrame EXCEPT !.client = c, !.fd = g]
  <2>2. \A r \in Frames : LET e == [r EXCEPT !.client = c, !.fd = g]
                          IN  e \in Frames /\ e.client = c /\ e.fd = g
    BY DEF Frames
  <2>3. f \in Frames /\ f.client = c /\ f.fd = g
    BY <1>2, <2>2
  <2>4. pc' = [pc EXCEPT ![w] = "greet"] /\ frame' = [frame EXCEPT ![w] = f]
    BY <1>4, <2>1 DEF Connect, Goto
  <2>5. "greet" \in Points /\ "greet" \notin Accepted /\ "greet" \notin NeedsLogin
    BY DEF Points, NeedsLogin, Accepted
  <2> HIDE DEF f
  <2>6. QED
    BY <1>1, <2>3, <2>4, <2>5, FreshFrameKeeps
<1>5. QED
  BY <1>3, <1>4

(* A command is read: a LOGIN is recorded as presented with its password.   *)
LEMMA ReceiveKeeps ==
  ASSUME IdentityInv, NEW w \in Workers, Receive(w)
  PROVE  IdentityInv'
<1> USE DEF IdentityInv, TypeInv
<1> DEFINE c == frame[w].client
           n == issued[c] + 1
<1>1. pc[w] = "loop" /\ c \in Clients /\ frame[w].fd \in Fds
  BY DEF Receive, At, CmdInv
<1>2. n \in Nat /\ issued' = [issued EXCEPT ![c] = n] /\ session' = session
  BY <1>1 DEF Receive, HistoryTyped
<1>3. n \in 1..Len(Script[c]) /\ Script[c] \in Seq(SUBSET Command)
  <2>1. Script[c] \in Seq(SUBSET Command)
    BY <1>1, HandlerAssumption
  <2>2. Len(Script[c]) \in Nat
    BY <2>1
  <2>3. 1 <= n /\ n <= Len(Script[c])
    BY <1>1 DEF Receive, HistoryTyped
  <2>4. QED
    BY <1>2, <2>1, <2>2, <2>3
<1>4. PICK command \in Script[c][n] :
         /\ frame' = [frame EXCEPT
               ![w].cmd = command,
               ![w].text = [by |-> c, nth |-> n, to |-> command.login,
                            author |-> session[c]]]
         /\ Goto(w, command.op)
         /\ presented' = IF command.op = "LOGIN"
               THEN presented \cup {<<c, command.login, command.password>>}
               ELSE presented
  BY DEF Receive
<1>5. command \in Command
  BY <1>3, <1>4
<1> DEFINE text == [by |-> c, nth |-> n, to |-> command.login, author |-> session[c]]
           f == [frame[w] EXCEPT !.cmd = command, !.text = text]
<1>6. /\ command.op \in {"REGISTER", "LOGIN", "MSG", "CHECK_USER", "HISTORY", "LOGOUT", "BAD"}
      /\ command.login \in Users \cup {NULL}
      /\ command.op \in {"REGISTER", "LOGIN", "MSG", "CHECK_USER"} => command.login \in Users
      /\ command.op \in {"REGISTER", "LOGIN"} => command.password \in Passwords
  BY <1>5 DEF Command
<1>7. text \in Texts
  BY <1>1, <1>2, <1>6 DEF Texts, HistoryTyped
<1> HIDE DEF text
<1>8. /\ f \in Frames /\ f.cmd = command
      /\ f.client = c /\ f.fd = frame[w].fd
  <2>1. frame[w] \in Frames
    BY DEF ControlTyped
  <2>2. QED
    BY <1>5, <1>7, <2>1 DEF Frames
<1>9. frame' = [frame EXCEPT ![w] = f]
  BY <1>4 DEF ControlTyped, text
<1>10. HistoryTyped' /\ presented \subseteq presented'
  BY <1>1, <1>2, <1>4, <1>6 DEF HistoryTyped
<1>11. UNCHANGED <<tables, table, current_user_id>> /\ pc' = [pc EXCEPT ![w] = command.op]
  BY <1>4 DEF Receive, Goto, statics, identity
<1>12. command.op = "LOGIN" => <<c, command.login, command.password>> \in presented'
  BY <1>4
<1>13. command.op \in Points \ Accepted /\ command.op \notin {"idle", "reg_insert"}
  BY <1>6 DEF Points, Accepted
<1>14. command.op \in NeedsLogin => command.op \in {"REGISTER", "LOGIN", "MSG", "CHECK_USER"}
  BY <1>6 DEF NeedsLogin
<1> HIDE DEF f, c, n
<1>15. QED
  BY <1>1, <1>5, <1>6, <1>8, <1>9, <1>10, <1>11, <1>12, <1>13, <1>14, FreshFrameKeeps DEF c

--------------------------------------------------------------------------------
(* Nobody is logged in at the start, and nothing stored. *)
LEMMA InitIdentity == Init => IdentityInv
<1> SUFFICES ASSUME Init PROVE IdentityInv
  OBVIOUS
<1>1. TypeInv
  BY InitType
<1>2. CmdInv
  BY DEF Init, CmdInv, NeedsLogin, Accepted
<1>3. ActorsAuthenticated
  BY DEF Init, InitTables, Online!InitTable, ActorsAuthenticated, Online!Active
<1>4. QED
  BY <1>1, <1>2, <1>3 DEF IdentityInv

(* Every step of the server, and of its clients, keeps the invariant.       *)
LEMMA NextIdentity == IdentityInv /\ [Next]_vars => IdentityInv'
<1> SUFFICES ASSUME IdentityInv, [Next]_vars PROVE IdentityInv'
  OBVIOUS
<1>1. ASSUME NEW w \in Workers, Commands(w) PROVE IdentityInv'
  BY <1>1, QuietCommand, QuietRest, QuietKeeps, RegisterKeeps, AuthenticateKeeps,
     CurrentUserKeeps, TableKeeps, StoreKeeps DEF Commands, IdentityInv, TypeInv
<1>2. ASSUME NEW w \in Workers, Greet(w) \/ Reply(w) \/ Leave(w) \/ Close(w)
      PROVE  IdentityInv'
  BY <1>2, QuietRest, QuietKeeps, TableKeeps, ClientsKeep DEF IdentityInv, TypeInv
<1>3. ASSUME NEW w \in Workers, Arriving(w) PROVE IdentityInv'
  BY <1>3, ReceiveKeeps, ClientsKeep DEF Arriving
<1>4. CASE UNCHANGED <<tables, table, statics, pc, frame, history>>
  BY <1>4 DEF IdentityInv, TypeInv, TablesTyped, HistoryTyped, ControlTyped, CmdInv,
              ActorsAuthenticated, Proven, Correct, Registered, Online!Active,
              tables, table, statics, identity, history
<1>5. QED
  BY <1>1, <1>2, <1>3, <1>4 DEF Next, Serving, HangUp, vars

(* Nobody acts as a user whose password was never given, however many       *)
(* workers overwrite the shared current_user, and whatever statements fail: *)
(* stored messages, online entries and current_user itself are of users     *)
(* whose login and password some connection has presented (handle_login,    *)
(* db_authenticate_user).                                                   *)
THEOREM ActorsSafe == Spec => []ActorsAuthenticated
<1>1. IdentityInv => ActorsAuthenticated
  BY DEF IdentityInv
<1>2. QED
  BY InitIdentity, NextIdentity, <1>1, PTL DEF Spec

--------------------------------------------------------------------------------
(* What is stored and answered: an acknowledgment is the truth, and every   *)
(* command has one answer, whatever statements fail and whoever hangs up.   *)

(* The points at which a command is being executed and not yet answered.    *)
Busy == {"BAD", "REGISTER", "reg_insert", "CHECK_USER", "HISTORY", "LOGIN", "set_id",
         "set_login", "set_login_end", "enter", "LOGOUT", "clear_id", "clear_login",
         "MSG", "lookup", "find_chat", "new_chat", "members", "save"}

(* Every client has one worker and one descriptor, and every descriptor a   *)
(* client; who has not come was sent nothing.                               *)
Placed ==
    /\ desc \in [Fds -> Clients \cup {NULL}]
    /\ \A w \in Workers :
          /\ pc[w] = "idle" => frame[w].client = NULL
          /\ pc[w] # "idle" => /\ frame[w].client \in Clients /\ frame[w].fd \in Fds
                               /\ desc[frame[w].fd] = frame[w].client
          /\ pc[w] = "forward" => frame[w].rfd \in Fds
    /\ \A v, w \in Workers : frame[v].client = frame[w].client /\ frame[w].client # NULL => v = w
    /\ \A f \in Fds : desc[f] # NULL => \E w \in Workers : pc[w] # "idle" /\ frame[w].fd = f
    /\ \A c \in Clients \ gone : (\A w \in Workers : frame[w].client # c) => sent[c] = <<>>

(* The text a worker has at hand is the last command of its client, ...     *)
Stored(text) == \E m \in DOMAIN messages : messages[m].text = text
TextInv ==
    \A w \in Workers : pc[w] \in Busy \cup {"reply", "route", "forward"} =>
        /\ frame[w].text \in Texts
        /\ frame[w].text.by = frame[w].client
        /\ frame[w].text.nth = issued[frame[w].client]
(* ... which is not stored before its turn, once then, and before it is     *)
(* acknowledged and forwarded.                                              *)
StoreInv ==
    /\ \A m \in DOMAIN messages :
          messages[m].text \in Texts /\ messages[m].text.nth <= issued[messages[m].text.by]
    /\ \A i, j \in DOMAIN messages : messages[i].text = messages[j].text => i = j
    /\ \A w \in Workers :
          /\ pc[w] \in Busy => ~Stored(frame[w].text)
          /\ pc[w] = "reply" => frame[w].answer \in Replies
          /\ pc[w] = "reply" /\ frame[w].answer.what = "sent" =>
                /\ frame[w].answer.ref \in DOMAIN messages
                /\ messages[frame[w].answer.ref].text = frame[w].text
          /\ pc[w] \in {"route", "forward"} => Stored(frame[w].text)

(* Every acknowledgment names a message of its client, no other one of them *)
(* names it, and none that of a command that is not answered.               *)
SentTyped == \E S : sent \in [Clients -> Seq(S)]
Acks(c)   == {i \in DOMAIN sent[c] : sent[c][i].what = "sent"}
AckInv ==
    /\ SentTyped
    /\ \A c \in Clients :
          /\ \A i \in Acks(c) : /\ sent[c][i].ref \in DOMAIN messages
                                /\ messages[sent[c][i].ref].text.by = c
          /\ \A i, j \in Acks(c) : sent[c][i].ref = sent[c][j].ref => i = j
          /\ \A i \in DOMAIN sent[c] : sent[c][i].what = "message" => Stored(sent[c][i].ref)
    /\ \A w \in Workers : pc[w] \in Busy \cup {"reply"} =>
          \A i \in Acks(frame[w].client) :
              messages[sent[frame[w].client][i].ref].text # frame[w].text

MailInv == Placed /\ TextInv /\ StoreInv /\ AckInv
--------------------------------------------------------------------------------
(* A step of one worker, in which it goes on with the same command.         *)
Turn(w) == \A v \in Workers \ {w} : pc'[v] = pc[v] /\ frame'[v] = frame[v]
SameClient(w) ==
    /\ pc[w] # "idle" /\ pc'[w] # "idle"
    /\ frame'[w].client = frame[w].client /\ frame'[w].fd = frame[w].fd
SameCommand(w) == SameClient(w) /\ frame'[w].text = frame[w].text
GoesOn(w) == Turn(w) /\ SameCommand(w)

(* Most steps of a command neither store nor send, and end in an answer     *)
(* that is no acknowledgment.                                               *)
Silent == UNCHANGED <<messages, issued, sent, desc, gone>>
Progress(w) ==
    /\ GoesOn(w)
    /\ pc[w] \in Busy /\ pc'[w] \in Busy \cup {"reply"}
    /\ pc'[w] = "reply" => frame'[w].answer \in Replies /\ frame'[w].answer.what # "sent"

(* An answer is progress, ...                                               *)
LEMMA AnswerProgress ==
  ASSUME ControlTyped, NEW w \in Workers, NEW what \in Words \ {"sent"},
         NEW ref \in Int \cup {NULL}, Answer(w, what, ref), pc[w] \in Busy
  PROVE  Progress(w)
<1>1. pc'[w] = "reply" /\ \A v \in Workers \ {w} : pc'[v] = pc[v]
  BY DEF Answer, Goto, ControlTyped
<1>2. frame[w] \in Frames /\ \A v \in Workers \ {w} : frame'[v] = frame[v]
  BY DEF Answer, ControlTyped
<1>3. frame'[w] = [frame[w] EXCEPT !.answer = [what |-> what, ref |-> ref]]
  BY DEF Answer, ControlTyped
<1>4. /\ frame'[w].text = frame[w].text /\ frame'[w].client = frame[w].client
      /\ frame'[w].fd = frame[w].fd /\ frame'[w].answer = [what |-> what, ref |-> ref]
  BY <1>2, <1>3 DEF Frames
<1>5. QED
  BY <1>1, <1>2, <1>4 DEF Progress, GoesOn, Turn, SameCommand, SameClient, Replies, Busy

(* ... and so is a jump, ...                                                *)
LEMMA JumpProgress ==
  ASSUME ControlTyped, NEW w \in Workers, NEW point \in Busy,
         Goto(w, point), UNCHANGED frame, pc[w] \in Busy
  PROVE  Progress(w)
  BY DEF Goto, ControlTyped, Progress, GoesOn, Turn, SameCommand, SameClient, Busy

(* ... and a number that is fetched.                                        *)
LEMMA FetchProgress ==
  ASSUME ControlTyped, NEW w \in Workers, NEW value, NEW point \in Busy,
         Fetch(w, "chat", value, point), pc[w] \in Busy
  PROVE  Progress(w)
<1>1. pc'[w] = point /\ \A v \in Workers \ {w} : pc'[v] = pc[v]
  BY DEF Fetch, Goto, ControlTyped
<1>2. frame[w] \in Frames /\ \A v \in Workers \ {w} : frame'[v] = frame[v]
  BY DEF Fetch, ControlTyped
<1>3. frame'[w] = [frame[w] EXCEPT !.chat = value]
  BY DEF Fetch, ControlTyped, Frames
<1>4. /\ frame'[w].text = frame[w].text /\ frame'[w].client = frame[w].client
      /\ frame'[w].fd = frame[w].fd
  BY <1>2, <1>3 DEF Frames
<1>5. QED
  BY <1>1, <1>2, <1>4 DEF Progress, GoesOn, Turn, SameCommand, SameClient, Busy

(* Every step of a command up to its answer is progress, but the one that   *)
(* stores a message.                                                        *)
StoresIt(w) ==
    /\ At(w, "save")
    /\ InsertMessage([sender |-> current_user_id, chat |-> frame[w].chat,
                      text |-> frame[w].text])
    /\ Answer(w, "sent", Len(messages) + 1)
    /\ UNCHANGED <<issued, sent, desc, gone>>
LEMMA CommandProgress ==
  ASSUME ControlTyped, NEW w \in Workers, Commands(w)
  PROVE  (Progress(w) /\ Silent) \/ StoresIt(w) \/ Route(w) \/ Forward(w)
<1> DEFINE Says == \E what \in Words \ {"sent"} : Answer(w, what, NULL)
           Jumps == \E b \in Busy : Goto(w, b) /\ UNCHANGED frame
           Fetches == \E b \in Busy : \E n : Fetch(w, "chat", n, b)
           Step == pc[w] \in Busy /\ Silent /\ (Says \/ Jumps \/ Fetches)
<1> USE DEF At, Busy, Words, Silent, tables, history, network
<1>1. CASE \/ Malformed(w) \/ RegisterCheck(w) \/ CheckUser(w) \/ History(w)
           \/ MsgGate(w) \/ FindRecipient(w)
  <2>1. pc[w] \in Busy /\ Silent
    BY <1>1 DEF Malformed, RegisterCheck, CheckUser, History, MsgGate, FindRecipient
  <2>2. Says \/ Jumps
    BY <1>1 DEF Malformed, RegisterCheck, CheckUser, History, MsgGate, FindRecipient
  <2>3. QED
    BY <2>1, <2>2, AnswerProgress, JumpProgress
<1>2. CASE RegisterInsert(w)
  <2>1. pc[w] \in Busy /\ Silent
    BY <1>2 DEF RegisterInsert, InsertUser
  <2>2. Says
    BY <1>2 DEF RegisterInsert
  <2>3. QED
    BY <2>1, <2>2, AnswerProgress
<1>3. CASE \/ Authenticate(w) \/ SetId(w) \/ SetLoginBegin(w) \/ SetLoginEnd(w)
           \/ Enter(w) \/ Logout(w) \/ ClearId(w) \/ ClearLogin(w)
  <2>1. pc[w] \in Busy /\ Silent
    BY <1>3 DEF Authenticate, SetId, SetLoginBegin, SetLoginEnd, Enter, Logout, ClearId,
                ClearLogin
  <2>2. Says \/ Jumps
    BY <1>3 DEF Authenticate, SetId, SetLoginBegin, SetLoginEnd, Enter, Logout, ClearId,
                ClearLogin
  <2>3. QED
    BY <2>1, <2>2, AnswerProgress, JumpProgress
<1>4. CASE FindChat(w) \/ CreateChat(w) \/ AddMembers(w)
  <2>1. pc[w] \in Busy /\ Silent
    BY <1>4 DEF FindChat, CreateChat, AddMembers, InsertChat, InsertMembers, StatementFails
  <2>2. Says \/ Jumps \/ Fetches
    BY <1>4 DEF FindChat, CreateChat, AddMembers
  <2>3. QED
    BY <2>1, <2>2, AnswerProgress, JumpProgress, FetchProgress
<1>5. CASE Store(w)
  <2>1. pc[w] \in Busy /\ UNCHANGED <<issued, sent, desc, gone>>
    BY <1>5 DEF Store
  <2>2. CASE Answer(w, "error", NULL) /\ UNCHANGED tables
    BY <2>1, <2>2, AnswerProgress
  <2>3. QED
    BY <1>5, <2>1, <2>2 DEF Store, SaveMessage, Save, StoresIt
<1>6. QED
  BY <1>1, <1>2, <1>3, <1>4, <1>5 DEF Commands
--------------------------------------------------------------------------------
(* Whoever goes on stays where he is, ...                                   *)
LEMMA PlacedGoesOn ==
  ASSUME Placed, NEW w \in Workers, Turn(w), SameClient(w), UNCHANGED desc,
         gone \subseteq gone',
         pc'[w] = "forward" => frame'[w].rfd \in Fds,
         \A c \in Clients \ gone :
             (\A v \in Workers : frame[v].client # c) => sent'[c] = sent[c]
  PROVE  Placed'
<1>1. \A v \in Workers : /\ frame'[v].client = frame[v].client
                         /\ frame'[v].fd = frame[v].fd
                         /\ pc'[v] = "idle" <=> pc[v] = "idle"
  BY DEF Turn, SameClient
<1>2. \A v \in Workers : pc'[v] = "forward" => frame'[v].rfd \in Fds
  BY <1>1 DEF Turn, Placed
<1>3. \A c \in Clients \ gone' : (\A v \in Workers : frame'[v].client # c) => sent'[c] = <<>>
  BY <1>1 DEF Placed
<1>4. QED
  BY <1>1, <1>2, <1>3 DEF Placed

(* ... and so does his text.                                                *)
LEMMA TextGoesOn ==
  ASSUME TextInv, NEW w \in Workers, GoesOn(w), UNCHANGED issued,
         pc'[w] \in Busy \cup {"reply", "route", "forward"} =>
             pc[w] \in Busy \cup {"reply", "route", "forward"}
  PROVE  TextInv'
<1>1. \A v \in Workers : /\ frame'[v].client = frame[v].client
                         /\ frame'[v].text = frame[v].text
  BY DEF GoesOn, Turn, SameCommand, SameClient
<1>2. \A v \in Workers : pc'[v] \in Busy \cup {"reply", "route", "forward"} =>
                           pc[v] \in Busy \cup {"reply", "route", "forward"}
  BY DEF GoesOn, Turn
<1>3. QED
  BY <1>1, <1>2 DEF TextInv

(* A step that neither stores nor sends, nor begins a command.              *)
LEMMA SilenceKeeps ==
  ASSUME MailInv, NEW w \in Workers, GoesOn(w), Silent,
         pc'[w] \in Busy => pc[w] \in Busy,
         pc'[w] = "reply" => /\ pc[w] \in Busy /\ frame'[w].answer \in Replies
                             /\ frame'[w].answer.what # "sent",
         pc'[w] \in {"route", "forward"} => pc[w] \in {"route", "forward"},
         pc'[w] = "forward" => frame'[w].rfd \in Fds
  PROVE  MailInv'
<1> USE DEF MailInv, Silent
<1>1. Placed'
  BY PlacedGoesOn DEF GoesOn, SameCommand
<1>2. TextInv'
  BY TextGoesOn
<1>3. \A v \in Workers :
         /\ frame'[v].client = frame[v].client /\ frame'[v].text = frame[v].text
         /\ pc'[v] \in Busy => pc[v] \in Busy
         /\ pc'[v] = "reply" => \/ pc[v] = "reply" /\ frame'[v] = frame[v]
                                \/ /\ pc[v] \in Busy /\ frame'[v].answer \in Replies
                                   /\ frame'[v].answer.what # "sent"
         /\ pc'[v] \in {"route", "forward"} => pc[v] \in {"route", "forward"}
  <2>1. \A v \in Workers \ {w} : pc'[v] = pc[v] /\ frame'[v] = frame[v]
    BY DEF GoesOn, Turn
  <2>2. frame'[w].client = frame[w].client /\ frame'[w].text = frame[w].text
    BY DEF GoesOn, SameCommand, SameClient
  <2>3. QED
    BY <2>1, <2>2
<1>4. StoreInv'
  BY <1>3 DEF StoreInv, Stored
<1>5. AckInv'
  <2>1. /\ SentTyped' /\ \A t : Stored(t)' <=> Stored(t)
        /\ \A c : Acks(c)' = Acks(c)
    BY DEF AckInv, SentTyped, Stored, Acks
  <2>2. \A v \in Workers : pc'[v] \in Busy \cup {"reply"} =>
            /\ pc[v] \in Busy \cup {"reply"}
            /\ frame'[v].client = frame[v].client /\ frame'[v].text = frame[v].text
    BY <1>3
  <2>3. QED
    BY <2>1, <2>2 DEF AckInv
<1>6. QED
  BY <1>1, <1>2, <1>4, <1>5

(* Progress is such a step.                                                 *)
LEMMA ProgressKeeps ==
  ASSUME MailInv, NEW w \in Workers, Progress(w), Silent
  PROVE  MailInv'
<1>1. /\ GoesOn(w) /\ pc'[w] \notin {"close", "route", "forward"} /\ pc[w] \in Busy
      /\ pc'[w] = "reply" => frame'[w].answer \in Replies /\ frame'[w].answer.what # "sent"
  BY DEF Progress, Busy
<1>2. QED
  BY <1>1, SilenceKeeps

(* So is the look at the table, and so is the end of a connection.          *)
LEMMA PassingMoves ==
  ASSUME MailInv, TypeInv, NEW w \in Workers, Route(w) \/ Leave(w)
  PROVE  /\ GoesOn(w) /\ Silent
         /\ pc[w] \in {"route", "loop"} /\ pc'[w] \in {"forward", "loop", "close"}
         /\ pc'[w] = "forward" => pc[w] = "route" /\ frame'[w].rfd \in Fds
         /\ pc'[w] = "close" => pc[w] = "loop"
<1> USE DEF At, Silent, tables, history, network
<1>1. CASE Leave(w)
  <2>1. pc[w] = "loop" /\ UNCHANGED frame /\ Silent
    BY <1>1 DEF Leave
  <2>2. pc' = [pc EXCEPT ![w] = "close"]
    BY <1>1 DEF Leave, Goto
  <2>3. QED
    BY <2>1, <2>2 DEF TypeInv, ControlTyped, GoesOn, Turn, SameCommand, SameClient
<1>2. CASE Route(w)
  <2>1. PICK login : login = Cmd(w).login
    OBVIOUS
  <2>2. Online!FindByLogin(login) \in Fds \cup {-1}
    BY FoundIsOpen DEF TypeInv
  <2>3. Online!FindByLogin(Cmd(w).login) = Online!FindByLogin(login)
    BY <2>1 DEF Online!FindByLogin
  <2>4. PICK f \in Fds \cup {-1} : Fetch(w, "rfd", f, IF IsOnline(f) THEN "forward" ELSE "loop")
    BY <1>2, <2>2, <2>3 DEF Route
  <2>5. PICK b \in {"forward", "loop"} : Fetch(w, "rfd", f, b) /\ (b = "forward" => f \in Fds)
    BY <2>4 DEF IsOnline
  <2>6. frame[w] \in Frames /\ frame' = [frame EXCEPT ![w].rfd = f] /\ pc' = [pc EXCEPT ![w] = b]
    BY <2>5 DEF TypeInv, ControlTyped, Fetch, Goto
  <2>7. frame'[w] = [frame[w] EXCEPT !.rfd = f]
    BY <2>6 DEF TypeInv, ControlTyped
  <2>8. /\ frame'[w].text = frame[w].text /\ frame'[w].client = frame[w].client
        /\ frame'[w].fd = frame[w].fd /\ frame'[w].rfd = f
    BY <2>6, <2>7 DEF Frames
  <2>9. pc[w] = "route" /\ Silent
    BY <1>2 DEF Route
  <2>10. /\ pc'[w] = b
         /\ \A v \in Workers \ {w} : pc'[v] = pc[v] /\ frame'[v] = frame[v]
    BY <2>6 DEF TypeInv, ControlTyped
  <2>11. GoesOn(w)
    BY <2>8, <2>9, <2>10 DEF GoesOn, Turn, SameCommand, SameClient
  <2>12. QED
    BY <2>5, <2>8, <2>9, <2>10, <2>11
<1>3. QED
  BY <1>1, <1>2

LEMMA PassingKeeps ==
  ASSUME MailInv, TypeInv, NEW w \in Workers, Route(w) \/ Leave(w)
  PROVE  MailInv'
<1>1. /\ GoesOn(w) /\ Silent
      /\ pc[w] \in {"route", "loop"} /\ pc'[w] \in {"forward", "loop", "close"}
      /\ pc'[w] = "forward" => pc[w] = "route" /\ frame'[w].rfd \in Fds
      /\ pc'[w] = "close" => pc[w] = "loop"
  BY PassingMoves
<1>2. pc'[w] \notin Busy /\ pc'[w] # "reply"
  BY <1>1 DEF Busy
<1>3. QED
  BY <1>1, <1>2, SilenceKeeps

(* A message is stored once: no other worker has a text of this client.     *)
LEMMA StoringKeeps ==
  ASSUME MailInv, TypeInv, NEW w \in Workers, StoresIt(w)
  PROVE  MailInv'
<1> USE DEF MailInv
<1> DEFINE n == Len(messages) + 1
           text == frame[w].text
<1>1. /\ pc[w] = "save" /\ UNCHANGED <<issued, sent, desc, gone>>
      /\ n \in Nat /\ DOMAIN messages = 1..(n - 1) /\ n \notin DOMAIN messages
      /\ DOMAIN messages' = 1..n /\ n \in DOMAIN messages' /\ messages'[n].text = text
      /\ \A m \in DOMAIN messages : messages'[m] = messages[m]
  <2>1. messages \in Seq(Message)
    BY DEF TypeInv, TablesTyped
  <2>2. PICK message : /\ message = [sender |-> current_user_id, chat |-> frame[w].chat,
                                     text |-> text]
                       /\ messages' = Append(messages, message)
    BY DEF StoresIt, InsertMessage
  <2>3. /\ n \in Nat /\ DOMAIN messages = 1..(n - 1) /\ DOMAIN messages' = 1..n
        /\ n \in DOMAIN messages' /\ messages'[n] = message
        /\ \A m \in DOMAIN messages : messages'[m] = messages[m]
    BY <2>1, <2>2
  <2>4. n \notin DOMAIN messages
    BY <2>3
  <2>5. pc[w] = "save" /\ UNCHANGED <<issued, sent, desc, gone>>
    BY DEF StoresIt, At
  <2>6. QED
    BY <2>2, <2>3, <2>4, <2>5
<1>2. /\ GoesOn(w) /\ pc'[w] = "reply"
      /\ frame'[w].answer = [what |-> "sent", ref |-> n]
  <2>1. frame[w] \in Frames /\ frame'[w] = [frame[w] EXCEPT !.answer = [what |-> "sent", ref |-> n]]
    BY DEF TypeInv, ControlTyped, StoresIt, Answer
  <2>2. /\ frame'[w].text = frame[w].text /\ frame'[w].client = frame[w].client
        /\ frame'[w].fd = frame[w].fd /\ frame'[w].answer = [what |-> "sent", ref |-> n]
    BY <2>1 DEF Frames
  <2>3. /\ pc'[w] = "reply" /\ pc[w] # "idle"
        /\ \A v \in Workers \ {w} : pc'[v] = pc[v] /\ frame'[v] = frame[v]
    BY DEF TypeInv, ControlTyped, StoresIt, At, Answer, Goto
  <2>4. QED
    BY <2>2, <2>3 DEF GoesOn, Turn, SameCommand, SameClient
<1>3. Placed'
  BY <1>1, <1>2, PlacedGoesOn DEF GoesOn, SameCommand
<1>4. TextInv'
  BY <1>1, <1>2, TextGoesOn DEF Busy
<1>5. \A v \in Workers \ {w} : pc'[v] = pc[v] /\ frame'[v] = frame[v]
  BY <1>2 DEF GoesOn, Turn
<1>6. text \in Texts /\ text.by = frame[w].client /\ text.nth = issued[text.by] /\ ~Stored(text)
  BY <1>1 DEF TextInv, StoreInv, Busy
<1>7. \A v \in Workers \ {w} : pc[v] \in Busy => frame[v].text # text
  <2>1. frame[w].client \in Clients /\ frame[w].client # NULL
    BY <1>1, HandlerAssumption DEF Placed
  <2>2. \A v \in Workers \ {w} : frame[v].client # frame[w].client
    BY <2>1 DEF Placed
  <2>3. \A v \in Workers : pc[v] \in Busy => frame[v].text.by = frame[v].client
    BY DEF TextInv
  <2>4. QED
    BY <1>6, <2>2, <2>3
<1>8. frame'[w].text = text /\ frame'[w].client = frame[w].client
  BY <1>2 DEF GoesOn, SameCommand, SameClient
<1> HIDE DEF n, text
<1>9. \A t : Stored(t)' <=> Stored(t) \/ t = text
  BY <1>1 DEF Stored
<1>10. StoreInv'
  <2>1. \A m \in DOMAIN messages' : /\ messages'[m].text \in Texts
                                    /\ messages'[m].text.nth <= issued'[messages'[m].text.by]
    <3>1. text.nth \in Nat
      BY <1>6 DEF Texts
    <3>2. \A m \in DOMAIN messages' : m \in DOMAIN messages \/ m = n
      BY <1>1
    <3>3. QED
      BY <1>1, <1>6, <3>1, <3>2 DEF StoreInv
  <2>2. \A i, j \in DOMAIN messages' : messages'[i].text = messages'[j].text => i = j
    <3>1. \A m \in DOMAIN messages' : m = n \/ (m \in DOMAIN messages /\ messages[m].text # text)
      BY <1>1, <1>6 DEF Stored
    <3>2. QED
      BY <1>1, <3>1 DEF StoreInv
  <2>3. ASSUME NEW v \in Workers \ {w}
        PROVE  /\ pc'[v] \in Busy => ~Stored(frame[v].text)'
               /\ pc'[v] = "reply" => frame'[v].answer \in Replies
               /\ pc'[v] = "reply" /\ frame'[v].answer.what = "sent" =>
                     /\ frame'[v].answer.ref \in DOMAIN messages'
                     /\ messages'[frame'[v].answer.ref].text = frame'[v].text
               /\ pc'[v] \in {"route", "forward"} => Stored(frame[v].text)'
    BY <1>1, <1>5, <1>7, <1>9 DEF StoreInv
  <2>4. /\ pc'[w] \notin Busy \cup {"route", "forward"}
        /\ frame'[w].answer \in Replies
        /\ frame'[w].answer.ref \in DOMAIN messages'
        /\ messages'[frame'[w].answer.ref].text = frame'[w].text
    BY <1>1, <1>2, <1>8 DEF Busy, Replies, Words
  <2>5. QED
    BY <2>1, <2>2, <2>3, <2>4 DEF StoreInv
<1>11. AckInv'
  <2>1. \A c \in Clients : \A i \in Acks(c) :
           /\ sent[c][i].ref \in DOMAIN messages'
           /\ messages'[sent[c][i].ref] = messages[sent[c][i].ref]
    BY <1>1 DEF AckInv
  <2>2. \A v \in Workers : /\ frame'[v].client = frame[v].client
                           /\ frame'[v].text = frame[v].text
                           /\ pc'[v] \in Busy \cup {"reply"} => /\ pc[v] \in Busy \cup {"reply"}
                                                                /\ frame[v].client \in Clients
    <3>1. \A v \in Workers : pc'[v] \in Busy \cup {"reply"} => pc[v] \in Busy \cup {"reply"}
      BY <1>1, <1>5 DEF Busy
    <3>2. \A v \in Workers : pc[v] \in Busy \cup {"reply"} => frame[v].client \in Clients
      BY DEF Placed, Busy
    <3>3. QED
      BY <1>5, <1>8, <3>1, <3>2 DEF text
  <2>3. \A c \in Clients : Acks(c)' = Acks(c) /\ sent'[c] = sent[c]
    BY <1>1 DEF Acks
  <2>4. SentTyped'
    BY <1>1 DEF AckInv, SentTyped
  <2>5. ASSUME NEW c \in Clients
        PROVE  /\ \A i \in Acks(c)' : /\ sent'[c][i].ref \in DOMAIN messages'
                                     /\ messages'[sent'[c][i].ref].text.by = c
               /\ \A i, j \in Acks(c)' : sent'[c][i].ref = sent'[c][j].ref => i = j
               /\ \A i \in DOMAIN sent'[c] : sent'[c][i].what = "message" =>
                                            Stored(sent[c][i].ref)'
    BY <1>1, <1>9, <2>1, <2>3 DEF AckInv
  <2>6. ASSUME NEW v \in Workers, pc'[v] \in Busy \cup {"reply"},
               NEW i \in Acks(frame[v].client)'
        PROVE  messages'[sent'[frame'[v].client][i].ref].text # frame'[v].text
    BY <2>1, <2>2, <2>3, <2>6 DEF AckInv
  <2>7. QED
    BY <1>1, <2>2, <2>4, <2>5, <2>6 DEF AckInv
<1>12. QED
  BY <1>3, <1>4, <1>10, <1>11
--------------------------------------------------------------------------------
(* A packet is added at the end of what was sent to its client, if there is *)
(* one behind the descriptor, and to nobody else.                           *)
Added(c, packet) ==
    /\ Len(sent[c]) \in Nat /\ DOMAIN sent[c] = 1..Len(sent[c])
    /\ DOMAIN sent'[c] = 1..(Len(sent[c]) + 1)
    /\ sent'[c][Len(sent[c]) + 1] = packet
    /\ \A i \in DOMAIN sent[c] : sent'[c][i] = sent[c][i]
Adds(c, packet) ==
    /\ SentTyped'
    /\ \A d \in Clients \ {c} : sent'[d] = sent[d]
    /\ c # NULL => Added(c, packet)

LEMMA SendAdds ==
  ASSUME SentTyped, NEW c \in Clients \cup {NULL}, NEW packet,
         sent' = IF c = NULL THEN sent ELSE [sent EXCEPT ![c] = Append(@, packet)]
  PROVE  Adds(c, packet)
<1>1. PICK S : sent \in [Clients -> Seq(S)]
  BY DEF SentTyped
<1>2. CASE c = NULL
  BY <1>2, HandlerAssumption DEF Adds, SentTyped
<1>3. CASE c # NULL
  <2> DEFINE T == S \cup {packet}
             s == sent[c]
             t == Append(s, packet)
  <2>1. c \in Clients /\ s \in Seq(S)
    BY <1>1, <1>3
  <2>2. \A d \in Clients : sent[d] \in Seq(T)
    <3>1. ASSUME NEW r \in Seq(S) PROVE r \in Seq(T)
      <4>1. r \in [1..Len(r) -> S] /\ Len(r) \in Nat
        BY <3>1
      <4>2. r \in [1..Len(r) -> T]
        BY <4>1
      <4>3. QED
        BY <4>1, <4>2
    <3>2. QED
      BY <1>1, <3>1
  <2>3. s \in Seq(T) /\ packet \in T
    BY <2>1, <2>2
  <2> HIDE DEF T, s
  <2>4. /\ t \in Seq(T)
        /\ Len(s) \in Nat /\ DOMAIN s = 1..Len(s) /\ DOMAIN t = 1..(Len(s) + 1)
        /\ t[Len(s) + 1] = packet /\ \A i \in DOMAIN s : t[i] = s[i]
    BY <2>3
  <2> HIDE DEF t
  <2>5. sent' = [d \in Clients |-> IF d = c THEN t ELSE sent[d]]
    BY <1>1, <1>3 DEF t, s
  <2>6. sent' \in [Clients -> Seq(T)]
    BY <2>2, <2>4, <2>5
  <2>7. SentTyped'
    BY <2>6 DEF SentTyped
  <2>8. Added(c, packet)
    BY <2>1, <2>4, <2>5 DEF Added, s
  <2>9. QED
    BY <2>5, <2>7, <2>8 DEF Adds
<1>4. QED
  BY <1>2, <1>3

(* Greeting, answering and forwarding add a packet, and move on.            *)
Speaks(w, c, packet) ==
    /\ GoesOn(w) /\ Adds(c, packet) /\ c \in Clients \cup {NULL}
    /\ UNCHANGED <<frame, messages, issued, desc, gone>>
Says(w, c, packet) ==
    \/ pc[w] = "greet" /\ c = frame[w].client /\ packet.what = "greeting"
    \/ /\ pc[w] = "reply" /\ c = frame[w].client
       /\ packet.what = frame[w].answer.what /\ packet.ref = frame[w].answer.ref
    \/ /\ pc[w] = "forward" /\ c = desc[frame[w].rfd]
       /\ packet.what = "message" /\ packet.ref = frame[w].text
LEMMA SpeakingAdds ==
  ASSUME MailInv, TypeInv, NEW w \in Workers, Greet(w) \/ Reply(w) \/ Forward(w)
  PROVE  \E c, packet : Speaks(w, c, packet) /\ Says(w, c, packet)
<1> USE DEF MailInv
<1>1. /\ UNCHANGED <<frame, messages, issued, desc, gone>> /\ GoesOn(w)
  <2>1. UNCHANGED <<frame, messages, issued, desc, gone>>
    BY DEF Greet, Reply, Forward, Send, tables, history
  <2>2. PICK b \in {"loop", "route"} : Goto(w, b) /\ pc[w] # "idle"
    BY DEF Greet, Reply, Forward, Done, At
  <2>3. QED
    BY <2>1, <2>2 DEF GoesOn, Turn, SameCommand, SameClient, Goto, TypeInv, ControlTyped
<1>2. ASSUME NEW c \in Clients \cup {NULL}, NEW packet,
             sent' = IF c = NULL THEN sent ELSE [sent EXCEPT ![c] = Append(@, packet)]
      PROVE  Speaks(w, c, packet)
  BY <1>1, <1>2, SendAdds DEF Speaks, AckInv
<1>3. PICK c : c = frame[w].client
  OBVIOUS
<1>4. CASE Greet(w)
  <2>1. c \in Clients /\ desc[frame[w].fd] = c
    BY <1>3, <1>4 DEF Greet, At, Placed
  <2>2. PICK packet : packet = [what   |-> "greeting", ref |-> NULL,
            framed |-> client_is_websocket \/ Kind[frame[w].client] = "ws"]
    OBVIOUS
  <2>3. sent' = IF c = NULL THEN sent ELSE [sent EXCEPT ![c] = Append(@, packet)]
    BY <1>4, <2>1, <2>2 DEF Greet, Send
  <2>4. Speaks(w, c, packet)
    BY <1>2, <2>1, <2>3
  <2>5. QED
    BY <1>3, <1>4, <2>2, <2>4 DEF Says, Greet, At
<1>5. CASE Reply(w)
  <2>1. c \in Clients /\ desc[frame[w].fd] = c
    BY <1>3, <1>5 DEF Reply, At, Placed
  <2>2. PICK packet : packet = [what |-> frame[w].answer.what, ref |-> frame[w].answer.ref,
                                framed |-> client_is_websocket]
    OBVIOUS
  <2>3. sent' = IF c = NULL THEN sent ELSE [sent EXCEPT ![c] = Append(@, packet)]
    BY <1>5, <2>1, <2>2 DEF Reply, Send
  <2>4. Speaks(w, c, packet)
    BY <1>2, <2>1, <2>3
  <2>5. QED
    BY <1>3, <1>5, <2>2, <2>4 DEF Says, Reply, At
<1>6. CASE Forward(w)
  <2>1. PICK d : d = desc[frame[w].rfd]
    OBVIOUS
  <2>2. d \in Clients \cup {NULL}
    BY <1>6, <2>1 DEF Forward, At, Placed
  <2>3. PICK packet : packet = [what |-> "message", ref |-> frame[w].text,
                                framed |-> FALSE, from |-> current_user_login]
    OBVIOUS
  <2>4. sent' = IF d = NULL THEN sent ELSE [sent EXCEPT ![d] = Append(@, packet)]
    BY <1>6, <2>1, <2>3 DEF Forward, Send
  <2>5. Speaks(w, d, packet)
    BY <1>2, <2>2, <2>4
  <2>6. QED
    BY <1>6, <2>1, <2>3, <2>5 DEF Says, Forward, At
<1>7. QED
  BY <1>4, <1>5, <1>6

(* A packet that is no acknowledgment leaves the acknowledgments alone.     *)
LEMMA AcksKept ==
  ASSUME AckInv, Placed, NEW c, NEW packet, Adds(c, packet), packet.what # "sent",
         packet.what = "message" => Stored(packet.ref), UNCHANGED <<messages, frame>>,
         \A v \in Workers : pc'[v] \in Busy \cup {"reply"} => pc[v] \in Busy \cup {"reply"}
  PROVE  AckInv'
<1>1. ASSUME NEW d \in Clients
      PROVE  /\ Acks(d)' = Acks(d)
             /\ \A i \in Acks(d) : sent'[d][i] = sent[d][i]
             /\ \A i \in DOMAIN sent'[d] : \/ sent'[d][i] = packet
                                           \/ i \in DOMAIN sent[d] /\ sent'[d][i] = sent[d][i]
  <2>1. CASE d # c
    BY <2>1 DEF Adds, Acks
  <2>2. CASE d = c
    <3>1. d # NULL
      BY HandlerAssumption
    <3>2. Added(d, packet)
      BY <2>2, <3>1 DEF Adds
    <3>3. \A i \in DOMAIN sent'[d] : i \in DOMAIN sent[d] \/ i = Len(sent[d]) + 1
      BY <3>2 DEF Added
    <3>4. \A i \in DOMAIN sent[d] : i \in DOMAIN sent'[d] /\ sent'[d][i] = sent[d][i]
      BY <3>2 DEF Added
    <3>5. sent'[d][Len(sent[d]) + 1] = packet
      BY <3>2 DEF Added
    <3>6. QED
      BY <3>3, <3>4, <3>5 DEF Acks
  <2>3. QED
    BY <2>1, <2>2
<1>2. \A t : Stored(t)' <=> Stored(t)
  BY DEF Stored
<1>3. ASSUME NEW d \in Clients
      PROVE  /\ \A i \in Acks(d)' : /\ sent'[d][i].ref \in DOMAIN messages'
                                   /\ messages'[sent'[d][i].ref].text.by = d
             /\ \A i, j \in Acks(d)' : sent'[d][i].ref = sent'[d][j].ref => i = j
  BY <1>1 DEF AckInv
<1>4. ASSUME NEW d \in Clients, NEW i \in DOMAIN sent'[d], sent'[d][i].what = "message"
      PROVE  Stored(sent[d][i].ref)'
  <2>1. PICK r : r = sent'[d][i].ref
    OBVIOUS
  <2>2. Stored(r)
    BY <1>1, <1>4, <2>1 DEF AckInv, Stored
  <2>3. Stored(r)'
    BY <1>2, <2>2
  <2>4. QED
    BY <2>1, <2>3 DEF Stored
<1>5. ASSUME NEW v \in Workers, pc'[v] \in Busy \cup {"reply"},
             NEW i \in Acks(frame[v].client)'
      PROVE  messages'[sent'[frame'[v].client][i].ref].text # frame'[v].text
  <2>1. frame[v].client \in Clients /\ frame'[v] = frame[v] /\ pc[v] \in Busy \cup {"reply"}
    BY <1>5 DEF Placed, Busy
  <2>2. i \in Acks(frame[v].client) /\ sent'[frame[v].client][i] = sent[frame[v].client][i]
    BY <1>1, <1>5, <2>1 DEF Acks
  <2>3. QED
    BY <2>1, <2>2 DEF AckInv
<1>6. SentTyped'
  BY DEF Adds
<1>7. QED
  BY <1>3, <1>4, <1>5, <1>6 DEF AckInv

(* What is sent goes to who is served, and does not change what is stored.  *)
LEMMA SpeakingKeepsPlaces ==
  ASSUME MailInv, NEW w \in Workers, NEW c, NEW packet, Speaks(w, c, packet),
         Says(w, c, packet),
         pc'[w] \in {"loop", "route"},
         pc'[w] = "route" => pc[w] = "reply" /\ frame[w].answer.what = "sent"
  PROVE  Placed' /\ TextInv' /\ StoreInv'
<1> USE DEF MailInv
<1>1. GoesOn(w) /\ UNCHANGED <<frame, messages, issued, desc, gone>>
  BY DEF Speaks
<1>2. c \in Clients => \E v \in Workers : frame[v].client = c
  <2>1. CASE c = frame[w].client
    BY <2>1
  <2>2. CASE pc[w] = "forward" /\ c = desc[frame[w].rfd]
    <3>1. frame[w].rfd \in Fds
      BY <2>2 DEF Placed
    <3>2. c \in Clients => \E v \in Workers : pc[v] # "idle" /\ frame[v].fd = frame[w].rfd
      BY <2>2, <3>1, HandlerAssumption DEF Placed
    <3>3. QED
      BY <2>2, <3>2 DEF Placed
  <2>3. QED
    BY <2>1, <2>2 DEF Says
<1>3. \A d \in Clients \ gone :
         (\A v \in Workers : frame[v].client # d) => sent'[d] = sent[d]
  BY <1>2 DEF Speaks, Adds
<1>4. Placed'
  BY <1>1, <1>3, PlacedGoesOn DEF GoesOn, SameCommand
<1>5. TextInv'
  BY <1>1, TextGoesOn DEF Busy
<1>6. \A v \in Workers \ {w} : pc'[v] = pc[v]
  BY <1>1 DEF GoesOn, Turn
<1>7. StoreInv'
  <2>1. \A t : Stored(t)' <=> Stored(t)
    BY <1>1 DEF Stored
  <2>2. pc'[w] = "route" => Stored(frame[w].text)
    BY DEF StoreInv, Stored
  <2>3. pc'[w] \notin Busy /\ pc'[w] # "reply"
    BY DEF Busy
  <2>4. \A v \in Workers : /\ pc'[v] \in Busy => ~Stored(frame[v].text)
                           /\ pc'[v] = "reply" => pc[v] = "reply"
                           /\ pc'[v] \in {"route", "forward"} => Stored(frame[v].text)
    BY <1>6, <2>2, <2>3 DEF StoreInv
  <2>5. \A v \in Workers : /\ pc'[v] \in Busy => ~Stored(frame[v].text)'
                           /\ pc'[v] \in {"route", "forward"} => Stored(frame[v].text)'
    BY <1>1, <2>4 DEF Stored
  <2>6. QED
    BY <1>1, <2>4, <2>5 DEF StoreInv
<1>8. QED
  BY <1>4, <1>5, <1>7

(* An acknowledgment is of the text at hand, which has none yet.            *)
LEMMA SpeakingKeeps ==
  ASSUME MailInv, TypeInv, NEW w \in Workers, Greet(w) \/ Reply(w) \/ Forward(w)
  PROVE  MailInv'
<1> USE DEF MailInv
<1>1. \E c, packet : Speaks(w, c, packet) /\ Says(w, c, packet)
  BY SpeakingAdds
<1>2. PICK c, packet : Speaks(w, c, packet) /\ Says(w, c, packet)
  BY <1>1
<1>3. Speaks(w, c, packet) /\ Says(w, c, packet)
  BY <1>2
<1>4. /\ pc[w] \in {"greet", "reply", "forward"} /\ pc'[w] \in {"loop", "route"}
      /\ pc'[w] = "route" => pc[w] = "reply" /\ frame[w].answer.what = "sent"
  BY DEF Greet, Reply, Forward, Done, At, Goto, TypeInv, ControlTyped
<1>5. Placed' /\ TextInv' /\ StoreInv'
  BY <1>3, <1>4, SpeakingKeepsPlaces
<1>6. \A v \in Workers : pc'[v] \in Busy \cup {"reply"} =>
                            pc[v] \in Busy \cup {"reply"} /\ v # w
  BY <1>3, <1>4 DEF Speaks, GoesOn, Turn, Busy
<1>7. AckInv'
  <2>1. CASE packet.what # "sent"
    <3>1. packet.what = "message" => Stored(packet.ref)
      <4>1. CASE pc[w] = "forward"
        BY <1>3, <4>1 DEF Says, StoreInv, Stored
      <4>2. CASE pc[w] = "reply"
        <5>1. frame[w].answer.what \in Words
          BY <4>2 DEF StoreInv, Replies
        <5>2. QED
          BY <1>3, <4>2, <5>1 DEF Says, Words
      <4>3. QED
        BY <1>3, <4>1, <4>2 DEF Says
    <3>2. Adds(c, packet) /\ UNCHANGED <<messages, frame>>
      BY <1>3 DEF Speaks
    <3>3. QED
      BY <1>6, <2>1, <3>1, <3>2, AcksKept
  <2>2. CASE packet.what = "sent"
    <3>1. /\ pc[w] = "reply" /\ frame[w].answer.what = "sent"
          /\ packet.ref = frame[w].answer.ref /\ c = frame[w].client
      BY <1>3, <2>2 DEF Says
    <3> DEFINE k == Len(sent[c]) + 1
               text == frame[w].text
    <3>2. c \in Clients /\ c # NULL /\ \A v \in Workers \ {w} : frame[v].client # c
      BY <3>1, HandlerAssumption DEF Placed
    <3>3. /\ packet.ref \in DOMAIN messages /\ messages[packet.ref].text = text
          /\ text.by = c
      BY <3>1 DEF StoreInv, TextInv
    <3>4. \A i \in Acks(c) : messages[sent[c][i].ref].text # text
      BY <3>1 DEF AckInv
    <3>5. /\ Added(c, packet) /\ SentTyped' /\ UNCHANGED <<messages, frame>>
          /\ \A d \in Clients \ {c} : sent'[d] = sent[d]
      BY <1>3, <3>2 DEF Speaks, Adds
    <3>6. /\ k \notin DOMAIN sent[c] /\ sent'[c][k] = packet
          /\ \A i \in DOMAIN sent'[c] : i = k \/ i \in DOMAIN sent[c]
          /\ \A i \in DOMAIN sent[c] : sent'[c][i] = sent[c][i]
      BY <3>5 DEF Added
    <3> HIDE DEF k, text
    <3>7. \A i \in Acks(c)' : i = k \/ (i \in Acks(c) /\ sent'[c][i] = sent[c][i])
      BY <3>6 DEF Acks
    <3>8. \A t : Stored(t)' <=> Stored(t)
      BY <3>5 DEF Stored
    <3>9. /\ \A i \in Acks(c)' : /\ sent'[c][i].ref \in DOMAIN messages'
                                 /\ messages'[sent'[c][i].ref].text.by = c
          /\ \A i, j \in Acks(c)' : sent'[c][i].ref = sent'[c][j].ref => i = j
      BY <3>2, <3>3, <3>4, <3>5, <3>6, <3>7 DEF AckInv
    <3>10. ASSUME NEW i \in DOMAIN sent'[c], sent'[c][i].what = "message"
           PROVE  Stored(sent[c][i].ref)'
      BY <2>2, <3>2, <3>5, <3>6, <3>10 DEF AckInv, Stored
    <3>11. ASSUME NEW d \in Clients \ {c}
           PROVE  /\ \A i \in Acks(d)' : /\ sent'[d][i].ref \in DOMAIN messages'
                                        /\ messages'[sent'[d][i].ref].text.by = d
                  /\ \A i, j \in Acks(d)' : sent'[d][i].ref = sent'[d][j].ref => i = j
                  /\ \A i \in DOMAIN sent'[d] : sent'[d][i].what = "message" =>
                                               Stored(sent[d][i].ref)'
      BY <3>5, <3>8 DEF AckInv, Acks, Stored
    <3>12. ASSUME NEW v \in Workers, pc'[v] \in Busy \cup {"reply"},
                  NEW i \in Acks(frame[v].client)'
           PROVE  messages'[sent'[frame'[v].client][i].ref].text # frame'[v].text
      <4>1. frame[v].client \in Clients \ {c} /\ pc[v] \in Busy \cup {"reply"}
        BY <1>6, <3>2, <3>12 DEF Placed, Busy
      <4>2. QED
        BY <3>5, <4>1 DEF AckInv, Acks
    <3>13. QED
      BY <3>5, <3>9, <3>10, <3>11, <3>12 DEF AckInv
  <2>3. QED
    BY <2>1, <2>2
<1>8. QED
  BY <1>5, <1>7
--------------------------------------------------------------------------------
(* A command is read: its number is new, so that it is not stored, let      *)
(* alone acknowledged.                                                      *)
Reads(w, text) ==
    /\ Turn(w) /\ SameClient(w) /\ pc[w] = "loop" /\ pc'[w] \in Busy
    /\ frame'[w].text = text /\ text \in Texts /\ text.by = frame[w].client
    /\ text.nth = issued[text.by] + 1
    /\ issued' = [issued EXCEPT ![text.by] = text.nth]
    /\ UNCHANGED <<messages, sent, desc, gone>>
LEMMA ReceiveReads ==
  ASSUME MailInv, TypeInv, NEW w \in Workers, Receive(w)
  PROVE  \E text : Reads(w, text)
<1> USE DEF MailInv, TypeInv
<1>1. PICK c : c = frame[w].client
  OBVIOUS
<1>2. pc[w] = "loop" /\ c \in Clients
  BY <1>1 DEF Receive, At, Placed
<1>3. PICK n : n = issued[c] + 1
  OBVIOUS
<1>4. n \in Nat /\ n \in 1..Len(Script[c]) /\ Script[c] \in Seq(SUBSET Command)
  <2>1. Script[c] \in Seq(SUBSET Command)
    BY <1>2, HandlerAssumption
  <2>2. Len(Script[c]) \in Nat
    BY <2>1
  <2>3. issued[c] \in Nat
    BY <1>2 DEF HistoryTyped
  <2>4. n <= Len(Script[c])
    BY <1>1, <1>3 DEF Receive
  <2>5. QED
    BY <1>3, <2>1, <2>2, <2>3, <2>4
<1>5. PICK command \in Script[c][n] :
         /\ frame' = [frame EXCEPT
               ![w].cmd = command,
               ![w].text = [by |-> c, nth |-> n, to |-> command.login,
                            author |-> session[c]]]
         /\ Goto(w, command.op)
  BY <1>1, <1>3 DEF Receive
<1>6. command \in Command
  BY <1>4, <1>5
<1>7. command.op \in Busy /\ command.login \in Users \cup {NULL}
  BY <1>6 DEF Command, Busy
<1>8. PICK text : text = [by |-> c, nth |-> n, to |-> command.login, author |-> session[c]]
  OBVIOUS
<1>9. text \in Texts /\ text.by = c /\ text.nth = n
  BY <1>2, <1>4, <1>7, <1>8 DEF Texts, HistoryTyped
<1>10. /\ frame[w] \in Frames
       /\ frame'[w] = [frame[w] EXCEPT !.cmd = command, !.text = text]
  BY <1>5, <1>8 DEF ControlTyped
<1>11. /\ frame'[w].text = text /\ frame'[w].client = frame[w].client
       /\ frame'[w].fd = frame[w].fd
  BY <1>10 DEF Frames
<1>12. pc'[w] = command.op /\ Turn(w)
  BY <1>5 DEF Goto, ControlTyped, Turn
<1>13. issued' = [issued EXCEPT ![c] = n] /\ UNCHANGED <<messages, sent, desc, gone>>
  BY <1>1, <1>3 DEF Receive, tables, network
<1>14. pc'[w] # "idle"
  BY <1>7, <1>12 DEF Busy
<1>15. QED
  BY <1>1, <1>2, <1>3, <1>7, <1>9, <1>11, <1>12, <1>13, <1>14 DEF Reads, SameClient

LEMMA ReadingKeeps ==
  ASSUME MailInv, TypeInv, NEW w \in Workers, Receive(w)
  PROVE  MailInv'
<1> USE DEF MailInv
<1>1. PICK text : Reads(w, text)
  BY ReceiveReads
<1>2. PICK c : c = frame[w].client
  OBVIOUS
<1>3. /\ c \in Clients /\ c # NULL /\ pc'[w] \in Busy /\ text.by = c
      /\ frame'[w].client = c /\ frame'[w].text = text /\ text \in Texts
      /\ issued[c] \in Nat /\ text.nth = issued[c] + 1
      /\ issued' = [issued EXCEPT ![c] = text.nth]
      /\ UNCHANGED <<messages, sent, desc, gone>>
  <2>1. c \in Clients
    BY <1>1, <1>2 DEF Reads, Placed
  <2>2. issued[c] \in Nat
    BY <2>1 DEF TypeInv, HistoryTyped
  <2>3. QED
    BY <1>1, <1>2, <2>1, <2>2, HandlerAssumption DEF Reads, SameClient
<1>4. \A v \in Workers \ {w} : /\ pc'[v] = pc[v] /\ frame'[v] = frame[v]
                               /\ frame[v].client # c
  BY <1>1, <1>2, <1>3 DEF Reads, Turn, Placed
<1>5. issued'[c] = text.nth /\ \A d \in Clients \ {c} : issued'[d] = issued[d]
  BY <1>3 DEF TypeInv, HistoryTyped
<1>6. pc'[w] \notin {"idle", "close", "reply", "route", "forward"}
  BY <1>3 DEF Busy
<1>7. Placed'
  BY <1>1, <1>3, <1>6, PlacedGoesOn DEF Reads
<1>8. TextInv'
  <2>1. ASSUME NEW v \in Workers \ {w}, pc'[v] \in Busy \cup {"reply", "route", "forward"}
        PROVE  /\ frame'[v].text \in Texts
               /\ frame'[v].text.by = frame'[v].client
               /\ frame'[v].text.nth = issued'[frame'[v].client]
    <3>1. pc[v] \in Busy \cup {"reply", "route", "forward"} /\ frame[v].client \in Clients \ {c}
      BY <1>4, <2>1 DEF Placed, Busy
    <3>2. QED
      BY <1>4, <1>5, <3>1 DEF TextInv
  <2>2. QED
    BY <1>3, <1>5, <2>1 DEF TextInv
<1>9. \A m \in DOMAIN messages : messages[m].text.nth <= issued'[messages[m].text.by]
  <2> SUFFICES ASSUME NEW m \in DOMAIN messages
               PROVE  messages[m].text.nth <= issued'[messages[m].text.by]
    OBVIOUS
  <2>1. /\ messages[m].text.by \in Clients /\ messages[m].text.nth \in Nat
        /\ messages[m].text.nth <= issued[messages[m].text.by]
    BY DEF StoreInv, Texts
  <2>2. QED
    BY <1>3, <1>5, <2>1
<1>10. ~Stored(text)
  <2>1. \A m \in DOMAIN messages : /\ messages[m].text \in Texts
                                   /\ messages[m].text.nth <= issued[messages[m].text.by]
    BY DEF StoreInv
  <2>2. \A m \in DOMAIN messages : messages[m].text.nth \in Nat
    BY <2>1 DEF Texts
  <2>3. QED
    BY <1>3, <2>1, <2>2 DEF Stored
<1>11. \A t : Stored(t)' <=> Stored(t)
  BY <1>3 DEF Stored
<1>12. StoreInv'
  BY <1>3, <1>4, <1>6, <1>9, <1>10 DEF StoreInv, Stored
<1>13. AckInv'
  <2>1. /\ SentTyped' /\ \A d : Acks(d)' = Acks(d)
    BY <1>3 DEF AckInv, SentTyped, Acks
  <2>2. ASSUME NEW v \in Workers \ {w}, pc'[v] \in Busy \cup {"reply"},
               NEW i \in Acks(frame[v].client)'
        PROVE  messages'[sent'[frame'[v].client][i].ref].text # frame'[v].text
    BY <1>3, <1>4, <2>1, <2>2 DEF AckInv
  <2>3. ASSUME NEW i \in Acks(c)
        PROVE  messages[sent[c][i].ref].text # text
    BY <1>3, <1>10, <2>3 DEF AckInv, Stored
  <2>4. QED
    BY <1>3, <1>11, <2>1, <2>2, <2>3 DEF AckInv
<1>14. QED
  BY <1>7, <1>8, <1>12, <1>13
--------------------------------------------------------------------------------
(* A client comes or leaves: its worker has no command at hand.             *)
LEMMA NewWorkKeeps ==
  ASSUME TextInv, StoreInv, AckInv, NEW w \in Workers, Turn(w),
         pc'[w] \in {"idle", "greet"}, UNCHANGED <<messages, issued, sent>>
  PROVE  TextInv' /\ StoreInv' /\ AckInv'
<1>1. \A v \in Workers : pc'[v] \in Busy \cup {"reply", "route", "forward"} =>
         pc'[v] = pc[v] /\ frame'[v] = frame[v]
  BY DEF Turn, Busy
<1>2. TextInv'
  BY <1>1 DEF TextInv
<1>3. StoreInv'
  BY <1>1 DEF StoreInv, Stored
<1>4. AckInv'
  <2>1. /\ SentTyped' /\ \A t : Stored(t)' <=> Stored(t)
        /\ \A c : Acks(c)' = Acks(c)
    BY DEF AckInv, SentTyped, Stored, Acks
  <2>2. QED
    BY <1>1, <2>1 DEF AckInv
<1>5. QED
  BY <1>2, <1>3, <1>4

LEMMA ConnectKeeps ==
  ASSUME MailInv, TypeInv, NEW w \in Workers, NEW c \in Clients, Connect(w, c)
  PROVE  MailInv'
<1> USE DEF MailInv
<1>1. PICK f \in Fds :
         /\ desc[f] = NULL /\ desc' = [desc EXCEPT ![f] = c]
         /\ frame' = [frame EXCEPT ![w] = [NoFrame EXCEPT !.client = c, !.fd = f]]
  BY DEF Connect
<1>2. /\ pc[w] = "idle" /\ c \notin gone /\ c # NULL
      /\ \A v \in Workers : frame[v].client # c
      /\ UNCHANGED <<messages, issued, sent, gone>>
  BY HandlerAssumption DEF Connect, At, tables, history
<1>3. /\ pc'[w] = "greet" /\ frame'[w].client = c /\ frame'[w].fd = f
      /\ \A v \in Workers \ {w} : pc'[v] = pc[v] /\ frame'[v] = frame[v]
  BY <1>1 DEF Connect, Goto, TypeInv, ControlTyped, NoFrame
<1>4. /\ desc' \in [Fds -> Clients \cup {NULL}] /\ desc'[f] = c
      /\ \A g \in Fds \ {f} : desc'[g] = desc[g]
  BY <1>1 DEF Placed
<1>5. Placed'
  <2>1. ASSUME NEW v \in Workers
        PROVE  /\ pc'[v] = "idle" => frame'[v].client = NULL
               /\ pc'[v] # "idle" => /\ frame'[v].client \in Clients /\ frame'[v].fd \in Fds
                                     /\ desc'[frame'[v].fd] = frame'[v].client
               /\ pc'[v] = "forward" => frame'[v].rfd \in Fds
    <3>1. CASE v = w
      BY <1>3, <1>4, <3>1
    <3>2. CASE v # w
      <4>1. pc[v] # "idle" => frame[v].fd \in Fds \ {f}
        BY <1>1, <1>2, HandlerAssumption DEF Placed
      <4>2. QED
        BY <1>2, <1>3, <1>4, <3>2, <4>1 DEF Placed
    <3>3. QED
      BY <3>1, <3>2
  <2>2. \A u, v \in Workers :
           frame'[u].client = frame'[v].client /\ frame'[v].client # NULL => u = v
    BY <1>2, <1>3 DEF Placed
  <2>3. ASSUME NEW g \in Fds, desc'[g] # NULL
        PROVE  \E v \in Workers : pc'[v] # "idle" /\ frame'[v].fd = g
    <3>1. CASE g = f
      BY <1>3, <3>1
    <3>2. CASE g # f
      <4>1. PICK v \in Workers : pc[v] # "idle" /\ frame[v].fd = g
        BY <1>4, <2>3, <3>2 DEF Placed
      <4>2. QED
        BY <1>2, <1>3, <4>1
    <3>3. QED
      BY <3>1, <3>2
  <2>4. \A d \in Clients \ gone' : (\A v \in Workers : frame'[v].client # d) => sent'[d] = <<>>
    <3>1. ASSUME NEW d \in Clients \ gone', \A v \in Workers : frame'[v].client # d
          PROVE  \A v \in Workers : frame[v].client # d
      BY <1>2, <1>3, <3>1, HandlerAssumption DEF Placed
    <3>2. QED
      BY <1>2, <3>1 DEF Placed
  <2>5. QED
    BY <1>4, <2>1, <2>2, <2>3, <2>4 DEF Placed
<1>6. QED
  BY <1>2, <1>3, <1>5, NewWorkKeeps DEF Turn

LEMMA CloseKeeps ==
  ASSUME MailInv, TypeInv, NEW w \in Workers, Close(w)
  PROVE  MailInv'
<1> USE DEF MailInv
<1>1. PICK f : f = frame[w].fd
  OBVIOUS
<1>2. PICK c : c = frame[w].client
  OBVIOUS
<1>3. /\ pc[w] = "close" /\ f \in Fds /\ c \in Clients /\ c # NULL
      /\ desc[f] = c /\ desc' = [desc EXCEPT ![f] = NULL]
      /\ gone' = gone \cup {c} /\ UNCHANGED <<messages, issued, sent>>
  BY <1>1, <1>2, HandlerAssumption DEF Close, CloseSocket, At, tables, history, Placed
<1>4. /\ pc'[w] = "idle" /\ frame'[w].client = NULL
      /\ \A v \in Workers \ {w} : pc'[v] = pc[v] /\ frame'[v] = frame[v]
  BY DEF Close, Goto, TypeInv, ControlTyped, NoFrame
<1>5. /\ desc' \in [Fds -> Clients \cup {NULL}] /\ desc'[f] = NULL
      /\ \A g \in Fds \ {f} : desc'[g] = desc[g]
  BY <1>3 DEF Placed
<1>6. \A v \in Workers \ {w} : frame[v].client # c
  BY <1>2, <1>3 DEF Placed
<1>7. Placed'
  <2>1. ASSUME NEW v \in Workers
        PROVE  /\ pc'[v] = "idle" => frame'[v].client = NULL
               /\ pc'[v] # "idle" => /\ frame'[v].client \in Clients /\ frame'[v].fd \in Fds
                                     /\ desc'[frame'[v].fd] = frame'[v].client
               /\ pc'[v] = "forward" => frame'[v].rfd \in Fds
    <3>1. CASE v = w
      BY <1>4, <3>1
    <3>2. CASE v # w
      <4>1. pc[v] # "idle" => frame[v].fd \in Fds \ {f}
        BY <1>3, <1>6, <3>2 DEF Placed
      <4>2. QED
        BY <1>3, <1>4, <1>5, <3>2, <4>1 DEF Placed
    <3>3. QED
      BY <3>1, <3>2
  <2>2. \A u, v \in Workers :
           frame'[u].client = frame'[v].client /\ frame'[v].client # NULL => u = v
    BY <1>4 DEF Placed
  <2>3. ASSUME NEW g \in Fds, desc'[g] # NULL
        PROVE  \E v \in Workers : pc'[v] # "idle" /\ frame'[v].fd = g
    <3>1. g # f /\ desc[g] # NULL
      BY <1>5, <2>3
    <3>2. PICK v \in Workers : pc[v] # "idle" /\ frame[v].fd = g
      BY <3>1 DEF Placed
    <3>3. v # w
      BY <1>1, <3>1, <3>2
    <3>4. QED
      BY <1>4, <3>2, <3>3
  <2>4. \A d \in Clients \ gone' : (\A v \in Workers : frame'[v].client # d) => sent'[d] = <<>>
    <3>1. ASSUME NEW d \in Clients \ gone', \A v \in Workers : frame'[v].client # d
          PROVE  \A v \in Workers : frame[v].client # d
      BY <1>2, <1>3, <1>4, <3>1
    <3>2. QED
      BY <1>3, <3>1 DEF Placed
  <2>5. QED
    BY <1>5, <2>1, <2>2, <2>3, <2>4 DEF Placed
<1>8. QED
  BY <1>3, <1>4, <1>7, NewWorkKeeps DEF Turn

(* What happens to nobody's work: a peer hangs up.                          *)
LEMMA HangUpKeeps ==
  ASSUME MailInv, gone \subseteq gone', UNCHANGED <<messages, issued, sent, desc, pc, frame>>
  PROVE  MailInv'
<1> USE DEF MailInv
<1>1. Placed'
  BY DEF Placed
<1>2. TextInv' /\ StoreInv'
  BY DEF TextInv, StoreInv, Stored
<1>3. AckInv'
  BY DEF AckInv, SentTyped, Acks, Stored
<1>4. QED
  BY <1>1, <1>2, <1>3

(* Nothing is stored and nothing sent at the start.                         *)
LEMMA InitMail == Init => MailInv
<1> SUFFICES ASSUME Init PROVE MailInv
  OBVIOUS
<1>1. /\ pc = [w \in Workers |-> "idle"] /\ frame = [w \in Workers |-> NoFrame]
      /\ desc = [f \in Fds |-> NULL] /\ sent = [c \in Clients |-> <<>>]
      /\ messages = <<>> /\ NoFrame.client = NULL
  BY DEF Init, InitTables, NoFrame
<1>2. Placed
  BY <1>1 DEF Placed
<1>3. TextInv /\ StoreInv
  BY <1>1 DEF TextInv, StoreInv, Busy
<1>4. AckInv
  <2>1. sent \in [Clients -> Seq({})]
    BY <1>1
  <2>2. SentTyped
    BY <2>1 DEF SentTyped
  <2>3. QED
    BY <1>1, <2>2 DEF AckInv, Acks, Busy
<1>5. QED
  BY <1>2, <1>3, <1>4 DEF MailInv

LEMMA NextMail == MailInv /\ TypeInv /\ [Next]_vars => MailInv'
<1> SUFFICES ASSUME MailInv, TypeInv, [Next]_vars PROVE MailInv'
  OBVIOUS
<1>1. ASSUME NEW w \in Workers, Commands(w) PROVE MailInv'
  BY <1>1, CommandProgress, ProgressKeeps, StoringKeeps, PassingKeeps, SpeakingKeeps
     DEF TypeInv
<1>2. ASSUME NEW w \in Workers, Greet(w) \/ Reply(w) \/ Leave(w) \/ Close(w)
      PROVE  MailInv'
  BY <1>2, SpeakingKeeps, PassingKeeps, CloseKeeps
<1>3. ASSUME NEW w \in Workers, Arriving(w) PROVE MailInv'
  BY <1>3, ReadingKeeps, ConnectKeeps DEF Arriving
<1>4. CASE gone \subseteq gone' /\ UNCHANGED <<messages, issued, sent, desc, pc, frame>>
  BY <1>4, HangUpKeeps
<1>5. QED
  BY <1>1, <1>2, <1>3, <1>4 DEF Next, Serving, HangUp, vars, tables, network, history
--------------------------------------------------------------------------------
(* What has been answered to the client of a worker that is not idle.       *)
Settled == {"greet", "loop", "close", "route", "forward"}
Due(w) == (IF pc[w] = "greet" THEN 0 ELSE 1) + issued[frame[w].client]
        - (IF pc[w] \in Settled THEN 0 ELSE 1)
CountInv ==
    \A w \in Workers : pc[w] # "idle" => Cardinality(Answers(frame[w].client)) = Due(w)

(* A packet is one answer more, unless it is a message.                     *)
LEMMA AnswersGrow ==
  ASSUME NEW c, NEW packet, Added(c, packet)
  PROVE  /\ Cardinality(Answers(c)) \in Nat
         /\ Cardinality(Answers(c))' =
               Cardinality(Answers(c)) + (IF packet.what = "message" THEN 0 ELSE 1)
<1> DEFINE n == Len(sent[c])
<1>1. /\ n \in Nat /\ DOMAIN sent[c] = 1..n /\ DOMAIN sent'[c] = 1..(n + 1)
      /\ sent'[c][n + 1] = packet /\ \A i \in 1..n : sent'[c][i] = sent[c][i]
  BY DEF Added
<1> HIDE DEF n
<1>2. Answers(c) \subseteq 1..n /\ n + 1 \notin Answers(c)
  BY <1>1 DEF Answers
<1>3. IsFiniteSet(Answers(c)) /\ Cardinality(Answers(c)) \in Nat
  <2>1. IsFiniteSet(1..n)
    BY <1>1, FS_Interval
  <2>2. PICK A : A = Answers(c)
    OBVIOUS
  <2>3. IsFiniteSet(A)
    BY <1>2, <2>1, <2>2, FS_Subset
  <2>4. Cardinality(A) \in Nat
    BY <2>3, FS_CardinalityType
  <2>5. QED
    BY <2>2, <2>3, <2>4
<1>4. \A i : i \in 1..(n + 1) <=> i \in 1..n \/ i = n + 1
  BY <1>1
<1>5. CASE packet.what = "message"
  <2>1. Answers(c)' = Answers(c)
    BY <1>1, <1>4, <1>5 DEF Answers
  <2>2. QED
    BY <1>3, <1>5, <2>1
<1>6. CASE packet.what # "message"
  <2>1. Answers(c)' = Answers(c) \cup {n + 1}
    BY <1>1, <1>4, <1>6 DEF Answers
  <2>2. PICK A, k : A = Answers(c) /\ k = n + 1
    OBVIOUS
  <2>3. Cardinality(A \cup {k}) = Cardinality(A) + 1
    BY <1>2, <1>3, <2>2, FS_AddElement
  <2>4. QED
    BY <1>3, <1>6, <2>1, <2>2, <2>3
<1>7. QED
  BY <1>3, <1>5, <1>6

(* The answers of whoever a step is not about stay as many as they should.  *)
LEMMA OthersCounted ==
  ASSUME CountInv, NEW w \in Workers, Turn(w),
         \A v \in Workers \ {w} : pc[v] # "idle" =>
             /\ issued'[frame[v].client] = issued[frame[v].client]
             /\ Cardinality(Answers(frame[v].client))' = Cardinality(Answers(frame[v].client)),
         pc'[w] # "idle" => Cardinality(Answers(frame[w].client))' = Due(w)'
  PROVE  CountInv'
<1>1. ASSUME NEW v \in Workers \ {w}, pc'[v] # "idle"
      PROVE  Cardinality(Answers(frame[v].client))' = Due(v)'
  BY <1>1, ZenonT(40) DEF CountInv, Turn, Due, Answers
<1>2. QED
  BY <1>1 DEF CountInv

(* Nothing is sent, and nothing begun or ended.                             *)
LEMMA SilenceCounted ==
  ASSUME CountInv, NEW w \in Workers, GoesOn(w), UNCHANGED <<issued, sent>>,
         pc'[w] = "greet" <=> pc[w] = "greet", pc'[w] \in Settled <=> pc[w] \in Settled
  PROVE  CountInv'
<1>1. frame'[w].client = frame[w].client /\ pc[w] # "idle" /\ Turn(w)
  BY DEF GoesOn, SameCommand, SameClient
<1>2. \A c : Answers(c)' = Answers(c)
  BY DEF Answers
<1>3. Cardinality(Answers(frame[w].client))' = Due(w)'
  BY <1>1 DEF CountInv, Due, Answers
<1>4. \A v \in Workers \ {w} :
         /\ issued'[frame[v].client] = issued[frame[v].client]
         /\ Cardinality(Answers(frame[v].client))' = Cardinality(Answers(frame[v].client))
  BY <1>1 DEF Turn, Answers
<1>5. QED
  BY <1>1, <1>3, <1>4, OthersCounted

(* A greeting and a reply are answers to the client of the worker, and a    *)
(* forwarded message is an answer to nobody.                                *)
LEMMA SpeakingCounted ==
  ASSUME MailInv, TypeInv, CountInv, NEW w \in Workers, Greet(w) \/ Reply(w) \/ Forward(w)
  PROVE  CountInv'
<1> USE DEF MailInv
<1>1. \E c, packet : Speaks(w, c, packet) /\ Says(w, c, packet)
  BY SpeakingAdds
<1>2. PICK c, packet : Speaks(w, c, packet) /\ Says(w, c, packet)
  BY <1>1
<1>3. Turn(w) /\ UNCHANGED <<frame, issued>> /\ Adds(c, packet) /\ c \in Clients \cup {NULL}
  BY <1>2 DEF Speaks, GoesOn
<1>4. \A d \in Clients \ {c} : Answers(d)' = Answers(d)
  BY <1>3 DEF Adds, Answers
<1>5. c # NULL => /\ Cardinality(Answers(c)) \in Nat
                  /\ Cardinality(Answers(c))' =
                        Cardinality(Answers(c)) + (IF packet.what = "message" THEN 0 ELSE 1)
  <2>1. c # NULL => Added(c, packet)
    BY <1>3 DEF Adds
  <2>2. QED
    BY <2>1, AnswersGrow
<1>6. ASSUME NEW d \in Clients, d # c \/ packet.what = "message"
      PROVE  Cardinality(Answers(d))' = Cardinality(Answers(d))
  <2>1. CASE d # c
    BY <1>4, <2>1
  <2>2. CASE d = c
    <3>1. d # NULL
      BY HandlerAssumption
    <3>2. Cardinality(Answers(c))' = Cardinality(Answers(c))
      BY <1>5, <1>6, <2>2, <3>1
    <3>3. QED
      BY <2>2, <3>2 DEF Answers
  <2>3. QED
    BY <2>1, <2>2
<1>7. \A v \in Workers : pc[v] # "idle" => frame[v].client \in Clients
  BY DEF Placed
<1>8. PICK own : own = frame[w].client
  OBVIOUS
<1>9. /\ own \in Clients /\ own # NULL /\ issued[own] \in Nat /\ pc[w] # "idle"
      /\ \A v \in Workers \ {w} : frame[v].client # own
      /\ Cardinality(Answers(own)) = Due(w)
  <2>1. pc[w] # "idle"
    BY DEF Greet, Reply, Forward, Done, At
  <2>2. own \in Clients /\ own # NULL
    BY <1>7, <1>8, <2>1, HandlerAssumption
  <2>3. \A v \in Workers \ {w} : frame[v].client # own
    BY <1>8, <2>2 DEF Placed
  <2>4. QED
    BY <1>8, <2>1, <2>2, <2>3 DEF TypeInv, HistoryTyped, CountInv, Answers
<1>10. \A v \in Workers \ {w} : pc[v] # "idle" =>
          Cardinality(Answers(frame[v].client))' = Cardinality(Answers(frame[v].client))
  <2> SUFFICES ASSUME NEW v \in Workers \ {w}, pc[v] # "idle"
               PROVE  Cardinality(Answers(frame[v].client))' = Cardinality(Answers(frame[v].client))
    OBVIOUS
  <2>1. PICK d : d = frame[v].client
    OBVIOUS
  <2>2. d \in Clients /\ d # own
    BY <1>7, <1>9, <2>1
  <2>3. d # c \/ packet.what = "message"
    BY <1>2, <1>8, <2>2 DEF Says
  <2>4. Cardinality(Answers(d))' = Cardinality(Answers(d))
    BY <1>6, <2>2, <2>3
  <2>5. QED
    BY <1>3, <2>1, <2>4 DEF Answers
<1>11. Cardinality(Answers(own))' = Due(w)'
  <2>1. CASE pc[w] = "forward"
    <3>1. packet.what = "message" /\ pc'[w] = "loop"
      BY <1>2, <2>1 DEF Says, Greet, Reply, Forward, Done, At, Goto, TypeInv, ControlTyped
    <3>2. Cardinality(Answers(own))' = Cardinality(Answers(own))
      BY <1>6, <1>9, <3>1
    <3>3. Due(w)' = Due(w)
      BY <1>3, <2>1, <3>1 DEF Due, Settled
    <3>4. QED
      BY <1>9, <3>2, <3>3
  <2>2. CASE pc[w] \in {"greet", "reply"}
    <3>1. c = own /\ packet.what # "message"
      <4>1. pc[w] = "reply" => frame[w].answer.what \in Words
        BY DEF StoreInv, Replies
      <4>2. QED
        BY <1>2, <1>8, <2>2, <4>1 DEF Says, Words
    <3>2. pc'[w] \in {"loop", "route"}
      BY DEF Greet, Reply, Forward, Done, At, Goto, TypeInv, ControlTyped
    <3>3. Cardinality(Answers(c))' = Cardinality(Answers(c)) + 1
      BY <1>5, <1>9, <3>1
    <3>4. Cardinality(Answers(own))' = Cardinality(Answers(own)) + 1
      BY <3>1, <3>3 DEF Answers
    <3>5. Due(w)' = Due(w) + 1
      BY <1>3, <1>8, <1>9, <2>2, <3>2 DEF Due, Settled
    <3>6. QED
      BY <1>9, <3>4, <3>5
  <2>3. QED
    BY <1>2, <2>1, <2>2 DEF Says
<1>12. Cardinality(Answers(frame[w].client))' = Due(w)'
  BY <1>3, <1>8, <1>11 DEF Answers
<1>13. QED
  BY <1>3, <1>10, <1>12, OthersCounted

(* A command read is one more issued, and one more pending.                 *)
LEMMA ReadingCounted ==
  ASSUME MailInv, TypeInv, CountInv, NEW w \in Workers, Receive(w)
  PROVE  CountInv'
<1> USE DEF MailInv
<1>1. PICK text : Reads(w, text)
  BY ReceiveReads
<1>2. PICK c : c = frame[w].client
  OBVIOUS
<1>3. /\ Turn(w) /\ pc[w] = "loop" /\ pc'[w] \in Busy /\ frame'[w].client = c
      /\ c \in Clients /\ c # NULL /\ text.by = c /\ UNCHANGED sent
      /\ issued' = [issued EXCEPT ![c] = issued[c] + 1]
  BY <1>1, <1>2, HandlerAssumption DEF Reads, SameClient, Placed
<1>4. issued \in [Clients -> Nat]
  BY DEF TypeInv, HistoryTyped
<1>5. \A v \in Workers \ {w} : pc[v] # "idle" => frame[v].client \in Clients \ {c}
  BY <1>2, <1>3 DEF Placed
<1>6. \A v \in Workers \ {w} : pc[v] # "idle" =>
         /\ issued'[frame[v].client] = issued[frame[v].client]
         /\ Cardinality(Answers(frame[v].client))' = Cardinality(Answers(frame[v].client))
  BY <1>3, <1>4, <1>5 DEF Turn, Answers
<1>7. Cardinality(Answers(frame[w].client))' = Due(w)'
  <2>1. Cardinality(Answers(frame[w].client))' = Cardinality(Answers(frame[w].client))
    BY <1>2, <1>3 DEF Answers
  <2>2. Cardinality(Answers(frame[w].client)) = Due(w)
    BY <1>3 DEF CountInv
  <2>3. Due(w) = 1 + issued[c]
    BY <1>2, <1>3, <1>4 DEF Due, Settled
  <2>4. Due(w)' = 1 + issued'[c] - 1
    BY <1>3 DEF Due, Settled, Busy
  <2>5. issued'[c] = issued[c] + 1 /\ issued[c] \in Nat
    BY <1>3, <1>4
  <2>6. QED
    BY <2>1, <2>2, <2>3, <2>4, <2>5
<1>8. QED
  BY <1>3, <1>6, <1>7, OthersCounted

(* A new client has been sent nothing, and one that leaves is not counted.  *)
LEMMA NewWorkCounted ==
  ASSUME MailInv, TypeInv, CountInv, NEW w \in Workers,
         Close(w) \/ \E c \in Clients : Connect(w, c)
  PROVE  CountInv'
<1> USE DEF MailInv
<1>1. UNCHANGED <<issued, sent>>
  BY DEF Close, Connect, history
<1>2. Turn(w)
  BY DEF Close, Connect, Goto, Turn, TypeInv, ControlTyped
<1>3. ASSUME pc'[w] # "idle"
      PROVE  Cardinality(Answers(frame[w].client))' = Due(w)'
  <2>1. ~Close(w)
    BY <1>3 DEF Close, Goto, TypeInv, ControlTyped
  <2>2. PICK c \in Clients : Connect(w, c)
    BY <2>1
  <2>3. /\ c \notin gone /\ issued[c] = 0 /\ \A v \in Workers : frame[v].client # c
        /\ pc'[w] = "greet"
    BY <2>2 DEF Connect, Goto, TypeInv, ControlTyped
  <2>4. frame'[w].client = c
    <3>1. PICK f \in Fds : frame' = [frame EXCEPT ![w] = [NoFrame EXCEPT !.client = c, !.fd = f]]
      BY <2>2 DEF Connect
    <3>2. QED
      BY <3>1 DEF TypeInv, ControlTyped, NoFrame
  <2>5. sent[c] = <<>>
    BY <2>3 DEF Placed
  <2>6. Answers(frame[w].client)' = {}
    BY <1>1, <2>4, <2>5 DEF Answers
  <2>7. Due(w)' = 0
    BY <1>1, <2>3, <2>4 DEF Due, Settled
  <2>8. QED
    BY <2>6, <2>7, FS_EmptySet
<1>4. \A v \in Workers \ {w} :
         /\ issued'[frame[v].client] = issued[frame[v].client]
         /\ Cardinality(Answers(frame[v].client))' = Cardinality(Answers(frame[v].client))
  BY <1>1, <1>2 DEF Turn, Answers
<1>5. QED
  BY <1>2, <1>3, <1>4, OthersCounted

LEMMA NextCount == MailInv /\ TypeInv /\ CountInv /\ [Next]_vars => CountInv'
<1> SUFFICES ASSUME MailInv, TypeInv, CountInv, [Next]_vars PROVE CountInv'
  OBVIOUS
<1>1. ASSUME NEW w \in Workers, (Progress(w) /\ Silent) \/ StoresIt(w) PROVE CountInv'
  <2>1. /\ GoesOn(w) /\ UNCHANGED <<issued, sent>>
        /\ pc[w] \in Busy /\ pc'[w] \in Busy \cup {"reply"}
    <3>1. CASE Progress(w) /\ Silent
      BY <3>1 DEF Progress, Silent
    <3>2. CASE StoresIt(w)
      <4>1. /\ pc[w] = "save" /\ UNCHANGED <<issued, sent>> /\ pc'[w] = "reply"
            /\ \A v \in Workers \ {w} : pc'[v] = pc[v] /\ frame'[v] = frame[v]
        BY <3>2 DEF StoresIt, At, Answer, Goto, TypeInv, ControlTyped
      <4>2. /\ frame[w] \in Frames
            /\ frame'[w] = [frame[w] EXCEPT !.answer = [what |-> "sent", ref |-> Len(messages) + 1]]
        BY <3>2 DEF StoresIt, Answer, TypeInv, ControlTyped
      <4>3. /\ frame'[w].text = frame[w].text /\ frame'[w].client = frame[w].client
            /\ frame'[w].fd = frame[w].fd
        BY <4>2 DEF Frames
      <4>4. QED
        BY <4>1, <4>3 DEF GoesOn, Turn, SameCommand, SameClient, Busy
    <3>3. QED
      BY <1>1, <3>1, <3>2
  <2>2. (pc'[w] = "greet" <=> pc[w] = "greet") /\ (pc'[w] \in Settled <=> pc[w] \in Settled)
    BY <2>1 DEF Busy, Settled
  <2>3. QED
    BY <2>1, <2>2, SilenceCounted
<1>2. ASSUME NEW w \in Workers, Route(w) \/ Leave(w) PROVE CountInv'
  <2>1. /\ GoesOn(w) /\ Silent
        /\ pc[w] \in {"route", "loop"} /\ pc'[w] \in {"forward", "loop", "close"}
    BY <1>2, PassingMoves
  <2>2. (pc'[w] = "greet" <=> pc[w] = "greet") /\ (pc'[w] \in Settled <=> pc[w] \in Settled)
    BY <2>1 DEF Settled
  <2>3. QED
    BY <2>1, <2>2, SilenceCounted DEF Silent
<1>3. ASSUME NEW w \in Workers, Commands(w) PROVE CountInv'
  BY <1>1, <1>2, <1>3, CommandProgress, SpeakingCounted DEF TypeInv
<1>4. ASSUME NEW w \in Workers, Greet(w) \/ Reply(w) \/ Leave(w) \/ Close(w)
      PROVE  CountInv'
  BY <1>2, <1>4, SpeakingCounted, NewWorkCounted
<1>5. ASSUME NEW w \in Workers, Arriving(w) PROVE CountInv'
  BY <1>5, ReadingCounted, NewWorkCounted DEF Arriving
<1>6. CASE UNCHANGED <<issued, sent, pc, frame>>
  BY <1>6 DEF CountInv, Due, Answers
<1>7. QED
  BY <1>3, <1>4, <1>5, <1>6 DEF Next, Serving, HangUp, vars, network, history

(* Every command is answered exactly once, on the connection it came from,  *)
(* before the next one is read, along every path through the handlers       *)
(* (handle_client, lines 320-371, and the early returns of every handler).  *)
THEOREM EachIsAnswered == Spec => []OneAnswerEach
<1>1. Init => CountInv
  BY DEF Init, CountInv
<1>2. MailInv /\ CountInv => OneAnswerEach
  <2> SUFFICES ASSUME MailInv, CountInv, NEW w \in Workers, ServedBy(w) # NULL
               PROVE  Cardinality(Answers(ServedBy(w))) =
                        (IF At(w, "greet") THEN 0 ELSE 1) + issued[ServedBy(w)]
                      - (IF pc[w] \in {"greet", "loop", "close", "route", "forward"} THEN 0 ELSE 1)
    BY DEF OneAnswerEach
  <2>1. pc[w] # "idle"
    BY DEF MailInv, Placed, ServedBy
  <2>2. QED
    BY <2>1 DEF CountInv, Due, Settled, ServedBy, At
<1>3. IdentityInv => TypeInv
  BY DEF IdentityInv
<1>4. QED
  BY InitIdentity, NextIdentity, InitMail, NextMail, NextCount, <1>1, <1>2, <1>3, PTL DEF Spec
--------------------------------------------------------------------------------
(* Whom the table of online users stands for.                                *)

(* How often a client was told that it is welcome, and who is about to.      *)
Welcomed(c)  == {i \in DOMAIN sent[c] : sent[c][i].what = "welcome"}
Welcoming(w) == pc[w] = "reply" /\ frame[w].answer.what = "welcome"
WelcomedBy(c) == {w \in Workers : frame[w].client = c /\ Welcoming(w)}

(* A client is welcomed by the one worker that serves it.                    *)
LEMMA WelcomesCounted ==
  ASSUME NEW c
  PROVE  /\ Welcomes(c) = Cardinality(Welcomed(c)) + Cardinality(WelcomedBy(c))
         /\ Welcomes(c)' = Cardinality(Welcomed(c)') + Cardinality(WelcomedBy(c)')
<1>1. WelcomedBy(c) = {w \in Workers : /\ ServedBy(w) = c /\ At(w, "reply")
                                       /\ frame[w].answer.what = "welcome"}
  BY DEF WelcomedBy, Welcoming, ServedBy, At
<1>2. WelcomedBy(c)' = {w \in Workers : /\ ServedBy(w) = c /\ At(w, "reply")
                                        /\ frame[w].answer.what = "welcome"}'
  BY DEF WelcomedBy, Welcoming, ServedBy, At
<1>3. QED
  BY <1>1, <1>2 DEF Welcomes, Welcomed

LEMMA WelcomedFinite ==
  ASSUME SentTyped, NEW c \in Clients
  PROVE  Cardinality(Welcomed(c)) \in Nat /\ IsFiniteSet(Welcomed(c))
<1>1. PICK n \in Nat : DOMAIN sent[c] = 1..n
  BY DEF SentTyped
<1>2. IsFiniteSet(1..n)
  BY FS_Interval
<1>3. PICK A : A = Welcomed(c)
  OBVIOUS
<1>4. A \subseteq 1..n
  BY <1>1, <1>3 DEF Welcomed
<1>5. IsFiniteSet(A) /\ Cardinality(A) \in Nat
  BY <1>2, <1>4, FS_Subset, FS_CardinalityType
<1>6. QED
  BY <1>3, <1>5

(* Steps that neither send, nor begin or end a welcome.                      *)
SameWelcomes == \A c \in Clients : Welcomes(c)' = Welcomes(c)
LEMMA WelcomesStay ==
  ASSUME NEW w \in Workers, Turn(w), UNCHANGED sent, ~Welcoming(w), ~Welcoming(w)'
  PROVE  SameWelcomes
<1> SUFFICES ASSUME NEW c \in Clients PROVE Welcomes(c)' = Welcomes(c)
  BY DEF SameWelcomes
<1>1. Welcomed(c)' = Welcomed(c)
  BY DEF Welcomed
<1>2. WelcomedBy(c)' = WelcomedBy(c)
  BY DEF WelcomedBy, Welcoming, Turn
<1>3. QED
  BY <1>1, <1>2, WelcomesCounted

(* A packet is a welcome on its way, or none.                                *)
LEMMA SpeakingWelcomes ==
  ASSUME MailInv, TypeInv, NEW w \in Workers, Greet(w) \/ Reply(w) \/ Forward(w)
  PROVE  SameWelcomes
<1> USE DEF MailInv
<1>1. PICK c, packet : Speaks(w, c, packet) /\ Says(w, c, packet)
  BY SpeakingAdds
<1>2. Turn(w) /\ UNCHANGED frame /\ Adds(c, packet) /\ c \in Clients \cup {NULL}
  BY <1>1 DEF Speaks, GoesOn
<1>3. pc'[w] \in {"loop", "route"} /\ ~Welcoming(w)'
  BY DEF Greet, Reply, Forward, Done, At, Goto, TypeInv, ControlTyped, Welcoming
<1>4. packet.what = "welcome" <=> Welcoming(w)
  <2>1. pc[w] \in {"greet", "reply", "forward"}
    BY <1>1 DEF Says
  <2>2. QED
    BY <1>1, <2>1 DEF Says, Welcoming
<1>5. CASE ~Welcoming(w)
  <2> SUFFICES ASSUME NEW d \in Clients PROVE Welcomes(d)' = Welcomes(d)
    BY DEF SameWelcomes
  <2>1. Welcomed(d)' = Welcomed(d)
    <3>1. CASE d # c
      BY <1>2, <3>1 DEF Adds, Welcomed
    <3>2. CASE d = c
      <4>1. Added(c, packet)
        BY <1>2, <3>2, HandlerAssumption DEF Adds
      <4>2. \A i : i \in 1..(Len(sent[c]) + 1) <=> i \in 1..Len(sent[c]) \/ i = Len(sent[c]) + 1
        BY <4>1 DEF Added
      <4>3. QED
        BY <1>4, <1>5, <3>2, <4>1, <4>2 DEF Added, Welcomed
    <3>3. QED
      BY <3>1, <3>2
  <2>2. WelcomedBy(d)' = WelcomedBy(d)
    BY <1>2, <1>3, <1>5 DEF WelcomedBy, Welcoming, Turn
  <2>3. QED
    BY <2>1, <2>2, WelcomesCounted
<1>6. CASE Welcoming(w)
  <2>1. c = frame[w].client /\ c \in Clients
    BY <1>1, <1>6 DEF Says, Welcoming, Placed
  <2>2. Added(c, packet) /\ packet.what = "welcome"
    BY <1>2, <1>4, <1>6, <2>1, HandlerAssumption DEF Adds
  <2>3. PICK A, B, k : A = Welcomed(c) /\ B = Welcomed(c)' /\ k = Len(sent[c]) + 1
    OBVIOUS
  <2>4. B = A \cup {k} /\ k \notin A
    <3>1. \A i : i \in 1..(Len(sent[c]) + 1) <=> i \in 1..Len(sent[c]) \/ i = Len(sent[c]) + 1
      BY <2>2 DEF Added
    <3>2. Len(sent[c]) + 1 \notin 1..Len(sent[c])
      BY <2>2 DEF Added
    <3>3. QED
      BY <2>2, <2>3, <3>1, <3>2 DEF Added, Welcomed
  <2>5. IsFiniteSet(A) /\ Cardinality(A) \in Nat
    BY <2>1, <2>3, WelcomedFinite DEF AckInv
  <2>6. Cardinality(B) = Cardinality(A) + 1
    BY <2>4, <2>5, FS_AddElement
  <2>7. WelcomedBy(c) = {w} /\ WelcomedBy(c)' = {}
    <3>1. \A v \in Workers \ {w} : frame[v].client # c
      BY <2>1, HandlerAssumption DEF Placed
    <3>2. QED
      BY <1>2, <1>3, <1>6, <2>1, <3>1 DEF WelcomedBy, Welcoming
  <2>8. Cardinality({w}) = 1 /\ Cardinality({}) = 0
    BY FS_Singleton, FS_EmptySet
  <2>9. Welcomes(c)' = Welcomes(c)
    <3>1. Welcomes(c) = Cardinality(A) + 1
      BY <2>3, <2>7, <2>8, WelcomesCounted
    <3>2. Welcomes(c)' = Cardinality(B) + 0
      BY <2>3, <2>7, <2>8, WelcomesCounted
    <3>3. QED
      BY <2>5, <2>6, <3>1, <3>2
  <2>10. ASSUME NEW d \in Clients, d # c PROVE Welcomes(d)' = Welcomes(d)
    <3>1. Welcomed(d)' = Welcomed(d)
      BY <1>2, <2>10 DEF Adds, Welcomed
    <3>2. WelcomedBy(d)' = WelcomedBy(d)
      BY <1>2, <2>1, <2>10 DEF WelcomedBy, Welcoming, Turn
    <3>3. QED
      BY <3>1, <3>2, WelcomesCounted
  <2>11. QED
    BY <2>9, <2>10 DEF SameWelcomes
<1>7. QED
  BY <1>5, <1>6

(* Entering is one welcome more. *)
LEMMA EnteringWelcomes ==
  ASSUME MailInv, TypeInv, NEW w \in Workers, Enter(w)
  PROVE  /\ Welcomes(frame[w].client) \in Nat
         /\ Welcomes(frame[w].client)' = Welcomes(frame[w].client) + 1
         /\ \A d \in Clients \ {frame[w].client} : Welcomes(d)' = Welcomes(d)
<1> USE DEF MailInv
<1>1. PICK c : c = frame[w].client
  OBVIOUS
<1>2. c \in Clients /\ pc[w] = "enter" /\ UNCHANGED sent
  BY <1>1 DEF Enter, At, Placed, network
<1>3. /\ pc'[w] = "reply" /\ Turn(w)
      /\ frame'[w].client = c /\ frame'[w].answer.what = "welcome"
  <2>1. frame[w] \in Frames
    BY DEF TypeInv, ControlTyped
  <2>2. frame'[w] = [frame[w] EXCEPT !.answer = [what |-> "welcome", ref |-> NULL]]
    BY DEF Enter, Answer, TypeInv, ControlTyped
  <2>3. frame'[w].client = c /\ frame'[w].answer = [what |-> "welcome", ref |-> NULL]
    BY <1>1, <2>1, <2>2 DEF Frames
  <2>4. QED
    BY <2>3 DEF Enter, Answer, Goto, TypeInv, ControlTyped, Turn
<1>4. \A v \in Workers \ {w} : frame[v].client # c /\ frame'[v].client # c
  BY <1>1, <1>2, <1>3, HandlerAssumption DEF Placed, Turn
<1>5. WelcomedBy(c) = {} /\ WelcomedBy(c)' = {w} /\ Welcomed(c)' = Welcomed(c)
  BY <1>1, <1>2, <1>3, <1>4 DEF WelcomedBy, Welcoming, Welcomed
<1>6. Cardinality(Welcomed(c)) \in Nat
  BY <1>2, WelcomedFinite DEF AckInv
<1>7. Cardinality({w}) = 1 /\ Cardinality({}) = 0
  BY FS_Singleton, FS_EmptySet
<1>8. Welcomes(c) \in Nat /\ Welcomes(c)' = Welcomes(c) + 1
  BY <1>5, <1>6, <1>7, WelcomesCounted
<1>9. ASSUME NEW d \in Clients \ {c} PROVE Welcomes(d)' = Welcomes(d)
  <2>1. Welcomed(d)' = Welcomed(d)
    BY <1>2 DEF Welcomed
  <2>2. WelcomedBy(d)' = WelcomedBy(d)
    BY <1>1, <1>3 DEF WelcomedBy, Welcoming, Turn
  <2>3. QED
    BY <2>1, <2>2, WelcomesCounted
<1>10. Welcomes(c) = Welcomes(frame[w].client) /\ Welcomes(c)' = Welcomes(frame[w].client)'
  BY <1>1, <1>3, WelcomesCounted DEF Welcomed, WelcomedBy
<1>11. QED
  BY <1>1, <1>8, <1>9, <1>10
--------------------------------------------------------------------------------
(* Behind every entry of the table is a worker that serves its socket, past *)
(* the greeting and not yet at the close, whose client has proven to be the *)
(* entry's user and was welcomed for it; and an entry has its socket alone. *)
LoginsOnce == \A c \in Clients : Welcomes(c) <= 1
Outside == {"idle", "greet", "close"}
Backs(w, fd, id) ==
    /\ pc[w] \notin Outside /\ frame[w].fd = fd
    /\ Correct(frame[w].client, id) /\ Welcomes(frame[w].client) >= 1
Backed == \A i \in Online!Active :
             \E w \in Workers : Backs(w, users[i].socket_fd, users[i].user_id)
Alone  == \A i, j \in Online!Active : users[i].socket_fd = users[j].socket_fd => i = j
OnlineInv == LoginsOnce => Backed /\ Alone

(* Whoever is behind an entry stays there, unless he goes outside.          *)
LEMMA BackerStays ==
  ASSUME Placed, ProofsKept, SameWelcomes, NEW w \in Workers, Turn(w),
         pc[w] \in Outside \/ (SameClient(w) /\ pc'[w] \notin Outside),
         NEW v \in Workers, NEW fd, NEW id, Backs(v, fd, id)
  PROVE  Backs(v, fd, id)'
<1>1. /\ pc'[v] \notin Outside /\ frame'[v].fd = fd
      /\ frame'[v].client = frame[v].client /\ frame[v].client \in Clients
  BY DEF Backs, Turn, SameClient, Placed, Outside
<1>2. PICK c : c = frame[v].client
  OBVIOUS
<1>3. Correct(c, id)' /\ Welcomes(c)' >= 1
  <2>1. Correct(c, id) /\ Welcomes(c) >= 1
    BY <1>2 DEF Backs, Correct, Registered, Welcomes, ServedBy
  <2>2. QED
    BY <1>1, <1>2, <2>1 DEF ProofsKept, SameWelcomes
<1>4. Correct(frame[v].client, id)' /\ Welcomes(frame[v].client)' >= 1
  BY <1>1, <1>2, <1>3 DEF Correct, Registered, Welcomes, ServedBy
<1>5. QED
  BY <1>1, <1>4 DEF Backs

(* So steps that leave the table alone keep the invariant.                  *)
LEMMA TableUntouched ==
  ASSUME Placed, OnlineInv, ProofsKept, SameWelcomes, NEW w \in Workers, Turn(w),
         pc[w] \in Outside \/ (SameClient(w) /\ pc'[w] \notin Outside),
         UNCHANGED users
  PROVE  OnlineInv'
<1> SUFFICES ASSUME LoginsOnce' PROVE Backed' /\ Alone'
  BY DEF OnlineInv
<1>1. Backed /\ Alone
  BY DEF OnlineInv, LoginsOnce, SameWelcomes
<1>2. Alone'
  BY <1>1 DEF Alone, Online!Active
<1>3. ASSUME NEW i \in Online!Active
      PROVE  \E v \in Workers : Backs(v, users[i].socket_fd, users[i].user_id)'
  <2>1. PICK v \in Workers : Backs(v, users[i].socket_fd, users[i].user_id)
    BY <1>1 DEF Backed
  <2>2. PICK fd, id : fd = users[i].socket_fd /\ id = users[i].user_id
    OBVIOUS
  <2>3. Backs(v, fd, id)
    BY <2>1, <2>2 DEF Backs, Correct, Registered
  <2>4. Backs(v, fd, id)'
    BY <2>3, BackerStays
  <2>5. QED
    BY <2>2, <2>4 DEF Backs, Correct, Registered
<1>4. Backed'
  BY <1>3 DEF Backed, Online!Active
<1>5. QED
  BY <1>2, <1>4
--------------------------------------------------------------------------------
(* Accounts are only added.                                                 *)
AccountsKept == \A u \in Registered : accounts'[u] = accounts[u]
LEMMA AccountsStay ==
  ASSUME TypeInv, [Next]_vars
  PROVE  AccountsKept
<1> USE DEF AccountsKept
<1>1. ASSUME NEW w \in Workers, RegisterInsert(w)
      PROVE  \A u \in Registered : accounts'[u] = accounts[u]
  <2>1. \/ accounts' = accounts
        \/ \E u, hash : u \notin Registered /\ accounts' = [accounts EXCEPT ![u] = hash]
    BY <1>1 DEF RegisterInsert, InsertUser, tables
  <2>2. QED
    BY <2>1 DEF TypeInv, TablesTyped, Registered
<1>2. ASSUME NEW w \in Workers, Commands(w), ~RegisterInsert(w) PROVE accounts' = accounts
  BY <1>2 DEF Commands, Malformed, RegisterCheck, CheckUser, History,
       Authenticate, SetId, SetLoginBegin, SetLoginEnd, Enter, Logout, ClearId, ClearLogin,
       MsgGate, FindRecipient, FindChat, CreateChat, AddMembers, Store, Route, Forward,
       SaveMessage, Save, InsertChat, InsertMembers, InsertMessage, StatementFails, tables
<1>3. ASSUME NEW w \in Workers, Greet(w) \/ Reply(w) \/ Leave(w) \/ Close(w) \/ Arriving(w)
      PROVE  accounts' = accounts
  BY <1>3 DEF Greet, Reply, Leave, Close, Arriving, Receive, Connect, tables
<1>4. CASE UNCHANGED tables
  BY <1>4 DEF tables
<1>5. QED
  BY <1>1, <1>2, <1>3, <1>4 DEF Next, Serving, HangUp, vars

(* Therefore what was proven stays proven.                                  *)
LEMMA ProofsStay ==
  ASSUME TypeInv, [Next]_vars
  PROVE  ProofsKept
<1>1. presented \subseteq presented'
  <2>1. ASSUME NEW w \in Workers, Commands(w) PROVE presented' = presented
    BY <2>1 DEF Commands, Malformed, RegisterCheck, RegisterInsert, CheckUser, History,
         Authenticate, SetId, SetLoginBegin, SetLoginEnd, Enter, Logout, ClearId, ClearLogin,
         MsgGate, FindRecipient, FindChat, CreateChat, AddMembers, Store, Route, Forward,
         history
  <2>2. ASSUME NEW w \in Workers, Greet(w) \/ Reply(w) \/ Leave(w) \/ Close(w) \/ Arriving(w)
        PROVE  presented \subseteq presented'
    BY <2>2 DEF Greet, Reply, Leave, Close, Arriving, Receive, Connect, history
  <2>3. CASE UNCHANGED history
    BY <2>3 DEF history
  <2>4. QED
    BY <2>1, <2>2, <2>3 DEF Next, Serving, HangUp, vars
<1>2. AccountsKept
  BY AccountsStay
<1>3. QED
  BY <1>1, <1>2, ProvenGrows DEF AccountsKept

(* Only Enter answers with a welcome. *)
LEMMA AnswersOtherwise ==
  ASSUME ControlTyped, NEW w \in Workers, NEW what, what # "welcome", NEW ref,
         Answer(w, what, ref)
  PROVE  ~Welcoming(w)'
<1>1. frame[w] \in Frames
  BY DEF ControlTyped
<1>2. frame'[w] = [frame[w] EXCEPT !.answer = [what |-> what, ref |-> ref]]
  BY DEF Answer, ControlTyped
<1>3. frame'[w].answer = [what |-> what, ref |-> ref]
  BY <1>1, <1>2 DEF Frames
<1>4. QED
  BY <1>3 DEF Welcoming

LEMMA NoWelcome ==
  ASSUME ControlTyped, NEW w \in Workers, Commands(w), ~Enter(w)
  PROVE  ~Welcoming(w)'
<1> DEFINE Answering == \E what, ref : what # "welcome" /\ Answer(w, what, ref)
           Moves == \E b \in Points \ {"reply"} : Goto(w, b)
<1>1. Answering => ~Welcoming(w)'
  BY AnswersOtherwise
<1>2. Moves => ~Welcoming(w)'
  BY DEF Goto, ControlTyped, Welcoming
<1>3. CASE \/ Malformed(w) \/ RegisterCheck(w) \/ RegisterInsert(w) \/ CheckUser(w)
           \/ History(w) \/ Authenticate(w) \/ Logout(w) \/ ClearLogin(w)
           \/ MsgGate(w) \/ FindRecipient(w)
  <2>1. Answering \/ Moves
    BY <1>3 DEF Malformed, RegisterCheck, RegisterInsert, CheckUser, History, Authenticate,
                Logout, ClearLogin, MsgGate, FindRecipient, Points
  <2>2. QED
    BY <1>1, <1>2, <2>1
<1>4. CASE SetId(w) \/ SetLoginBegin(w) \/ SetLoginEnd(w) \/ ClearId(w)
           \/ FindChat(w) \/ CreateChat(w) \/ AddMembers(w) \/ Store(w)
  <2>1. Answering \/ Moves
    BY <1>4 DEF SetId, SetLoginBegin, SetLoginEnd, ClearId, FindChat, CreateChat, AddMembers,
                Store, SaveMessage, Save, Fetch, Points
  <2>2. QED
    BY <1>1, <1>2, <2>1
<1>5. CASE Route(w) \/ Forward(w)
  <2>1. Moves
    BY <1>5 DEF Route, Forward, Done, Fetch, Points
  <2>2. QED
    BY <1>2, <2>1
<1>6. QED
  BY <1>3, <1>4, <1>5 DEF Commands
--------------------------------------------------------------------------------
(* Most steps touch neither the table nor the welcomes. *)
LEMMA MostKeepOnline ==
  ASSUME MailInv, TypeInv, OnlineInv, ProofsKept, NEW w \in Workers,
         \/ Commands(w) /\ ~Enter(w) /\ ~Logout(w)
         \/ Greet(w) \/ Reply(w) \/ Close(w) \/ Arriving(w)
  PROVE  OnlineInv'
<1> USE DEF MailInv
<1>1. UNCHANGED users
  BY DEF Commands, Malformed, RegisterCheck, RegisterInsert, CheckUser, History,
         Authenticate, SetId, SetLoginBegin, SetLoginEnd, ClearId, ClearLogin,
         MsgGate, FindRecipient, FindChat, CreateChat, AddMembers, Store, Route, Forward,
         Greet, Reply, Close, Arriving, Receive, Connect, table
<1>2. CASE Greet(w) \/ Reply(w) \/ Forward(w)
  <2>1. SameWelcomes
    BY <1>2, SpeakingWelcomes
  <2>2. PICK c, packet : Speaks(w, c, packet)
    BY <1>2, SpeakingAdds
  <2>3. Turn(w) /\ SameClient(w) /\ pc'[w] \notin Outside
    BY <1>2, <2>2 DEF Speaks, GoesOn, SameCommand, Outside, Greet, Reply, Forward, Done, Goto,
                      TypeInv, ControlTyped
  <2>4. QED
    BY <1>1, <2>1, <2>3, TableUntouched
<1>3. CASE Commands(w) /\ ~Enter(w) /\ ~Logout(w) /\ ~Forward(w)
  <2>1. (Progress(w) /\ Silent) \/ StoresIt(w) \/ Route(w)
    BY <1>3, CommandProgress DEF TypeInv
  <2>2. GoesOn(w) /\ UNCHANGED sent /\ pc'[w] \notin Outside /\ ~Welcoming(w)
    <3>1. CASE Progress(w) /\ Silent
      BY <3>1 DEF Progress, Silent, Busy, Outside, Welcoming
    <3>2. CASE StoresIt(w)
      <4>1. /\ pc[w] = "save" /\ pc'[w] = "reply" /\ UNCHANGED sent
            /\ \A v \in Workers \ {w} : pc'[v] = pc[v] /\ frame'[v] = frame[v]
        BY <3>2 DEF StoresIt, At, Answer, Goto, TypeInv, ControlTyped
      <4>2. /\ frame[w] \in Frames
            /\ frame'[w] = [frame[w] EXCEPT !.answer = [what |-> "sent", ref |-> Len(messages) + 1]]
        BY <3>2 DEF StoresIt, Answer, TypeInv, ControlTyped
      <4>3. /\ frame'[w].text = frame[w].text /\ frame'[w].client = frame[w].client
            /\ frame'[w].fd = frame[w].fd
        BY <4>2 DEF Frames
      <4>4. QED
        BY <4>1, <4>3 DEF GoesOn, Turn, SameCommand, SameClient, Outside, Welcoming
    <3>3. CASE Route(w)
      BY <3>3, PassingMoves DEF Outside, Welcoming, Silent, Route, Fetch, Goto, IsOnline,
                                TypeInv, ControlTyped
    <3>4. QED
      BY <2>1, <3>1, <3>2, <3>3
  <2>3. ~Welcoming(w)'
    BY <1>3, NoWelcome DEF TypeInv
  <2>4. QED
    BY <1>1, <2>2, <2>3, WelcomesStay, TableUntouched DEF GoesOn, SameCommand
<1>4. CASE Receive(w)
  <2>1. PICK text : Reads(w, text)
    BY <1>4, ReceiveReads
  <2>2. /\ Turn(w) /\ SameClient(w) /\ UNCHANGED sent /\ pc'[w] \notin Outside
        /\ ~Welcoming(w) /\ ~Welcoming(w)'
    BY <2>1 DEF Reads, Busy, Outside, Welcoming
  <2>3. QED
    BY <1>1, <2>2, WelcomesStay, TableUntouched
<1>5. CASE Close(w) \/ \E c \in Clients : Connect(w, c)
  <2>1. /\ Turn(w) /\ UNCHANGED sent /\ pc[w] \in {"close", "idle"}
        /\ pc'[w] \in {"idle", "greet"}
    BY <1>5 DEF Close, Connect, At, Goto, TypeInv, ControlTyped, Turn
  <2>2. QED
    BY <1>1, <2>1, WelcomesStay, TableUntouched DEF Welcoming, Outside
<1>6. QED
  BY <1>2, <1>3, <1>4, <1>5 DEF Arriving

(* The first of some slots. *)
LEMMA FirstSlot ==
  ASSUME NEW S \in SUBSET Online!Slots, S # {}
  PROVE  Online!FirstOf(S) \in S
<1>1. S \in SUBSET Nat
  BY HandlerAssumption DEF Online!Slots
<1>2. QED
  BY <1>1, FirstIn

(* A socket that leaves the table has no entry any more.                    *)
LEMMA RemovalsKeepOnline ==
  ASSUME MailInv, TypeInv, OnlineInv, ProofsKept, NEW w \in Workers, Logout(w) \/ Leave(w)
  PROVE  OnlineInv'
<1> USE DEF MailInv
<1>1. PICK fd : fd = frame[w].fd
  OBVIOUS
<1>2. Turn(w) /\ SameClient(w) /\ UNCHANGED sent
  <2>1. CASE Leave(w)
    BY <2>1, PassingMoves DEF GoesOn, SameCommand, Silent
  <2>2. CASE Logout(w)
    <3>1. pc[w] = "LOGOUT" /\ UNCHANGED sent
      BY <2>2 DEF Logout, At, network
    <3>2. Commands(w) /\ ~StoresIt(w) /\ ~Route(w) /\ ~Forward(w)
      BY <2>2, <3>1 DEF Commands, StoresIt, Route, Forward, At
    <3>3. QED
      BY <3>1, <3>2, CommandProgress DEF Progress, GoesOn, SameCommand, TypeInv
  <2>3. QED
    BY <2>1, <2>2
<1>3. SameWelcomes
  <2>1. ~Welcoming(w)
    BY DEF Logout, Leave, At, Welcoming
  <2>2. ~Welcoming(w)'
    <3>1. CASE Leave(w)
      BY <3>1, PassingMoves DEF Welcoming
    <3>2. CASE Logout(w)
      BY <3>2, NoWelcome DEF Logout, Enter, At, Commands, TypeInv
    <3>3. QED
      BY <3>1, <3>2
  <2>3. QED
    BY <1>2, <2>1, <2>2, WelcomesStay
<1>4. CASE pc'[w] \notin Outside /\ UNCHANGED users
  BY <1>2, <1>3, <1>4, TableUntouched
<1>5. CASE Online!Remove(fd)
  <2> DEFINE S == Online!SlotsOf(fd)
             k == Online!FirstOf(S)
  <2> SUFFICES ASSUME LoginsOnce' PROVE Backed' /\ Alone'
    BY DEF OnlineInv
  <2>1. Backed /\ Alone
    BY <1>3 DEF OnlineInv, LoginsOnce, SameWelcomes
  <2>2. S \in SUBSET Online!Slots
    BY DEF Online!SlotsOf, Online!Active
  <2>3. S # {} => k \in S
    BY <2>2, FirstSlot
  <2>4. /\ \A i \in Online!Active' : i \in Online!Active /\ users'[i] = users[i]
        /\ \A i \in Online!Active' : users[i].socket_fd # fd
    <3>1. CASE S = {}
      BY <1>5, <3>1 DEF Online!Remove, Online!table, Online!Active, Online!SlotsOf
    <3>2. CASE S # {}
      <4>1. users' = [users EXCEPT ![k] = FREE] /\ k \in S
        BY <1>5, <2>3, <3>2 DEF Online!Remove
      <4>2. users \in [Online!Slots -> Entry \cup {FREE}]
        BY DEF TypeInv, TablesTyped
      <4> HIDE DEF k
      <4>3. k \in Online!Slots /\ k \in Online!Active /\ users[k].socket_fd = fd
        BY <4>1 DEF Online!SlotsOf, Online!Active
      <4>4. \A i \in Online!Active' : i \in Online!Active /\ i # k /\ users'[i] = users[i]
        BY <4>1, <4>2, <4>3 DEF Online!Active
      <4>5. QED
        BY <2>1, <4>3, <4>4 DEF Alone
    <3>3. QED
      BY <3>1, <3>2
  <2>5. Alone'
    BY <2>1, <2>4 DEF Alone
  <2>6. ASSUME NEW i \in Online!Active'
        PROVE  \E v \in Workers : Backs(v, users[i].socket_fd, users[i].user_id)'
    <3>1. PICK v \in Workers : Backs(v, users[i].socket_fd, users[i].user_id)
      BY <2>1, <2>4 DEF Backed
    <3>2. PICK f, id : f = users[i].socket_fd /\ id = users[i].user_id
      OBVIOUS
    <3>3. Backs(v, f, id) /\ v # w
      BY <1>1, <2>4, <3>1, <3>2 DEF Backs, Correct, Registered
    <3>4. v \in Workers \ {w} /\ pc'[v] = pc[v] /\ frame'[v] = frame[v]
      BY <1>2, <3>3 DEF Turn
    <3>5. Correct(frame[v].client, id)' /\ Welcomes(frame[v].client)' >= 1
      <4>1. PICK c : c = frame[v].client
        OBVIOUS
      <4>2. c \in Clients /\ Correct(c, id) /\ Welcomes(c) >= 1
        BY <3>3, <4>1 DEF Backs, Outside, Placed, Correct, Registered, Welcomes, ServedBy
      <4>3. Correct(c, id)' /\ Welcomes(c)' >= 1
        BY <1>3, <4>2 DEF ProofsKept, SameWelcomes
      <4>4. QED
        BY <3>4, <4>1, <4>3 DEF Correct, Registered, Welcomes, ServedBy
    <3>6. Backs(v, f, id)'
      BY <3>3, <3>4, <3>5 DEF Backs
    <3>7. QED
      BY <2>4, <3>2, <3>6 DEF Backs, Correct, Registered
  <2>7. Backed'
    BY <2>6 DEF Backed
  <2>8. QED
    BY <2>5, <2>7
<1>6. Online!Remove(fd) \/ (pc'[w] \notin Outside /\ UNCHANGED users)
  <2>1. Online!Remove(frame[w].fd) => Online!Remove(fd)
    BY <1>1
  <2>2. CASE Leave(w)
    BY <2>1, <2>2 DEF Leave, RemoveOnline
  <2>3. CASE Logout(w)
    <3>1. \/ Answer(w, "bye", NULL) /\ UNCHANGED table
          \/ Online!Remove(frame[w].fd)
      BY <2>3 DEF Logout
    <3>2. Answer(w, "bye", NULL) => pc'[w] = "reply"
      BY DEF Answer, Goto, TypeInv, ControlTyped
    <3>3. QED
      BY <2>1, <3>1, <3>2 DEF Outside, table
  <2>4. QED
    BY <2>2, <2>3
<1>7. QED
  BY <1>4, <1>5, <1>6

(* A client that enters was not there: it would be its second welcome.      *)
LEMMA EnterKeepsOnline ==
  ASSUME MailInv, TypeInv, CmdInv, OnlineInv, ProofsKept, NEW w \in Workers, Enter(w)
  PROVE  OnlineInv'
<1> USE DEF MailInv
<1> SUFFICES ASSUME LoginsOnce' PROVE Backed' /\ Alone'
  BY DEF OnlineInv
<1>1. PICK c, f, u : c = frame[w].client /\ f = frame[w].fd /\ u = Cmd(w).login
  OBVIOUS
<1>2. /\ pc[w] = "enter" /\ c \in Clients /\ f \in Fds /\ desc[f] = c /\ u \in Users
      /\ Correct(c, u)
  BY <1>1 DEF Enter, At, Placed, CmdInv, NeedsLogin, Accepted, Cmd, Correct, Registered
<1>3. /\ pc'[w] = "reply" /\ Turn(w) /\ frame'[w].client = c /\ frame'[w].fd = f
  <2>1. frame[w] \in Frames
    BY DEF TypeInv, ControlTyped
  <2>2. frame'[w] = [frame[w] EXCEPT !.answer = [what |-> "welcome", ref |-> NULL]]
    BY DEF Enter, Answer, TypeInv, ControlTyped
  <2>3. QED
    BY <1>1, <2>1, <2>2 DEF Frames, Enter, Answer, Goto, TypeInv, ControlTyped, Turn
<1>4. /\ Welcomes(c) \in Nat /\ Welcomes(c)' = Welcomes(c) + 1
      /\ \A d \in Clients \ {c} : Welcomes(d)' = Welcomes(d)
  <2>1. /\ Welcomes(frame[w].client) \in Nat
        /\ Welcomes(frame[w].client)' = Welcomes(frame[w].client) + 1
        /\ \A d \in Clients \ {frame[w].client} : Welcomes(d)' = Welcomes(d)
    BY EnteringWelcomes
  <2>2. /\ Welcomes(c) = Welcomes(frame[w].client)
        /\ Welcomes(c)' = Welcomes(frame[w].client)'
    BY <1>1, <1>3 DEF Welcomes, ServedBy
  <2>3. QED
    BY <1>1, <2>1, <2>2
<1>5. Welcomes(c) = 0 /\ Welcomes(c)' = 1
  BY <1>2, <1>4 DEF LoginsOnce
<1>6. Backed /\ Alone
  <2>1. LoginsOnce
    BY <1>4, <1>5 DEF LoginsOnce
  <2>2. QED
    BY <2>1 DEF OnlineInv
<1>7. \A i \in Online!Active : users[i].socket_fd # f
  <2> SUFFICES ASSUME NEW i \in Online!Active, users[i].socket_fd = f PROVE FALSE
    OBVIOUS
  <2>1. PICK v \in Workers : Backs(v, f, users[i].user_id)
    BY <1>6 DEF Backed
  <2>2. frame[v].client = c
    BY <1>2, <2>1 DEF Backs, Outside, Placed
  <2>3. Welcomes(c) >= 1
    BY <2>1, <2>2 DEF Backs, Welcomes, ServedBy
  <2>4. QED
    BY <1>5, <2>3
<1>8. Backs(w, f, u)'
  <2>1. Correct(c, u)' /\ Welcomes(c)' >= 1
    BY <1>2, <1>5 DEF ProofsKept
  <2>2. Correct(frame[w].client, u)' /\ Welcomes(frame[w].client)' >= 1
    BY <1>3, <2>1 DEF Correct, Registered, Welcomes, ServedBy
  <2>3. QED
    BY <1>3, <2>2 DEF Backs, Outside
<1>9. ASSUME NEW i \in Online!Active
      PROVE  \E v \in Workers : /\ Backs(v, users[i].socket_fd, users[i].user_id)
                                /\ pc'[v] = pc[v] /\ frame'[v] = frame[v]
                                /\ frame[v].client \in Clients \ {c}
  <2>1. PICK v \in Workers : Backs(v, users[i].socket_fd, users[i].user_id)
    BY <1>6 DEF Backed
  <2>2. v # w
    BY <1>1, <1>7, <2>1 DEF Backs
  <2>3. frame[v].client \in Clients \ {c}
    BY <1>1, <1>2, <2>1, <2>2, HandlerAssumption DEF Backs, Outside, Placed
  <2>4. QED
    BY <1>3, <2>1, <2>2, <2>3 DEF Turn
<1>10. ASSUME NEW i \in Online!Active
       PROVE  \E v \in Workers : Backs(v, users[i].socket_fd, users[i].user_id)'
                \/ users'[i] # users[i]
  <2>1. CASE users'[i] = users[i]
    <3>1. PICK v \in Workers : /\ Backs(v, users[i].socket_fd, users[i].user_id)
                               /\ pc'[v] = pc[v] /\ frame'[v] = frame[v]
                               /\ frame[v].client \in Clients \ {c}
      BY <1>9
    <3>2. PICK d, g, id : d = frame[v].client /\ g = users[i].socket_fd /\ id = users[i].user_id
      OBVIOUS
    <3>3. Correct(d, id) /\ Welcomes(d) >= 1 /\ d \in Clients \ {c}
      BY <3>1, <3>2 DEF Backs, Correct, Registered, Welcomes, ServedBy
    <3>4. Correct(d, id)' /\ Welcomes(d)' >= 1
      BY <1>4, <3>3 DEF ProofsKept
    <3>5. Correct(frame[v].client, id)' /\ Welcomes(frame[v].client)' >= 1
      BY <3>1, <3>2, <3>4 DEF Correct, Registered, Welcomes, ServedBy
    <3>6. Backs(v, g, id)'
      BY <3>1, <3>2, <3>5 DEF Backs
    <3>7. QED
      BY <2>1, <3>2, <3>6 DEF Backs, Correct, Registered
  <2>2. QED
    BY <2>1
<1>11. \/ users' = users
       \/ \E k \in Online!Slots \ Online!Active :
             users' = [users EXCEPT ![k] = [user_id |-> u, login |-> Cut[u], socket_fd |-> f]]
  <2> DEFINE S == Online!Slots \ Online!Active
  <2>1. S # {} => Online!FirstOf(S) \in S
    BY FirstSlot
  <2>2. Online!AddSucceeds => S # {}
    BY DEF Online!AddSucceeds, Online!Active
  <2>3. QED
    BY <1>1, <2>1, <2>2 DEF Enter, Online!Add, Online!table
<1>12. CASE users' = users
  <2>1. Online!Active' = Online!Active
    BY <1>12 DEF Online!Active
  <2>2. Alone'
    BY <1>6, <1>12, <2>1 DEF Alone
  <2>3. Backed'
    BY <1>10, <1>12, <2>1 DEF Backed
  <2>4. QED
    BY <2>2, <2>3
<1>13. ASSUME NEW k \in Online!Slots \ Online!Active,
              users' = [users EXCEPT ![k] = [user_id |-> u, login |-> Cut[u], socket_fd |-> f]]
       PROVE  Backed' /\ Alone'
  <2>1. /\ users'[k] = [user_id |-> u, login |-> Cut[u], socket_fd |-> f]
        /\ \A i \in Online!Slots \ {k} : users'[i] = users[i]
    BY <1>13 DEF TypeInv, TablesTyped
  <2>2. \A i \in Online!Active' \ {k} : i \in Online!Active /\ users'[i] = users[i]
    BY <2>1 DEF Online!Active
  <2>3. users'[k].socket_fd = f /\ users'[k].user_id = u
    BY <2>1
  <2>4. Alone'
    BY <1>6, <1>7, <2>2, <2>3 DEF Alone
  <2>5. ASSUME NEW i \in Online!Active'
        PROVE  \E v \in Workers : Backs(v, users[i].socket_fd, users[i].user_id)'
    <3>1. CASE i = k
      BY <1>8, <2>3, <3>1 DEF Backs, Correct, Registered
    <3>2. CASE i # k
      BY <1>10, <2>2, <3>2
    <3>3. QED
      BY <3>1, <3>2
  <2>6. Backed'
    BY <2>5 DEF Backed
  <2>7. QED
    BY <2>4, <2>6
<1>14. QED
  BY <1>11, <1>12, <1>13

LEMMA NextOnline ==
  MailInv /\ TypeInv /\ CmdInv /\ OnlineInv /\ [Next]_vars => OnlineInv'
<1> SUFFICES ASSUME MailInv, TypeInv, CmdInv, OnlineInv, [Next]_vars PROVE OnlineInv'
  OBVIOUS
<1>1. ProofsKept
  BY ProofsStay
<1>2. ASSUME NEW w \in Workers, Serving(w) \/ Arriving(w) PROVE OnlineInv'
  <2>1. CASE Enter(w)
    BY <1>1, <2>1, EnterKeepsOnline
  <2>2. CASE Logout(w) \/ Leave(w)
    BY <1>1, <2>2, RemovalsKeepOnline
  <2>3. CASE \/ Commands(w) /\ ~Enter(w) /\ ~Logout(w)
             \/ Greet(w) \/ Reply(w) \/ Close(w) \/ Arriving(w)
    BY <1>1, <2>3, MostKeepOnline
  <2>4. QED
    BY <1>2, <2>1, <2>2, <2>3 DEF Serving
<1>3. CASE UNCHANGED <<tables, table, pc, frame, sent, presented>>
  <2>1. Online!Active' = Online!Active /\ users' = users
    BY <1>3 DEF table, Online!Active
  <2>2. LoginsOnce' <=> LoginsOnce
    BY <1>3 DEF LoginsOnce, Welcomes, ServedBy, At
  <2>3. Alone' <=> Alone
    BY <2>1 DEF Alone
  <2>4. \A w \in Workers : \A i \in Online!Active :
           Backs(w, users[i].socket_fd, users[i].user_id)'
             <=> Backs(w, users[i].socket_fd, users[i].user_id)
    BY <1>3, <2>1 DEF Backs, Correct, Registered, Welcomes, ServedBy, At, tables
  <2>5. Backed' <=> Backed
    BY <2>1, <2>4 DEF Backed
  <2>6. QED
    BY <2>2, <2>3, <2>5 DEF OnlineInv
<1>4. QED
  BY <1>2, <1>3 DEF Next, HangUp, vars, network, history

(* As long as no client is welcomed twice on its connection, an entry in    *)
(* the table means a user who is there, whatever order workers enter, log   *)
(* out, leave and close in: its socket is open and being served, its client *)
(* has given that user's password, and no socket has two entries (handle_   *)
(* login, handle_logout, and line 374 of client_handler.c).                 *)
THEOREM OnlineAreConnected == Spec => []OnlineIsConnected
<1>1. Init => OnlineInv
  BY DEF Init, Online!InitTable, OnlineInv, Backed, Alone, Online!Active
<1>2. MailInv /\ OnlineInv => OnlineIsConnected
  <2> SUFFICES ASSUME MailInv, OnlineInv, LoginsOnce PROVE
         /\ \A i \in Online!Active :
               /\ desc[users[i].socket_fd] \in {ServedBy(w) : w \in Workers} \ {NULL}
               /\ Correct(desc[users[i].socket_fd], users[i].user_id)
         /\ \A i, j \in Online!Active : users[i].socket_fd = users[j].socket_fd => i = j
    BY DEF OnlineIsConnected, LoginsOnce
  <2>1. Backed /\ Alone
    BY DEF OnlineInv
  <2>2. ASSUME NEW i \in Online!Active
        PROVE  /\ desc[users[i].socket_fd] \in {ServedBy(w) : w \in Workers} \ {NULL}
               /\ Correct(desc[users[i].socket_fd], users[i].user_id)
    <3>1. PICK v \in Workers : Backs(v, users[i].socket_fd, users[i].user_id)
      BY <2>1 DEF Backed
    <3>2. /\ desc[users[i].socket_fd] = frame[v].client
          /\ frame[v].client \in Clients /\ frame[v].client # NULL
      BY <3>1, HandlerAssumption DEF Backs, Outside, MailInv, Placed
    <3>3. QED
      BY <3>1, <3>2 DEF Backs, ServedBy, Correct
  <2>3. QED
    BY <2>1, <2>2 DEF Alone
<1>3. IdentityInv => TypeInv /\ CmdInv
  BY DEF IdentityInv
<1>4. QED
  BY InitIdentity, NextIdentity, InitMail, NextMail, NextOnline, <1>1, <1>2, <1>3, PTL DEF Spec
--------------------------------------------------------------------------------
(* The types of the rest of the state. *)

(* The login that all workers share is whole, torn or nobody's; only a      *)
(* connection that is over is reset.                                        *)
StaticsInv ==
    /\ current_user_login \in {Cut[u] : u \in Users} \cup {NULL, TORN}
    /\ client_is_websocket \in BOOLEAN /\ alive \in BOOLEAN
    /\ gone \subseteq Clients /\ reset \subseteq gone
LEMMA NextStatics ==
  ASSUME Placed, CmdInv, StaticsInv, [Next]_vars
  PROVE  StaticsInv'
<1> USE DEF StaticsInv
<1>1. ASSUME NEW f, NEW packet, Send(f, packet), UNCHANGED statics
      PROVE  StaticsInv'
  BY <1>1 DEF Send, statics, identity
<1>2. ASSUME NEW w \in Workers, SetLoginBegin(w) \/ SetLoginEnd(w) \/ ClearLogin(w)
      PROVE  StaticsInv'
  <2>1. CASE SetLoginEnd(w)
    <3>1. Cmd(w).login \in Users
      BY <2>1 DEF SetLoginEnd, At, Cmd, CmdInv, NeedsLogin
    <3>2. QED
      BY <2>1, <3>1 DEF SetLoginEnd, network
  <2>2. QED
    BY <1>2, <2>1 DEF SetLoginBegin, ClearLogin, network
<1>3. ASSUME NEW w \in Workers, Commands(w), ~Forward(w),
             ~SetLoginBegin(w), ~SetLoginEnd(w), ~ClearLogin(w)
      PROVE  UNCHANGED <<current_user_login, client_is_websocket, gone, reset, alive>>
  BY <1>3 DEF Commands, Malformed, RegisterCheck, RegisterInsert, CheckUser, History,
       Authenticate, SetId, Enter, Logout, ClearId, MsgGate, FindRecipient, FindChat,
       CreateChat, AddMembers, Store, Route, statics, identity, network
<1>4. ASSUME NEW w \in Workers, Commands(w) PROVE StaticsInv'
  <2>1. CASE Forward(w)
    BY <1>1, <2>1 DEF Forward
  <2>2. CASE ~Forward(w) /\ ~SetLoginBegin(w) /\ ~SetLoginEnd(w) /\ ~ClearLogin(w)
    BY <1>3, <1>4, <2>2
  <2>3. QED
    BY <1>2, <2>1, <2>2
<1>5. ASSUME NEW w \in Workers, Greet(w) \/ Reply(w) PROVE StaticsInv'
  BY <1>1, <1>5 DEF Greet, Reply
<1>6. ASSUME NEW w \in Workers, Leave(w) \/ Close(w) \/ Receive(w) PROVE StaticsInv'
  <2>1. CASE Close(w)
    <3>1. frame[w].client \in Clients
      BY <2>1 DEF Close, At, Placed
    <3>2. QED
      BY <2>1, <3>1 DEF Close, statics, identity
  <2>2. CASE Leave(w) \/ Receive(w)
    BY <2>2 DEF Leave, Receive, statics, identity, network
  <2>3. QED
    BY <1>6, <2>1, <2>2
<1>7. ASSUME NEW w \in Workers, NEW c \in Clients, Connect(w, c) PROVE StaticsInv'
  BY <1>7 DEF Connect, identity
<1>8. ASSUME NEW c \in Clients, HangUp(c) PROVE StaticsInv'
  BY <1>8 DEF HangUp, statics, identity
<1>9. CASE UNCHANGED vars
  BY <1>9 DEF vars, statics, identity, network
<1>10. QED
  BY <1>4, <1>5, <1>6, <1>7, <1>8, <1>9 DEF Next, Serving, Arriving

(* The count is the number of entries.                                      *)
TableCounted == count = Cardinality(Online!Active)
LEMMA SlotsFinite ==
  ASSUME NEW S \in SUBSET Online!Slots
  PROVE  /\ IsFiniteSet(S) /\ Cardinality(S) \in Nat
         /\ Cardinality(S) <= MAX_ONLINE_USERS
<1>1. MAX_ONLINE_USERS \in Nat /\ Online!Slots = 0 .. MAX_ONLINE_USERS - 1
  BY HandlerAssumption DEF Online!Slots
<1>2. IsFiniteSet(0 .. MAX_ONLINE_USERS - 1)
      /\ Cardinality(0 .. MAX_ONLINE_USERS - 1) = MAX_ONLINE_USERS
  BY <1>1, FS_Interval
<1>3. IsFiniteSet(S) /\ Cardinality(S) <= Cardinality(0 .. MAX_ONLINE_USERS - 1)
  BY <1>1, <1>2, FS_Subset
<1>4. QED
  BY <1>2, <1>3, FS_CardinalityType

LEMMA AddingCounts ==
  ASSUME TablesTyped, TableCounted,
         NEW id \in Users, NEW l \in Users, NEW fd \in Fds, Online!Add(id, l, fd)
  PROVE  TableCounted'
<1>1. CASE UNCHANGED table
  BY <1>1 DEF TableCounted, table, Online!Active
<1>2. CASE Online!AddSucceeds
  <2>1. PICK S : S = Online!Slots \ Online!Active
    OBVIOUS
  <2>2. PICK k : k = Online!FirstOf(S)
    OBVIOUS
  <2>3. k \in S
    BY <1>2, <2>1, <2>2, FirstSlot DEF Online!AddSucceeds, Online!Active
  <2>4. PICK e : e = [user_id |-> id, login |-> Cut[l], socket_fd |-> fd]
    OBVIOUS
  <2>5. users' = [users EXCEPT ![k] = e] /\ count' = count + 1
    BY <1>2, <2>1, <2>2, <2>4 DEF Online!Add
  <2>6. e # FREE
    BY <2>4, HandlerAssumption
  <2>7. users'[k] = e /\ \A i \in Online!Slots \ {k} : users'[i] = users[i]
    BY <2>1, <2>3, <2>5 DEF TablesTyped
  <2>8. PICK A, B : A = Online!Active /\ B = Online!Active'
    OBVIOUS
  <2>9. B = A \cup {k} /\ k \notin A
    BY <2>1, <2>3, <2>6, <2>7, <2>8 DEF Online!Active
  <2>10. IsFiniteSet(A)
    BY <2>8, SlotsFinite DEF Online!Active
  <2>11. Cardinality(B) = Cardinality(A) + 1
    BY <2>9, <2>10, FS_AddElement
  <2>12. QED
    BY <2>5, <2>8, <2>11 DEF TableCounted
<1>3. QED
  BY <1>1, <1>2 DEF Online!Add, Online!table, table

LEMMA RemovingCounts ==
  ASSUME TablesTyped, TableCounted, NEW fd, Online!Remove(fd)
  PROVE  TableCounted'
<1>1. CASE UNCHANGED table
  BY <1>1 DEF TableCounted, table, Online!Active
<1>2. CASE Online!SlotsOf(fd) # {}
  <2>1. PICK S : S = Online!SlotsOf(fd)
    OBVIOUS
  <2>2. PICK k : k = Online!FirstOf(S)
    OBVIOUS
  <2>3. S # {} /\ S \in SUBSET Online!Slots
    BY <1>2, <2>1 DEF Online!SlotsOf, Online!Active
  <2>4. k \in S
    BY <2>2, <2>3, FirstSlot
  <2>5. users' = [users EXCEPT ![k] = FREE] /\ count' = count - 1
    BY <1>2, <2>1, <2>2 DEF Online!Remove
  <2>6. users'[k] = FREE /\ \A i \in Online!Slots \ {k} : users'[i] = users[i]
    BY <2>3, <2>4, <2>5 DEF TablesTyped
  <2>7. PICK A, B : A = Online!Active /\ B = Online!Active'
    OBVIOUS
  <2>8. B = A \ {k} /\ k \in A
    BY <2>1, <2>4, <2>6, <2>7 DEF Online!Active, Online!SlotsOf
  <2>9. IsFiniteSet(A)
    BY <2>7, SlotsFinite DEF Online!Active
  <2>10. Cardinality(B) = Cardinality(A) - 1
    BY <2>8, <2>9, FS_RemoveElement
  <2>11. QED
    BY <2>5, <2>7, <2>10 DEF TableCounted
<1>3. QED
  BY <1>1, <1>2 DEF Online!Remove, Online!table, table

LEMMA NextCounted ==
  ASSUME TypeInv, CmdInv, TableCounted, [Next]_vars
  PROVE  TableCounted'
<1>1. CASE UNCHANGED table
  BY <1>1 DEF TableCounted, table, Online!Active
<1>2. ASSUME NEW w \in Workers, Commands(w) PROVE TableCounted'
  <2>1. CASE Enter(w)
    <3>1. PICK u, f : u = Cmd(w).login /\ f = frame[w].fd
      OBVIOUS
    <3>2. u \in Users /\ f \in Fds
      BY <2>1, <3>1 DEF Enter, At, Cmd, CmdInv, NeedsLogin
    <3>3. Online!Add(u, u, f)
      BY <2>1, <3>1 DEF Enter
    <3>4. QED
      BY <3>2, <3>3, AddingCounts DEF TypeInv
  <2>2. CASE Logout(w)
    <3>1. PICK f : f = frame[w].fd
      OBVIOUS
    <3>2. UNCHANGED table \/ Online!Remove(f)
      BY <2>2, <3>1 DEF Logout
    <3>3. QED
      BY <1>1, <3>2, RemovingCounts DEF TypeInv
  <2>3. CASE ~Enter(w) /\ ~Logout(w)
    BY <1>1, <1>2, <2>3 DEF Commands, Malformed, RegisterCheck, RegisterInsert, CheckUser,
         History, Authenticate, SetId, SetLoginBegin, SetLoginEnd, ClearId, ClearLogin,
         MsgGate, FindRecipient, FindChat, CreateChat, AddMembers, Store, Route, Forward
  <2>4. QED
    BY <2>1, <2>2, <2>3
<1>3. ASSUME NEW w \in Workers, Leave(w) PROVE TableCounted'
  <2>1. PICK f : f = frame[w].fd
    OBVIOUS
  <2>2. Online!Remove(f)
    BY <1>3, <2>1 DEF Leave, RemoveOnline
  <2>3. QED
    BY <2>2, RemovingCounts DEF TypeInv
<1>4. ASSUME NEW w \in Workers, Greet(w) \/ Reply(w) \/ Close(w) \/ Arriving(w)
      PROVE  TableCounted'
  BY <1>1, <1>4 DEF Greet, Reply, Close, Arriving, Receive, Connect
<1>5. QED
  BY <1>1, <1>2, <1>3, <1>4 DEF Next, Serving, HangUp, vars

(* Chats have only registered members, messages only chats that exist, and  *)
(* so does the chat a worker adds members to, or saves a message in.        *)
ChatsInv ==
    /\ \A i \in DOMAIN chats : chats[i] \subseteq Registered
    /\ \A i \in DOMAIN messages : messages[i].chat \in DOMAIN chats
    /\ \A w \in Workers : pc[w] \in {"members", "save"} => frame[w].chat \in DOMAIN chats

(* Steps that leave the two tables alone.                                   *)
LEMMA ChatsUntouched ==
  ASSUME ChatsInv, AccountsKept, UNCHANGED <<chats, messages>>, NEW w \in Workers, Turn(w),
         pc'[w] \in {"members", "save"} => frame'[w].chat \in DOMAIN chats
  PROVE  ChatsInv'
<1>1. Registered \subseteq Registered'
  BY DEF AccountsKept, Registered
<1>2. \A v \in Workers : pc'[v] \in {"members", "save"} => frame'[v].chat \in DOMAIN chats
  BY DEF Turn, ChatsInv
<1>3. QED
  BY <1>1, <1>2 DEF ChatsInv

(* A number that is fetched is in the frame.                                *)
LEMMA Fetched ==
  ASSUME ControlTyped, NEW w \in Workers, NEW value, NEW point, Fetch(w, "chat", value, point)
  PROVE  /\ pc'[w] = point /\ frame'[w].chat = value
         /\ \A v \in Workers \ {w} : pc'[v] = pc[v] /\ frame'[v] = frame[v]
<1>1. frame[w] \in Frames
  BY DEF ControlTyped
<1>2. /\ frame'[w] = [frame[w] EXCEPT !.chat = value]
      /\ \A v \in Workers \ {w} : frame'[v] = frame[v]
  BY DEF Fetch, ControlTyped
<1>3. frame'[w].chat = value
  BY <1>1, <1>2 DEF Frames
<1>4. QED
  BY <1>2, <1>3 DEF Fetch, Goto, ControlTyped

(* The steps of handle_msg between the lookup and the acknowledgment.       *)
LEMMA MessagingKeepsChats ==
  ASSUME TypeInv, ChatsInv, AccountsKept, NEW w \in Workers,
         FindChat(w) \/ CreateChat(w) \/ AddMembers(w) \/ Store(w)
  PROVE  ChatsInv'
<1>1. chats \in Seq(SUBSET Users) /\ messages \in Seq(Message)
  BY DEF TypeInv, TablesTyped
<1>2. CASE FindChat(w)
  <2>1. \/ \E id \in PrivateChats(current_user_id, Cmd(w).login) : Fetch(w, "chat", id, "save")
        \/ Fetch(w, "chat", -1, "new_chat")
    BY <1>2 DEF FindChat
  <2>2. PICK n, b : /\ Fetch(w, "chat", n, b)
                    /\ b \in {"members", "save"} => n \in DOMAIN chats
    BY <2>1 DEF PrivateChats
  <2>3. UNCHANGED <<chats, messages>>
    BY <1>2 DEF FindChat, tables
  <2>4. QED
    BY <2>2, <2>3, Fetched, ChatsUntouched DEF Turn, TypeInv
<1>3. CASE CreateChat(w)
  <2>1. CASE Answer(w, "error", NULL) /\ StatementFails
    BY <2>1, ChatsUntouched DEF StatementFails, tables, Answer, Goto, Turn, TypeInv, ControlTyped
  <2>2. CASE InsertChat /\ Fetch(w, "chat", Len(chats) + 1, "members")
    <3>1. PICK n : n = Len(chats) + 1
      OBVIOUS
    <3>2. /\ DOMAIN chats' = DOMAIN chats \cup {n} /\ chats'[n] = {}
          /\ \A i \in DOMAIN chats : chats'[i] = chats[i]
      BY <1>1, <2>2, <3>1 DEF InsertChat
    <3>3. UNCHANGED <<accounts, messages>>
      BY <2>2 DEF InsertChat
    <3>4. Fetch(w, "chat", n, "members")
      BY <2>2, <3>1
    <3>5. /\ frame'[w].chat = n
          /\ \A v \in Workers \ {w} : pc'[v] = pc[v] /\ frame'[v] = frame[v]
      BY <3>4, Fetched DEF TypeInv
    <3>6. QED
      BY <3>2, <3>3, <3>5 DEF ChatsInv, Registered
  <2>3. QED
    BY <1>3, <2>1, <2>2 DEF CreateChat
<1>4. CASE AddMembers(w)
  <2>1. /\ pc[w] = "members" /\ UNCHANGED frame
        /\ \A v \in Workers \ {w} : pc'[v] = pc[v]
    BY <1>4 DEF AddMembers, At, Goto, TypeInv, ControlTyped
  <2>2. frame'[w].chat \in DOMAIN chats
    BY <2>1 DEF ChatsInv
  <2>3. CASE UNCHANGED tables
    BY <2>1, <2>2, <2>3, ChatsUntouched DEF tables, Turn
  <2>4. CASE InsertMembers(frame[w].chat, current_user_id, Cmd(w).login)
    <3>1. PICK id, M : id = frame[w].chat /\ M = {current_user_id, Cmd(w).login}
      OBVIOUS
    <3>2. \/ chats' = chats
          \/ chats' = [chats EXCEPT ![id] = M] /\ M \subseteq Registered
      BY <2>4, <3>1 DEF InsertMembers
    <3>3. /\ DOMAIN chats' = DOMAIN chats
          /\ \A i \in DOMAIN chats : chats'[i] = chats[i] \/ (chats'[i] = M /\ M \subseteq Registered)
      BY <3>2
    <3>4. UNCHANGED <<accounts, messages>>
      BY <2>4 DEF InsertMembers
    <3>5. QED
      BY <2>1, <2>2, <3>3, <3>4 DEF ChatsInv, Registered
  <2>5. QED
    BY <1>4, <2>3, <2>4 DEF AddMembers, StatementFails
<1>5. CASE Store(w)
  <2>1. pc[w] = "save" /\ frame[w].chat \in DOMAIN chats
    BY <1>5 DEF Store, At, ChatsInv
  <2>2. pc'[w] = "reply" /\ \A v \in Workers \ {w} : pc'[v] = pc[v] /\ frame'[v] = frame[v]
    BY <1>5 DEF Store, SaveMessage, Save, Answer, Goto, TypeInv, ControlTyped
  <2>3. CASE UNCHANGED tables
    BY <2>2, <2>3, ChatsUntouched DEF tables, Turn
  <2>4. CASE InsertMessage([sender |-> current_user_id, chat |-> frame[w].chat,
                            text |-> frame[w].text])
    <3>1. PICK m : /\ m = [sender |-> current_user_id, chat |-> frame[w].chat,
                           text |-> frame[w].text]
                   /\ InsertMessage(m)
      BY <2>4
    <3>2. m \in Message
      BY <3>1 DEF Message, InsertMessage, Registered, TypeInv, ControlTyped, Frames
    <3>3. messages' = Append(messages, m) /\ UNCHANGED <<accounts, chats>>
      BY <3>1 DEF InsertMessage
    <3>4. \A i \in DOMAIN messages' : messages'[i] = m \/ (i \in DOMAIN messages /\ messages'[i] = messages[i])
      BY <1>1, <3>2, <3>3
    <3>5. m.chat \in DOMAIN chats
      BY <2>1, <3>1
    <3>6. QED
      BY <2>2, <3>3, <3>4, <3>5 DEF ChatsInv, Registered
  <2>5. QED
    BY <1>5, <2>3, <2>4 DEF Store, SaveMessage, Save
<1>6. QED
  BY <1>2, <1>3, <1>4, <1>5

(* Reading a command leads to the start of its handler.                     *)
LEMMA ReadsACommand ==
  ASSUME TypeInv, CmdInv, NEW w \in Workers, Receive(w)
  PROVE  pc'[w] \in {"REGISTER", "LOGIN", "MSG", "CHECK_USER", "HISTORY", "LOGOUT", "BAD"}
<1>1. PICK c, n : c = frame[w].client /\ n = issued[c] + 1
  OBVIOUS
<1>2. c \in Clients /\ n \in Nat \ {0} /\ n <= Len(Script[c])
  <2>1. c \in Clients
    BY <1>1 DEF Receive, At, CmdInv
  <2>2. issued[c] \in Nat
    BY <2>1 DEF TypeInv, HistoryTyped
  <2>3. n <= Len(Script[c])
    BY <1>1 DEF Receive
  <2>4. QED
    BY <1>1, <2>1, <2>2, <2>3
<1>3. Script[c] \in Seq(SUBSET Command)
  BY <1>2, HandlerAssumption
<1>4. Script[c][n] \in SUBSET Command
  <2>1. n \in 1..Len(Script[c])
    BY <1>2, <1>3
  <2>2. QED
    BY <1>3, <2>1
<1>5. PICK command \in Script[c][n] : Goto(w, command.op)
  BY <1>1 DEF Receive
<1>6. command.op \in {"REGISTER", "LOGIN", "MSG", "CHECK_USER", "HISTORY", "LOGOUT", "BAD"}
  BY <1>4, <1>5 DEF Command
<1>7. QED
  BY <1>5, <1>6 DEF Goto, TypeInv, ControlTyped

LEMMA NextChats ==
  ASSUME TypeInv, CmdInv, ChatsInv, [Next]_vars
  PROVE  ChatsInv'
<1>1. AccountsKept
  BY AccountsStay
<1>2. ASSUME NEW w \in Workers, NEW b \in Points \ {"members", "save"}, Goto(w, b),
             UNCHANGED <<chats, messages>>,
             \A v \in Workers \ {w} : frame'[v] = frame[v]
      PROVE  ChatsInv'
  BY <1>1, <1>2, ChatsUntouched DEF Goto, Turn, TypeInv, ControlTyped
<1> DEFINE Elsewhere(w) == /\ \E b \in Points \ {"members", "save"} : Goto(w, b)
                           /\ \A v \in Workers \ {w} : frame'[v] = frame[v]
<1>3. ASSUME NEW w \in Workers, Commands(w),
             ~FindChat(w), ~CreateChat(w), ~AddMembers(w), ~Store(w)
      PROVE  ChatsInv'
  <2>1. UNCHANGED <<chats, messages>>
    BY <1>3 DEF Commands, Malformed, RegisterCheck, RegisterInsert, CheckUser, History,
         Authenticate, SetId, SetLoginBegin, SetLoginEnd, Enter, Logout, ClearId, ClearLogin,
         MsgGate, FindRecipient, Route, Forward, InsertUser, tables
  <2>2. Elsewhere(w)
    <3>1. CASE \/ Malformed(w) \/ RegisterCheck(w) \/ RegisterInsert(w) \/ CheckUser(w)
               \/ History(w) \/ Authenticate(w) \/ Logout(w) \/ ClearLogin(w)
               \/ MsgGate(w) \/ FindRecipient(w)
      BY <3>1 DEF Malformed, RegisterCheck, RegisterInsert, CheckUser, History, Authenticate,
           Logout, ClearLogin, MsgGate, FindRecipient, Points, Answer, TypeInv, ControlTyped
    <3>2. CASE \/ SetId(w) \/ SetLoginBegin(w) \/ SetLoginEnd(w) \/ ClearId(w)
               \/ Enter(w) \/ Route(w) \/ Forward(w)
      BY <3>2 DEF SetId, SetLoginBegin, SetLoginEnd, ClearId, Enter, Route, Forward, Done, Points,
           Fetch, Answer, TypeInv, ControlTyped
    <3>3. QED
      BY <1>3, <3>1, <3>2 DEF Commands
  <2>3. QED
    BY <1>2, <2>1, <2>2
<1>4. ASSUME NEW w \in Workers, Greet(w) \/ Reply(w) \/ Leave(w) \/ Close(w)
      PROVE  ChatsInv'
  <2>1. UNCHANGED <<chats, messages>>
    BY <1>4 DEF Greet, Reply, Leave, Close, tables
  <2>2. Elsewhere(w)
    BY <1>4 DEF Greet, Reply, Leave, Close, Points, TypeInv, ControlTyped
  <2>3. QED
    BY <1>2, <2>1, <2>2
<1>5. ASSUME NEW w \in Workers, NEW c \in Clients, Connect(w, c)
      PROVE  ChatsInv'
  <2>1. UNCHANGED <<chats, messages>> /\ Goto(w, "greet")
        /\ \A v \in Workers \ {w} : frame'[v] = frame[v]
    BY <1>5 DEF Connect, tables, TypeInv, ControlTyped
  <2>2. QED
    BY <1>2, <2>1 DEF Points
<1>6. ASSUME NEW w \in Workers, Receive(w) PROVE ChatsInv'
  <2>1. Turn(w) /\ UNCHANGED <<chats, messages>>
    BY <1>6 DEF Receive, Turn, Goto, tables, TypeInv, ControlTyped
  <2>2. pc'[w] \notin {"members", "save"}
    BY <1>6, ReadsACommand
  <2>3. QED
    BY <1>1, <2>1, <2>2, ChatsUntouched
<1>7. CASE UNCHANGED <<tables, pc, frame>>
  BY <1>7 DEF ChatsInv, Registered, tables
<1>8. QED
  BY <1>3, MessagingKeepsChats, <1>1, <1>4, <1>5, <1>6, <1>7
     DEF Next, Serving, Arriving, HangUp, vars

(* A worker without a client has a clean frame.                             *)
IdleInv == \A w \in Workers : pc[w] = "idle" => frame[w] = NoFrame
LEMMA NextIdle ==
  ASSUME MailInv, TypeInv, CmdInv, IdleInv, [Next]_vars
  PROVE  IdleInv'
<1>1. ASSUME NEW w \in Workers, Turn(w), pc'[w] # "idle" PROVE IdleInv'
  BY <1>1 DEF IdleInv, Turn
<1>2. ASSUME NEW w \in Workers, Commands(w) PROVE IdleInv'
  <2>1. CASE Progress(w)
    BY <1>1, <2>1 DEF Progress, GoesOn, SameCommand, SameClient
  <2>2. CASE StoresIt(w)
    BY <1>1, <2>2 DEF StoresIt, Answer, Goto, Turn, TypeInv, ControlTyped
  <2>3. CASE Route(w)
    BY <1>1, <2>3, PassingMoves DEF GoesOn
  <2>4. CASE Forward(w)
    BY <1>1, <2>4 DEF Forward, Done, Goto, Turn, TypeInv, ControlTyped
  <2>5. QED
    BY <1>2, <2>1, <2>2, <2>3, <2>4, CommandProgress DEF TypeInv
<1>3. ASSUME NEW w \in Workers, Greet(w) \/ Reply(w) \/ Leave(w) PROVE IdleInv'
  BY <1>1, <1>3 DEF Greet, Reply, Leave, Goto, Turn, TypeInv, ControlTyped
<1>4. ASSUME NEW w \in Workers, NEW c \in Clients, Connect(w, c) PROVE IdleInv'
  BY <1>1, <1>4 DEF Connect, Goto, Turn, TypeInv, ControlTyped
<1>5. ASSUME NEW w \in Workers, Receive(w) PROVE IdleInv'
  BY <1>1, <1>5, ReceiveReads DEF Reads, Busy
<1>6. ASSUME NEW w \in Workers, Close(w) PROVE IdleInv'
  BY <1>6 DEF Close, Goto, IdleInv, TypeInv, ControlTyped
<1>7. CASE UNCHANGED <<pc, frame>>
  BY <1>7 DEF IdleInv
<1>8. QED
  BY <1>2, <1>3, <1>4, <1>5, <1>6, <1>7 DEF Next, Serving, Arriving, HangUp, vars

(* Nobody but a registered user is ever in a chat, an entry of the table or *)
(* current_user_id; the count is a number of slots; a worker that serves a  *)
(* client holds his descriptor, saves in a chat that exists, and forwards   *)
(* to a descriptor (the locals of handle_client and handle_msg).            *)
THEOREM HandlerTyped == Spec => []HandlerTypeOK
<1> DEFINE RestInv == StaticsInv /\ TableCounted /\ ChatsInv /\ IdleInv
<1>1. Init => RestInv
  <2> SUFFICES ASSUME Init PROVE RestInv
    OBVIOUS
  <2>1. StaticsInv
    BY DEF Init, StaticsInv
  <2>2. Online!Active = {} /\ count = 0
    BY DEF Init, Online!InitTable, Online!Active
  <2>3. TableCounted
    BY <2>2, FS_EmptySet DEF TableCounted
  <2>4. ChatsInv
    BY DEF Init, InitTables, ChatsInv
  <2>5. IdleInv
    BY DEF Init, IdleInv
  <2>6. QED
    BY <2>1, <2>3, <2>4, <2>5
<1>2. MailInv /\ TypeInv /\ CmdInv /\ RestInv /\ [Next]_vars => RestInv'
  BY NextStatics, NextCounted, NextChats, NextIdle DEF MailInv
<1>3. MailInv /\ IdentityInv /\ RestInv => HandlerTypeOK
  <2> SUFFICES ASSUME MailInv, IdentityInv, RestInv PROVE HandlerTypeOK
    OBVIOUS
  <2>1. current_user_id \in Registered \cup {NULL}
    BY DEF IdentityInv, ActorsAuthenticated, Proven, Correct
  <2>2. Online!TableTypeOK
    <3>1. Online!Session = Entry
      <4>1. PICK Pairs : Pairs = {<<u, u>> : u \in Users}
        OBVIOUS
      <4>2. ASSUME NEW u \in Users PROVE \E a \in Pairs : a[1] = u /\ a[2] = u
        <5>1. <<u, u>> \in Pairs
          BY <4>1
        <5>2. PICK a \in Pairs : a = <<u, u>>
          BY <5>1
        <5>3. QED
          BY <5>2
      <4>3. \A a \in Pairs : a[1] \in Users /\ a[2] \in Users
        BY <4>1
      <4>4. {a[1] : a \in Pairs} = Users /\ {a[2] : a \in Pairs} = Users
        BY <4>2, <4>3
      <4>5. Online!UserIds = Users /\ Online!Logins = Users
        BY <4>1, <4>4 DEF Online!UserIds, Online!Logins
      <4>6. QED
        BY <4>5 DEF Online!Session, Entry
    <3>2. users \in [Online!Slots -> Online!Session \cup {FREE}]
      BY <3>1 DEF IdentityInv, TypeInv, TablesTyped
    <3>3. Cardinality(Online!Active) \in Nat /\ Cardinality(Online!Active) <= MAX_ONLINE_USERS
      BY SlotsFinite DEF Online!Active
    <3>4. count \in 0 .. MAX_ONLINE_USERS
      BY <3>3, HandlerAssumption DEF TableCounted
    <3>5. QED
      BY <3>2, <3>4 DEF Online!TableTypeOK
  <2>3. ASSUME NEW w \in Workers
        PROVE  /\ At(w, "idle") => frame[w] = NoFrame
               /\ ~At(w, "idle") => desc[frame[w].fd] = ServedBy(w)
               /\ pc[w] \in {"members", "save"} => frame[w].chat \in DOMAIN chats
               /\ At(w, "forward") => frame[w].rfd \in Fds
    BY DEF IdleInv, ChatsInv, MailInv, Placed, At, ServedBy
  <2>4. desc \in [Fds -> Clients \cup {NULL}]
    BY DEF MailInv, Placed
  <2>5. QED
    BY <2>1, <2>2, <2>3, <2>4 DEF HandlerTypeOK, StaticsInv, ChatsInv
<1>4. IdentityInv => TypeInv /\ CmdInv
  BY DEF IdentityInv
<1>5. QED
  BY InitIdentity, NextIdentity, InitMail, NextMail, <1>1, <1>2, <1>3, <1>4, PTL DEF Spec
--------------------------------------------------------------------------------
(* The handlers implement Mail.  A command that is not answered yet, or has *)
(* been refused, has left no message: the names of the messages tell their  *)
(* commands apart, and a number is never given twice.                       *)
Unkept(w) == \A m \in DOMAIN messages : Named(messages[m].text) # Named(frame[w].text)
Refusing(w) == pc[w] = "reply" /\ frame[w].answer.what # "sent"
NameInv == \A w \in Workers : pc[w] \in Busy \/ Refusing(w) => Unkept(w)

(* Who was without a message stays so while nothing is stored.              *)
LEMMA NamesStay ==
  ASSUME NameInv, UNCHANGED messages,
         \A v \in Workers : pc'[v] \in Busy \/ Refusing(v)' =>
             (pc[v] \in Busy \/ Refusing(v)) /\ frame'[v].text = frame[v].text
  PROVE  NameInv'
  BY DEF NameInv, Unkept

(* A stored message has the name of its own command only.                   *)
LEMMA StoringNames ==
  ASSUME MailInv, TypeInv, NameInv, NEW w \in Workers, StoresIt(w)
  PROVE  NameInv'
<1>1. PICK text : text = frame[w].text
  OBVIOUS
<1>2. /\ messages \in Seq(Message) /\ Len(messages) \in Nat
      /\ DOMAIN messages = 1..Len(messages)
  BY DEF TypeInv, TablesTyped
<1>3. \A m \in DOMAIN messages' : \/ m \in DOMAIN messages /\ messages'[m] = messages[m]
                                  \/ messages'[m].text = text
  <2>1. PICK message : message = [sender |-> current_user_id, chat |-> frame[w].chat,
                                  text |-> text]
    OBVIOUS
  <2>2. messages' = Append(messages, message)
    BY <1>1, <2>1 DEF StoresIt, InsertMessage
  <2>3. \A m \in 1..(Len(messages) + 1) :
           messages'[m] = IF m = Len(messages) + 1 THEN message ELSE messages[m]
    BY <1>2, <2>2
  <2>4. DOMAIN messages' = 1..(Len(messages) + 1)
    BY <1>2, <2>2
  <2>5. message.text = text
    BY <2>1
  <2>6. QED
    BY <1>2, <2>3, <2>4, <2>5
<1>4. /\ pc'[w] = "reply" /\ frame'[w].answer.what = "sent"
      /\ \A v \in Workers \ {w} : pc'[v] = pc[v] /\ frame'[v] = frame[v]
  <2>1. PICK answer : answer = [what |-> "sent", ref |-> Len(messages) + 1]
    OBVIOUS
  <2>2. /\ frame' = [frame EXCEPT ![w].answer = answer] /\ pc' = [pc EXCEPT ![w] = "reply"]
        /\ frame[w] \in Frames
    BY <2>1 DEF StoresIt, Answer, Goto, TypeInv, ControlTyped
  <2>3. frame'[w].answer = answer
    BY <2>2 DEF Frames, TypeInv, ControlTyped
  <2>4. QED
    BY <2>1, <2>2, <2>3 DEF TypeInv, ControlTyped
<1>5. pc[w] = "save" /\ text.by = frame[w].client /\ frame[w].client \in Clients
  BY <1>1 DEF StoresIt, At, MailInv, TextInv, Placed, Busy
<1>6. ASSUME NEW v \in Workers, pc'[v] \in Busy \/ Refusing(v)'
      PROVE  Unkept(v)'
  <2>1. v # w
    BY <1>4, <1>6 DEF Refusing, Busy
  <2>2. pc'[v] = pc[v] /\ frame'[v] = frame[v]
    BY <1>4, <2>1
  <2>3. Unkept(v)
    BY <1>6, <2>2 DEF NameInv, Refusing
  <2>4. frame[v].text.by = frame[v].client
    BY <1>6, <2>2 DEF MailInv, TextInv, Refusing
  <2>5. frame[v].client # frame[w].client
    BY <1>5, <2>1, HandlerAssumption DEF MailInv, Placed
  <2>6. Named(text) # Named(frame[v].text)
    BY <1>5, <2>4, <2>5 DEF Named
  <2>7. QED
    BY <1>3, <2>2, <2>3, <2>6 DEF Unkept
<1>7. QED
  BY <1>6 DEF NameInv

LEMMA NextNames ==
  ASSUME MailInv, TypeInv, NameInv, [Next]_vars
  PROVE  NameInv'
<1>1. ASSUME NEW w \in Workers, Commands(w) PROVE NameInv'
  <2>1. CASE Progress(w) /\ Silent
    BY <2>1, NamesStay DEF Progress, GoesOn, Turn, SameCommand, Silent, Refusing
  <2>2. CASE Route(w)
    <3>1. GoesOn(w) /\ Silent /\ pc'[w] \in {"forward", "loop", "close"}
      BY <2>2, PassingMoves
    <3>2. QED
      BY <3>1, NamesStay DEF GoesOn, Turn, Silent, Refusing, Busy
  <2>3. CASE Forward(w)
    BY <2>3, NamesStay DEF Forward, Done, Goto, tables, Refusing, Busy, TypeInv, ControlTyped
  <2>4. QED
    BY <1>1, <2>1, <2>2, <2>3, CommandProgress, StoringNames DEF TypeInv
<1>2. ASSUME NEW w \in Workers, Greet(w) \/ Reply(w) \/ Leave(w) PROVE NameInv'
  BY <1>2, NamesStay DEF Greet, Reply, Leave, Goto, tables, Refusing, Busy, TypeInv, ControlTyped
<1>3. ASSUME NEW w \in Workers, Close(w) PROVE NameInv'
  BY <1>3, NamesStay DEF Close, Goto, tables, Refusing, Busy, TypeInv, ControlTyped
<1>4. ASSUME NEW w \in Workers, NEW c \in Clients, Connect(w, c) PROVE NameInv'
  BY <1>4, NamesStay DEF Connect, Goto, tables, Refusing, Busy, TypeInv, ControlTyped
<1>5. ASSUME NEW w \in Workers, Receive(w) PROVE NameInv'
  <2>1. PICK text : Reads(w, text)
    BY <1>5, ReceiveReads
  <2>2. \A v \in Workers \ {w} : pc'[v] = pc[v] /\ frame'[v] = frame[v]
    BY <2>1 DEF Reads, Turn
  <2>3. UNCHANGED messages
    BY <2>1 DEF Reads
  <2>4. ASSUME NEW m \in DOMAIN messages PROVE Named(messages[m].text) # Named(text)
    <3>1. messages[m].text.nth <= issued[messages[m].text.by] /\ messages[m].text \in Texts
      BY DEF MailInv, StoreInv
    <3>2. text.nth = issued[text.by] + 1 /\ text \in Texts /\ issued[text.by] \in Nat
      BY <2>1 DEF Reads, Texts, TypeInv, HistoryTyped
    <3>3. messages[m].text.nth \in Nat /\ text.nth \in Nat
      BY <3>1, <3>2 DEF Texts
    <3>4. messages[m].text.by = text.by => messages[m].text.nth # text.nth
      BY <3>1, <3>2, <3>3
    <3>5. QED
      BY <3>4 DEF Named
  <2>5. Unkept(w)'
    BY <2>1, <2>3, <2>4 DEF Unkept, Reads
  <2>6. \A v \in Workers \ {w} : Unkept(v)' <=> Unkept(v)
    BY <2>2, <2>3 DEF Unkept
  <2>7. QED
    BY <2>2, <2>5, <2>6 DEF NameInv, Refusing
<1>6. CASE UNCHANGED <<messages, pc, frame>>
  BY <1>6, NamesStay DEF Refusing
<1>7. QED
  BY <1>1, <1>2, <1>3, <1>4, <1>5, <1>6 DEF Next, Serving, Arriving, HangUp, vars, tables
--------------------------------------------------------------------------------
(* The state of the service as Mail sees it.                                *)
Stages == [c \in Clients |-> Stage(c)]
Kept   == [i \in DOMAIN messages |-> Named(messages[i].text)]
Told   == [c \in Clients |-> [i \in DOMAIN sent[c] |-> Heard(sent[c][i])]]

(* Where a client is follows from his worker, and without one from whether  *)
(* he has left.                                                             *)
LEMMA StageServed ==
  ASSUME Placed, NEW w \in Workers, pc[w] # "idle"
  PROVE  Stage(frame[w].client) = StageAt(pc[w])
<1>1. PICK c : c = frame[w].client
  OBVIOUS
<1>2. c \in Clients /\ c # NULL
  BY <1>1, HandlerAssumption DEF Placed
<1>3. \A v \in Workers : frame[v].client = c <=> v = w
  BY <1>1, <1>2 DEF Placed
<1>4. PointsOf(c) = {pc[w]}
  BY <1>3 DEF PointsOf, ServedBy
<1>5. (CHOOSE point \in {pc[w]} : TRUE) = pc[w]
  OBVIOUS
<1>6. QED
  BY <1>1, <1>4, <1>5 DEF Stage

LEMMA StageServedNext ==
  ASSUME Placed', NEW w \in Workers, pc'[w] # "idle"
  PROVE  Stage(frame[w].client)' = StageAt(pc'[w])
<1>1. PICK c : c = frame'[w].client
  OBVIOUS
<1>2. c \in Clients /\ c # NULL
  BY <1>1, HandlerAssumption DEF Placed
<1>3. \A v \in Workers : frame'[v].client = c <=> v = w
  BY <1>1, <1>2 DEF Placed
<1>4. PointsOf(c)' = {pc'[w]}
  BY <1>3 DEF PointsOf, ServedBy
<1>5. PointsOf(frame[w].client)' = {pc'[w]}
  BY <1>1, <1>4 DEF PointsOf, ServedBy
<1>6. (CHOOSE point \in {pc'[w]} : TRUE) = pc'[w]
  OBVIOUS
<1>7. QED
  BY <1>5, <1>6 DEF Stage

(* A step of a worker that keeps its client moves that client only.         *)
LEMMA StageMoves ==
  ASSUME Placed, Placed', NEW w \in Workers, Turn(w), SameClient(w), UNCHANGED gone
  PROVE  LET c == frame[w].client
         IN  /\ c \in Clients /\ Stages[c] = StageAt(pc[w])
             /\ Stages' = [Stages EXCEPT ![c] = StageAt(pc'[w])]
<1>1. PICK c : c = frame[w].client
  OBVIOUS
<1>2. c \in Clients /\ pc[w] # "idle" /\ pc'[w] # "idle" /\ frame'[w].client = c
  BY <1>1 DEF Placed, SameClient
<1>3. Stage(c) = StageAt(pc[w])
  BY <1>1, <1>2, StageServed
<1>4. Stage(c)' = StageAt(pc'[w])
  <2>1. Stage(frame[w].client)' = StageAt(pc'[w])
    BY <1>2, StageServedNext
  <2>2. QED
    BY <1>2, <2>1 DEF Stage, PointsOf, ServedBy
<1>5. ASSUME NEW d \in Clients, d # c
      PROVE  Stage(d)' = Stage(d)
  <2>1. \A v \in Workers : \/ v = w /\ frame[v].client # d /\ frame'[v].client # d
                           \/ pc'[v] = pc[v] /\ frame'[v] = frame[v]
    BY <1>1, <1>2, <1>5 DEF Turn
  <2>2. PointsOf(d)' = PointsOf(d)
    BY <2>1 DEF PointsOf, ServedBy
  <2>3. QED
    BY <2>2 DEF Stage
<1>6. Stages' = [Stages EXCEPT ![c] = StageAt(pc'[w])]
  BY <1>2, <1>4, <1>5 DEF Stages
<1>7. Stages[c] = StageAt(pc[w])
  BY <1>2, <1>3 DEF Stages
<1>8. QED
  BY <1>1, <1>2, <1>6, <1>7

(* So it is Mail's Passes.                                                  *)
LEMMA StagePasses ==
  ASSUME Placed, Placed', NEW w \in Workers, Turn(w), SameClient(w), UNCHANGED gone,
         NEW c, c = frame[w].client, NEW a, NEW b, a = StageAt(pc[w]), b = StageAt(pc'[w])
  PROVE  c \in Clients /\ Stages[c] = a /\ MailService!Passes(c, a, b)
  BY StageMoves DEF MailService!Passes, Stages

(* A mapped sequence grows as the sequence does.                            *)
Lists(s, n) == s = [i \in 1..n |-> s[i]]
LEMMA MapAppend ==
  ASSUME NEW s, NEW t, NEW e, NEW n \in Nat, Lists(s, n), Lists(t, n + 1),
         \A i \in 1..n : t[i] = s[i], t[n + 1] = e
  PROVE  t = Append(s, e)
<1>1. PICK S : S = {t[i] : i \in 1..(n + 1)}
  OBVIOUS
<1>2. \A i \in 1..(n + 1) : t[i] \in S
  BY <1>1
<1>3. \A i \in 1..n : s[i] \in S
  <2>1. \A i \in 1..n : i \in 1..(n + 1)
    OBVIOUS
  <2>2. QED
    BY <1>2, <2>1
<1>4. e \in S
  <2>1. n + 1 \in 1..(n + 1)
    OBVIOUS
  <2>2. QED
    BY <1>2, <2>1
<1>5. s \in [1..n -> S]
  BY <1>3, Zenon DEF Lists
<1>6. s \in Seq(S) /\ Len(s) = n
  BY <1>5
<1>7. PICK u : u = Append(s, e)
  OBVIOUS
<1>8. u \in Seq(S) /\ Len(u) = n + 1 /\ (\A i \in 1..n : u[i] = s[i]) /\ u[n + 1] = e
  BY <1>4, <1>6, <1>7
<1>9. u \in [1..(n + 1) -> S]
  BY <1>8
<1>10. u = [i \in 1..(n + 1) |-> u[i]]
  BY <1>9
<1>11. \A i \in 1..(n + 1) : t[i] = u[i]
  <2>1. \A i \in 1..(n + 1) : i \in 1..n \/ i = n + 1
    OBVIOUS
  <2>2. QED
    BY <1>8, <2>1, Zenon
<1>12. t = u
  BY <1>10, <1>11, Zenon DEF Lists
<1>13. QED
  BY <1>7, <1>12

(* A packet that is added is told.                                          *)
LEMMA AddedIsTold ==
  ASSUME SentTyped, NEW c \in Clients, NEW packet, Adds(c, packet)
  PROVE  Told' = [Told EXCEPT ![c] = Append(@, Heard(packet))]
<1>1. PICK n : n = Len(sent[c])
  OBVIOUS
<1>2. /\ n \in Nat /\ DOMAIN sent[c] = 1..n /\ DOMAIN sent'[c] = 1..(n + 1)
      /\ sent'[c][n + 1] = packet /\ \A i \in 1..n : sent'[c][i] = sent[c][i]
  BY <1>1, HandlerAssumption DEF Adds, Added
<1>3. PICK s : s = [i \in DOMAIN sent[c] |-> Heard(sent[c][i])]
  OBVIOUS
<1>4. PICK t : t = [i \in DOMAIN sent'[c] |-> Heard(sent'[c][i])]
  OBVIOUS
<1>5. PICK e : e = Heard(packet)
  OBVIOUS
<1>6. Lists(s, n) /\ Lists(t, n + 1)
  <2>1. s = [i \in 1..n |-> Heard(sent[c][i])]
    BY <1>2, <1>3
  <2>2. t = [i \in 1..(n + 1) |-> Heard(sent'[c][i])]
    BY <1>2, <1>4
  <2>3. QED
    BY <2>1, <2>2, Zenon DEF Lists
<1>7. t = Append(s, e)
  <2>1. \A i \in 1..n : i \in 1..(n + 1)
    BY <1>2
  <2>2. n + 1 \in 1..(n + 1)
    BY <1>2
  <2>3. \A i \in 1..n : t[i] = s[i]
    BY <1>2, <1>3, <1>4, <2>1
  <2>4. t[n + 1] = e
    BY <1>2, <1>4, <1>5, <2>2
  <2>5. n \in Nat
    BY <1>2
  <2>6. QED
    BY <1>6, <2>3, <2>4, <2>5, MapAppend
<1>8. ASSUME NEW d \in Clients, d # c
      PROVE  [i \in DOMAIN sent'[d] |-> Heard(sent'[d][i])]
                 = [i \in DOMAIN sent[d] |-> Heard(sent[d][i])]
  BY <1>8 DEF Adds
<1>9. Told[c] = s
  BY <1>3 DEF Told
<1>10. Told' = [d \in Clients |-> IF d = c THEN t ELSE Told[d]]
  BY <1>4, <1>8 DEF Told, Heard
<1>11. Told' = [Told EXCEPT ![c] = t]
  BY <1>10 DEF Told
<1>12. QED
  BY <1>5, <1>7, <1>9, <1>11 DEF Told
(* A message that is stored is kept.                                        *)
LEMMA StoredIsKept ==
  ASSUME messages \in Seq(Message), NEW message, messages' = Append(messages, message)
  PROVE  Kept' = Append(Kept, Named(message.text))
<1>1. PICK n : n = Len(messages)
  OBVIOUS
<1>2. /\ n \in Nat /\ DOMAIN messages = 1..n /\ DOMAIN messages' = 1..(n + 1)
      /\ messages'[n + 1] = message /\ \A i \in 1..n : messages'[i] = messages[i]
  BY <1>1
<1>3. PICK e : e = Named(message.text)
  OBVIOUS
<1>4. Lists(Kept, n) /\ Lists(Kept', n + 1)
  <2>1. Kept = [i \in 1..n |-> Named(messages[i].text)]
    BY <1>2 DEF Kept
  <2>2. Kept' = [i \in 1..(n + 1) |-> Named(messages'[i].text)]
    BY <1>2 DEF Kept, Named
  <2>3. QED
    BY <2>1, <2>2, Zenon DEF Lists
<1>5. \A i \in 1..n : Kept'[i] = Kept[i]
  <2>1. \A i \in 1..n : i \in 1..(n + 1)
    BY <1>2
  <2>2. QED
    BY <1>2, <2>1 DEF Kept, Named
<1>6. Kept'[n + 1] = e
  <2>1. n + 1 \in 1..(n + 1)
    BY <1>2
  <2>2. QED
    BY <1>2, <1>3, <2>1 DEF Kept, Named
<1>7. PICK s, t : s = Kept /\ t = Kept'
  OBVIOUS
<1>8. n \in Nat
  BY <1>2
<1>9. t = Append(s, e)
  <2>1. Lists(s, n) /\ Lists(t, n + 1)
    BY <1>4, <1>7
  <2>2. (\A i \in 1..n : t[i] = s[i]) /\ t[n + 1] = e
    BY <1>5, <1>6, <1>7
  <2>3. QED
    BY <1>8, <2>1, <2>2, MapAppend
<1>10. QED
  BY <1>3, <1>7, <1>9

(* A step that changes nothing of this is none of Mail.                     *)
LEMMA NothingHappens ==
  ASSUME UNCHANGED <<Stages, messages, sent, issued>>
  PROVE  UNCHANGED MailService!vars
  BY DEF MailService!vars, Stages, Heard, Named

(* What is named at a point of a command.                                   *)
LEMMA OwnText ==
  ASSUME MailInv, NEW w \in Workers, NEW c, c = frame[w].client,
         pc[w] \in Busy \cup {"reply", "route", "forward"}
  PROVE  Named(frame[w].text) = MailService!Text(c)
  BY DEF MailInv, TextInv, Named, MailService!Text

LEMMA UnkeptText ==
  ASSUME MailInv, NEW w \in Workers, NEW c, c = frame[w].client, Unkept(w),
         pc[w] \in Busy \cup {"reply"}
  PROVE  \A n \in DOMAIN Kept : Kept[n] # MailService!Text(c)
<1>1. Named(frame[w].text) = MailService!Text(c)
  BY OwnText
<1>2. QED
  BY <1>1 DEF Unkept, Kept

(* The steps of the handlers as steps of Mail: most of them are none, ...   *)
LEMMA ProgressIsNothing ==
  ASSUME MailInv, MailInv', NEW w \in Workers, Progress(w), Silent
  PROVE  UNCHANGED MailService!vars
<1>1. StageAt(pc[w]) = "owed" /\ StageAt(pc'[w]) = "owed"
  BY DEF Progress, Busy, StageAt
<1>2. Stages' = Stages
  <2>1. Turn(w) /\ SameClient(w) /\ UNCHANGED gone /\ Placed /\ Placed'
    BY DEF Progress, GoesOn, SameCommand, Silent, MailInv
  <2>2. QED
    BY <1>1, <2>1, StageMoves DEF Stages
<1>3. QED
  BY <1>2, NothingHappens DEF Silent

(* ... storing is Keep, ...                                                 *)
LEMMA StoringIsKeeping ==
  ASSUME MailInv, MailInv', TypeInv, NameInv, NEW w \in Workers, StoresIt(w)
  PROVE  \E c \in Clients : MailService!Keep(c)
<1>1. PICK c : c = frame[w].client
  OBVIOUS
<1>2. pc[w] = "save" /\ UNCHANGED <<issued, sent, desc, gone>>
  BY DEF StoresIt, At
<1>3. GoesOn(w) /\ pc'[w] = "reply"
  <2>1. PICK answer : answer = [what |-> "sent", ref |-> Len(messages) + 1]
    OBVIOUS
  <2>2. /\ frame' = [frame EXCEPT ![w].answer = answer] /\ pc' = [pc EXCEPT ![w] = "reply"]
        /\ frame[w] \in Frames
    BY <2>1 DEF StoresIt, Answer, Goto, TypeInv, ControlTyped
  <2>3. /\ frame'[w].text = frame[w].text /\ frame'[w].client = frame[w].client
        /\ frame'[w].fd = frame[w].fd
    BY <2>2 DEF Frames, TypeInv, ControlTyped
  <2>4. /\ pc'[w] = "reply"
        /\ \A v \in Workers \ {w} : pc'[v] = pc[v] /\ frame'[v] = frame[v]
    BY <2>2 DEF TypeInv, ControlTyped
  <2>5. QED
    BY <1>2, <2>3, <2>4 DEF GoesOn, Turn, SameCommand, SameClient
<1>4. c \in Clients /\ Stages[c] = "owed" /\ Stages' = Stages
  <2>1. StageAt(pc[w]) = "owed" /\ StageAt(pc'[w]) = "owed"
    BY <1>2, <1>3 DEF StageAt
  <2>2. Turn(w) /\ SameClient(w) /\ UNCHANGED gone /\ Placed /\ Placed'
    BY <1>2, <1>3 DEF GoesOn, SameCommand, MailInv
  <2>3. QED
    BY <1>1, <2>1, <2>2, StageMoves DEF Stages
<1>5. Kept' = Append(Kept, MailService!Text(c))
  <2>1. PICK message : message = [sender |-> current_user_id, chat |-> frame[w].chat,
                                  text |-> frame[w].text]
    OBVIOUS
  <2>2. messages' = Append(messages, message)
    BY <2>1 DEF StoresIt, InsertMessage
  <2>3. Kept' = Append(Kept, Named(message.text))
    BY <2>2, StoredIsKept DEF TypeInv, TablesTyped
  <2>4. message.text = frame[w].text
    BY <2>1
  <2>5. Named(frame[w].text) = MailService!Text(c)
    BY <1>1, <1>2, OwnText DEF Busy
  <2>6. QED
    BY <2>3, <2>4, <2>5
<1>6. \A n \in DOMAIN Kept : Kept[n] # MailService!Text(c)
  <2>1. Unkept(w)
    BY <1>2 DEF NameInv, Busy
  <2>2. QED
    BY <1>1, <1>2, <2>1, UnkeptText DEF Busy
<1>7. Told' = Told
  BY <1>2 DEF Told, Heard, Named
<1>8. MailService!Keep(c)
  BY <1>2, <1>4, <1>5, <1>6, <1>7 DEF MailService!Keep, Stages, Kept, Told
<1>9. QED
  BY <1>4, <1>8
(* ... looking for the recipient of an acknowledged message may end it, and *)
(* the end of a connection is Leave, ...                                    *)
LEMMA PassingIsLeaving ==
  ASSUME MailInv, MailInv', TypeInv, NEW w \in Workers, Route(w) \/ Leave(w)
  PROVE  \/ UNCHANGED MailService!vars
         \/ \E c \in Clients : MailService!ShowNobody(c) \/ MailService!Leave(c)
<1>1. /\ GoesOn(w) /\ Silent
      /\ pc[w] \in {"route", "loop"} /\ pc'[w] \in {"forward", "loop", "close"}
      /\ pc'[w] = "forward" => pc[w] = "route" /\ frame'[w].rfd \in Fds
      /\ pc'[w] = "close" => pc[w] = "loop"
  BY PassingMoves
<1>2. pc[w] = "loop" => pc'[w] = "close"
  BY <1>1 DEF Route, Leave, At, Goto, TypeInv, ControlTyped
<1>3. PICK c : c = frame[w].client
  OBVIOUS
<1>4. Turn(w) /\ SameClient(w) /\ UNCHANGED gone /\ Placed /\ Placed'
  BY <1>1 DEF GoesOn, SameCommand, Silent, MailInv
<1>5. Told' = Told /\ Kept' = Kept
  BY <1>1 DEF Silent, Told, Kept, Heard, Named
<1>6. CASE pc[w] = "route" /\ pc'[w] = "forward"
  <2>1. StageAt(pc[w]) = "after" /\ StageAt(pc'[w]) = "after"
    BY <1>6 DEF StageAt
  <2>2. Stages' = Stages
    BY <1>4, <2>1, StageMoves DEF Stages
  <2>3. QED
    BY <1>1, <2>2, NothingHappens DEF Silent
<1>7. CASE pc[w] = "route" /\ pc'[w] = "loop"
  <2>1. StageAt(pc[w]) = "after" /\ StageAt(pc'[w]) = "free"
    BY <1>7 DEF StageAt
  <2>2. c \in Clients /\ MailService!Passes(c, "after", "free")
    BY <1>3, <1>4, <2>1, StagePasses
  <2>3. MailService!ShowNobody(c)
    BY <1>1, <1>5, <2>2 DEF MailService!ShowNobody, Silent, Told, Kept
  <2>4. QED
    BY <2>2, <2>3
<1>8. CASE pc[w] = "loop" /\ pc'[w] = "close"
  <2>1. StageAt(pc[w]) = "free" /\ StageAt(pc'[w]) = "left"
    BY <1>8 DEF StageAt
  <2>2. c \in Clients /\ MailService!Passes(c, "free", "left")
    BY <1>3, <1>4, <2>1, StagePasses
  <2>3. MailService!Leave(c)
    BY <1>1, <1>5, <2>2 DEF MailService!Leave, Silent, Told, Kept
  <2>4. QED
    BY <2>2, <2>3
<1>9. pc[w] = "route" => pc'[w] # "close"
  BY <1>1
<1>10. QED
  BY <1>1, <1>2, <1>6, <1>7, <1>8, <1>9

(* ... every packet is a greeting, the answer that is due, or the message   *)
(* that has just been acknowledged, ...                                     *)
LEMMA SpeakingIsTelling ==
  ASSUME MailInv, MailInv', TypeInv, NameInv, NEW w \in Workers,
         Greet(w) \/ Reply(w) \/ Forward(w)
  PROVE  \E c \in Clients :
            \/ MailService!Greet(c) \/ MailService!Acknowledge(c) \/ MailService!Respond(c)
            \/ MailService!ShowNobody(c) \/ \E d \in Clients : MailService!Show(c, d)
<1>1. PICK d, packet : Speaks(w, d, packet) /\ Says(w, d, packet)
  BY SpeakingAdds
<1>2. PICK c : c = frame[w].client
  OBVIOUS
<1>3. /\ UNCHANGED <<frame, messages, issued, desc, gone>> /\ Adds(d, packet)
      /\ d \in Clients \cup {NULL} /\ GoesOn(w)
  BY <1>1 DEF Speaks
<1>4. Turn(w) /\ SameClient(w) /\ UNCHANGED gone /\ Placed /\ Placed'
  BY <1>3 DEF GoesOn, SameCommand, MailInv
<1>5. Kept' = Kept /\ issued' = issued
  BY <1>3 DEF Kept, Named
<1>6. d # NULL => d \in Clients /\ Told' = [Told EXCEPT ![d] = Append(@, Heard(packet))]
  BY <1>3, AddedIsTold DEF MailInv, AckInv
<1>7. CASE Greet(w)
  <2>1. pc[w] = "greet" /\ pc'[w] = "loop"
    BY <1>7 DEF Greet, At, Goto, TypeInv, ControlTyped
  <2>2. StageAt(pc[w]) = "away" /\ StageAt(pc'[w]) = "free"
    BY <2>1 DEF StageAt
  <2>3. c \in Clients /\ MailService!Passes(c, "away", "free")
    BY <1>2, <1>4, <2>2, StagePasses
  <2>4. d = c /\ d # NULL /\ Heard(packet) = <<"greeting">>
    BY <1>1, <1>2, <2>1, <2>3, HandlerAssumption DEF Says, Heard
  <2>5. MailService!Tell(c, <<"greeting">>)
    BY <1>6, <2>4 DEF MailService!Tell, Told
  <2>6. MailService!Greet(c)
    BY <1>5, <2>3, <2>5 DEF MailService!Greet, Kept
  <2>7. QED
    BY <2>3, <2>6
<1>8. CASE Forward(w)
  <2>1. pc[w] = "forward" /\ pc'[w] = "loop"
    BY <1>8 DEF Forward, Done, At, Goto, TypeInv, ControlTyped
  <2>2. StageAt(pc[w]) = "after" /\ StageAt(pc'[w]) = "free"
    BY <2>1 DEF StageAt
  <2>3. c \in Clients /\ MailService!Passes(c, "after", "free")
    BY <1>2, <1>4, <2>2, StagePasses
  <2>4. CASE d = NULL
    <3>1. sent' = sent
      BY <1>8, <1>1, <2>1, <2>4 DEF Forward, Send, Says
    <3>2. MailService!ShowNobody(c)
      BY <1>5, <2>3, <3>1 DEF MailService!ShowNobody, Kept, Heard, Named
    <3>3. QED
      BY <2>3, <3>2
  <2>5. CASE d # NULL
    <3>1. Heard(packet) = <<"message", MailService!Text(c)>>
      <4>1. Heard(packet) = <<"message", Named(frame[w].text)>>
        BY <1>1, <2>1 DEF Says, Heard
      <4>2. Named(frame[w].text) = MailService!Text(c)
        BY <1>2, <2>1, OwnText
      <4>3. QED
        BY <4>1, <4>2
    <3>2. d \in Clients /\ MailService!Tell(d, <<"message", MailService!Text(c)>>)
      BY <1>6, <2>5, <3>1 DEF MailService!Tell, Told
    <3>3. MailService!Show(c, d)
      BY <1>5, <2>3, <3>2 DEF MailService!Show, Kept
    <3>4. QED
      BY <2>3, <3>2, <3>3
  <2>6. QED
    BY <2>4, <2>5
<1>9. CASE Reply(w)
  <2>1. pc[w] = "reply" /\ StageAt(pc[w]) = "owed"
    BY <1>9 DEF Reply, At, StageAt
  <2>2. c \in Clients
    BY <1>2, <2>1 DEF MailInv, Placed
  <2>3. /\ d = c /\ d # NULL
        /\ packet.what = frame[w].answer.what /\ packet.ref = frame[w].answer.ref
    BY <1>1, <1>2, <2>1, <2>2, HandlerAssumption DEF Says
  <2>4. CASE frame[w].answer.what = "sent"
    <3>1. pc'[w] = "route" /\ StageAt(pc'[w]) = "after"
      BY <1>9, <2>4 DEF Reply, Goto, TypeInv, ControlTyped, StageAt
    <3>2. MailService!Passes(c, "owed", "after")
      BY <1>2, <1>4, <2>1, <3>1, StagePasses
    <3>3. PICK n : n = frame[w].answer.ref
      OBVIOUS
    <3>4. n \in DOMAIN messages /\ messages[n].text = frame[w].text
      BY <2>1, <2>4, <3>3 DEF MailInv, StoreInv
    <3>5. Named(frame[w].text) = MailService!Text(c)
      BY <1>2, <2>1, OwnText
    <3>6. n \in DOMAIN Kept /\ Kept[n] = MailService!Text(c)
      BY <3>4, <3>5 DEF Kept
    <3>7. Heard(packet) = <<"sent", n>>
      BY <2>3, <2>4, <3>3 DEF Heard
    <3>8. MailService!Tell(c, <<"sent", n>>)
      BY <1>6, <2>3, <3>7 DEF MailService!Tell, Told
    <3>9. MailService!Acknowledge(c)
      BY <1>5, <3>2, <3>6, <3>8 DEF MailService!Acknowledge, Kept
    <3>10. QED
      BY <2>2, <3>9
  <2>5. CASE frame[w].answer.what # "sent"
    <3>1. pc'[w] = "loop" /\ StageAt(pc'[w]) = "free"
      BY <1>9, <2>5 DEF Reply, Goto, TypeInv, ControlTyped, StageAt
    <3>2. MailService!Passes(c, "owed", "free")
      BY <1>2, <1>4, <2>1, <3>1, StagePasses
    <3>3. \A n \in DOMAIN Kept : Kept[n] # MailService!Text(c)
      <4>1. Unkept(w)
        BY <2>1, <2>5 DEF NameInv, Refusing
      <4>2. QED
        BY <1>2, <2>1, <4>1, UnkeptText
    <3>4. frame[w].answer \in Replies
      BY <2>1 DEF MailInv, StoreInv
    <3>5. frame[w].answer.what \notin {"message", "greeting"}
      BY <3>4 DEF Replies, Words
    <3>6. Heard(packet) = <<"answer">>
      BY <2>3, <2>5, <3>5 DEF Heard
    <3>7. MailService!Tell(c, <<"answer">>)
      BY <1>6, <2>3, <3>6 DEF MailService!Tell, Told
    <3>8. MailService!Respond(c)
      BY <1>5, <3>2, <3>3, <3>7 DEF MailService!Respond, Kept
    <3>9. QED
      BY <2>2, <3>8
  <2>6. QED
    BY <2>4, <2>5
<1>10. QED
  BY <1>7, <1>8, <1>9

(* ... a command that is read is Ask, ...                                   *)
LEMMA ReadingIsAsking ==
  ASSUME MailInv, MailInv', TypeInv, NEW w \in Workers, Receive(w)
  PROVE  \E c \in Clients : MailService!Ask(c)
<1>1. PICK text : Reads(w, text)
  BY ReceiveReads
<1>2. PICK c : c = frame[w].client
  OBVIOUS
<1>3. /\ Turn(w) /\ SameClient(w) /\ pc[w] = "loop" /\ pc'[w] \in Busy
      /\ UNCHANGED <<messages, sent, desc, gone>>
      /\ issued' = [issued EXCEPT ![c] = issued[c] + 1]
  BY <1>1, <1>2 DEF Reads
<1>4. StageAt(pc[w]) = "free" /\ StageAt(pc'[w]) = "owed"
  BY <1>3 DEF StageAt, Busy
<1>5. c \in Clients /\ MailService!Passes(c, "free", "owed")
  BY <1>2, <1>3, <1>4, StagePasses DEF MailInv
<1>6. Told' = Told /\ Kept' = Kept
  BY <1>3 DEF Told, Kept, Heard, Named
<1>7. MailService!Ask(c)
  BY <1>3, <1>5, <1>6 DEF MailService!Ask, Told, Kept
<1>8. QED
  BY <1>5, <1>7
(* ... and coming, closing and hanging up change nothing for Mail: who is   *)
(* not served is away or has left, as he is before the greeting and after   *)
(* the last recv.                                                           *)
LEMMA ComingIsNothing ==
  ASSUME MailInv, MailInv', TypeInv, NEW w \in Workers, NEW c \in Clients, Connect(w, c)
  PROVE  UNCHANGED MailService!vars
<1>1. /\ pc[w] = "idle" /\ c \notin gone /\ c # NULL
      /\ \A v \in Workers : frame[v].client # c
      /\ UNCHANGED <<messages, issued, sent, gone>>
  BY HandlerAssumption DEF Connect, At, tables, history
<1>2. /\ pc'[w] = "greet" /\ frame'[w].client = c
      /\ \A v \in Workers \ {w} : pc'[v] = pc[v] /\ frame'[v] = frame[v]
  BY DEF Connect, Goto, TypeInv, ControlTyped, NoFrame
<1>3. Stage(c) = "away"
  <2>1. PointsOf(c) = {}
    BY <1>1 DEF PointsOf, ServedBy
  <2>2. QED
    BY <1>1, <2>1 DEF Stage
<1>4. Stage(c)' = "away"
  <2>1. PointsOf(c)' = {"greet"}
    BY <1>1, <1>2 DEF PointsOf, ServedBy
  <2>2. (CHOOSE point \in {"greet"} : TRUE) = "greet"
    OBVIOUS
  <2>3. QED
    BY <2>1, <2>2 DEF Stage, StageAt
<1>5. frame[w].client = NULL
  BY <1>1 DEF MailInv, Placed
<1>6. ASSUME NEW d \in Clients, d # c
      PROVE  Stage(d)' = Stage(d)
  <2>1. \A v \in Workers : \/ v = w /\ frame[v].client # d /\ frame'[v].client # d
                           \/ pc'[v] = pc[v] /\ frame'[v] = frame[v]
    BY <1>2, <1>5, <1>6, HandlerAssumption
  <2>2. PointsOf(d)' = PointsOf(d)
    BY <2>1 DEF PointsOf, ServedBy
  <2>3. QED
    BY <1>1, <2>2 DEF Stage
<1>7. Stages' = Stages
  BY <1>3, <1>4, <1>6 DEF Stages
<1>8. QED
  BY <1>1, <1>7, NothingHappens

LEMMA ClosingIsNothing ==
  ASSUME MailInv, MailInv', TypeInv, NEW w \in Workers, Close(w)
  PROVE  UNCHANGED MailService!vars
<1>1. PICK c : c = frame[w].client
  OBVIOUS
<1>2. /\ pc[w] = "close" /\ c \in Clients /\ c # NULL
      /\ gone' = gone \cup {c} /\ UNCHANGED <<messages, issued, sent>>
  BY <1>1, HandlerAssumption DEF Close, At, tables, history, MailInv, Placed
<1>3. /\ pc'[w] = "idle" /\ frame'[w].client = NULL
      /\ \A v \in Workers \ {w} : pc'[v] = pc[v] /\ frame'[v] = frame[v]
  BY DEF Close, Goto, TypeInv, ControlTyped, NoFrame
<1>4. Stage(c) = "left"
  BY <1>1, <1>2, StageServed DEF StageAt, MailInv
<1>5. Stage(c)' = "left"
  <2>1. \A v \in Workers : frame'[v].client # c
    BY <1>1, <1>2, <1>3 DEF MailInv, Placed
  <2>2. PointsOf(c)' = {}
    BY <2>1 DEF PointsOf, ServedBy
  <2>3. QED
    BY <1>2, <2>2 DEF Stage
<1>6. ASSUME NEW d \in Clients, d # c
      PROVE  Stage(d)' = Stage(d)
  <2>1. \A v \in Workers : \/ v = w /\ frame[v].client # d /\ frame'[v].client # d
                           \/ pc'[v] = pc[v] /\ frame'[v] = frame[v]
    BY <1>1, <1>3, <1>6, HandlerAssumption
  <2>2. PointsOf(d)' = PointsOf(d)
    BY <2>1 DEF PointsOf, ServedBy
  <2>3. d \in gone' <=> d \in gone
    BY <1>2, <1>6
  <2>4. QED
    BY <2>2, <2>3 DEF Stage
<1>7. Stages' = Stages
  BY <1>4, <1>5, <1>6 DEF Stages
<1>8. QED
  BY <1>2, <1>7, NothingHappens

LEMMA HangingUpIsNothing ==
  ASSUME MailInv, NEW c \in Clients, HangUp(c)
  PROVE  UNCHANGED MailService!vars
<1>1. /\ UNCHANGED <<messages, issued, sent, pc, frame>> /\ gone' = gone \cup {c}
      /\ \E f \in Fds : desc[f] = c
  BY DEF HangUp, tables, history
<1>2. PICK w \in Workers : frame[w].client = c
  BY <1>1, HandlerAssumption DEF MailInv, Placed
<1>3. \A d \in Clients : PointsOf(d)' = PointsOf(d)
  BY <1>1 DEF PointsOf, ServedBy
<1>4. PointsOf(c) # {}
  BY <1>2 DEF PointsOf, ServedBy
<1>5. ASSUME NEW d \in Clients PROVE Stage(d)' = Stage(d)
  <2>1. PointsOf(d)' = PointsOf(d)
    BY <1>3
  <2>2. PointsOf(d) # {} \/ (d \in gone' <=> d \in gone)
    BY <1>1, <1>4
  <2>3. UNCHANGED pc
    BY <1>1
  <2>4. QED
    BY <2>1, <2>2 DEF Stage
<1>6. Stages' = Stages
  BY <1>5 DEF Stages
<1>7. QED
  BY <1>1, <1>6, NothingHappens

LEMMA InitService == Init => MailService!Init /\ NameInv
<1> SUFFICES ASSUME Init PROVE MailService!Init /\ NameInv
  OBVIOUS
<1>1. /\ pc = [w \in Workers |-> "idle"] /\ frame = [w \in Workers |-> NoFrame]
      /\ sent = [c \in Clients |-> <<>>] /\ gone = {}
      /\ messages = <<>> /\ issued = [c \in Clients |-> 0] /\ NoFrame.client = NULL
  BY DEF Init, InitTables, NoFrame
<1>2. ASSUME NEW c \in Clients PROVE Stage(c) = "away"
  <2>1. PointsOf(c) = {}
    BY <1>1, HandlerAssumption DEF PointsOf, ServedBy
  <2>2. QED
    BY <1>1, <2>1 DEF Stage
<1>3. Kept = <<>> /\ Told = [c \in Clients |-> <<>>]
  BY <1>1 DEF Kept, Told
<1>4. MailService!Init
  BY <1>1, <1>2, <1>3 DEF MailService!Init, Kept, Told
<1>5. NameInv
  BY <1>1 DEF NameInv, Unkept
<1>6. QED
  BY <1>4, <1>5

LEMMA NextService ==
  MailInv /\ MailInv' /\ TypeInv /\ NameInv /\ [Next]_vars
      => [MailService!Next]_(MailService!vars)
<1> SUFFICES ASSUME MailInv, MailInv', TypeInv, NameInv, [Next]_vars
             PROVE  MailService!Next \/ UNCHANGED MailService!vars
  OBVIOUS
<1> DEFINE Steps == MailService!Next \/ UNCHANGED MailService!vars
<1>1. ASSUME NEW w \in Workers, Commands(w) PROVE Steps
  <2>1. CASE Progress(w) /\ Silent
    BY <2>1, ProgressIsNothing
  <2>2. CASE StoresIt(w)
    BY <2>2, StoringIsKeeping DEF MailService!Next
  <2>3. CASE Route(w)
    BY <2>3, PassingIsLeaving DEF MailService!Next
  <2>4. CASE Forward(w)
    BY <2>4, SpeakingIsTelling DEF MailService!Next
  <2>5. QED
    BY <1>1, <2>1, <2>2, <2>3, <2>4, CommandProgress DEF TypeInv
<1>2. ASSUME NEW w \in Workers, Greet(w) \/ Reply(w) PROVE Steps
  BY <1>2, SpeakingIsTelling DEF MailService!Next
<1>3. ASSUME NEW w \in Workers, Leave(w) PROVE Steps
  BY <1>3, PassingIsLeaving DEF MailService!Next
<1>4. ASSUME NEW w \in Workers, Receive(w) PROVE Steps
  BY <1>4, ReadingIsAsking DEF MailService!Next
<1>5. CASE UNCHANGED vars
  <2>1. UNCHANGED <<messages, sent, issued, pc, frame, gone>>
    BY <1>5 DEF vars, tables, network, history
  <2>2. Stages' = Stages
    BY <2>1 DEF Stages, Stage, PointsOf, ServedBy
  <2>3. QED
    BY <2>1, <2>2, NothingHappens
<1>6. QED
  BY <1>1, <1>2, <1>3, <1>4, <1>5, ComingIsNothing, ClosingIsNothing, HangingUpIsNothing
     DEF Next, Serving, Arriving

(* Whatever the workers do to each other's variables, whatever statements    *)
(* fail and whoever hangs up, the server keeps the promise of Mail: one      *)
(* answer to each command, which tells whether its message is stored and     *)
(* with which number, no message stored twice, and each forwarded at most    *)
(* once, after its acknowledgment and before its author's next command.      *)
THEOREM HandlersKeepContract == Spec => KeepsMailContract
<1>1. IdentityInv => TypeInv
  BY DEF IdentityInv
<1>2. QED
  BY InitIdentity, NextIdentity, InitMail, NextMail, InitService, NextService, NextNames,
     <1>1, PTL DEF Spec, KeepsMailContract, MailService!Spec

(* So what follows from the contract (MailProofs) is true of the handlers.  *)
Contract == INSTANCE MailProofs WITH
    asked <- issued,
    stage <- [c \in Clients |-> Stage(c)],
    kept  <- [i \in DOMAIN messages |-> Named(messages[i].text)],
    told  <- [c \in Clients |-> [i \in DOMAIN sent[c] |-> Heard(sent[c][i])]]
LEMMA SameContract ==
  /\ MailService!Init <=> Contract!Init
  /\ [MailService!Next]_(MailService!vars) <=> [Contract!Next]_(Contract!vars)
  /\ MailService!MailRight <=> Contract!MailRight
<1>1. MailService!Init <=> Contract!Init
  BY DEF MailService!Init, Contract!Init
<1>2. [MailService!Next]_(MailService!vars) <=> [Contract!Next]_(Contract!vars)
  BY DEF MailService!vars, MailService!Next, MailService!Greet, MailService!Ask,
         MailService!Keep, MailService!Acknowledge, MailService!Respond, MailService!Show,
         MailService!ShowNobody, MailService!Leave, MailService!Passes, MailService!Tell,
         MailService!Text,
         Contract!vars, Contract!Next, Contract!Greet, Contract!Ask, Contract!Keep,
         Contract!Acknowledge, Contract!Respond, Contract!Show, Contract!ShowNobody,
         Contract!Leave, Contract!Passes, Contract!Tell, Contract!Text
<1>3. MailService!MailRight <=> Contract!MailRight
  BY DEF MailService!MailRight, MailService!Text, MailService!Hears,
         Contract!MailRight, Contract!Text, Contract!Hears
<1>4. QED
  BY <1>1, <1>2, <1>3

(* Whatever statements fail and whoever hangs up, "Message sent" is the      *)
(* truth, of every stored message once its command is answered and of no     *)
(* other; no message is stored, acknowledged or forwarded twice; and what is *)
(* forwarded is stored and acknowledged before, and reaches the recipient    *)
(* word for word (handle_msg, lines 192-213).                                *)
THEOREM SentIsStored == Spec => []SentMeansStored
<1>1. MailInv /\ MailService!MailRight => SentMeansStored
  <2> SUFFICES ASSUME MailInv, MailService!MailRight PROVE SentMeansStored
    OBVIOUS
  <2>1. ASSUME NEW c \in Clients, NEW p \in PacketsOf(c), p.what = "message"
        PROVE  \E m \in DOMAIN messages : messages[m].text = p.ref
    BY <2>1 DEF MailInv, AckInv, Stored, PacketsOf
  <2>2. QED
    BY <2>1 DEF SentMeansStored
<1>2. IdentityInv => TypeInv
  BY DEF IdentityInv
<1>3. Contract!Spec => []Contract!MailRight
  BY Contract!MailIsRight
<1>4. Spec => []MailService!MailRight
  BY <1>3, SameContract, HandlersKeepContract, PTL
     DEF KeepsMailContract, MailService!Spec, Contract!Spec
<1>5. QED
  BY InitIdentity, NextIdentity, InitMail, NextMail, <1>1, <1>2, <1>4, PTL DEF Spec
================================================================================
