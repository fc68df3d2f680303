-------------------------------- MODULE WebClient --------------------------------
(***************************************************************************)
(* The web page (web-client/src: Login.js, App.js, Chat.js).  JavaScript   *)
(* runs one callback at a time, so a callback is one action; what makes it *)
(* hard is which callbacks are still to come: of sockets that the page has *)
(* given up, of timers, and of handlers added to a socket for one answer.  *)
(* A callback keeps the values of the render it was made in.               *)
(*                                                                         *)
(* The server may answer any command with an error, since its statements   *)
(* fail and its identity is shared (ClientHandler); it may stay silent,    *)
(* close a connection, or send bytes that are no frame, which a browser    *)
(* takes for a failure: so does every forwarded message, and Chat.js, lines*)
(* 51-75, waits for messages that this server never frames.  The 5 s timer *)
(* of Login.js reads loading of the render before the attempt, FALSE, and  *)
(* does nothing.                                                           *)
(***************************************************************************)
EXTENDS Naturals, Sequences, FiniteSets, SequencesExt

CONSTANTS Users, Passwords,
          Forms,      \* the pairs of login and password that are tried
          Registered, \* the pairs of login and password registered at first
          MAX_VISITS, \* bound: how often the user gets to the chat page
          MAX_EVENTS, \* bound: how many connections fail or are closed by the
                      \* server and messages and questions are sent, together
          MAX_SOCKETS \* bound: how many sockets exist at a time

ASSUME WebAssumption ==
    /\ Forms \subseteq Users \X Passwords /\ Registered \subseteq Users \X Passwords
    /\ MAX_VISITS \in Nat /\ MAX_SOCKETS \in Nat

VARIABLES screen,  \* App: 0 is the login page, v > 0 the chat page on its visit v
          mounted, \* App: the visit for which the Chat on display was mounted
          visits,  \* App: login and password of each visit
          loading, \* Login
          sockets, \* every WebSocket that may still have callbacks
          current, \* Chat: wsRef.current, 0 if that socket is gone
          timers,  \* Chat: reconnects scheduled, for each visit
          chats,   \* Chat: whom the chats on display are with
          accounts,\* the server's table of users
          events,  \* history: how many so far
          patient, \* history: the user has waited for answers before he sent
          silent,  \* history: the server has closed an attempt without a word
          belated  \* history: the failure of an attempt that Login had closed
                   \* has freed the form of a later one

page   == <<screen, mounted, visits, loading, current, chats>>
memory == <<events, patient, silent, belated>>
web    == <<page, sockets, timers, accounts, memory>>

Visits == 1..MAX_VISITS
Slots  == 1..MAX_SOCKETS
Used   == DOMAIN sockets
Of(v)  == {s \in Used : sockets[s].visit = v}

(* The attempts to log in that can still be answered; the visits of the     *)
(* Chat on display, of which there are several if App is given another user.*)
Attempting == {s \in Of(0) : sockets[s].state # "closing"}
OnDisplay  == IF screen = 0 THEN {} ELSE mounted..screen

(* A socket: whose it is (visit 0: of the Login after so many visits), the  *)
(* first of its visit or not; its state; whether the greeting has come      *)
(* (handshakeDone); the command to send then; what the server has not read, *)
(* and the page not; the checkHandlers added.                               *)
Socket(v, first, command) ==
    [visit |-> v, form |-> IF v = 0 THEN Len(visits) ELSE 0, first |-> first,
     state |-> "connecting", greeted |-> FALSE, hello |-> command,
     asked |-> <<>>, got |-> <<>>, checks |-> <<>>]
Login(pair) == [op |-> "LOGIN", arg |-> pair]

(* The Login that made the socket is on the screen: what its callbacks set  *)
(* is seen.                                                                 *)
Heard(s) == screen = 0 /\ sockets[s].visit = 0 /\ sockets[s].form = Len(visits)

(* new WebSocket in a map of sockets. *)
Free(map) == CHOOSE t \in Slots \ DOMAIN map : TRUE
Open(map, new) ==
    [t \in DOMAIN map \cup {Free(map)} |-> IF t = Free(map) THEN new ELSE map[t]]
Without(s) == [t \in Used \ {s} |-> sockets[t]]

(* ws.close(): no message event comes any more, but error and close do.     *)
Closing(x) == [x EXCEPT !.state = "closing", !.got = <<>>]

OneMore == events < MAX_EVENTS /\ events' = events + 1

InitWeb ==
    /\ screen = 0 /\ mounted = 0 /\ visits = <<>> /\ loading = FALSE
    /\ sockets = <<>> /\ current = 0 /\ timers = [v \in Visits |-> 0]
    /\ chats = <<>>
    /\ accounts = Registered
    /\ events = 0
    /\ patient = TRUE /\ silent = FALSE /\ belated = FALSE
--------------------------------------------------------------------------------
(* Login: handleSubmit of a form that is filled in; a register form or not  *)
(* is the user's choice.                                                    *)
Submit ==
    /\ screen = 0 /\ ~loading
    /\ Len(visits) + Cardinality(Attempting) < MAX_VISITS /\ Used # Slots
    /\ \E op \in {"REGISTER", "LOGIN"}, pair \in Forms :
          sockets' = Open(sockets, Socket(0, TRUE, [op |-> op, arg |-> pair]))
    /\ loading' = TRUE
    /\ UNCHANGED <<screen, mounted, visits, current, chats, timers, accounts, memory>>

(* ws.close() by Login, whose onerror is still there. *)
LeavesOpen(s) == [sockets EXCEPT ![s].got = Tail(@)]
Closes(s)     == [sockets EXCEPT ![s] = Closing(@)]

(* onmessage of Login: the greeting and the answer both begin with          *)
(* OK|Welcome, and are told apart by handshakeDone.                         *)
NoGreeting(s) == FALSE
IsGreeting(s) == ~sockets[s].greeted /\ Head(sockets[s].got) = "greeting"
SendHello(s)  ==
    [sockets EXCEPT ![s].greeted = TRUE, ![s].got = Tail(@),
                    ![s].asked = Append(@, sockets[s].hello)]
LoginGreeted(s) ==
    /\ IsGreeting(s)
    /\ sockets' = SendHello(s)
    /\ UNCHANGED <<page, timers>>
LoginRefused(s) ==
    /\ Head(sockets[s].got) \in {"registered", "error"}
    /\ sockets' = Closes(s)
    /\ loading' = (loading /\ ~Heard(s))
    /\ UNCHANGED <<screen, mounted, visits, current, chats, timers>>

(* onLogin: App shows a new Chat, whose effect connects; if there is one    *)
(* already, of an earlier attempt, it goes on with the new login, closes    *)
(* the socket it was mounted with and connects again.                       *)
Unmounting(map) ==
    [s \in DOMAIN map |-> IF s \in Of(screen) /\ sockets[s].first
                          THEN Closing(map[s]) ELSE map[s]]
SameUser(pair) == screen # 0 /\ visits[screen][1] = pair[1]
LoginAccepted(s) ==
    LET pair == sockets[s].hello.arg
        left == IF screen = 0 THEN Closes(s) ELSE Unmounting(Closes(s))
        v    == Len(visits) + 1
    IN  /\ ~IsGreeting(s) /\ Head(sockets[s].got) \in {"greeting", "welcome"}
        /\ IF SameUser(pair)
           THEN /\ sockets' = Closes(s)
                /\ UNCHANGED <<screen, mounted, visits, current>>
           ELSE /\ Len(visits) < MAX_VISITS /\ Used # Slots
                /\ visits' = Append(visits, pair) /\ screen' = v
                /\ mounted' = IF screen = 0 THEN v ELSE mounted
                /\ sockets' = Open(left, Socket(v, TRUE, Login(pair)))
                /\ current' = Free(left)
        /\ loading' = FALSE
        /\ UNCHANGED <<chats, timers>>
--------------------------------------------------------------------------------
(* Chat: onmessage, which sends LOGIN again when it is greeted, and then    *)
(* the handlers added by startNewChat, each of which removes itself         *)
(* whatever the message was.  Of a Chat that is gone, nothing is displayed. *)
Renewed(known, check) ==
    IF check.user \in ToSet(check.seen) THEN known ELSE Append(known, check.user)
ChatsAfter(s) ==
    IF Head(sockets[s].got) = "exists" /\ sockets[s].visit \in OnDisplay
    THEN FoldLeft(Renewed, chats, sockets[s].checks) ELSE chats
KeepChecks(s) == sockets[s].checks
DropChecks(s) == <<>>
ChatMessage(s) ==
    LET next == IF IsGreeting(s) THEN SendHello(s)
                                 ELSE [sockets EXCEPT ![s].got = Tail(@)]
    IN  /\ sockets' = [next EXCEPT ![s].checks = DropChecks(s)]
        /\ chats' = ChatsAfter(s)
        /\ UNCHANGED <<screen, mounted, visits, loading, current, timers>>

(* A message event; there is none on a socket that is closing. *)
Message(s) ==
    /\ sockets[s].state = "open" /\ sockets[s].got # <<>>
    /\ IF sockets[s].visit = 0
       THEN LoginGreeted(s) \/ LoginRefused(s) \/ LoginAccepted(s)
       ELSE ChatMessage(s)
    /\ UNCHANGED <<accounts, memory>>

(* Messages and questions go to wsRef.current, if that is open; the user    *)
(* may have waited until nothing of this Chat is outstanding, or not.       *)
Quiet == \A s \in Used : sockets[s].visit \in OnDisplay =>
            sockets[s].asked = <<>> /\ sockets[s].got = <<>>
SendOn(s, command, check) ==
    /\ OneMore
    /\ s = current /\ sockets[s].state = "open"
    /\ sockets' = [sockets EXCEPT ![s].asked = Append(@, command),
                                  ![s].checks = @ \o check]
    /\ patient' = (patient /\ Quiet)
    /\ UNCHANGED <<page, timers, accounts, silent, belated>>

(* startNewChat, with the chats of the render it was called in. *)
StartNewChat(s) ==
    \E u \in Users : SendOn(s, [op |-> "CHECK_USER", arg |-> u],
                            <<[user |-> u, seen |-> chats]>>)

(* handleSend in any chat the user may have chosen. *)
HandleSend(s) ==
    \E u \in ToSet(chats) : SendOn(s, [op |-> "MSG", arg |-> u], <<>>)

(* What Chat displays is its own state, and goes with it. *)
Remembered == UNCHANGED chats
Forgotten  == chats' = <<>>

(* handleLogout: Chat is unmounted, and its effect closes the socket that   *)
(* it was mounted with, if that one is still there.                         *)
Logout ==
    /\ screen # 0 /\ screen' = 0 /\ mounted' = 0 /\ current' = 0
    /\ sockets' = Unmounting(sockets)
    /\ Forgotten
    /\ UNCHANGED <<visits, loading, timers, accounts, memory>>

(* The timer of onclose: connectWs again, with the old login and password.  *)
Reconnect(v) ==
    /\ timers[v] > 0 /\ timers' = [timers EXCEPT ![v] = @ - 1]
    /\ Used # Slots
    /\ sockets' = Open(sockets, Socket(v, FALSE, Login(visits[v])))
    /\ current' = IF v \in OnDisplay THEN Free(sockets) ELSE current
    /\ UNCHANGED <<screen, mounted, visits, loading, chats, accounts, memory>>
--------------------------------------------------------------------------------
(* The connection is made, and the server greets. *)
Connected(s) ==
    /\ sockets[s].state = "connecting"
    /\ sockets' = [sockets EXCEPT ![s].state = "open", ![s].got = <<"greeting">>]
    /\ UNCHANGED <<page, timers, accounts, memory>>

(* The server takes a command and answers: with an error, whatever the      *)
(* reason, or as asked, if the command can be obeyed.                       *)
Names == {pair[1] : pair \in accounts}
Obeyed(command) ==
    LET arg == command.arg
    IN  CASE command.op = "REGISTER"   -> {a \in {"registered"} : arg[1] \notin Names}
          [] command.op = "LOGIN"      -> {a \in {"welcome"} : arg \in accounts}
          [] command.op = "CHECK_USER" -> {a \in {"exists"} : arg \in Names}
          [] command.op = "MSG"        -> {a \in {"sent"} : arg \in Names}
Answered(s) ==
    /\ sockets[s].asked # <<>>
    /\ LET command == Head(sockets[s].asked)
       IN  \E answer \in {"error"} \cup Obeyed(command) :
              /\ sockets' = [sockets EXCEPT
                    ![s].asked = Tail(@),
                    ![s].got = IF sockets[s].state = "open" THEN Append(@, answer) ELSE @]
              /\ accounts' = accounts \cup
                    (IF answer = "registered" THEN {command.arg} ELSE {})
    /\ UNCHANGED <<page, timers, memory>>

(* onclose of Chat, and the socket is gone with what was not read from it.  *)
NeverAgain(v)   == timers
TwiceAgain(v)   == [timers EXCEPT ![v] = @ + 2]
Rescheduled(v)  == [timers EXCEPT ![v] = @ + 1]
Gone(s) ==
    /\ sockets' = Without(s)
    /\ current' = IF current = s THEN 0 ELSE current
    /\ timers' = IF sockets[s].visit = 0 THEN timers ELSE Rescheduled(sockets[s].visit)
    /\ UNCHANGED <<screen, mounted, visits, chats, accounts, patient>>

(* What the page closed is closed. *)
Closed(s) ==
    /\ sockets[s].state = "closing"
    /\ Gone(s) /\ UNCHANGED <<loading, events, silent, belated>>

(* The connection fails: error, and close.  onerror of Login frees the form,*)
(* also if its attempt is over and the form is busy with another one.       *)
StaysLoading(s) == loading
SetLoading(s)   == loading /\ ~Heard(s)
Fails(s) ==
    /\ OneMore
    /\ loading' = SetLoading(s)
    /\ belated' = (belated \/ (sockets[s].state = "closing" /\ loading /\ Heard(s)))
    /\ Gone(s) /\ UNCHANGED silent

(* The server closes it: close without error, of which Login takes no notice.*)
ServerEnds(s) ==
    /\ sockets[s].state = "open" /\ OneMore
    /\ silent' = (silent \/ Heard(s))
    /\ Gone(s) /\ UNCHANGED <<loading, belated>>

Event(s) == s \in Used /\ (Message(s) \/ Closed(s))
Network(s) == s \in Used /\ (Connected(s) \/ Answered(s) \/ Fails(s) \/ ServerEnds(s))
WebNext ==
    \/ Submit \/ Logout
    \/ \E s \in Used : StartNewChat(s) \/ HandleSend(s)
    \/ \E s \in Slots : Event(s) \/ Network(s)
    \/ \E v \in Visits : Reconnect(v)

(* The browser dispatches events and its timers fire; neither the user nor  *)
(* the network nor the server has to do anything.                           *)
WebFairness ==
    /\ \A s \in Slots : WF_web(Event(s))
    /\ \A v \in Visits : WF_web(Reconnect(v))
WebSpec == InitWeb /\ [][WebNext]_web /\ WebFairness
--------------------------------------------------------------------------------
(* Every variable has its type, and every socket the fields that matter.    *)
WebTypeOK ==
    /\ visits \in Seq(Users \X Passwords) /\ Len(visits) <= MAX_VISITS
    /\ screen \in {0, Len(visits)} /\ mounted \in 0..screen
    /\ accounts \subseteq Users \X Passwords
    /\ {loading, patient, silent, belated} \subseteq BOOLEAN
    /\ timers \in [Visits -> Nat]
    /\ Used \subseteq Slots /\ current \in {0} \cup Used
    /\ \A s \in Used : /\ sockets[s].visit \in 0..Len(visits)
                       /\ sockets[s].state \in {"connecting", "open", "closing"}
    /\ screen = 0 => chats = <<>> /\ current = 0

(* Login.js, lines 44-64: nobody gets to the chat page whose login and      *)
(* password the server has not accepted, although its greeting, too, begins *)
(* with OK|Welcome, and although an answer may be to an earlier attempt.    *)
LoggedInRight == ToSet(visits) \subseteq accounts

(* Login.js: the form is free when no attempt is under way, and busy while  *)
(* one is, so that there is one at a time.  There are two ways out of it:   *)
(* a server that closes without a word leaves the form busy for ever, and   *)
(* onerror of a socket that Login has closed frees it under a later attempt.*)
FormFree == silent \/ belated \/ loading = (Attempting # {})

(* The server has not yet accepted the connection, or not yet answered.     *)
Waiting(s) ==
    s \in Used /\ (sockets[s].state = "connecting" \/ sockets[s].asked # <<>>)
ServerAnswers == \A s \in Slots : []<>~Waiting(s)

(* Login.js: if the server does not keep the page waiting for ever, an      *)
(* attempt ends with an answer or an error, and the form can be used again, *)
(* unless the server has closed without a word.  (A server that says nothing*)
(* is another matter: the 5 s timer of lines 81-88 is idle.)                *)
AttemptEnds == ServerAnswers => (loading ~> (~loading \/ silent))

(* Chat.js, lines 27-101: every visit has one connection, one that is       *)
(* closing or one reconnect scheduled, so that reconnects neither multiply  *)
(* nor stop (also after logout, when the chain goes on for nobody).         *)
OneChain == \A v \in 1..Len(visits) : Cardinality(Of(v)) + timers[v] = 1

(* Chat.js, lines 35-43 and 88-91: however its connections end, if the      *)
(* server does not keep them waiting for ever and they do not fail for ever *)
(* (MAX_EVENTS), the chat page is connected again and has asked to be logged*)
(* in, unless the user leaves it.  (The answer may be an error, which is    *)
(* only logged.)                                                            *)
Reconnects ==
    ServerAnswers => \A v \in Visits : screen = v ~>
        \/ screen # v
        \/ \E s \in Of(v) : sockets[s].state = "open" /\ sockets[s].greeted

(* Chat.js, lines 123-154: if the user waits for answers, every chat is     *)
(* with somebody who exists, and nobody is listed twice.                    *)
ChatsRight ==
    patient => ToSet(chats) \subseteq Names /\ IsInjective(chats)
================================================================================
