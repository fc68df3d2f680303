----------------------------- MODULE ClientsProofs -----------------------------
(* Proofs about Clients: about the page, for any users, passwords, visits   *)
(* and sockets; about the console, for any number of lines and packets; and *)
(* that all of it holds of whichever the user has in front of him.          *)
EXTENDS Clients, FiniteSetTheorems, TLAPS

(* What the proofs need of the types: sockets are records, of the login     *)
(* page (visit 0) or of a visit so far; no timer runs for a later visit;    *)
(* wsRef.current is a socket of the Chat on display, or gone.               *)
SocketFields == {"visit", "form", "first", "state", "greeted", "hello",
                 "asked", "got", "checks"}
IsSocket(x) == x = [f \in SocketFields |-> x[f]]
Shaped ==
    /\ sockets = [s \in Used |-> sockets[s]] /\ Used \subseteq Slots
    /\ \A s \in Used : IsSocket(sockets[s]) /\ sockets[s].visit \in 0..Len(visits)
    /\ visits \in Seq(Forms) /\ Len(visits) <= MAX_VISITS
    /\ screen \in {0, Len(visits)} /\ mounted \in 0..screen /\ (screen # 0 => mounted # 0)
    /\ current \in {0} \cup Used
    /\ current # 0 => sockets[current].visit \in OnDisplay
    /\ timers \in [Visits -> Nat]
    /\ \A v \in Visits : v > Len(visits) => timers[v] = 0

(* A socket of the login page: before the greeting; with its command on the *)
(* way; with its answer on the way.                                         *)
BeforeHello(x) ==
    /\ ~x.greeted /\ x.asked = <<>>
    /\ x.got = IF x.state = "connecting" THEN <<>> ELSE <<"greeting">>
Asking(x) == x.greeted /\ x.state = "open" /\ x.asked = <<x.hello>> /\ x.got = <<>>
Told(x) ==
    /\ x.greeted /\ x.state = "open" /\ x.asked = <<>>
    /\ \E a \in {"registered", "error", "welcome"} :
          x.got = <<a>> /\ (a = "welcome" => x.hello.arg \in accounts)
Attempt(x) ==
    /\ x.state \in {"connecting", "open"}
    /\ x.hello.op \in {"REGISTER", "LOGIN"} /\ x.hello.arg \in Forms
    /\ BeforeHello(x) \/ Asking(x) \/ Told(x)
Attempts == \A s \in Attempting : Attempt(sockets[s])

(* The form is busy on the login page only.  Unless the server has closed   *)
(* without a word, or the error of a closed attempt has come late, it is    *)
(* busy with one attempt, its own, or free and there is none.               *)
FormInv ==
    /\ {loading, silent, belated} \subseteq BOOLEAN
    /\ loading => screen = 0
    /\ ~silent /\ ~belated =>
          /\ loading <=> Attempting # {}
          /\ \A s \in Attempting : sockets[s].form = Len(visits)
          /\ \A s, t \in Attempting : s = t

(* new WebSocket takes a slot that was free. *)
LEMMA OpenTakesFree ==
  ASSUME NEW map, NEW new, DOMAIN map \subseteq Slots, DOMAIN map # Slots
  PROVE  \E t : /\ t \in Slots /\ t \notin DOMAIN map /\ t = Free(map)
                /\ DOMAIN Open(map, new) = DOMAIN map \cup {t}
                /\ Open(map, new) = [u \in DOMAIN Open(map, new) |-> Open(map, new)[u]]
                /\ Open(map, new)[t] = new
                /\ \A u \in DOMAIN map : Open(map, new)[u] = map[u]
<1>1. PICK t : t = Free(map) /\ t \in Slots /\ t \notin DOMAIN map
  BY DEF Free
<1>2. Open(map, new) = [u \in DOMAIN map \cup {t} |-> IF u = t THEN new ELSE map[u]]
  BY <1>1 DEF Open
<1>3. QED
  BY <1>1, <1>2
--------------------------------------------------------------------------------
(* What a step does to the sockets.  It neither adds nor removes one, and   *)
(* changes at most what is on its way, ...                                  *)
Same ==
    /\ Used' = Used /\ sockets' = [s \in Used |-> sockets'[s]]
    /\ \A s \in Used : /\ IsSocket(sockets'[s])
                       /\ sockets'[s].visit = sockets[s].visit
                       /\ sockets'[s].form = sockets[s].form
Keeps ==
    /\ Same
    /\ \A s \in Of(0) : sockets'[s].state = "closing" <=> sockets[s].state = "closing"
    /\ \A s \in Attempting : Attempt(sockets[s])'
    /\ UNCHANGED <<screen, mounted, visits, current, timers, loading, silent, belated>>
(* ... or ends an attempt, whose socket is closed, ...                      *)
Shut(y, x) == y.state = "closing" /\ y.hello = x.hello /\ y.asked = x.asked
Ends(s) ==
    /\ Same /\ s \in Attempting /\ Shut(sockets'[s], sockets[s])
    /\ \A t \in Used : t # s => sockets'[t] = sockets[t]
    /\ loading' = (loading /\ ~Heard(s))
    /\ UNCHANGED <<screen, mounted, visits, current, timers, silent, belated>>
(* ... or goes back to the login page;                                      *)
Leaves ==
    /\ Same /\ screen # 0 /\ \A s \in Of(0) : sockets'[s] = sockets[s]
    /\ \A s \in Used : sockets'[s] = sockets[s] \/ Shut(sockets'[s], sockets[s])
    /\ screen' = 0 /\ mounted' = 0 /\ current' = 0
    /\ UNCHANGED <<visits, timers, loading, silent, belated>>
(* it opens one, for an attempt or for a reconnect, ...                     *)
Opens(s, x) ==
    /\ s \in Slots \ Used /\ IsSocket(x) /\ x.checks = <<>>
    /\ sockets' = [t \in Used \cup {s} |-> IF t = s THEN x ELSE sockets[t]]
    /\ UNCHANGED <<screen, mounted, visits, silent, belated>>
    /\ \/ /\ x.visit = 0 /\ x.form = Len(visits) /\ Attempt(x)
          /\ screen = 0 /\ ~loading /\ loading' = TRUE
          /\ UNCHANGED <<timers, current>>
       \/ /\ x.visit \in Visits /\ timers[x.visit] > 0
          /\ timers' = [timers EXCEPT ![x.visit] = @ - 1]
          /\ UNCHANGED loading
          /\ current' = current \/ (current' = s /\ x.visit \in OnDisplay)
(* ... removes one, ...                                                     *)
Removes(s) ==
    /\ s \in Used /\ sockets' = [t \in Used \ {s} |-> sockets[t]]
    /\ UNCHANGED <<screen, mounted, visits>> /\ current' \in {0, current} \ {s}
    /\ {loading', silent', belated'} \subseteq BOOLEAN
    /\ (silent => silent') /\ (belated => belated') /\ (loading' => loading)
    /\ timers' = IF sockets[s].visit = 0 THEN timers
                 ELSE [timers EXCEPT ![sockets[s].visit] = @ + 1]
    /\ \/ /\ s \in Attempting
          /\ loading' = (loading /\ ~Heard(s)) \/ (Heard(s) => silent')
       \/ /\ s \notin Attempting
          /\ loading' = loading \/ belated'
(* ... or turns the page to the next visit, with a new socket.              *)
Enters(s, t, x) ==
    /\ s \in Attempting /\ t \in Slots \ Used
    /\ x.visit = Len(visits) + 1 /\ IsSocket(x) /\ x.checks = <<>>
    /\ Used' = Used \cup {t} /\ sockets' = [u \in Used' |-> sockets'[u]]
    /\ sockets'[t] = x /\ sockets'[s].state = "closing"
    /\ \A u \in Used : /\ IsSocket(sockets'[u])
                       /\ sockets'[u].visit = sockets[u].visit
                       /\ sockets'[u] = sockets[u] \/ Shut(sockets'[u], sockets[u])
                       /\ u \in Of(0) \ {s} => sockets'[u] = sockets[u]
    /\ Len(visits) < MAX_VISITS
    /\ \E pair \in Forms \cap accounts : visits' = Append(visits, pair)
    /\ screen' = Len(visits) + 1 /\ current' = t
    /\ mounted' = IF screen = 0 THEN Len(visits) + 1 ELSE mounted
    /\ loading' = FALSE /\ UNCHANGED <<timers, silent, belated>>

(* Sending on a socket changes that one only. *)
Updates(s, x) ==
    /\ s \in Used /\ IsSocket(x) /\ x.visit = sockets[s].visit /\ x.form = sockets[s].form
    /\ sockets' = [sockets EXCEPT ![s] = x]

(* It keeps them all. *)
LEMMA UpdatesSame ==
  ASSUME Shaped, NEW s, NEW x, Updates(s, x)
  PROVE  /\ Same /\ sockets'[s] = x
         /\ \A t \in Used : t # s => sockets'[t] = sockets[t]
<1>1. sockets' = [t \in Used |-> IF t = s THEN x ELSE sockets[t]]
  BY DEF Updates, Shaped, Used
<1>2. /\ Used' = Used /\ sockets' = [t \in Used |-> sockets'[t]]
      /\ \A t \in Used : sockets'[t] = IF t = s THEN x ELSE sockets[t]
  BY <1>1 DEF Used
<1>3. QED
  BY <1>2 DEF Updates, Shaped, Same

(* The actions on one socket are such changes. *)
LEMMA SendHelloUpdates ==
  ASSUME Shaped, NEW s \in Used, sockets' = SendHello(s)
  PROVE  Updates(s, [sockets[s] EXCEPT !.greeted = TRUE, !.got = Tail(@),
                                       !.asked = Append(@, sockets[s].hello)])
<1>1. IsSocket(sockets[s]) /\ sockets = [t \in Used |-> sockets[t]]
  BY DEF Shaped
<1> DEFINE x == sockets[s]
           y == [x EXCEPT !.greeted = TRUE, !.got = Tail(@), !.asked = Append(@, x.hello)]
<1>2. IsSocket(y) /\ y.visit = x.visit /\ y.form = x.form
  BY <1>1 DEF IsSocket, SocketFields
<1>3. SendHello(s) = [sockets EXCEPT ![s] = y]
  BY <1>1 DEF SendHello, IsSocket, SocketFields
<1>4. QED
  BY <1>2, <1>3 DEF Updates

LEMMA ConnectedUpdates ==
  ASSUME Shaped, NEW s \in Used, Connected(s)
  PROVE  Updates(s, [sockets[s] EXCEPT !.state = "open", !.got = <<"greeting">>])
<1>1. IsSocket(sockets[s]) /\ sockets = [t \in Used |-> sockets[t]]
  BY DEF Shaped
<1>2. QED
  BY <1>1 DEF Connected, Updates, IsSocket, SocketFields

(* What the server does with the first command of the socket x. *)
Reply(x, answer) ==
    [x EXCEPT !.asked = Tail(@),
              !.got = IF x.state = "open" THEN Append(@, answer) ELSE @]
LEMMA AnsweredUpdates ==
  ASSUME Shaped, NEW s \in Used, Answered(s)
  PROVE  \E c, answer :
            /\ c = Head(sockets[s].asked) /\ answer \in {"error"} \cup Obeyed(c)
            /\ Updates(s, Reply(sockets[s], answer))
            /\ accounts' = accounts \cup (IF answer = "registered" THEN {c.arg} ELSE {})
<1>1. IsSocket(sockets[s]) /\ sockets = [t \in Used |-> sockets[t]]
  BY DEF Shaped
<1>2. PICK c, answer :
         /\ c = Head(sockets[s].asked) /\ answer \in {"error"} \cup Obeyed(c)
         /\ sockets' = [sockets EXCEPT
               ![s].asked = Tail(@),
               ![s].got = IF sockets[s].state = "open" THEN Append(@, answer) ELSE @]
         /\ accounts' = accounts \cup (IF answer = "registered" THEN {c.arg} ELSE {})
  BY DEF Answered
<1>3. Updates(s, Reply(sockets[s], answer))
  BY <1>1, <1>2 DEF Reply, Updates, IsSocket, SocketFields
<1>4. QED
  BY <1>2, <1>3

LEMMA SendOnUpdates ==
  ASSUME Shaped, NEW s \in Used, NEW command, NEW check, SendOn(s, command, check)
  PROVE  Updates(s, [sockets[s] EXCEPT !.asked = Append(@, command), !.checks = @ \o check])
<1>1. IsSocket(sockets[s]) /\ sockets = [t \in Used |-> sockets[t]]
  BY DEF Shaped
<1>2. QED
  BY <1>1 DEF SendOn, Updates, IsSocket, SocketFields

LEMMA ClosesUpdates ==
  ASSUME Shaped, NEW s \in Used, NEW map, map = Closes(s)
  PROVE  /\ IsSocket(Closing(sockets[s])) /\ Closing(sockets[s]).visit = sockets[s].visit
         /\ Closing(sockets[s]).form = sockets[s].form
         /\ Shut(Closing(sockets[s]), sockets[s])
         /\ map = [t \in Used |-> IF t = s THEN Closing(sockets[s]) ELSE sockets[t]]
<1>1. IsSocket(sockets[s]) /\ sockets = [t \in Used |-> sockets[t]]
  BY DEF Shaped
<1>2. QED
  BY <1>1 DEF Closes, Closing, IsSocket, SocketFields, Shut

(* The chat page reads a message off the socket x, which is then y. *)
ReadOff(x, y, greeting) ==
    /\ y.got = Tail(x.got) /\ y.checks = <<>> /\ y.hello = x.hello /\ y.state = x.state
    /\ y.asked = IF greeting THEN Append(x.asked, x.hello) ELSE x.asked
LEMMA ChatMessageUpdates ==
  ASSUME Shaped, NEW s \in Used, ChatMessage(s)
  PROVE  \E y : Updates(s, y) /\ ReadOff(sockets[s], y, IsGreeting(s))
<1>1. IsSocket(sockets[s]) /\ sockets = [t \in Used |-> sockets[t]]
  BY DEF Shaped
<1> DEFINE x == sockets[s]
<1>2. CASE IsGreeting(s)
  <2> DEFINE y == [x EXCEPT !.greeted = TRUE, !.got = Tail(@), !.asked = Append(@, x.hello),
                            !.checks = <<>>]
  <2>1. IsSocket(y) /\ y.visit = x.visit /\ y.form = x.form
    BY <1>1 DEF IsSocket, SocketFields
  <2>2. ReadOff(x, y, TRUE)
    BY <1>1 DEF IsSocket, SocketFields, ReadOff
  <2>3. sockets' = [sockets EXCEPT ![s] = y]
    BY <1>1, <1>2 DEF ChatMessage, SendHello, DropChecks, IsSocket, SocketFields
  <2>4. QED
    BY <1>2, <2>1, <2>2, <2>3 DEF Updates, ReadOff
<1>3. CASE ~IsGreeting(s)
  <2> DEFINE y == [x EXCEPT !.got = Tail(@), !.checks = <<>>]
  <2>1. IsSocket(y) /\ y.visit = x.visit /\ y.form = x.form
    BY <1>1 DEF IsSocket, SocketFields
  <2>2. ReadOff(x, y, FALSE)
    BY <1>1 DEF IsSocket, SocketFields, ReadOff
  <2>3. sockets' = [sockets EXCEPT ![s] = y]
    BY <1>1, <1>3 DEF ChatMessage, DropChecks, IsSocket, SocketFields
  <2>4. QED
    BY <1>3, <2>1, <2>2, <2>3 DEF Updates, ReadOff
<1>4. QED
  BY <1>2, <1>3

(* A change that closes no socket and does not disturb an attempt. *)
LEMMA UpdatesKeep ==
  ASSUME Shaped, Attempts, NEW s \in Used, NEW x, Updates(s, x),
         x.state = "closing" <=> sockets[s].state = "closing",
         s \in Attempting => Attempt(sockets[s])',
         accounts \subseteq accounts',
         UNCHANGED <<screen, mounted, visits, current, timers, loading, silent, belated>>
  PROVE  Keeps
<1>1. /\ Same /\ sockets'[s] = x
      /\ \A t \in Used : t # s => sockets'[t] = sockets[t]
  BY UpdatesSame
<1>2. ASSUME NEW t \in Attempting PROVE Attempt(sockets[t])'
  <2>1. CASE t = s
    BY <1>2, <2>1
  <2>2. CASE t # s
    <3>1. Attempt(sockets[t]) /\ sockets'[t] = sockets[t]
      BY <1>1, <1>2, <2>2 DEF Attempts, Attempting, Of
    <3>2. QED
      BY <3>1 DEF Attempt, BeforeHello, Asking, Told
  <2>3. QED
    BY <2>1, <2>2
<1>3. \A t \in Of(0) : sockets'[t].state = "closing" <=> sockets[t].state = "closing"
  BY <1>1 DEF Of
<1>4. QED
  BY <1>1, <1>2, <1>3 DEF Keeps

(* Such are the making of a connection, ...                                 *)
LEMMA ConnectedKeeps ==
  ASSUME Shaped, Attempts, NEW s \in Used, Connected(s)
  PROVE  Keeps
<1>1. IsSocket(sockets[s])
  BY DEF Shaped
<1>2. PICK x, y : x = sockets[s] /\ y = [x EXCEPT !.state = "open", !.got = <<"greeting">>]
  OBVIOUS
<1>3. Updates(s, y) /\ sockets'[s] = y
  BY <1>2, ConnectedUpdates, UpdatesSame
<1>4. /\ y.state = "open" /\ y.got = <<"greeting">> /\ y.hello = x.hello
      /\ y.greeted = x.greeted /\ y.asked = x.asked
  BY <1>1, <1>2 DEF IsSocket, SocketFields
<1>5. s \in Attempting => Attempt(sockets[s])'
  <2> SUFFICES ASSUME s \in Attempting PROVE Attempt(sockets[s])'
    OBVIOUS
  <2>1. Attempt(x) /\ x.state = "connecting"
    BY <1>2 DEF Attempts, Connected
  <2>2. BeforeHello(x)
    BY <2>1 DEF Attempt, Asking, Told
  <2>3. QED
    BY <1>3, <1>4, <2>1, <2>2 DEF Attempt, BeforeHello
<1>6. x.state # "closing"
  BY <1>2 DEF Connected
<1>7. QED
  BY <1>2, <1>3, <1>4, <1>5, <1>6, UpdatesKeep DEF Connected, page, memory

(* ... the command, ...                                                     *)
LEMMA GreetedKeeps ==
  ASSUME Shaped, Attempts, NEW s \in Of(0), sockets[s].got # <<>>, sockets[s].state = "open",
         LoginGreeted(s), UNCHANGED <<accounts, memory>>
  PROVE  Keeps
<1>1. s \in Used /\ s \in Attempting /\ IsSocket(sockets[s]) /\ Attempt(sockets[s])
  BY DEF Of, Shaped, Attempts, Attempting
<1>2. PICK x, y : /\ x = sockets[s]
                  /\ y = [x EXCEPT !.greeted = TRUE, !.got = Tail(@),
                                   !.asked = Append(@, x.hello)]
  OBVIOUS
<1>3. Updates(s, y) /\ sockets'[s] = y
  BY <1>1, <1>2, SendHelloUpdates, UpdatesSame DEF LoginGreeted
<1>4. x.got = <<"greeting">> /\ x.asked = <<>>
  BY <1>1, <1>2 DEF LoginGreeted, IsGreeting, Attempt, BeforeHello, Asking, Told
<1>5. /\ y.state = "open" /\ y.got = <<>> /\ y.greeted = TRUE
      /\ y.hello = x.hello /\ y.asked = <<x.hello>>
  <2>1. /\ y.state = x.state /\ y.greeted = TRUE /\ y.hello = x.hello
        /\ y.got = Tail(x.got) /\ y.asked = Append(x.asked, x.hello)
    BY <1>1, <1>2 DEF IsSocket, SocketFields
  <2>2. Tail(<<"greeting">>) = <<>> /\ Append(<<>>, x.hello) = <<x.hello>>
    OBVIOUS
  <2>3. QED
    BY <1>2, <1>4, <2>1, <2>2
<1>6. Attempt(sockets[s])'
  BY <1>1, <1>2, <1>3, <1>5 DEF Attempt, Asking
<1>7. y.state = "closing" <=> sockets[s].state = "closing"
  BY <1>5
<1>8. QED
  BY <1>1, <1>3, <1>6, <1>7, UpdatesKeep DEF LoginGreeted, page, memory

(* ... and the answer.                                                      *)
LEMMA AnsweredKeeps ==
  ASSUME Shaped, Attempts, NEW s \in Used, Answered(s)
  PROVE  Keeps
<1>1. PICK c, answer :
         /\ c = Head(sockets[s].asked) /\ answer \in {"error"} \cup Obeyed(c)
         /\ Updates(s, Reply(sockets[s], answer))
         /\ accounts' = accounts \cup (IF answer = "registered" THEN {c.arg} ELSE {})
  BY AnsweredUpdates
<1>2. PICK x, y : x = sockets[s] /\ y = Reply(x, answer)
  OBVIOUS
<1>3. Updates(s, y) /\ sockets'[s] = y /\ IsSocket(x)
  BY <1>1, <1>2, UpdatesSame DEF Shaped
<1>4. /\ y.state = x.state /\ y.hello = x.hello /\ y.greeted = x.greeted
      /\ y.asked = Tail(x.asked)
      /\ x.state = "open" => y.got = Append(x.got, answer)
  BY <1>2, <1>3 DEF Reply, IsSocket, SocketFields
<1>5. s \in Attempting => Attempt(sockets[s])'
  <2> SUFFICES ASSUME s \in Attempting PROVE Attempt(sockets[s])'
    OBVIOUS
  <2>1. Attempt(x) /\ x.asked # <<>>
    BY <1>2 DEF Attempts, Answered
  <2>2. Asking(x)
    BY <2>1 DEF Attempt, BeforeHello, Told
  <2>3. c = x.hello
    BY <1>1, <1>2, <2>2 DEF Asking
  <2>4. /\ answer \in {"registered", "error", "welcome"}
        /\ answer = "welcome" => x.hello.arg \in accounts
    BY <1>1, <2>1, <2>3 DEF Attempt, Obeyed
  <2>5. y.state = "open" /\ y.greeted /\ y.asked = <<>> /\ y.got = <<answer>>
    BY <1>4, <2>2 DEF Asking
  <2>6. QED
    BY <1>1, <1>3, <1>4, <2>1, <2>4, <2>5 DEF Attempt, Told
<1>6. QED
  BY <1>1, <1>2, <1>3, <1>4, <1>5, UpdatesKeep DEF Answered, page, memory

(* The answer that ends an attempt, unless it leads to the chat. *)
LEMMA AnswerEnds ==
  ASSUME Shaped, FormInv, NEW s \in Of(0), sockets[s].state = "open", sockets' = Closes(s),
         UNCHANGED memory,
         \/ LoginRefused(s)
         \/ LoginAccepted(s) /\ SameUser(sockets[s].hello.arg)
  PROVE  Ends(s)
<1>1. s \in Used /\ s \in Attempting
  BY DEF Of, Attempting
<1>2. PICK y : y = Closing(sockets[s]) /\ Shut(y, sockets[s]) /\ Updates(s, y)
  BY <1>1, ClosesUpdates DEF Closes, Closing, Updates
<1>3. /\ Same /\ Shut(sockets'[s], sockets[s])
      /\ \A t \in Used : t # s => sockets'[t] = sockets[t]
  BY <1>2, UpdatesSame
<1>4. CASE LoginRefused(s)
  BY <1>1, <1>3, <1>4 DEF LoginRefused, memory, Ends
<1>5. CASE LoginAccepted(s) /\ SameUser(sockets[s].hello.arg)
  <2>1. loading = FALSE
    BY <1>5 DEF SameUser, FormInv
  <2>2. loading' = FALSE /\ UNCHANGED <<screen, mounted, visits, current, timers, silent, belated>>
    BY <1>5 DEF LoginAccepted, memory
  <2>3. QED
    BY <1>1, <1>3, <2>1, <2>2 DEF Ends
<1>6. QED
  BY <1>4, <1>5

(* Chat's effect closes one of its own sockets at most. *)
LEMMA UnmountingKeeps ==
  ASSUME NEW map, screen # 0, DOMAIN map = Used,
         \A u \in Used : IsSocket(map[u]) /\ map[u].visit = sockets[u].visit
  PROVE  /\ DOMAIN Unmounting(map) = Used
         /\ \A u \in Used :
               /\ IsSocket(Unmounting(map)[u])
               /\ Unmounting(map)[u].visit = map[u].visit
               /\ Unmounting(map)[u].form = map[u].form
               /\ \/ Unmounting(map)[u] = map[u]
                  \/ sockets[u].visit # 0 /\ Shut(Unmounting(map)[u], map[u])
<1>1. DOMAIN Unmounting(map) = Used
  BY DEF Unmounting
<1>2. ASSUME NEW u \in Used
      PROVE  \/ Unmounting(map)[u] = map[u]
             \/ sockets[u].visit # 0 /\ Unmounting(map)[u] = Closing(map[u])
  BY DEF Unmounting, Of
<1>3. ASSUME NEW u \in Used
      PROVE  /\ IsSocket(Closing(map[u])) /\ Closing(map[u]).visit = map[u].visit
             /\ Closing(map[u]).form = map[u].form /\ Shut(Closing(map[u]), map[u])
  BY DEF Closing, IsSocket, SocketFields, Shut
<1>4. QED
  BY <1>1, <1>2, <1>3

LEMMA LogoutLeaves ==
  ASSUME Shaped, Logout
  PROVE  Leaves
<1>1. /\ screen # 0 /\ sockets' = Unmounting(sockets) /\ DOMAIN sockets = Used
      /\ \A u \in Used : IsSocket(sockets[u])
  BY DEF Logout, Shaped, Used
<1>2. PICK map : map = sockets
  OBVIOUS
<1>3. /\ DOMAIN map = Used /\ sockets' = Unmounting(map)
      /\ \A u \in Used : IsSocket(map[u]) /\ map[u].visit = sockets[u].visit
  BY <1>1, <1>2
<1>4. /\ DOMAIN Unmounting(map) = Used
      /\ \A u \in Used : /\ IsSocket(Unmounting(map)[u])
                         /\ Unmounting(map)[u].visit = map[u].visit
                         /\ Unmounting(map)[u].form = map[u].form
                         /\ \/ Unmounting(map)[u] = map[u]
                            \/ sockets[u].visit # 0 /\ Shut(Unmounting(map)[u], map[u])
  BY <1>1, <1>3, UnmountingKeeps
<1>5. sockets' = [u \in Used |-> sockets'[u]]
  BY <1>1 DEF Unmounting
<1>6. Same
  BY <1>2, <1>3, <1>4, <1>5 DEF Same, Used
<1>7. /\ \A u \in Of(0) : sockets'[u] = sockets[u]
      /\ \A u \in Used : sockets'[u] = sockets[u] \/ Shut(sockets'[u], sockets[u])
  BY <1>2, <1>3, <1>4 DEF Of
<1>8. QED
  BY <1>1, <1>6, <1>7 DEF Logout, Leaves, memory

(* A connection that ends is removed, and rescheduled if it was the chat's. *)
LEMMA GoneRemoves ==
  ASSUME Shaped, FormInv, NEW s \in Used, Closed(s) \/ Fails(s) \/ ServerEnds(s)
  PROVE  Removes(s)
<1>1. /\ sockets' = [t \in Used \ {s} |-> sockets[t]]
      /\ UNCHANGED <<screen, mounted, visits>>
      /\ current' \in {0, current} \ {s}
      /\ timers' = IF sockets[s].visit = 0 THEN timers
                   ELSE [timers EXCEPT ![sockets[s].visit] = @ + 1]
  <2>1. s # 0
    BY DEF Shaped, Slots
  <2>2. QED
    BY <2>1 DEF Closed, Fails, ServerEnds, Gone, Without, Rescheduled
<1>2. s \in Attempting <=> sockets[s].visit = 0 /\ sockets[s].state # "closing"
  BY DEF Attempting, Of
<1>3. CASE Closed(s)
  BY <1>1, <1>2, <1>3 DEF Closed, Removes, FormInv
<1>4. CASE Fails(s)
  <2>1. /\ loading' = (loading /\ ~Heard(s)) /\ silent' = silent
        /\ belated' = (belated \/ (sockets[s].state = "closing" /\ loading /\ Heard(s)))
    BY <1>4 DEF Fails, SetLoading
  <2>2. Heard(s) => sockets[s].visit = 0
    BY DEF Heard
  <2>3. {loading, silent, belated} \subseteq BOOLEAN
    BY DEF FormInv
  <2>4. {loading', silent', belated'} \subseteq BOOLEAN
    BY <2>1, <2>3
  <2>5. s \notin Attempting => loading' = loading \/ belated'
    BY <1>2, <2>1, <2>2, <2>3
  <2>6. QED
    BY <1>1, <2>1, <2>3, <2>4, <2>5 DEF Removes
<1>5. CASE ServerEnds(s)
  <2>1. UNCHANGED <<loading, belated>> /\ silent' = (silent \/ Heard(s))
    BY <1>5 DEF ServerEnds
  <2>2. {loading, silent, belated} \subseteq BOOLEAN
    BY DEF FormInv
  <2>3. {loading', silent', belated'} \subseteq BOOLEAN
    BY <2>1, <2>2
  <2>4. QED
    BY <1>1, <2>1, <2>3 DEF Removes
<1>6. QED
  BY <1>3, <1>4, <1>5

(* Only an accepted login leads to the chat. *)
LEMMA AcceptedEnters ==
  ASSUME Shaped, Attempts, NEW s \in Of(0), sockets[s].got # <<>>, sockets[s].state = "open",
         LoginAccepted(s), ~SameUser(sockets[s].hello.arg), UNCHANGED memory
  PROVE  \E t, x : /\ Enters(s, t, x)
                   /\ x = Socket(Len(visits) + 1, TRUE, Login(sockets[s].hello.arg))
                   /\ sockets[s].hello.arg \in accounts
<1>1. PICK pair : pair = sockets[s].hello.arg
  OBVIOUS
<1>2. PICK x : x = Socket(Len(visits) + 1, TRUE, Login(pair))
  OBVIOUS
<1>3. s \in Used /\ s \in Attempting
  BY DEF Of, Attempting
<1>4. pair \in Forms \cap accounts
  <2>1. Attempt(sockets[s])
    BY <1>3 DEF Attempts
  <2>2. CASE BeforeHello(sockets[s])
    BY <2>2 DEF BeforeHello, LoginAccepted, IsGreeting
  <2>3. CASE Told(sockets[s])
    BY <1>1, <2>1, <2>3 DEF Told, Attempt, LoginAccepted
  <2>4. QED
    BY <2>1, <2>2, <2>3 DEF Attempt, Asking
<1>5. PICK map : map = Closes(s)
  OBVIOUS
<1>6. PICK left : left = IF screen = 0 THEN map ELSE Unmounting(map)
  OBVIOUS
<1>7. /\ Used # Slots /\ Len(visits) < MAX_VISITS
      /\ sockets' = Open(left, x) /\ current' = Free(left)
      /\ visits' = Append(visits, pair) /\ screen' = Len(visits) + 1
      /\ mounted' = IF screen = 0 THEN Len(visits) + 1 ELSE mounted
      /\ loading' = FALSE /\ UNCHANGED <<timers, silent, belated>>
  BY <1>1, <1>2, <1>5, <1>6 DEF LoginAccepted, memory
<1>8. /\ DOMAIN map = Used
      /\ \A u \in Used : u # s => map[u] = sockets[u]
      /\ \A u \in Used : IsSocket(map[u]) /\ map[u].visit = sockets[u].visit
      /\ Shut(map[s], sockets[s])
  BY <1>3, <1>5, ClosesUpdates DEF Shaped
<1>9. /\ DOMAIN left = Used
      /\ \A u \in Used : /\ IsSocket(left[u]) /\ left[u].visit = sockets[u].visit
                         /\ left[u] = map[u] \/ (sockets[u].visit # 0 /\ Shut(left[u], map[u]))
  BY <1>6, <1>8, UnmountingKeeps
<1>10. /\ left[s].state = "closing"
       /\ \A u \in Of(0) \ {s} : left[u] = sockets[u]
       /\ \A u \in Used : left[u] = sockets[u] \/ Shut(left[u], sockets[u])
  BY <1>3, <1>8, <1>9 DEF Of, Shut
<1>11. PICK t : /\ t \in Slots /\ t \notin DOMAIN left /\ t = Free(left)
                /\ DOMAIN Open(left, x) = DOMAIN left \cup {t}
                /\ Open(left, x) = [u \in DOMAIN Open(left, x) |-> Open(left, x)[u]]
                /\ Open(left, x)[t] = x
                /\ \A u \in DOMAIN left : Open(left, x)[u] = left[u]
  <2>1. DOMAIN left \subseteq Slots /\ DOMAIN left # Slots
    BY <1>7, <1>9 DEF Shaped
  <2>2. QED
    BY ONLY <2>1, OpenTakesFree
<1>12. /\ Used' = Used \cup {t} /\ sockets' = [u \in Used' |-> sockets'[u]]
       /\ sockets'[t] = x /\ \A u \in Used : sockets'[u] = left[u]
  BY <1>7, <1>9, <1>11 DEF Used
<1>13. IsSocket(x) /\ x.visit = Len(visits) + 1 /\ x.checks = <<>>
  BY <1>2 DEF Socket, IsSocket, SocketFields
<1>14. Enters(s, t, x)
  <2>1. /\ s \in Attempting /\ t \in Slots \ Used
        /\ x.visit = Len(visits) + 1 /\ IsSocket(x) /\ x.checks = <<>>
    BY <1>3, <1>9, <1>11, <1>13
  <2>2. /\ sockets'[s].state = "closing"
        /\ \A u \in Used : /\ IsSocket(sockets'[u])
                           /\ sockets'[u].visit = sockets[u].visit
                           /\ sockets'[u] = sockets[u] \/ Shut(sockets'[u], sockets[u])
                           /\ u \in Of(0) \ {s} => sockets'[u] = sockets[u]
    BY <1>3, <1>9, <1>10, <1>12
  <2>3. \E p \in Forms \cap accounts : visits' = Append(visits, p)
    BY <1>4, <1>7
  <2>4. current' = t
    BY <1>7, <1>11
  <2>5. QED
    BY <1>7, <1>12, <2>1, <2>2, <2>3, <2>4 DEF Enters
<1>15. QED
  BY <1>1, <1>2, <1>4, <1>14

(* A new socket is opened by an attempt, ... *)
LEMMA SubmitOpens ==
  ASSUME Shaped, Submit
  PROVE  \E s, x : /\ Opens(s, x)
                   /\ \E op \in {"REGISTER", "LOGIN"}, pair \in Forms :
                         x = Socket(0, TRUE, [op |-> op, arg |-> pair])
<1>1. PICK op \in {"REGISTER", "LOGIN"}, pair \in Forms :
         sockets' = Open(sockets, Socket(0, TRUE, [op |-> op, arg |-> pair]))
  BY DEF Submit
<1>2. PICK x : x = Socket(0, TRUE, [op |-> op, arg |-> pair])
  OBVIOUS
<1>3. PICK map : /\ map = sockets /\ sockets' = Open(map, x)
                 /\ DOMAIN map \subseteq Slots /\ DOMAIN map # Slots
  BY <1>1, <1>2 DEF Submit, Shaped, Used
<1>4. IsSocket(x) /\ x.visit = 0 /\ x.form = Len(visits) /\ Attempt(x) /\ x.checks = <<>>
  BY <1>2 DEF Socket, IsSocket, SocketFields, Attempt, BeforeHello
<1>5. PICK s : /\ s \in Slots /\ s \notin DOMAIN map /\ s = Free(map)
               /\ DOMAIN Open(map, x) = DOMAIN map \cup {s}
               /\ Open(map, x) = [u \in DOMAIN Open(map, x) |-> Open(map, x)[u]]
               /\ Open(map, x)[s] = x
               /\ \A u \in DOMAIN map : Open(map, x)[u] = map[u]
  BY <1>3, OpenTakesFree
<1>6. /\ s \in Slots \ Used
      /\ sockets' = [t \in Used \cup {s} |-> IF t = s THEN x ELSE sockets[t]]
  BY <1>3, <1>5 DEF Used
<1>7. Opens(s, x)
  BY <1>4, <1>6 DEF Submit, Opens, memory
<1>8. QED
  BY <1>2, <1>7

(* ... and by a reconnect. *)
LEMMA ReconnectOpens ==
  ASSUME Shaped, NEW v \in Visits, Reconnect(v)
  PROVE  \E s, x : Opens(s, x) /\ x = Socket(v, FALSE, Login(visits[v]))
<1>1. PICK x : x = Socket(v, FALSE, Login(visits[v]))
  OBVIOUS
<1>2. PICK map : /\ map = sockets /\ sockets' = Open(map, x)
                 /\ DOMAIN map \subseteq Slots /\ DOMAIN map # Slots
  BY <1>1 DEF Reconnect, Shaped, Used
<1>3. IsSocket(x) /\ x.visit = v /\ x.checks = <<>>
  BY <1>1 DEF Socket, IsSocket, SocketFields
<1>4. PICK s : /\ s \in Slots /\ s \notin DOMAIN map /\ s = Free(map)
               /\ DOMAIN Open(map, x) = DOMAIN map \cup {s}
               /\ Open(map, x) = [u \in DOMAIN Open(map, x) |-> Open(map, x)[u]]
               /\ Open(map, x)[s] = x
               /\ \A u \in DOMAIN map : Open(map, x)[u] = map[u]
  BY <1>2, OpenTakesFree
<1>5. /\ s \in Slots \ Used
      /\ sockets' = [t \in Used \cup {s} |-> IF t = s THEN x ELSE sockets[t]]
  BY <1>2, <1>4 DEF Used
<1>6. current' = current \/ (current' = s /\ x.visit \in OnDisplay)
  BY <1>2, <1>3, <1>4 DEF Reconnect
<1>7. /\ timers[v] > 0 /\ timers' = [timers EXCEPT ![v] = @ - 1]
      /\ UNCHANGED <<screen, mounted, visits, loading, silent, belated>>
  BY DEF Reconnect, memory
<1>8. QED
  BY <1>1, <1>3, <1>5, <1>6, <1>7 DEF Opens

(* Every step is one of these. *)
LEMMA NextSockets ==
  ASSUME Shaped, Attempts, FormInv, [WebNext]_web
  PROVE  \/ Keeps \/ Leaves
         \/ \E s : Ends(s)
         \/ \E s, x : Opens(s, x)
         \/ \E s : Removes(s)
         \/ \E s, t, x : Enters(s, t, x)
<1>1. CASE Submit
  BY <1>1, SubmitOpens
<1>2. ASSUME NEW v \in Visits, Reconnect(v) PROVE \E s, x : Opens(s, x)
  BY <1>2, ReconnectOpens
<1>3. CASE Logout
  BY <1>3, LogoutLeaves
<1>4. ASSUME NEW s \in Used, StartNewChat(s) \/ HandleSend(s) PROVE Keeps
  <2>1. PICK command, check : SendOn(s, command, check)
    BY <1>4 DEF StartNewChat, HandleSend
  <2>2. PICK x, y : /\ x = sockets[s] /\ IsSocket(x)
                    /\ y = [x EXCEPT !.asked = Append(@, command), !.checks = @ \o check]
    BY DEF Shaped
  <2>3. Updates(s, y) /\ sockets'[s] = y /\ y.state = x.state
    BY <2>1, <2>2, SendOnUpdates, UpdatesSame DEF IsSocket, SocketFields
  <2>4. /\ accounts \subseteq accounts'
        /\ UNCHANGED <<screen, mounted, visits, current, timers, loading, silent, belated>>
    BY <2>1 DEF SendOn, page
  <2>5. s \notin Attempting
    BY <2>1 DEF SendOn, Attempting, Of, Shaped, Slots, OnDisplay
  <2>6. QED
    BY <2>2, <2>3, <2>4, <2>5, UpdatesKeep
<1>5. ASSUME NEW s \in Used, Closed(s) \/ Fails(s) \/ ServerEnds(s) PROVE Removes(s)
  BY <1>5, GoneRemoves
<1>6. ASSUME NEW s \in Used, Connected(s) \/ Answered(s) PROVE Keeps
  BY <1>6, ConnectedKeeps, AnsweredKeeps
<1>7. ASSUME NEW s \in Used, Message(s)
      PROVE  Keeps \/ Ends(s) \/ \E t, x : Enters(s, t, x)
  <2>0. sockets[s].state = "open" /\ sockets[s].got # <<>> /\ UNCHANGED <<accounts, memory>>
    BY <1>7 DEF Message
  <2>1. CASE sockets[s].visit = 0 /\ LoginGreeted(s)
    BY <2>0, <2>1, GreetedKeeps DEF Of
  <2>2. CASE sockets[s].visit = 0 /\ LoginRefused(s)
    BY <2>0, <2>2, AnswerEnds DEF LoginRefused, Of
  <2>3. CASE sockets[s].visit = 0 /\ LoginAccepted(s)
    <3>1. SameUser(sockets[s].hello.arg) => sockets' = Closes(s)
      BY <2>3 DEF LoginAccepted
    <3>2. QED
      BY <2>0, <2>3, <3>1, AnswerEnds, AcceptedEnters DEF Of
  <2>4. CASE sockets[s].visit # 0 /\ ChatMessage(s)
    <3>1. PICK y : Updates(s, y) /\ ReadOff(sockets[s], y, IsGreeting(s))
      BY <2>4, ChatMessageUpdates
    <3>2. s \notin Attempting /\ y.state = sockets[s].state
      BY <2>4, <3>1 DEF Attempting, Of, ReadOff
    <3>3. UNCHANGED <<screen, mounted, visits, current, timers, loading, silent, belated>>
      BY <2>0, <2>4 DEF ChatMessage, memory
    <3>4. QED
      BY <2>0, <3>1, <3>2, <3>3, UpdatesKeep
  <2>5. QED
    BY <1>7, <2>1, <2>2, <2>3, <2>4 DEF Message
<1>8. CASE UNCHANGED web
  <2>1. Same
    BY <1>8 DEF web, Same, Used, Shaped
  <2>2. \A t \in Attempting : Attempt(sockets[t])'
    BY <1>8 DEF web, Attempts, Attempt, BeforeHello, Asking, Told
  <2>3. QED
    BY <1>8, <2>1, <2>2 DEF web, page, memory, Keeps
<1>9. QED
  BY <1>1, <1>2, <1>3, <1>4, <1>5, <1>6, <1>7, <1>8 DEF WebNext, Event, Network
--------------------------------------------------------------------------------
(* Where the sockets of each visit, and the attempts, are after each kind of *)
(* step.                                                                     *)
Whole == /\ \A u \in Used' : IsSocket(sockets'[u])
         /\ sockets' = [u \in Used' |-> sockets'[u]]
LEMMA SameOf ==
  ASSUME Same
  PROVE  Whole /\ \A v : Of(v)' = Of(v)
  BY DEF Same, Of, Whole
LEMMA KeepsOf ==
  ASSUME Keeps \/ Leaves
  PROVE  Whole /\ Used' = Used /\ (\A v : Of(v)' = Of(v)) /\ Attempting' = Attempting
<1>1. Same
  BY DEF Keeps, Leaves
<1>2. Whole /\ Used' = Used /\ \A v : Of(v)' = Of(v)
  BY <1>1, SameOf DEF Same
<1>3. \A s \in Of(0) : sockets'[s].state = "closing" <=> sockets[s].state = "closing"
  BY DEF Keeps, Leaves
<1>4. Attempting' = {s \in Of(0)' : sockets'[s].state # "closing"}
  BY DEF Attempting
<1>5. Attempting' = Attempting
  BY <1>2, <1>3, <1>4 DEF Attempting
<1>6. QED
  BY <1>2, <1>5
LEMMA EndsOf ==
  ASSUME NEW s, Ends(s)
  PROVE  Whole /\ Used' = Used /\ (\A v : Of(v)' = Of(v)) /\ Attempting' = Attempting \ {s}
<1>1. Whole /\ Used' = Used /\ \A v : Of(v)' = Of(v)
  BY SameOf DEF Ends, Same
<1>2. \A t \in Of(0) : t # s => sockets'[t] = sockets[t]
  BY DEF Ends, Of
<1>3. Attempting' = {t \in Of(0)' : sockets'[t].state # "closing"}
  BY DEF Attempting
<1>4. sockets'[s].state = "closing"
  BY DEF Ends, Shut
<1>5. Attempting' = Attempting \ {s}
  BY <1>1, <1>2, <1>3, <1>4 DEF Attempting
<1>6. QED
  BY <1>1, <1>5
LEMMA OpensOf ==
  ASSUME Shaped, NEW s, NEW x, Opens(s, x)
  PROVE  /\ Whole /\ Used' = Used \cup {s}
         /\ sockets'[s] = x /\ \A t \in Used : sockets'[t] = sockets[t]
         /\ \A v : Of(v)' = IF v = x.visit THEN Of(v) \cup {s} ELSE Of(v)
         /\ x.visit = 0 => Attempting' = Attempting \cup {s}
         /\ x.visit # 0 => Attempting' = Attempting
<1>1. /\ Used' = Used \cup {s} /\ sockets'[s] = x
      /\ \A t \in Used : sockets'[t] = sockets[t]
      /\ s \notin Used /\ IsSocket(x) /\ sockets' = [t \in Used' |-> sockets'[t]]
  BY DEF Opens, Used
<1>2. \A t \in Used' : IsSocket(sockets'[t])
  BY <1>1 DEF Shaped
<1>3. \A v : Of(v)' = IF v = x.visit THEN Of(v) \cup {s} ELSE Of(v)
  BY <1>1 DEF Of
<1>4. Attempting' = {t \in Of(0)' : sockets'[t].state # "closing"}
  BY DEF Attempting
<1>5. CASE x.visit = 0
  <2>1. x.state # "closing"
    BY <1>5, WebAssumption DEF Opens, Attempt, Visits
  <2>2. Of(0)' = Of(0) \cup {s} /\ \A t \in Of(0) : sockets'[t] = sockets[t]
    BY <1>1, <1>3, <1>5 DEF Of
  <2>3. Attempting' = Attempting \cup {s}
    BY <1>1, <1>4, <2>1, <2>2 DEF Attempting
  <2>4. QED
    BY <1>1, <1>2, <1>3, <1>5, <2>3 DEF Whole
<1>6. CASE x.visit # 0
  <2>1. Of(0)' = Of(0) /\ \A t \in Of(0) : sockets'[t] = sockets[t]
    BY <1>1, <1>3, <1>6 DEF Of
  <2>2. Attempting' = Attempting
    BY <1>4, <2>1 DEF Attempting
  <2>3. QED
    BY <1>1, <1>2, <1>3, <1>6, <2>2 DEF Whole
<1>7. QED
  BY <1>5, <1>6
LEMMA RemovesOf ==
  ASSUME Shaped, NEW s, Removes(s)
  PROVE  /\ Whole /\ Used' = Used \ {s} /\ \A t \in Used' : sockets'[t] = sockets[t]
         /\ \A v : Of(v)' = Of(v) \ {s}
         /\ Attempting' = Attempting \ {s}
<1>1. /\ Used' = Used \ {s} /\ \A t \in Used' : sockets'[t] = sockets[t]
      /\ sockets' = [t \in Used' |-> sockets'[t]]
  BY DEF Removes, Used
<1>2. \A v : Of(v)' = Of(v) \ {s}
  BY <1>1 DEF Of
<1>3. Attempting' = {t \in Of(0)' : sockets'[t].state # "closing"}
  BY DEF Attempting
<1>4. Of(0)' = Of(0) \ {s} /\ \A t \in Of(0)' : sockets'[t] = sockets[t]
  BY <1>1, <1>2 DEF Of
<1>5. Attempting' = Attempting \ {s}
  BY <1>3, <1>4 DEF Attempting
<1>6. QED
  BY <1>1, <1>2, <1>5 DEF Whole, Shaped
LEMMA EntersOf ==
  ASSUME Shaped, NEW s, NEW t, NEW x, Enters(s, t, x)
  PROVE  /\ Whole /\ Used' = Used \cup {t}
         /\ \A v : Of(v)' = IF v = Len(visits) + 1 THEN {t} ELSE Of(v)
         /\ visits' \in Seq(Forms) /\ Len(visits') = Len(visits) + 1
         /\ Attempting' = Attempting \ {s}
<1>1. /\ Used' = Used \cup {t} /\ sockets' = [u \in Used' |-> sockets'[u]]
      /\ sockets'[t] = x /\ x.visit = Len(visits) + 1 /\ IsSocket(x)
      /\ \A u \in Used : IsSocket(sockets'[u]) /\ sockets'[u].visit = sockets[u].visit
      /\ t \notin Used /\ s \in Attempting /\ sockets'[s].state = "closing"
      /\ \A u \in Of(0) \ {s} : sockets'[u] = sockets[u]
  BY DEF Enters, Of
<1>2. \A u \in Used : sockets[u].visit # Len(visits) + 1
  BY DEF Shaped
<1>3. \A v : Of(v)' = IF v = Len(visits) + 1 THEN {t} ELSE Of(v)
  BY <1>1, <1>2 DEF Of
<1>4. visits' \in Seq(Forms) /\ Len(visits') = Len(visits) + 1
  BY DEF Shaped, Enters
<1>5. Attempting' = {u \in Of(0)' : sockets'[u].state # "closing"}
  BY DEF Attempting
<1>6. Of(0)' = Of(0)
  BY <1>3 DEF Shaped
<1>7. Attempting' = Attempting \ {s}
  BY <1>1, <1>5, <1>6 DEF Attempting
<1>8. QED
  BY <1>1, <1>3, <1>4, <1>7 DEF Whole

(* Every step keeps the shape. *)
LEMMA NextShaped ==
  ASSUME Shaped, Attempts, FormInv, [WebNext]_web
  PROVE  Shaped'
<1>1. CASE Keeps
  <2>1. /\ Used' = Used /\ Whole /\ \A u \in Used : sockets'[u].visit = sockets[u].visit
        /\ UNCHANGED <<screen, mounted, visits, current, timers>>
    BY <1>1, KeepsOf DEF Keeps, Same
  <2>2. QED
    BY <2>1 DEF Shaped, Whole, OnDisplay
<1>2. CASE Leaves
  <2>1. /\ Used' = Used /\ Whole /\ \A u \in Used : sockets'[u].visit = sockets[u].visit
        /\ screen' = 0 /\ mounted' = 0 /\ current' = 0 /\ UNCHANGED <<visits, timers>>
    BY <1>2, KeepsOf DEF Leaves, Same
  <2>2. QED
    BY <2>1 DEF Shaped, Whole
<1>3. ASSUME NEW s, Ends(s) PROVE Shaped'
  <2>1. /\ Used' = Used /\ Whole /\ \A u \in Used : sockets'[u].visit = sockets[u].visit
        /\ UNCHANGED <<screen, mounted, visits, current, timers>>
    BY <1>3, EndsOf DEF Ends, Same
  <2>2. QED
    BY <2>1 DEF Shaped, Whole, OnDisplay
<1>4. ASSUME NEW s, NEW x, Opens(s, x) PROVE Shaped'
  <2>1. /\ Whole /\ Used' = Used \cup {s} /\ sockets'[s] = x
        /\ \A t \in Used : sockets'[t] = sockets[t]
    BY <1>4, OpensOf
  <2>2. x.visit \in 0..Len(visits)
    <3>1. Len(visits) \in Nat /\ \A v \in Visits : timers[v] > 0 => v <= Len(visits) /\ v \in Nat
      BY WebAssumption DEF Shaped, Visits
    <3>2. x.visit = 0 \/ (x.visit \in Visits /\ timers[x.visit] > 0)
      BY <1>4 DEF Opens
    <3>3. QED
      BY <3>1, <3>2
  <2>3. timers' \in [Visits -> Nat] /\ \A v \in Visits : v > Len(visits) => timers'[v] = 0
    BY <1>4, <2>2 DEF Opens, Shaped
  <2>4. /\ current' \in {0} \cup Used'
        /\ current' # 0 => sockets'[current'].visit \in OnDisplay
    <3>1. current' = current \/ (current' = s /\ x.visit \in OnDisplay)
      BY <1>4 DEF Opens
    <3>2. current \in {0} \cup Used /\ (current # 0 => sockets[current].visit \in OnDisplay)
      BY DEF Shaped
    <3>3. QED
      BY <2>1, <3>1, <3>2
  <2>5. UNCHANGED <<screen, mounted, visits>> /\ s \in Slots
    BY <1>4 DEF Opens
  <2>6. QED
    BY <2>1, <2>2, <2>3, <2>4, <2>5 DEF Shaped, Whole, OnDisplay
<1>5. ASSUME NEW s, Removes(s) PROVE Shaped'
  <2>1. Whole /\ Used' = Used \ {s} /\ \A t \in Used' : sockets'[t] = sockets[t]
    BY <1>5, RemovesOf
  <2>2. s \in Used /\ sockets[s].visit \in 0..Len(visits)
    BY <1>5 DEF Removes, Shaped
  <2>3. timers' \in [Visits -> Nat] /\ \A v \in Visits : v > Len(visits) => timers'[v] = 0
    <3>1. timers' = IF sockets[s].visit = 0 THEN timers
                    ELSE [timers EXCEPT ![sockets[s].visit] = @ + 1]
      BY <1>5 DEF Removes
    <3>2. timers \in [Visits -> Nat] /\ \A v \in Visits : v > Len(visits) => timers[v] = 0
      BY DEF Shaped
    <3>3. sockets[s].visit \in Int /\ sockets[s].visit <= Len(visits) /\ Len(visits) \in Nat
      BY <2>2 DEF Shaped
    <3>4. \A v \in Visits : v \in Nat
      BY WebAssumption DEF Visits
    <3>5. timers' \in [Visits -> Nat]
      <4>1. PICK n : /\ n = sockets[s].visit
                     /\ timers' = IF n = 0 THEN timers ELSE [timers EXCEPT ![n] = @ + 1]
        BY <3>1
      <4>2. \A v \in Visits : timers[v] + 1 \in Nat
        BY <3>2
      <4>3. [timers EXCEPT ![n] = @ + 1] \in [Visits -> Nat]
        BY <3>2, <4>2
      <4>4. QED
        BY <3>2, <4>1, <4>3
    <3>6. ASSUME NEW v \in Visits, v > Len(visits) PROVE timers'[v] = 0
      <4>1. v # sockets[s].visit
        BY <3>3, <3>4, <3>6
      <4>2. QED
        BY <3>1, <3>2, <3>6, <4>1
    <3>7. QED
      BY <3>5, <3>6
  <2>4. /\ UNCHANGED <<screen, mounted, visits>> /\ current' \in {0} \cup Used'
        /\ current' # 0 => sockets'[current'].visit \in OnDisplay
    BY <1>5, <2>1 DEF Removes, Shaped
  <2>5. QED
    BY <2>1, <2>3, <2>4 DEF Shaped, Whole, OnDisplay
<1>6. ASSUME NEW s, NEW t, NEW x, Enters(s, t, x) PROVE Shaped'
  <2>1. /\ Whole /\ Used' = Used \cup {t}
        /\ visits' \in Seq(Forms) /\ Len(visits') = Len(visits) + 1
    BY <1>6, EntersOf
  <2>2. Len(visits) < MAX_VISITS /\ Len(visits) \in Nat
    BY <1>6 DEF Enters, Shaped
  <2>3. \A u \in Used' : sockets'[u].visit \in 0..Len(visits')
    <3>1. /\ sockets'[t].visit = Len(visits) + 1
          /\ \A u \in Used : sockets'[u].visit = sockets[u].visit
      BY <1>6 DEF Enters
    <3>2. QED
      BY <2>1, <2>2, <3>1 DEF Shaped
  <2>4. /\ screen' = Len(visits') /\ mounted' \in 0..screen' /\ current' = t
        /\ t \in Slots /\ Len(visits') <= MAX_VISITS /\ sockets'[t].visit = screen'
        /\ mounted' # 0 /\ UNCHANGED timers
    <3>1. /\ screen' = Len(visits) + 1
          /\ mounted' = IF screen = 0 THEN Len(visits) + 1 ELSE mounted
          /\ current' = t /\ t \in Slots /\ UNCHANGED timers
          /\ sockets'[t].visit = Len(visits) + 1
      BY <1>6 DEF Enters
    <3>2. mounted \in 0..Len(visits) /\ (screen # 0 => mounted # 0)
      BY <2>2 DEF Shaped
    <3>3. QED
      BY <2>1, <2>2, <3>1, <3>2, WebAssumption
  <2>5. timers' \in [Visits -> Nat] /\ \A v \in Visits : v > Len(visits') => timers'[v] = 0
    BY <2>1, <2>2, <2>4, WebAssumption DEF Shaped, Visits
  <2>6. screen' # 0 /\ current' \in {0} \cup Used' /\ Used' \subseteq Slots
    BY <2>1, <2>2, <2>4 DEF Shaped
  <2>7. sockets'[current'].visit \in OnDisplay'
    BY <2>1, <2>2, <2>4, <2>6 DEF OnDisplay
  <2>8. QED
    BY <2>1, <2>3, <2>4, <2>5, <2>6, <2>7 DEF Shaped, Whole
<1>7. QED
  BY <1>1, <1>2, <1>3, <1>4, <1>5, <1>6, NextSockets

(* Every step keeps the form in step with its attempt. *)
LEMMA NextForm ==
  ASSUME Shaped, Attempts, FormInv, [WebNext]_web
  PROVE  FormInv'
<1>1. CASE Keeps
  <2>1. /\ Attempting' = Attempting /\ UNCHANGED <<screen, visits, loading, silent, belated>>
        /\ \A t \in Attempting : sockets'[t].form = sockets[t].form
    BY <1>1, KeepsOf DEF Keeps, Same, Attempting, Of
  <2>2. QED
    BY <2>1 DEF FormInv
<1>2. CASE Leaves
  <2>1. /\ Attempting' = Attempting /\ UNCHANGED <<visits, loading, silent, belated>>
        /\ screen # 0 /\ \A t \in Attempting : sockets'[t].form = sockets[t].form
    BY <1>2, KeepsOf DEF Leaves, Same, Attempting, Of
  <2>2. QED
    BY <2>1 DEF FormInv
<1>3. ASSUME NEW s, Ends(s) PROVE FormInv'
  <2>1. /\ Attempting' = Attempting \ {s} /\ s \in Attempting
        /\ UNCHANGED <<screen, visits, silent, belated>>
        /\ loading' = (loading /\ ~Heard(s))
    BY <1>3, EndsOf DEF Ends
  <2>2. loading' \in BOOLEAN /\ (loading' => screen' = 0)
    BY <2>1 DEF FormInv
  <2>3. ~silent /\ ~belated => loading' = FALSE /\ Attempting' = {}
    BY <2>1 DEF FormInv, Heard, Attempting, Of
  <2>4. QED
    BY <2>1, <2>2, <2>3 DEF FormInv
<1>4. ASSUME NEW s, NEW x, Opens(s, x) PROVE FormInv'
  <2>1. /\ x.visit = 0 => Attempting' = Attempting \cup {s}
        /\ x.visit # 0 => Attempting' = Attempting
        /\ sockets'[s] = x /\ \A t \in Attempting : sockets'[t] = sockets[t]
        /\ UNCHANGED <<screen, visits, silent, belated>>
    BY <1>4, OpensOf DEF Opens, Attempting, Of
  <2>2. CASE x.visit = 0
    <3>1. ~loading /\ loading' = TRUE /\ screen = 0 /\ x.form = Len(visits)
      BY <1>4, <2>2, WebAssumption DEF Opens, Visits
    <3>2. QED
      BY <2>1, <2>2, <3>1 DEF FormInv
  <2>3. CASE x.visit # 0
    <3>1. loading' = loading
      BY <1>4, <2>3 DEF Opens
    <3>2. QED
      BY <2>1, <2>3, <3>1 DEF FormInv
  <2>4. QED
    BY <2>2, <2>3
<1>5. ASSUME NEW s, Removes(s) PROVE FormInv'
  <2>1. /\ Attempting' = Attempting \ {s} /\ \A t \in Attempting' : sockets'[t] = sockets[t]
        /\ UNCHANGED <<screen, visits>>
        /\ {loading', silent', belated'} \subseteq BOOLEAN
        /\ (silent => silent') /\ (belated => belated') /\ (loading' => loading)
    BY <1>5, RemovesOf DEF Removes, Attempting, Of
  <2>2. CASE s \in Attempting
    <3>1. loading' = (loading /\ ~Heard(s)) \/ (Heard(s) => silent')
      BY <1>5, <2>2 DEF Removes
    <3>2. ~silent' /\ ~belated' => loading' = FALSE /\ Attempting' = {}
      BY <2>1, <2>2, <3>1 DEF FormInv, Heard, Attempting, Of
    <3>3. QED
      BY <2>1, <3>2 DEF FormInv
  <2>3. CASE s \notin Attempting
    <3>1. loading' = loading \/ belated'
      BY <1>5, <2>3 DEF Removes
    <3>2. QED
      BY <2>1, <2>3, <3>1 DEF FormInv
  <2>4. QED
    BY <2>2, <2>3
<1>6. ASSUME NEW s, NEW t, NEW x, Enters(s, t, x) PROVE FormInv'
  <2>1. /\ Attempting' = Attempting \ {s} /\ s \in Attempting
        /\ loading' = FALSE /\ UNCHANGED <<silent, belated>>
    BY <1>6, EntersOf DEF Enters
  <2>2. ~silent /\ ~belated => Attempting' = {}
    BY <2>1 DEF FormInv
  <2>3. QED
    BY <2>1, <2>2 DEF FormInv
<1>7. QED
  BY <1>1, <1>2, <1>3, <1>4, <1>5, <1>6, NextSockets

(* The sockets of a visit can be counted. *)
LEMMA OfFinite ==
  ASSUME Shaped, NEW v
  PROVE  IsFiniteSet(Of(v)) /\ Cardinality(Of(v)) \in Nat
<1>1. IsFiniteSet(Slots)
  BY WebAssumption, FS_Interval DEF Slots
<1>2. Of(v) \subseteq Slots
  BY DEF Of, Shaped
<1>3. QED
  BY <1>1, <1>2, FS_Subset, FS_CardinalityType

(* Every step keeps one chain of connections for each visit. *)
LEMMA NextChain ==
  ASSUME Shaped, Attempts, FormInv, OneChain, [WebNext]_web
  PROVE  OneChain'
<1>1. ASSUME (\A v : Of(v)' = Of(v)), UNCHANGED <<visits, timers>> PROVE OneChain'
  BY <1>1 DEF OneChain
<1>2. ASSUME NEW s, NEW x, Opens(s, x) PROVE OneChain'
  <2> SUFFICES ASSUME NEW v \in 1..Len(visits)
               PROVE  Cardinality(Of(v)') + timers'[v] = 1
    BY <1>2 DEF Opens, OneChain
  <2>0. \A u : Of(u)' = IF u = x.visit THEN Of(u) \cup {s} ELSE Of(u)
    BY <1>2, OpensOf
  <2>1. s \notin Of(v) /\ v \in Visits /\ timers[v] \in Nat
    BY <1>2, WebAssumption DEF Opens, Of, Shaped, Visits
  <2>2. Cardinality(Of(v)) + timers[v] = 1
    BY DEF OneChain
  <2>3. CASE v = x.visit
    <3>1. Of(v)' = Of(v) \cup {s} /\ timers'[v] = timers[v] - 1
      BY <1>2, <2>0, <2>1, <2>3 DEF Opens, Shaped
    <3>2. Cardinality(Of(v)') = Cardinality(Of(v)) + 1
      BY <2>1, <3>1, OfFinite, FS_AddElement
    <3>3. QED
      BY <2>1, <2>2, <3>1, <3>2, OfFinite
  <2>4. CASE v # x.visit
    <3>1. Of(v)' = Of(v) /\ timers'[v] = timers[v]
      BY <1>2, <2>0, <2>1, <2>4 DEF Opens, Shaped
    <3>2. QED
      BY <2>2, <3>1
  <2>5. QED
    BY <2>3, <2>4
<1>3. ASSUME NEW s, Removes(s) PROVE OneChain'
  <2> SUFFICES ASSUME NEW v \in 1..Len(visits)
               PROVE  Cardinality(Of(v)') + timers'[v] = 1
    BY <1>3 DEF Removes, OneChain
  <2>1. v \in Visits /\ timers[v] \in Nat /\ v # 0
    BY WebAssumption DEF Shaped, Visits
  <2>2. Cardinality(Of(v)) + timers[v] = 1
    BY DEF OneChain
  <2>3. Of(v)' = Of(v) \ {s}
    BY <1>3, RemovesOf
  <2>4. CASE v = sockets[s].visit
    <3>1. s \in Of(v) /\ timers'[v] = timers[v] + 1
      BY <1>3, <2>1, <2>4 DEF Removes, Of, Shaped
    <3>2. Cardinality(Of(v)') = Cardinality(Of(v)) - 1
      BY <2>3, <3>1, OfFinite, FS_RemoveElement
    <3>3. QED
      BY <2>1, <2>2, <3>1, <3>2, OfFinite
  <2>5. CASE v # sockets[s].visit
    <3>1. Of(v)' = Of(v) /\ timers'[v] = timers[v]
      BY <1>3, <2>1, <2>3, <2>5 DEF Removes, Of, Shaped
    <3>2. QED
      BY <2>2, <3>1
  <2>6. QED
    BY <2>4, <2>5
<1>4. ASSUME NEW s, NEW t, NEW x, Enters(s, t, x) PROVE OneChain'
  <2>0. /\ \A v : Of(v)' = IF v = Len(visits) + 1 THEN {t} ELSE Of(v)
        /\ Len(visits') = Len(visits) + 1
    BY <1>4, EntersOf
  <2>1. Len(visits) \in Nat /\ Len(visits) < MAX_VISITS
    BY <1>4 DEF Shaped, Enters
  <2> SUFFICES ASSUME NEW v \in 1..Len(visits) + 1
               PROVE  Cardinality(Of(v)') + timers[v] = 1
    BY <1>4, <2>0, <2>1 DEF Enters, OneChain
  <2>2. CASE v = Len(visits) + 1
    <3>1. Of(v)' = {t}
      BY <2>0, <2>2
    <3>2. v \in Visits /\ v > Len(visits)
      BY <2>1, <2>2, WebAssumption DEF Visits
    <3>3. timers[v] = 0
      BY <3>2 DEF Shaped
    <3>4. Cardinality(Of(v)') = 1
      BY <3>1, FS_Singleton
    <3>5. QED
      BY <3>3, <3>4
  <2>3. CASE v # Len(visits) + 1
    <3>1. Of(v)' = Of(v)
      BY <2>0, <2>3
    <3>2. QED
      BY <2>1, <2>3, <3>1 DEF OneChain
  <2>4. QED
    BY <2>2, <2>3
<1>5. QED
  BY <1>1, <1>2, <1>3, <1>4, NextSockets, KeepsOf, EndsOf DEF Keeps, Leaves, Ends

(* The server's accounts only grow. *)
LEMMA AccountsGrow == [WebNext]_web => accounts \subseteq accounts'
  BY DEF WebNext, web, Submit, Logout, StartNewChat, HandleSend, SendOn, Fails, ServerEnds,
         Gone, Event, Network, Message, Connected, Answered, Closed, Reconnect

(* Every step keeps the attempts, and who is on the chat page was accepted. *)
LEMMA NextAttempts ==
  ASSUME Shaped, Attempts, FormInv, [WebNext]_web
  PROVE  Attempts'
<1>0. ASSUME NEW s, NEW x, Attempt(x), sockets'[s] = x PROVE Attempt(sockets[s])'
  BY <1>0, AccountsGrow DEF Attempt, BeforeHello, Asking, Told
<1>1. ASSUME NEW s, Attempting' \subseteq Attempting \cup {s},
             \A t \in Attempting : t # s => sockets'[t] = sockets[t],
             s \in Attempting' => Attempt(sockets[s])'
      PROVE  Attempts'
  <2> SUFFICES ASSUME NEW t \in Attempting' PROVE Attempt(sockets[t])'
    BY DEF Attempts
  <2>1. CASE t = s
    BY <1>1, <2>1
  <2>2. CASE t # s
    BY <1>0, <1>1, <2>2 DEF Attempts
  <2>3. QED
    BY <2>1, <2>2
<1>2. CASE Keeps
  BY <1>2, KeepsOf DEF Keeps, Attempts
<1>3. CASE Leaves
  <2>1. Attempting' = Attempting /\ \A t \in Attempting : sockets'[t] = sockets[t]
    BY <1>3, KeepsOf DEF Leaves, Attempting
  <2>2. QED
    BY <1>0, <2>1 DEF Attempts
<1>4. ASSUME NEW s, Ends(s) PROVE Attempts'
  <2>1. /\ Attempting' = Attempting \ {s}
        /\ \A t \in Attempting : t # s => sockets'[t] = sockets[t]
    BY <1>4, EndsOf DEF Ends, Attempting, Of
  <2>2. QED
    BY <1>1, <2>1
<1>5. ASSUME NEW s, NEW x, Opens(s, x) PROVE Attempts'
  <2>1. /\ x.visit = 0 => Attempting' = Attempting \cup {s}
        /\ x.visit # 0 => Attempting' = Attempting
        /\ sockets'[s] = x /\ s \notin Attempting
        /\ \A t \in Attempting : sockets'[t] = sockets[t]
    BY <1>5, OpensOf DEF Opens, Attempting, Of
  <2>2. x.visit = 0 => Attempt(sockets[s])'
    <3>1. x.visit = 0 => Attempt(x)
      BY <1>5, WebAssumption DEF Opens, Visits
    <3>2. QED
      BY <1>0, <2>1, <3>1
  <2>3. QED
    BY <1>1, <2>1, <2>2
<1>6. ASSUME NEW s, Removes(s) PROVE Attempts'
  <2>1. Attempting' = Attempting \ {s} /\ \A t \in Attempting' : sockets'[t] = sockets[t]
    BY <1>6, RemovesOf DEF Attempting, Of
  <2>2. QED
    BY <1>1, <2>1
<1>7. ASSUME NEW s, NEW t, NEW x, Enters(s, t, x) PROVE Attempts'
  <2>1. /\ Attempting' = Attempting \ {s}
        /\ \A u \in Attempting : u # s => sockets'[u] = sockets[u]
    BY <1>7, EntersOf DEF Enters, Attempting, Of
  <2>2. QED
    BY <1>1, <2>1
<1>8. QED
  BY <1>2, <1>3, <1>4, <1>5, <1>6, <1>7, NextSockets

LEMMA NextLoggedIn ==
  ASSUME Shaped, Attempts, FormInv, LoggedInRight, [WebNext]_web
  PROVE  LoggedInRight'
<1>1. CASE UNCHANGED visits
  BY <1>1, AccountsGrow DEF LoggedInRight
<1>2. CASE \E pair \in Forms \cap accounts : visits' = Append(visits, pair)
  <2>1. PICK pair \in Forms \cap accounts : visits' = Append(visits, pair)
    BY <1>2
  <2>2. ToSet(visits') = ToSet(visits) \cup {pair}
    <3>1. visits \in Seq(Forms)
      BY DEF Shaped
    <3>2. QED
      BY <2>1, <3>1 DEF ToSet
  <2>3. QED
    BY <2>1, <2>2, AccountsGrow DEF LoggedInRight
<1>3. QED
  BY <1>1, <1>2, NextSockets DEF Keeps, Leaves, Ends, Opens, Removes, Enters

(* What holds at first and after every step. *)
WebInv == Shaped /\ Attempts /\ FormInv /\ OneChain /\ LoggedInRight

LEMMA InitWebInv == InitWeb => WebInv
<1> SUFFICES ASSUME InitWeb PROVE WebInv
  OBVIOUS
<1>1. Used = {} /\ visits \in Seq(Forms) /\ Len(visits) = 0 /\ visits = <<>>
  BY DEF InitWeb, Used
<1>2. Shaped
  BY <1>1, WebAssumption DEF InitWeb, Shaped, Visits
<1>3. Attempts /\ FormInv
  BY <1>1 DEF InitWeb, Attempts, FormInv, Attempting, Of
<1>4. OneChain
  BY <1>1 DEF OneChain
<1>5. LoggedInRight
  BY <1>1 DEF LoggedInRight, ToSet
<1>6. QED
  BY <1>2, <1>3, <1>4, <1>5 DEF WebInv

LEMMA NextWebInv == WebInv /\ [WebNext]_web => WebInv'
  BY NextShaped, NextAttempts, NextForm, NextChain, NextLoggedIn DEF WebInv

(* Whatever the order of answers, failures and closings, the chat page is   *)
(* only for those whose password the server has accepted.                   *)
THEOREM OnlyAcceptedUsers == WebSpec => []LoggedInRight
<1>1. WebInv => LoggedInRight
  BY DEF WebInv
<1>2. QED
  BY <1>1, InitWebInv, NextWebInv, PTL DEF WebSpec

(* Until the server closes without a word, or a closed attempt fails late,  *)
(* the form is busy with the one attempt there is, and free without any,    *)
(* whatever callbacks of earlier attempts and visits are still to come.     *)
THEOREM AttemptsOneByOne == WebSpec => []FormFree
<1>1. WebInv => FormFree
  BY DEF WebInv, FormInv, FormFree
<1>2. QED
  BY <1>1, InitWebInv, NextWebInv, PTL DEF WebSpec

(* Each visit has one connection or one reconnect, for ever. *)
THEOREM ChainsDoNotMultiply == WebSpec => []OneChain
<1>1. WebInv => OneChain
  BY DEF WebInv
<1>2. QED
  BY <1>1, InitWebInv, NextWebInv, PTL DEF WebSpec
--------------------------------------------------------------------------------
(* What the chat page knows while the user waits for answers. *)

(* Folding over no check, and over one. *)
LEMMA FoldNone ==
  ASSUME NEW known
  PROVE  FoldLeft(Renewed, known, <<>>) = known
<1> DEFINE Body(f) == [s \in SUBSET {} |-> IF s = {} THEN known
                                         ELSE Renewed(f[s \ {Max(s)}], <<>>[Max(s)])]
           iter == CHOOSE f : f = Body(f)
           seen == [s \in SUBSET {} |-> known]
<1>1. seen = Body(seen)
  OBVIOUS
<1>2. iter = Body(iter)
  BY <1>1
<1>3. iter[{}] = known
  BY <1>2
<1>4. FoldLeft(Renewed, known, <<>>) = iter[{}]
  BY DEF FoldLeft, MapThenFoldSet
<1>5. QED
  BY <1>3, <1>4

LEMMA FoldOne ==
  ASSUME NEW known, NEW check
  PROVE  FoldLeft(Renewed, known, <<check>>) = Renewed(known, check)
<1> DEFINE Body(f) == [s \in SUBSET {1} |->
                          IF s = {} THEN known
                          ELSE Renewed(f[s \ {Max(s)}], <<check>>[Max(s)])]
           iter == CHOOSE f : f = Body(f)
           seen == [s \in SUBSET {1} |-> IF s = {} THEN known ELSE Renewed(known, check)]
<1>1. PICK m : m = Max({1})
  OBVIOUS
<1>2. m = 1
  BY <1>1 DEF Max
<1>3. \A s \in SUBSET {1} : s = {} \/ s = {1}
  OBVIOUS
<1>4. <<check>>[1] = check /\ DOMAIN <<check>> = {1} /\ {1} \ {1} = {}
  OBVIOUS
<1>5. seen = Body(seen)
  <2>1. seen[{}] = known
    OBVIOUS
  <2> SUFFICES ASSUME NEW s \in SUBSET {1}, s # {}
               PROVE  Renewed(seen[s \ {Max(s)}], <<check>>[Max(s)]) = Renewed(known, check)
    OBVIOUS
  <2> HIDE DEF seen
  <2>2. s = {1} /\ Max(s) = 1
    BY <1>1, <1>2, <1>3
  <2>3. QED
    BY <1>4, <2>1, <2>2
<1>6. iter = Body(iter)
  BY <1>5
<1> HIDE DEF seen
<1>7. iter[{}] = known
  BY <1>6
<1>8. iter[{1}] = Renewed(iter[{1} \ {Max({1})}], <<check>>[Max({1})])
  BY <1>6
<1>9. FoldLeft(Renewed, known, <<check>>) = iter[{1}]
  BY <1>4 DEF FoldLeft, MapThenFoldSet
<1> HIDE DEF iter
<1>10. iter[{1}] = Renewed(iter[{1} \ {1}], <<check>>[1])
  BY <1>1, <1>2, <1>8
<1>11. QED
  BY <1>4, <1>7, <1>9, <1>10

(* The sockets with a checkHandler that will be called: while the user       *)
(* waits there is one at most, and its question, made with the present       *)
(* chats, or the answer to it, is the only thing that is on its way.         *)
Busy == {s \in Used : /\ sockets[s].visit \in OnDisplay /\ sockets[s].state # "closing"
                      /\ sockets[s].checks # <<>>}
Question(x, u) ==
    /\ x.state = "open" /\ x.checks = <<[user |-> u, seen |-> chats]>>
    /\ \/ x.asked = <<[op |-> "CHECK_USER", arg |-> u]>> /\ x.got = <<>>
       \/ /\ x.asked = <<>>
          /\ \E a \in {"error", "exists"} : x.got = <<a>> /\ (a = "exists" => u \in Names)
ChatsOK == chats \in Seq(Names) /\ IsInjective(chats)
Asked == \A s \in Busy : (\E u : Question(sockets[s], u)) /\ \A t \in Busy : t = s
ChatInv ==
    /\ patient \in BOOLEAN /\ (screen = 0 => chats = <<>>)
    /\ patient => ChatsOK /\ Asked

(* An account more does no harm. *)
LEMMA NamesGrow == accounts \subseteq accounts' => Names \subseteq Names'
  BY DEF Names
LEMMA ChatsStay ==
  ASSUME ChatsOK, accounts \subseteq accounts', UNCHANGED chats
  PROVE  ChatsOK'
<1>1. Names \subseteq Names'
  BY NamesGrow
<1>2. chats \in [1..Len(chats) -> Names] /\ Len(chats) \in Nat
  BY DEF ChatsOK
<1>3. chats \in [1..Len(chats) -> Names']
  BY <1>1, <1>2
<1>4. QED
  BY <1>2, <1>3 DEF ChatsOK

(* A step after which the busy sockets are as they were, or fewer. *)
LEMMA BusyStay ==
  ASSUME ChatInv, accounts \subseteq accounts', patient' \in BOOLEAN, patient' => patient,
         UNCHANGED chats, screen' = 0 => screen = 0,
         patient' => \A s \in Busy' : s \in Busy /\ sockets'[s] = sockets[s]
  PROVE  ChatInv'
<1>1. patient' => ChatsOK'
  BY ChatsStay DEF ChatInv
<1>2. ASSUME patient', NEW s \in Busy' PROVE (\E u : Question(sockets[s], u))'
  <2>1. PICK u : Question(sockets[s], u)
    BY <1>2 DEF ChatInv, Asked
  <2>2. sockets'[s] = sockets[s] /\ Names \subseteq Names'
    BY <1>2, NamesGrow
  <2>3. Question(sockets[s], u)'
    BY <2>1, <2>2 DEF Question
  <2>4. QED
    BY <2>3
<1>3. patient' => \A s, t \in Busy' : t = s
  BY DEF ChatInv, Asked
<1>4. patient' => Asked'
  BY <1>2, <1>3 DEF Asked
<1>5. QED
  BY <1>1, <1>4 DEF ChatInv

(* A step that opens, removes or closes sockets only. *)
LEMMA FewerBusy ==
  ASSUME Shaped, ChatInv, accounts \subseteq accounts', UNCHANGED <<chats, patient>>,
         \/ \E s, x : Opens(s, x)
         \/ \E s : Removes(s)
         \/ \E s : Ends(s)
         \/ \E s, t, x : Enters(s, t, x)
  PROVE  ChatInv'
<1>1. CASE \E s, x : Opens(s, x)
  <2>1. PICK s, x : Opens(s, x)
    BY <1>1
  <2>2. /\ Used' = Used \cup {s} /\ sockets'[s] = x
        /\ \A t \in Used : sockets'[t] = sockets[t]
        /\ x.checks = <<>> /\ UNCHANGED <<screen, mounted>>
    BY <2>1, OpensOf DEF Opens
  <2>3. \A t \in Busy' : t \in Busy /\ sockets'[t] = sockets[t]
    BY <2>2 DEF Busy, OnDisplay
  <2>4. QED
    BY <2>2, <2>3, BusyStay DEF ChatInv
<1>2. CASE \E s : Removes(s)
  <2>1. PICK s : Removes(s)
    BY <1>2
  <2>2. /\ Used' = Used \ {s} /\ \A t \in Used' : sockets'[t] = sockets[t]
        /\ UNCHANGED <<screen, mounted>>
    BY <2>1, RemovesOf DEF Removes
  <2>3. \A t \in Busy' : t \in Busy /\ sockets'[t] = sockets[t]
    BY <2>2 DEF Busy, OnDisplay
  <2>4. QED
    BY <2>2, <2>3, BusyStay DEF ChatInv
<1>3. CASE \E s : Ends(s)
  <2>1. PICK s : Ends(s)
    BY <1>3
  <2>2. /\ Used' = Used /\ sockets'[s].state = "closing"
        /\ \A t \in Used : t # s => sockets'[t] = sockets[t]
        /\ UNCHANGED <<screen, mounted>>
    BY <2>1 DEF Ends, Same, Shut
  <2>3. \A t \in Busy' : t \in Busy /\ sockets'[t] = sockets[t]
    BY <2>2 DEF Busy, OnDisplay
  <2>4. QED
    BY <2>2, <2>3, BusyStay DEF ChatInv
<1>4. CASE \E s, t, x : Enters(s, t, x)
  <2>1. PICK s, t, x : Enters(s, t, x)
    BY <1>4
  <2>2. /\ Used' = Used \cup {t} /\ sockets'[t] = x /\ x.checks = <<>>
        /\ \A u \in Used : /\ sockets'[u].visit = sockets[u].visit
                           /\ sockets'[u] = sockets[u] \/ sockets'[u].state = "closing"
    BY <2>1 DEF Enters, Shut
  <2>3. screen' = Len(visits) + 1 /\ mounted' = IF screen = 0 THEN screen' ELSE mounted
    BY <2>1 DEF Enters
  <2>4. \A v \in 0..Len(visits) : v \in OnDisplay' => v \in OnDisplay
    <3>1. screen \in {0, Len(visits)} /\ Len(visits) \in Nat /\ mounted \in 0..screen
      BY DEF Shaped
    <3>2. QED
      BY <2>3, <3>1 DEF OnDisplay
  <2>5. \A u \in Busy' : u \in Busy /\ sockets'[u] = sockets[u]
    BY <2>2, <2>4 DEF Busy, Shaped
  <2>6. screen' # 0
    BY <2>3 DEF Shaped
  <2>7. QED
    BY <2>5, <2>6, BusyStay DEF ChatInv
<1>5. QED
  BY <1>1, <1>2, <1>3, <1>4

(* A change of the socket s only, which is then y. *)
LEMMA OneUpdated ==
  ASSUME Shaped, NEW s, NEW y, Updates(s, y), UNCHANGED <<screen, mounted>>
  PROVE  /\ sockets'[s] = y /\ \A t \in Used : t # s => sockets'[t] = sockets[t]
         /\ \A t \in Busy' : t = s \/ (t \in Busy /\ sockets'[t] = sockets[t])
         /\ s \in Busy' <=> /\ sockets[s].visit \in OnDisplay
                            /\ y.state # "closing" /\ y.checks # <<>>
<1>1. /\ Same /\ sockets'[s] = y /\ s \in Used /\ y.visit = sockets[s].visit
      /\ \A t \in Used : t # s => sockets'[t] = sockets[t]
  BY UpdatesSame DEF Updates
<1>2. Used' = Used /\ OnDisplay' = OnDisplay
  BY <1>1 DEF Same, OnDisplay
<1>3. QED
  BY <1>1, <1>2 DEF Busy

(* If that socket has not become busy, ...                                  *)
LEMMA IdleUpdated ==
  ASSUME Shaped, ChatInv, accounts \subseteq accounts', patient' \in BOOLEAN, patient' => patient,
         UNCHANGED <<chats, screen, mounted>>, NEW s, NEW y, Updates(s, y),
         patient' => \/ y.state = "closing" \/ y.checks = <<>>
                     \/ sockets[s].visit \notin OnDisplay
  PROVE  ChatInv'
<1>1. patient' => \A t \in Busy' : t \in Busy /\ sockets'[t] = sockets[t]
  BY OneUpdated
<1>2. QED
  BY <1>1, BusyStay
(* ... or its question goes on.                                             *)
LEMMA BusyUpdated ==
  ASSUME Shaped, ChatInv, accounts \subseteq accounts', patient' = patient,
         UNCHANGED <<chats, screen, mounted>>, NEW s, NEW y, Updates(s, y),
         \A t \in Busy : t = s, NEW u, Question(y, u)'
  PROVE  ChatInv'
<1>1. sockets'[s] = y /\ \A t \in Busy' : t = s
  BY OneUpdated
<1>2. Asked'
  BY <1>1 DEF Asked
<1>3. patient' => ChatsOK'
  BY ChatsStay DEF ChatInv
<1>4. QED
  BY <1>2, <1>3 DEF ChatInv

(* So do the connection, ...                                                *)
LEMMA ConnectedChats ==
  ASSUME Shaped, ChatInv, NEW s \in Used, Connected(s)
  PROVE  ChatInv'
<1>1. PICK x, y : /\ x = sockets[s] /\ y = [x EXCEPT !.state = "open", !.got = <<"greeting">>]
                  /\ IsSocket(x)
  BY DEF Shaped
<1>2. Updates(s, y) /\ y.checks = x.checks
  BY <1>1, ConnectedUpdates DEF IsSocket, SocketFields
<1>3. UNCHANGED <<chats, screen, mounted, patient, accounts>> /\ x.state = "connecting"
  BY <1>1 DEF Connected, page, memory
<1>4. patient => x.checks = <<>> \/ sockets[s].visit \notin OnDisplay
  <2> SUFFICES ASSUME patient, s \in Busy PROVE FALSE
    BY <1>1, <1>3 DEF Busy
  <2>1. PICK u : Question(sockets[s], u)
    BY DEF ChatInv, Asked
  <2>2. QED
    BY <1>1, <1>3, <2>1 DEF Question
<1>5. QED
  BY <1>2, <1>3, <1>4, IdleUpdated DEF ChatInv

(* ... the answer, ...                                                      *)
LEMMA AnsweredChats ==
  ASSUME Shaped, ChatInv, NEW s \in Used, Answered(s), accounts \subseteq accounts'
  PROVE  ChatInv'
<1>1. PICK c, answer :
         /\ c = Head(sockets[s].asked) /\ answer \in {"error"} \cup Obeyed(c)
         /\ Updates(s, Reply(sockets[s], answer))
         /\ accounts' = accounts \cup (IF answer = "registered" THEN {c.arg} ELSE {})
  BY AnsweredUpdates
<1>2. PICK x, y : x = sockets[s] /\ y = Reply(x, answer) /\ IsSocket(x)
  BY DEF Shaped
<1>3. /\ y.state = x.state /\ y.checks = x.checks /\ y.asked = Tail(x.asked)
      /\ x.state = "open" => y.got = Append(x.got, answer)
  BY <1>2 DEF Reply, IsSocket, SocketFields
<1>4. UNCHANGED <<chats, screen, mounted, patient>> /\ x.asked # <<>> /\ Updates(s, y)
  BY <1>1, <1>2 DEF Answered, page, memory
<1>5. CASE patient /\ s \in Busy
  <2>1. PICK u : Question(x, u)
    BY <1>2, <1>5 DEF ChatInv, Asked
  <2>2. x.asked = <<[op |-> "CHECK_USER", arg |-> u]>> /\ x.got = <<>>
    BY <1>4, <2>1 DEF Question
  <2>3. c.op = "CHECK_USER" /\ c.arg = u
    BY <1>1, <1>2, <2>2
  <2>4. answer \in {"error", "exists"} /\ (answer = "exists" => u \in Names)
    BY <1>1, <2>3 DEF Obeyed
  <2>5. y.state = "open" /\ y.asked = <<>> /\ y.got = <<answer>>
    BY <1>3, <2>1, <2>2 DEF Question
  <2>6. Names \subseteq Names'
    BY NamesGrow
  <2>7. Question(y, u)'
    BY <1>3, <1>4, <2>1, <2>4, <2>5, <2>6 DEF Question
  <2>8. \A t \in Busy : t = s
    BY <1>5 DEF ChatInv, Asked
  <2>9. QED
    BY <1>4, <2>7, <2>8, BusyUpdated
<1>6. CASE ~(patient /\ s \in Busy)
  <2>1. patient => \/ y.state = "closing" \/ y.checks = <<>>
                   \/ sockets[s].visit \notin OnDisplay
    BY <1>2, <1>3, <1>6 DEF Busy
  <2>2. QED
    BY <1>4, <2>1, IdleUpdated DEF ChatInv
<1>7. QED
  BY <1>5, <1>6

(* ... the message, after which the chats may be one more, ...              *)
LEMMA ReadChats ==
  ASSUME Shaped, ChatInv, NEW s \in Used, Message(s), sockets[s].visit # 0
  PROVE  ChatInv'
<1>1. /\ ChatMessage(s) /\ chats' = ChatsAfter(s) /\ sockets[s].got # <<>>
      /\ sockets[s].state = "open" /\ UNCHANGED <<screen, mounted, patient, accounts>>
  BY DEF Message, ChatMessage, memory
<1>2. PICK y : Updates(s, y) /\ y.checks = <<>>
  BY <1>1, ChatMessageUpdates DEF ReadOff
<1>3. CASE s \notin Busy
  <2>1. sockets[s].visit \notin OnDisplay \/ sockets[s].checks = <<>>
    BY <1>1, <1>3 DEF Busy
  <2>2. chats' = chats
    BY <1>1, <2>1, FoldNone DEF ChatsAfter
  <2>3. QED
    BY <1>1, <1>2, <2>2, IdleUpdated DEF ChatInv
<1>4. CASE s \in Busy
  <2>1. screen # 0
    BY <1>4 DEF Busy, OnDisplay
  <2>2. CASE ~patient
    BY <1>1, <2>1, <2>2 DEF ChatInv
  <2>3. CASE patient
    <3>1. PICK u : Question(sockets[s], u)
      BY <1>4, <2>3 DEF ChatInv, Asked
    <3>2. PICK a \in {"error", "exists"} :
             sockets[s].got = <<a>> /\ (a = "exists" => u \in Names)
      BY <1>1, <3>1 DEF Question
    <3>3. Head(sockets[s].got) = a
      BY <3>2
    <3>4. PICK check : check = [user |-> u, seen |-> chats]
      OBVIOUS
    <3>5. sockets[s].checks = <<check>> /\ check.user = u /\ check.seen = chats
      BY <3>1, <3>4 DEF Question
    <3>6. \/ chats' = chats
          \/ u \in Names /\ u \notin ToSet(chats) /\ chats' = Append(chats, u)
      <4>1. FoldLeft(Renewed, chats, <<check>>) = Renewed(chats, check)
        BY FoldOne
      <4>2. QED
        BY <1>1, <3>2, <3>3, <3>5, <4>1 DEF ChatsAfter, Renewed
    <3>7. ChatsOK /\ Names' = Names
      BY <1>1, <2>3 DEF ChatInv, Names
    <3>8. ChatsOK'
      <4>1. CASE chats' = chats
        BY <3>7, <4>1 DEF ChatsOK
      <4>2. CASE u \in Names /\ u \notin ToSet(chats) /\ chats' = Append(chats, u)
        <5>1. chats \in Seq(Names) /\ chats' \in Seq(Names)
          BY <3>7, <4>2 DEF ChatsOK
        <5>2. IsInjective(chats')
          BY <3>7, <4>2, <5>1 DEF ChatsOK, IsInjective, ToSet
        <5>3. QED
          BY <3>7, <5>1, <5>2 DEF ChatsOK
      <4>3. QED
        BY <3>6, <4>1, <4>2
    <3>9. Busy' = {}
      BY <1>1, <1>2, <1>4, <2>3, OneUpdated DEF ChatInv, Asked
    <3>10. QED
      BY <1>1, <2>1, <3>8, <3>9 DEF ChatInv, Asked
  <2>4. QED
    BY <2>2, <2>3
<1>5. QED
  BY <1>3, <1>4

(* ... and what the user sends.                                             *)
LEMMA SentChats ==
  ASSUME Shaped, ChatInv, NEW s \in Used, StartNewChat(s) \/ HandleSend(s)
  PROVE  ChatInv'
<1>1. PICK u, command, check :
         /\ SendOn(s, command, check)
         /\ \/ check = <<>>
            \/ /\ command = [op |-> "CHECK_USER", arg |-> u]
               /\ check = <<[user |-> u, seen |-> chats]>>
  BY DEF StartNewChat, HandleSend
<1>2. PICK x, y : /\ x = sockets[s] /\ IsSocket(x)
                  /\ y = [x EXCEPT !.asked = Append(@, command), !.checks = @ \o check]
  BY DEF Shaped
<1>3. /\ Updates(s, y) /\ y.state = x.state /\ y.got = x.got
      /\ y.asked = Append(x.asked, command) /\ y.checks = x.checks \o check
  BY <1>1, <1>2, SendOnUpdates DEF IsSocket, SocketFields
<1>4. /\ s = current /\ x.state = "open" /\ patient' = (patient /\ Quiet)
      /\ UNCHANGED <<chats, screen, mounted, accounts>>
  BY <1>1, <1>2 DEF SendOn, page
<1>5. patient \in BOOLEAN /\ patient' \in BOOLEAN
  BY <1>4 DEF ChatInv
<1>6. CASE ~patient'
  BY <1>3, <1>4, <1>5, <1>6, IdleUpdated
<1>7. CASE patient'
  <2>1. patient' = patient /\ Quiet
    BY <1>4, <1>5, <1>7
  <2>2. Busy = {}
    <3> SUFFICES ASSUME NEW t \in Busy PROVE FALSE
      OBVIOUS
    <3>1. PICK w : Question(sockets[t], w)
      BY <1>7, <2>1 DEF ChatInv, Asked
    <3>2. sockets[t].asked = <<>> /\ sockets[t].got = <<>>
      BY <2>1 DEF Quiet, Busy
    <3>3. QED
      BY <3>1, <3>2 DEF Question
  <2>3. s # 0 /\ sockets[s].visit \in OnDisplay
    BY <1>4 DEF Shaped, Slots
  <2>4. x.asked = <<>> /\ x.got = <<>> /\ x.checks = <<>>
    BY <1>2, <1>4, <2>1, <2>2, <2>3 DEF Quiet, Busy
  <2>5. CASE check = <<>>
    <3>1. y.checks = <<>>
      BY <1>3, <2>4, <2>5
    <3>2. QED
      BY <1>3, <1>4, <1>5, <3>1, IdleUpdated
  <2>6. CASE /\ command = [op |-> "CHECK_USER", arg |-> u]
             /\ check = <<[user |-> u, seen |-> chats]>>
    <3>1. y.asked = <<command>> /\ y.got = <<>>
      BY <1>3, <2>4
    <3>2. y.checks = <<[user |-> u, seen |-> chats]>>
      BY <1>3, <2>4, <2>6
    <3>3. Question(y, u)'
      BY <1>3, <1>4, <2>6, <3>1, <3>2 DEF Question
    <3>4. QED
      BY <1>3, <1>4, <2>1, <2>2, <3>3, BusyUpdated
  <2>7. QED
    BY <1>1, <2>5, <2>6
<1>8. QED
  BY <1>5, <1>6, <1>7

(* Every step keeps the chats right. *)
LEMMA NextChats ==
  ASSUME Shaped, Attempts, FormInv, ChatInv, [WebNext]_web
  PROVE  ChatInv'
<1>0. accounts \subseteq accounts'
  BY AccountsGrow
<1>1. CASE Submit
  <2>1. \E s, x : Opens(s, x)
    BY <1>1, SubmitOpens
  <2>2. QED
    BY <1>0, <1>1, <2>1, FewerBusy DEF Submit, memory
<1>2. ASSUME NEW v \in Visits, Reconnect(v) PROVE ChatInv'
  <2>1. \E s, x : Opens(s, x)
    BY <1>2, ReconnectOpens
  <2>2. QED
    BY <1>0, <1>2, <2>1, FewerBusy DEF Reconnect, memory
<1>3. CASE Logout
  <2>1. screen' = 0 /\ chats' = <<>> /\ patient' = patient
    BY <1>3 DEF Logout, Forgotten, memory
  <2>2. ChatsOK'
    BY <2>1 DEF ChatsOK, IsInjective
  <2>3. Busy' = {}
    BY <2>1 DEF Busy, OnDisplay
  <2>4. QED
    BY <2>1, <2>2, <2>3 DEF ChatInv, Asked
<1>4. ASSUME NEW s \in Used, StartNewChat(s) \/ HandleSend(s) PROVE ChatInv'
  BY <1>4, SentChats
<1>5. ASSUME NEW s \in Used, Closed(s) \/ Fails(s) \/ ServerEnds(s) PROVE ChatInv'
  <2>1. Removes(s)
    BY <1>5, GoneRemoves
  <2>2. UNCHANGED <<chats, patient>>
    BY <1>5 DEF Closed, Fails, ServerEnds, Gone
  <2>3. QED
    BY <1>0, <2>1, <2>2, FewerBusy
<1>6. ASSUME NEW s \in Used, Connected(s) \/ Answered(s) PROVE ChatInv'
  BY <1>0, <1>6, ConnectedChats, AnsweredChats
<1>7. ASSUME NEW s \in Used, Message(s) PROVE ChatInv'
  <2>0. sockets[s].state = "open" /\ sockets[s].got # <<>> /\ UNCHANGED <<accounts, memory>>
    BY <1>7 DEF Message
  <2>1. CASE sockets[s].visit = 0 /\ LoginGreeted(s)
    <3>1. PICK y : Updates(s, y)
      BY <2>1, SendHelloUpdates DEF LoginGreeted
    <3>2. sockets[s].visit \notin OnDisplay
      BY <2>1 DEF OnDisplay, Shaped
    <3>3. QED
      BY <1>0, <2>0, <2>1, <3>1, <3>2, IdleUpdated DEF LoginGreeted, page, memory, ChatInv
  <2>2. CASE sockets[s].visit = 0 /\ LoginRefused(s)
    <3>1. Ends(s)
      BY <2>0, <2>2, AnswerEnds DEF LoginRefused, Of
    <3>2. QED
      BY <1>0, <2>0, <2>2, <3>1, FewerBusy DEF LoginRefused, memory
  <2>3. CASE sockets[s].visit = 0 /\ LoginAccepted(s)
    <3>1. SameUser(sockets[s].hello.arg) => sockets' = Closes(s)
      BY <2>3 DEF LoginAccepted
    <3>2. Ends(s) \/ \E t, x : Enters(s, t, x)
      BY <2>0, <2>3, <3>1, AnswerEnds, AcceptedEnters DEF Of
    <3>3. QED
      BY <1>0, <2>0, <2>3, <3>2, FewerBusy DEF LoginAccepted, memory
  <2>4. CASE sockets[s].visit # 0
    BY <1>7, <2>4, ReadChats
  <2>5. QED
    BY <1>7, <2>1, <2>2, <2>3, <2>4 DEF Message
<1>8. CASE UNCHANGED web
  <2>1. Busy' = Busy /\ sockets' = sockets /\ UNCHANGED <<chats, patient, screen>>
    BY <1>8 DEF web, page, memory, Busy, Used, OnDisplay
  <2>2. QED
    BY <1>0, <2>1, BusyStay DEF ChatInv
<1>9. QED
  BY <1>1, <1>2, <1>3, <1>4, <1>5, <1>6, <1>7, <1>8 DEF WebNext, Event, Network

LEMMA InitChats == InitWeb => ChatInv
<1> SUFFICES ASSUME InitWeb PROVE ChatInv
  OBVIOUS
<1>1. Busy = {} /\ chats = <<>>
  BY DEF InitWeb, Busy, Used
<1>2. ChatsOK
  BY <1>1 DEF ChatsOK, IsInjective
<1>3. QED
  BY <1>1, <1>2 DEF InitWeb, ChatInv, Asked

LEMMA ChatsKnown == ChatInv => ChatsRight
<1> SUFFICES ASSUME ChatInv, patient PROVE ChatsRight
  BY DEF ChatsRight
<1>1. chats \in Seq(Names) /\ IsInjective(chats)
  BY DEF ChatInv, ChatsOK
<1>2. ToSet(chats) \subseteq Names
  BY <1>1 DEF ToSet
<1>3. QED
  BY <1>1, <1>2 DEF ChatsRight

(* While the user waits for answers, every chat of the page is with         *)
(* somebody who exists, and is listed once.                                 *)
THEOREM ChatsAreRight == WebSpec => []ChatsRight
<1>1. WebInv /\ ChatInv /\ [WebNext]_web => (WebInv /\ ChatInv)'
  BY NextWebInv, NextChats DEF WebInv
<1>2. QED
  BY <1>1, InitWebInv, InitChats, ChatsKnown, PTL DEF WebSpec
--------------------------------------------------------------------------------
(* What the server may be asked: to register somebody only with what was in *)
(* a form, on whichever socket and however late it answers.                 *)
Command(c) == /\ c.op \in {"REGISTER", "LOGIN", "CHECK_USER", "MSG"}
              /\ c.op = "REGISTER" => c.arg \in Users \X Passwords
SocketOK(x) ==
    /\ x.state \in {"connecting", "open", "closing"}
    /\ \E S : x.hello \in S /\ x.asked \in Seq(S) /\ \A c \in S : Command(c)
TypedInv == accounts \subseteq Users \X Passwords /\ \A s \in Used : SocketOK(sockets[s])

LEMMA NewSocketOK ==
  ASSUME NEW v, NEW first, NEW command, Command(command)
  PROVE  SocketOK(Socket(v, first, command))
<1>1. PICK x : x = Socket(v, first, command)
  OBVIOUS
<1>2. x.state = "connecting" /\ x.hello = command /\ x.asked = <<>>
  BY <1>1 DEF Socket
<1>3. PICK S : S = {command}
  OBVIOUS
<1>4. x.hello \in S /\ x.asked \in Seq(S) /\ \A c \in S : Command(c)
  BY <1>2, <1>3
<1>5. SocketOK(x)
  BY <1>2, <1>4 DEF SocketOK
<1>6. QED
  BY <1>1, <1>5

(* One more command, or none; ... *)
LEMMA AskedOK ==
  ASSUME NEW x, NEW y, SocketOK(x), y.hello = x.hello,
         y.state \in {"connecting", "open", "closing"},
         \/ y.asked = x.asked
         \/ \E c : (c = x.hello \/ Command(c)) /\ y.asked = Append(x.asked, c)
  PROVE  SocketOK(y)
<1>1. PICK S : x.hello \in S /\ x.asked \in Seq(S) /\ \A d \in S : Command(d)
  BY DEF SocketOK
<1>2. CASE y.asked = x.asked
  BY <1>1, <1>2 DEF SocketOK
<1>3. CASE \E c : (c = x.hello \/ Command(c)) /\ y.asked = Append(x.asked, c)
  <2>1. PICK c : (c = x.hello \/ Command(c)) /\ y.asked = Append(x.asked, c)
    BY <1>3
  <2>2. PICK T : T = S \cup {c}
    OBVIOUS
  <2>3. x.asked \in Seq(T)
    <3>1. x.asked \in [1..Len(x.asked) -> T] /\ Len(x.asked) \in Nat
      BY <1>1, <2>2
    <3>2. QED
      BY <3>1
  <2>4. y.asked \in Seq(T) /\ y.hello \in T /\ \A d \in T : Command(d)
    BY <1>1, <2>1, <2>2, <2>3
  <2>5. QED
    BY <2>4 DEF SocketOK
<1>4. QED
  BY <1>2, <1>3

(* ... and the first one is taken. *)
LEMMA TakenOK ==
  ASSUME NEW x, NEW y, SocketOK(x), x.asked # <<>>, y.hello = x.hello, y.state = x.state,
         y.asked = Tail(x.asked)
  PROVE  SocketOK(y) /\ Command(Head(x.asked))
<1>1. PICK S : x.hello \in S /\ x.asked \in Seq(S) /\ \A d \in S : Command(d)
  BY DEF SocketOK
<1>2. Tail(x.asked) \in Seq(S) /\ Head(x.asked) \in S
  BY <1>1
<1>3. QED
  BY <1>1, <1>2 DEF SocketOK

(* A change of one socket. *)
LEMMA UpdatedOK ==
  ASSUME Shaped, TypedInv, NEW s, NEW y, Updates(s, y), SocketOK(y)
  PROVE  \A t \in Used' : SocketOK(sockets'[t])
  BY UpdatesSame DEF Same, TypedInv

(* A socket is opened, ended or removed. *)
LEMMA OthersOK ==
  ASSUME Shaped, TypedInv,
         \/ \E s, x : Opens(s, x) /\ SocketOK(x)
         \/ \E s, t, x : Enters(s, t, x) /\ SocketOK(x)
         \/ \E s : Removes(s)
         \/ \E s : Ends(s)
         \/ Leaves
  PROVE  \A t \in Used' : SocketOK(sockets'[t])
<1>1. ASSUME NEW y, NEW x, SocketOK(x), y = x \/ Shut(y, x) PROVE SocketOK(y)
  BY <1>1, AskedOK DEF Shut
<1>2. CASE \E s, x : Opens(s, x) /\ SocketOK(x)
  BY <1>2, OpensOf DEF TypedInv
<1>3. CASE \E s, t, x : Enters(s, t, x) /\ SocketOK(x)
  <2>1. PICK s, t, x : Enters(s, t, x) /\ SocketOK(x)
    BY <1>3
  <2>2. /\ Used' = Used \cup {t} /\ sockets'[t] = x
        /\ \A u \in Used : sockets'[u] = sockets[u] \/ Shut(sockets'[u], sockets[u])
    BY <2>1 DEF Enters
  <2>3. QED
    BY <1>1, <2>1, <2>2 DEF TypedInv
<1>4. CASE \E s : Removes(s)
  BY <1>4, RemovesOf DEF TypedInv
<1>5. ASSUME Used' = Used,
             \A u \in Used : sockets'[u] = sockets[u] \/ Shut(sockets'[u], sockets[u])
      PROVE  \A t \in Used' : SocketOK(sockets'[t])
  BY <1>1, <1>5 DEF TypedInv
<1>6. CASE \E s : Ends(s)
  BY <1>5, <1>6 DEF Ends, Same
<1>7. CASE Leaves
  BY <1>5, <1>7 DEF Leaves, Same
<1>8. QED
  BY <1>2, <1>3, <1>4, <1>6, <1>7

(* The server answers; it only registers who has filled in the form. *)
LEMMA AnsweredOK ==
  ASSUME Shaped, TypedInv, NEW s \in Used, Answered(s)
  PROVE  TypedInv'
<1>1. PICK c, answer :
         /\ c = Head(sockets[s].asked) /\ answer \in {"error"} \cup Obeyed(c)
         /\ Updates(s, Reply(sockets[s], answer))
         /\ accounts' = accounts \cup (IF answer = "registered" THEN {c.arg} ELSE {})
  BY AnsweredUpdates
<1>2. PICK x, y : x = sockets[s] /\ y = Reply(x, answer) /\ IsSocket(x) /\ SocketOK(x)
  BY DEF Shaped, TypedInv
<1>3. y.state = x.state /\ y.hello = x.hello /\ y.asked = Tail(x.asked)
  BY <1>2 DEF Reply, IsSocket, SocketFields
<1>4. SocketOK(y) /\ Command(c)
  BY <1>1, <1>2, <1>3, TakenOK DEF Answered
<1>5. answer = "registered" => c.arg \in Users \X Passwords
  BY <1>1, <1>4 DEF Obeyed, Command
<1>6. \A t \in Used' : SocketOK(sockets'[t])
  BY <1>1, <1>2, <1>4, UpdatedOK
<1>7. accounts' \subseteq Users \X Passwords
  BY <1>1, <1>5 DEF TypedInv
<1>8. QED
  BY <1>6, <1>7 DEF TypedInv

LEMMA NextTyped ==
  ASSUME Shaped, Attempts, FormInv, TypedInv, [WebNext]_web
  PROVE  TypedInv'
<1>1. CASE \E s \in Used : Answered(s)
  BY <1>1, AnsweredOK
<1>2. CASE ~\E s \in Used : Answered(s)
  <2>1. accounts' = accounts
    BY <1>2 DEF WebNext, web, Submit, Logout, StartNewChat, HandleSend, SendOn, Fails,
                ServerEnds, Gone, Event, Network, Message, Connected, Closed, Reconnect
  <2> SUFFICES \A s \in Used' : SocketOK(sockets'[s])
    BY <2>1 DEF TypedInv
  <2>2. CASE Submit
    <3>1. PICK s, x, op, pair : /\ Opens(s, x) /\ op \in {"REGISTER", "LOGIN"} /\ pair \in Forms
                                /\ x = Socket(0, TRUE, [op |-> op, arg |-> pair])
      BY <2>2, SubmitOpens
    <3>2. PICK command : command = [op |-> op, arg |-> pair]
      OBVIOUS
    <3>3. Command(command)
      BY <3>1, <3>2, WebAssumption DEF Command
    <3>4. QED
      BY <3>1, <3>2, <3>3, NewSocketOK, OthersOK
  <2>3. ASSUME NEW v \in Visits, Reconnect(v) PROVE \A s \in Used' : SocketOK(sockets'[s])
    <3>1. PICK s, x, command : /\ Opens(s, x) /\ command = Login(visits[v])
                               /\ x = Socket(v, FALSE, command)
      BY <2>3, ReconnectOpens
    <3>2. Command(command)
      BY <3>1 DEF Login, Command
    <3>3. QED
      BY <3>1, <3>2, NewSocketOK, OthersOK
  <2>4. CASE Logout
    BY <2>4, LogoutLeaves, OthersOK
  <2>5. ASSUME NEW s \in Used, StartNewChat(s) \/ HandleSend(s)
        PROVE  \A t \in Used' : SocketOK(sockets'[t])
    <3>1. PICK op, u, command, check :
             /\ SendOn(s, command, check)
             /\ command = [op |-> op, arg |-> u] /\ op \in {"CHECK_USER", "MSG"}
      BY <2>5 DEF StartNewChat, HandleSend
    <3>2. Command(command)
      BY <3>1 DEF Command
    <3>3. PICK x, y : /\ x = sockets[s] /\ IsSocket(x) /\ SocketOK(x)
                      /\ y = [x EXCEPT !.asked = Append(@, command), !.checks = @ \o check]
      BY DEF Shaped, TypedInv
    <3>4. /\ Updates(s, y) /\ y.state = x.state /\ y.hello = x.hello
          /\ y.asked = Append(x.asked, command)
      BY <3>1, <3>3, SendOnUpdates DEF IsSocket, SocketFields
    <3>5. SocketOK(y)
      <4>1. y.state \in {"connecting", "open", "closing"}
        BY <3>3, <3>4 DEF SocketOK
      <4>2. \E c : (c = x.hello \/ Command(c)) /\ y.asked = Append(x.asked, c)
        BY <3>2, <3>4
      <4>3. SocketOK(x) /\ y.hello = x.hello
        BY <3>3, <3>4
      <4>4. QED
        BY <4>1, <4>2, <4>3, AskedOK
    <3>6. QED
      BY <3>4, <3>5, UpdatedOK
  <2>6. ASSUME NEW s \in Used, Closed(s) \/ Fails(s) \/ ServerEnds(s)
        PROVE  \A t \in Used' : SocketOK(sockets'[t])
    BY <2>6, GoneRemoves, OthersOK
  <2>7. ASSUME NEW s \in Used, Connected(s) PROVE \A t \in Used' : SocketOK(sockets'[t])
    <3>1. PICK x, y : /\ x = sockets[s] /\ IsSocket(x) /\ SocketOK(x)
                      /\ y = [x EXCEPT !.state = "open", !.got = <<"greeting">>]
      BY DEF Shaped, TypedInv
    <3>2. Updates(s, y) /\ y.state = "open" /\ y.hello = x.hello /\ y.asked = x.asked
      BY <2>7, <3>1, ConnectedUpdates DEF IsSocket, SocketFields
    <3>3. SocketOK(y)
      BY <3>1, <3>2, AskedOK
    <3>4. QED
      BY <3>2, <3>3, UpdatedOK
  <2>8. ASSUME NEW s \in Used, Message(s) PROVE \A t \in Used' : SocketOK(sockets'[t])
    <3>1. PICK x : x = sockets[s] /\ IsSocket(x) /\ SocketOK(x)
      BY DEF Shaped, TypedInv
    <3>2. /\ sockets[s].state = "open" /\ sockets[s].got # <<>> /\ UNCHANGED memory
          /\ x.visit = 0 => s \in Of(0)
      BY <2>8, <3>1 DEF Message, Of
    <3>3. CASE x.visit = 0 /\ LoginGreeted(s)
      <4>1. PICK y : y = [x EXCEPT !.greeted = TRUE, !.got = Tail(@),
                                   !.asked = Append(@, x.hello)]
        OBVIOUS
      <4>2. /\ Updates(s, y) /\ y.state = x.state /\ y.hello = x.hello
            /\ y.asked = Append(x.asked, x.hello)
        BY <3>1, <3>3, <4>1, SendHelloUpdates DEF LoginGreeted, IsSocket, SocketFields
      <4>3. SocketOK(y)
        BY <3>1, <4>2, AskedOK DEF SocketOK
      <4>4. QED
        BY <4>2, <4>3, UpdatedOK
    <3>4. CASE x.visit = 0 /\ LoginRefused(s)
      BY <3>2, <3>4, AnswerEnds, OthersOK DEF LoginRefused
    <3>5. CASE x.visit = 0 /\ LoginAccepted(s) /\ SameUser(sockets[s].hello.arg)
      BY <3>2, <3>5, AnswerEnds, OthersOK DEF LoginAccepted
    <3>6. CASE x.visit = 0 /\ LoginAccepted(s) /\ ~SameUser(sockets[s].hello.arg)
      <4>1. PICK t, y : /\ Enters(s, t, y)
                        /\ y = Socket(Len(visits) + 1, TRUE, Login(sockets[s].hello.arg))
        BY <3>2, <3>6, AcceptedEnters
      <4>2. PICK v, command : /\ command = Login(sockets[s].hello.arg)
                              /\ v = Len(visits) + 1
        OBVIOUS
      <4>3. Command(command)
        BY <4>2 DEF Login, Command
      <4>4. SocketOK(y)
        BY <4>1, <4>2, <4>3, NewSocketOK
      <4>5. QED
        BY <4>1, <4>4, OthersOK
    <3>7. CASE x.visit # 0 /\ ChatMessage(s)
      <4>1. PICK y : Updates(s, y) /\ ReadOff(x, y, IsGreeting(s))
        BY <3>1, <3>7, ChatMessageUpdates
      <4>2. /\ y.state = x.state /\ y.hello = x.hello
            /\ y.asked = x.asked \/ y.asked = Append(x.asked, x.hello)
        BY <4>1 DEF ReadOff
      <4>3. SocketOK(y)
        BY <3>1, <4>2, AskedOK DEF SocketOK
      <4>4. QED
        BY <4>1, <4>3, UpdatedOK
    <3>8. QED
      BY <2>8, <3>1, <3>3, <3>4, <3>5, <3>6, <3>7 DEF Message
  <2>9. CASE UNCHANGED web
    BY <2>9 DEF web, Used, TypedInv
  <2>10. QED
    BY <1>2, <2>2, <2>3, <2>4, <2>5, <2>6, <2>7, <2>8, <2>9 DEF WebNext, Event, Network
<1>3. QED
  BY <1>1, <1>2

LEMMA InitTyped == InitWeb => TypedInv
  BY WebAssumption DEF InitWeb, TypedInv, Used

(* All that is kept, and the types that TLC checks among it. *)
PageInv == WebInv /\ ChatInv /\ TypedInv
LEMMA InitPage == InitWeb => PageInv
  BY InitWebInv, InitChats, InitTyped DEF PageInv
LEMMA NextPage == PageInv /\ [WebNext]_web => PageInv'
  BY NextWebInv, NextChats, NextTyped DEF PageInv, WebInv
LEMMA WebTypes == PageInv => WebTypeOK
<1> SUFFICES ASSUME PageInv PROVE WebTypeOK
  OBVIOUS
<1> USE DEF PageInv
<1>1. visits \in Seq(Users \X Passwords)
  <2>1. visits \in [1..Len(visits) -> Forms] /\ Len(visits) \in Nat
    BY DEF WebInv, Shaped
  <2>2. visits \in [1..Len(visits) -> Users \X Passwords]
    BY <2>1, WebAssumption
  <2>3. QED
    BY <2>1, <2>2
<1>2. \A s \in Used : /\ sockets[s].visit \in 0..Len(visits)
                      /\ sockets[s].state \in {"connecting", "open", "closing"}
  BY DEF WebInv, Shaped, TypedInv, SocketOK
<1>3. screen = 0 => chats = <<>> /\ current = 0
  BY DEF WebInv, Shaped, ChatInv, OnDisplay
<1>4. QED
  BY <1>1, <1>2, <1>3 DEF WebInv, Shaped, FormInv, ChatInv, TypedInv, WebTypeOK

(* Every variable of the page keeps its type: the accounts, too, whichever  *)
(* commands are answered late, on sockets that nobody listens to any more.  *)
THEOREM WebTyped == WebSpec => []WebTypeOK
  BY InitPage, NextPage, WebTypes, PTL DEF WebSpec
--------------------------------------------------------------------------------
(* What main() has done says where the sender is: it never comes back.      *)
MainInv ==
    /\ main \in {"shutdown", "close", "join_receiver", "exited"}
           => sender = "returned" /\ ~running
    /\ shut \/ closed => main \in {"close", "join_receiver", "exited"}

(* Whoever has told the user of the end clears the flag next, and returns.  *)
(* A command was sent after that only if the sender has not passed its test *)
(* of the flag since.                                                       *)
LateInv ==
    /\ told => receiver \in {"clear", "returned"}
    /\ told /\ receiver = "returned" => ~running
    /\ \/ late = 0
       \/ late = 1 /\ told /\ receiver = "returned" /\ sender \in {"check", "returned"}

(* The console starts with its flag set and nothing sent. *)
LEMMA InitConsoleInv == InitConsole => ConsoleTypeOK /\ MainInv /\ LateInv
<1> USE DEF InitConsole
<1>1. InitConsole => ConsoleTypeOK
  <2>1. 0 \in 0..MAX_LINES /\ 0 \in 0..MAX_UNREAD
    BY ConsoleAssumption
  <2>2. QED
    BY <2>1 DEF ConsoleTypeOK
<1>2. InitConsole => MainInv
  BY DEF MainInv
<1>3. InitConsole => LateInv
  BY DEF LateInv
<1>4. QED
  BY <1>1, <1>2, <1>3

(* Every step keeps the types. *)
LEMMA NextConsoleType == ConsoleTypeOK /\ [ConsoleNext]_console => ConsoleTypeOK'
<1> SUFFICES ASSUME ConsoleTypeOK, [ConsoleNext]_console PROVE ConsoleTypeOK'
  OBVIOUS
<1> USE ConsoleAssumption DEF ConsoleTypeOK, socket, record, threads
<1>1. CASE Sender
  BY <1>1 DEF Sender, SenderCheck, CheckRunning, SendTaken, SendError, SendKilled
<1>2. CASE Receiver
  <2>1. CASE ReceiverCheck
    BY <2>1 DEF ReceiverCheck
  <2>2. CASE EnterRecv
    BY <2>2 DEF EnterRecv
  <2>3. CASE RecvData
    BY <2>3 DEF RecvData
  <2>4. CASE RecvError
    BY <2>4 DEF RecvError
  <2>5. CASE RecvEnd
    BY <2>5 DEF RecvEnd
  <2>6. CASE ReceiverClears
    BY <2>6 DEF ReceiverClears, StopRunning
  <2>7. QED
    BY <1>2, <2>1, <2>2, <2>3, <2>4, <2>5, <2>6 DEF Receiver
<1>3. CASE Main
  BY <1>3 DEF Main, JoinSender, Shutdown, ShutdownBoth, CloseSocket, JoinReceiver
<1>4. CASE User
  <2>1. CASE TypeNothing
    BY <2>1 DEF TypeNothing
  <2>2. CASE TypeCommand
    BY <2>2 DEF TypeCommand
  <2>3. CASE TypeQuit
    BY <2>3 DEF TypeQuit
  <2>4. QED
    BY <1>4, <2>1, <2>2, <2>3 DEF User
<1>5. CASE Server
  BY <1>5 DEF Server, ServerSends, ServerCloses, ServerRejects
<1>6. CASE UNCHANGED console
  BY <1>6 DEF console
<1>7. QED
  BY <1>1, <1>2, <1>3, <1>4, <1>5, <1>6 DEF ConsoleNext, ConsoleStep

(* Every step keeps what ties the three threads together. *)
LEMMA NextConsoleInv ==
  ConsoleTypeOK /\ MainInv /\ LateInv /\ [ConsoleNext]_console => MainInv' /\ LateInv'
<1> SUFFICES ASSUME ConsoleTypeOK, MainInv, LateInv, [ConsoleNext]_console
             PROVE  MainInv' /\ LateInv'
  OBVIOUS
<1> USE DEF ConsoleTypeOK, MainInv, LateInv, socket, record, threads
<1>1. CASE Sender
  <2>1. /\ main' \in {main, "killed"}
        /\ UNCHANGED <<running, receiver, shut, closed, told>>
    BY <1>1 DEF Sender, SenderCheck, SendTaken, SendError, SendKilled
  <2>2. SenderCheck => sender' = "returned" \/ running
    BY DEF SenderCheck, CheckRunning
  <2>3. MainInv'
    BY <1>1, <2>1 DEF Sender, SenderCheck, SendTaken, SendError, SendKilled
  <2>4. LateInv'
    BY <1>1, <2>1, <2>2 DEF Sender, SenderCheck, SendTaken, SendError, SendKilled
  <2>5. QED
    BY <2>3, <2>4
<1>2. CASE Receiver
  <2>1. UNCHANGED <<main, sender, shut, closed, late>> /\ (running' => running)
    BY <1>2 DEF Receiver, ReceiverCheck, EnterRecv, RecvData, RecvError, RecvEnd,
                ReceiverClears, StopRunning
  <2>2. MainInv'
    BY <2>1
  <2>3. CASE ReceiverCheck \/ EnterRecv \/ RecvData \/ RecvError
    <3>1. told' = told /\ receiver \notin {"clear", "returned"}
      BY <2>3 DEF ReceiverCheck, EnterRecv, RecvData, RecvError
    <3>2. QED
      BY <2>1, <2>2, <3>1
  <2>4. CASE RecvEnd
    BY <2>1, <2>2, <2>4 DEF RecvEnd
  <2>5. CASE ReceiverClears
    BY <2>1, <2>2, <2>5 DEF ReceiverClears, StopRunning
  <2>6. QED
    BY <1>2, <2>3, <2>4, <2>5 DEF Receiver
<1>3. CASE Main
  BY <1>3 DEF Main, JoinSender, SenderReturned, Shutdown, ShutdownBoth, CloseSocket,
              JoinReceiver
<1>4. CASE User
  <2>1. /\ sender = "prompt" /\ (running' => running)
        /\ UNCHANGED <<main, receiver, shut, closed, told, late>>
    BY <1>4 DEF User, TypeNothing, TypeCommand, TypeQuit
  <2>2. QED
    BY <2>1
<1>5. CASE Server
  BY <1>5 DEF Server, ServerSends, ServerCloses, ServerRejects
<1>6. CASE UNCHANGED console
  BY <1>6 DEF console
<1>7. QED
  BY <1>1, <1>2, <1>3, <1>4, <1>5, <1>6 DEF ConsoleNext, ConsoleStep

(* Every variable of the console keeps its type. *)
THEOREM ConsoleTyped == ConsoleSpec => []ConsoleTypeOK
  BY InitConsoleInv, NextConsoleType, PTL DEF ConsoleSpec

(* main() gives the socket back only when its sender is gone, however the   *)
(* threads, the user and the server take turns.                             *)
THEOREM SocketIsKept == ConsoleSpec => []SocketOutlivesSender
<1>1. MainInv => SocketOutlivesSender
  BY DEF MainInv, SocketOutlivesSender
<1>2. QED
  BY InitConsoleInv, NextConsoleInv, ConsoleTyped, <1>1, PTL DEF ConsoleSpec

(* Once the receiver has told the user of the end and cleared the flag, one *)
(* command more is sent at most.                                            *)
THEOREM OneLineIsLost == ConsoleSpec => []OneMoreLine
<1>1. LateInv => OneMoreLine
  BY DEF LateInv, OneMoreLine
<1>2. QED
  BY InitConsoleInv, NextConsoleInv, ConsoleTyped, <1>1, PTL DEF ConsoleSpec
--------------------------------------------------------------------------------
(* A step of Clients is one of the console or one of the page, or neither.  *)
LEMMA StepOfEach == [Next]_vars => [ConsoleNext]_console /\ [WebNext]_web
  BY DEF Next, Console, Page, ConsoleNext, vars

(* What is proved of the console and of the page, together. *)
ConsoleInv == ConsoleTypeOK /\ MainInv /\ LateInv

LEMMA InitClients == Init => ConsoleInv /\ PageInv
  BY InitConsoleInv, InitPage DEF Init, ConsoleInv

LEMMA NextClients == ConsoleInv /\ PageInv /\ [Next]_vars => (ConsoleInv /\ PageInv)'
<1> SUFFICES ASSUME ConsoleInv, PageInv, [Next]_vars PROVE (ConsoleInv /\ PageInv)'
  OBVIOUS
<1>1. [ConsoleNext]_console /\ [WebNext]_web
  BY StepOfEach
<1>2. ConsoleInv'
  BY <1>1, NextConsoleType, NextConsoleInv DEF ConsoleInv
<1>3. PageInv'
  BY <1>1, NextPage
<1>4. QED
  BY <1>2, <1>3

(* Every variable has its type, whichever program the user runs. *)
THEOREM ClientsTyped == Spec => []ClientsTypeOK
<1>1. ConsoleInv /\ PageInv => ClientsTypeOK
  BY WebTypes DEF ConsoleInv, ClientsTypeOK
<1>2. QED
  BY <1>1, InitClients, NextClients, PTL DEF Spec

(* The user's program is as correct as each of them by itself.              *)
THEOREM ClientsSafe ==
  Spec => [](/\ OneMoreLine /\ SocketOutlivesSender
             /\ LoggedInRight /\ FormFree /\ OneChain /\ ChatsRight)
<1>1. ConsoleInv => OneMoreLine /\ SocketOutlivesSender
  BY DEF ConsoleInv, MainInv, LateInv, OneMoreLine, SocketOutlivesSender
<1>2. PageInv => LoggedInRight /\ FormFree /\ OneChain
  BY DEF PageInv, WebInv, FormInv, FormFree
<1>3. PageInv => ChatsRight
  BY ChatsKnown DEF PageInv
<1>4. QED
  BY <1>1, <1>2, <1>3, InitClients, NextClients, PTL DEF Spec
================================================================================
