---------------------------------- MODULE Wire ----------------------------------
(***************************************************************************)
(* From what a client says to what the server has understood:              *)
(* handle_client (server/src/client_handler.c, lines 284-345) between the  *)
(* streams of its clients and the commands of ClientHandler.  Every worker *)
(* serves one client, a console or a browser.  TCP keeps the order of what *)
(* was sent and nothing else: a message may arrive in parts, or on top of  *)
(* others.  Clients do not hang up here.                                   *)
(***************************************************************************)
EXTENDS Protocol, WebSocket, FiniteSets, FiniteSetsExt

CONSTANTS Browsers, \* the workers whose client is a browser
          Script,   \* what each client says: sets of lines to choose from
          NL, SP,   \* the end of a console's line, and a space
          MAX_CUTS  \* bound: how many deliveries are of a part of a message

(* Numbers of eight bytes hold what a buffer does.  What is typed into a    *)
(* console ends at its newline, and an empty line is not sent.              *)
ASSUME WireAssumption ==
    /\ Browsers \subseteq Workers
    /\ BYTE \in Nat \ {0, 1} /\ MAX7 \in 0..(BYTE * BYTE - 1) /\ BufSize \in Nat \ {0, 1}
    /\ \A w \in Workers : \A n \in 1..Len(Script[w]) : \A item \in Script[w][n] :
          item.text \in Seq(ToSet(item.text))
    /\ \A w \in Workers : Len(Script[w]) \in Nat
    /\ BufSize <= Place[8] /\ BAR # NL
    /\ \A w \in Workers \ Browsers : \A n \in 1..Len(Script[w]) : \A item \in Script[w][n] :
          item.text # <<>> /\ NL \notin ToSet(item.text)

VARIABLES flight,       \* what each client has sent and has not arrived
          is_websocket,
          said,         \* history: the lines that a client has said
          heard,        \* history: what protocol_parse made of it, while Ordinary
          cuts,         \* history: how many times a message has arrived in part
          joined        \* history: a message has arrived on top of another

history == <<said, heard, cuts, joined>>
vars == <<parser, receiver, flight, is_websocket, history>>

Points == {"peek", "handshake", "line", "header", "ext", "mask", "payload",
           "adrift", "parse", "closed"}

(* "GE", "T /", the key of the handshake, and the end of its line. *)
Request == [i \in 1..4 |-> As("http", i)]

Init ==
    /\ InitParser
    /\ flight = [w \in Workers |-> IF w \in Browsers THEN <<Request>> ELSE <<>>]
    /\ is_websocket = [w \in Workers |-> FALSE]
    /\ inbox = [w \in Workers |-> <<>>]
    /\ step = [w \in Workers |-> "peek"]
    /\ len = [w \in Workers |-> 0]
    /\ key = [w \in Workers |-> <<>>]
    /\ said = [w \in Workers |-> <<>>]
    /\ heard = [w \in Workers |-> <<>>]
    /\ cuts = [w \in Workers |-> 0]
    /\ joined = [w \in Workers |-> FALSE]
--------------------------------------------------------------------------------
(* The client sends its next line.  A console ends it with a newline, if    *)
(* its buffer has room for one (it is as long as the server's), a browser   *)
(* puts it into a frame, once it has the answer to its handshake.           *)
Newline(text) == IF Len(text) + 1 < BufSize THEN <<As("char", NL)>> ELSE <<>>
Line(text) == [i \in 1..Len(text) |-> As("char", text[i])] \o Newline(text)

(* The console makes bars of the first two spaces: the command, one         *)
(* argument, and a text whose own spaces stay.                              *)
Spaces(text) == {i \in DOMAIN text : text[i] = SP}
Formatted(text) ==
    [i \in DOMAIN text |-> IF text[i] = SP /\ Cardinality(Spaces(text) \cap (1..i)) <= 2
                           THEN BAR ELSE text[i]]
Say(w) ==
    /\ Len(said[w]) < Len(Script[w])
    /\ w \in Browsers => is_websocket[w]
    /\ \E item \in Script[w][Len(said[w]) + 1] :
          /\ said' = [said EXCEPT ![w] = Append(@, item)]
          /\ flight' = [flight EXCEPT ![w] = Append(@,
                IF w \in Browsers THEN Frame(item.op, item.text) ELSE Line(Formatted(item.text)))]
    /\ UNCHANGED <<parser, receiver, is_websocket, heard, cuts, joined>>

(* The network delivers the oldest message or some of it. *)
Deliver(w) ==
    /\ flight[w] # <<>>
    /\ \E n \in 1..Len(Head(flight[w])) :
          LET rest == SubSeq(Head(flight[w]), n + 1, Len(Head(flight[w])))
          IN  /\ inbox' = [inbox EXCEPT ![w] = @ \o SubSeq(Head(flight[w]), 1, n)]
              /\ flight' = [flight EXCEPT ![w] =
                               (IF rest = <<>> THEN <<>> ELSE <<rest>>) \o Tail(@)]
              /\ rest # <<>> => MapThenSumSet(LAMBDA v : cuts[v], Workers) < MAX_CUTS
              /\ cuts' = [cuts EXCEPT ![w] = @ + (IF rest = <<>> THEN 0 ELSE 1)]
    /\ joined' = [joined EXCEPT ![w] = @ \/ inbox[w] # <<>>]
    /\ UNCHANGED <<parser, step, len, key, is_websocket, said, heard>>

(* recv with MSG_PEEK: "GET /" is a browser. *)
Peek(w) ==
    /\ step[w] = "peek" /\ inbox[w] # <<>>
    /\ At(w, IF IsPrefix(SubSeq(Request, 1, 2), inbox[w]) THEN "handshake" ELSE "line")
    /\ UNCHANGED <<parser, flight, is_websocket, inbox, len, key, history>>

(* ws_handshake on what has arrived of the request. *)
Handshake(w) ==
    /\ step[w] = "handshake"
    /\ inbox' = [inbox EXCEPT ![w] = <<>>]
    /\ \/ /\ IsPrefix(Request, inbox[w])
          /\ is_websocket' = [is_websocket EXCEPT ![w] = TRUE]
          /\ At(w, "header")
       \/ /\ ~IsPrefix(Request, inbox[w])
          /\ At(w, "closed")
          /\ UNCHANGED is_websocket
    /\ UNCHANGED <<parser, flight, len, key, history>>

(* recv of a console's line; newlines are taken off its end. *)
Text(bytes) == [i \in DOMAIN bytes |-> IF bytes[i].as = "char" THEN bytes[i].v ELSE JUNK]
Stripped(text) == SubSeq(text, 1, Max({i \in DOMAIN text : text[i] # NL} \cup {0}))
ReadLine(w) ==
    LET text == Stripped(Text(Arrived(w, BufSize)))
    IN  /\ step[w] = "line" /\ inbox[w] # <<>>
        /\ Recv(w, BufSize)
        /\ \/ text = <<>> /\ UNCHANGED <<step, parser>>
           \/ text # <<>> /\ At(w, "parse") /\ BeginParse(w, text)
        /\ UNCHANGED <<flight, is_websocket, len, key, history>>

(* ws_recv. *)
AnyText == {<<JUNK>>} \cup {command \o <<BAR, JUNK>> : command \in Commands}
ReadFrame(w) ==
    /\ \/ ReadHeader(w) /\ UNCHANGED parser
       \/ ReadExt(w) /\ UNCHANGED parser
       \/ ReadMask(w) /\ UNCHANGED parser
       \/ ReadNothing(w) /\ UNCHANGED parser
       \/ ReadText(w) /\ BeginParse(w, TextOf(w))
       \/ EndAdrift(w) /\ UNCHANGED parser
       \/ ReadAdrift(w) /\ \E text \in AnyText : BeginParse(w, text)
    /\ UNCHANGED <<flight, is_websocket, history>>

Parse(w) ==
    /\ Parsing(w)
    /\ UNCHANGED <<receiver, flight, is_websocket, history>>

(* A connection as the code expects it: one recv finds one message, which   *)
(* fits the buffer.  Frames may come on top of each other, lines may not.   *)
Ordinary(w) ==
    /\ cuts[w] = 0
    /\ w \notin Browsers => ~joined[w]
    /\ \A n \in DOMAIN said[w] : Len(said[w][n].text) < BufSize

(* The command is executed, or answered with an error: both go on reading.  *)
BreakIfUnknown(w) ==
    IF msg[w] = Unknown THEN "closed" ELSE IF is_websocket[w] THEN "header" ELSE "line"
Again(w) == IF is_websocket[w] THEN "header" ELSE "line"
Understood(w) ==
    /\ EndParse(w)
    /\ At(w, Again(w))
    /\ LET result == [msg |-> msg[w], alone |-> alone[w]]
       IN  heard' = IF Ordinary(w) THEN [heard EXCEPT ![w] = Append(@, result)] ELSE heard
    /\ UNCHANGED <<inbox, len, key, flight, is_websocket, said, cuts, joined>>

Serving(w) == Peek(w) \/ Handshake(w) \/ ReadLine(w) \/ ReadFrame(w) \/ Parse(w) \/ Understood(w)
Next == \E w \in Workers : Say(w) \/ Deliver(w) \/ Serving(w)
Spec == Init /\ [][Next]_vars
--------------------------------------------------------------------------------
(* What can be said, the characters of it, and the bytes that are sent. *)
Items == UNION {UNION {Script[w][n] : n \in 1..Len(Script[w])} : w \in Workers}
Chars == {NL, SP, BAR, JUNK, STALE} \cup (UNION {ToSet(item.text) : item \in Items})
            \cup (UNION {ToSet(word) : word \in Commands})
IsByte(b) ==
    \/ b.as \in {"http", "key"} /\ b.v \in 1..4
    \/ b.as = "char" /\ b.v \in Chars
    \/ b.as = "op" /\ \E item \in Items : b.v = item.op
    \/ b.as \in {"len", "ext"} /\ b.v \in Nat
    \/ b.as = "data" /\ b.v \in Chars \X (1..4)
AreBytes(bytes) == \A i \in 1..Len(bytes) : IsByte(bytes[i])

(* protocol_parse, recv and ws_recv: what is in flight and unread consists  *)
(* of bytes, what is parsed of characters; a worker parses exactly at that  *)
(* point of its loop; no more than MAX_ARGS arguments are kept, none longer *)
(* than ArgSize, and no more bytes of a mask than it has.                   *)
WireTypeOK ==
    /\ save \in Workers \X Nat
    /\ \A w \in Workers :
          /\ AreBytes(inbox[w]) /\ \A m \in 1..Len(flight[w]) : AreBytes(flight[w][m])
          /\ buffer[w] \in Seq(Chars) /\ alone[w] \in BOOLEAN
          /\ from[w] \in Workers \X Nat
          /\ step[w] \in Points
          /\ (parse[w] = "idle") = (step[w] # "parse")
          /\ msg[w].cmd \in Commands \cup {<<>>}
          /\ Len(msg[w].args) <= MAX_ARGS
          /\ \A i \in DOMAIN msg[w].args : Len(msg[w].args[i]) \in 1..ArgSize
          /\ len[w] \in Nat /\ \A i \in DOMAIN key[w] : i <= 4
          /\ said[w] \in Seq(Items) /\ Len(said[w]) <= Len(Script[w])

(* protocol_parse: whatever line a worker has at hand, also a part of one,  *)
(* its message is the meaning of that line, unless another worker calls     *)
(* strtok in between or there is no room for all of it.                     *)
ParsedRight ==
    \A w \in Workers :
        LET fields == Fields(buffer[w])
        IN  parse[w] = "done" /\ alone[w] /\ Modest(fields) => msg[w] = Meaning(fields)

(* What is meant by what a client says: a browser says the fields; on a     *)
(* console the first two spaces separate a command, an argument and a text. *)
Space(text, k) ==
    Min({i \in Spaces(text) : Cardinality(Spaces(text) \cap (1..i)) = k} \cup {Len(text) + 1})
Meant(w, text) ==
    LET first == Space(text, 1)
        second == Space(text, 2)
    IN  IF w \in Browsers THEN Fields(text)
        ELSE Fields(SubSeq(text, 1, first - 1)) \o
             Fields(SubSeq(text, first + 1, second - 1)) \o
             Fields(SubSeq(text, second + 1, Len(text)))

(* handle_client, ws_recv and protocol_parse: on an ordinary connection     *)
(* every line is understood as it was said, in order and once, whatever     *)
(* arrives on other connections, and unless another worker calls strtok in  *)
(* between.                                                                 *)
HeardRight ==
    \A w \in Workers : Ordinary(w) =>
        /\ Len(heard[w]) <= Len(said[w])
        /\ \A n \in DOMAIN heard[w] :
              LET fields == Meant(w, said[w][n].text)
              IN  heard[w][n].alone /\ Modest(fields) => heard[w][n].msg = Meaning(fields)

(* handle_client: when all that was sent on an ordinary connection has been *)
(* read, every line has been heard, also those that were not understood;    *)
(* no worker waits in the middle of a frame; and the loop has ended if and  *)
(* only if the client has sent what ends it: a browser a close frame, a     *)
(* ping or an empty text, a console nothing.                                *)
Ends(w, item) == w \in Browsers /\ (item.op \in {"close", "ping"} \/ item.text = <<>>)
Waiting(w) == step[w] # "parse" /\ ~(step[w] = "payload" /\ Payload(w) = 0)
NothingLost ==
    \A w \in Workers :
        LET ends == {n \in DOMAIN said[w] : Ends(w, said[w][n])}
        IN  Ordinary(w) /\ flight[w] = <<>> /\ inbox[w] = <<>> /\ Waiting(w) =>
                /\ Len(heard[w]) = Len(said[w]) - Cardinality(ends)
                /\ step[w] \in {"peek", "line", "header", "closed"}
                /\ step[w] = "closed" <=> ends # {}

(* ws_send: the lengths of its frames, the one of the welcome after a       *)
(* handshake and any other, are read as ws_recv does; in the shortest form. *)
LengthsAgree ==
    \A w \in Workers : step[w] = "handshake" =>
        \A n \in (0..Place[3]) \cup {Place[k] - 1 : k \in 4..8} :
            LET field == LengthField(n)
            IN  /\ ReadLength(field.code, field.ext) = n
                /\ Len(field.ext) = ExtSize(field.code)
                /\ (field.code = EIGHT) = (n >= Place[2])

(* base64_encode (websocket.c): whatever ws_handshake has to encode, it is  *)
(* the encoding of RFC 4648, as the comment at line 32 says.                *)
Base64Right ==
    \A w \in Workers : step[w] = "handshake" =>
        \A n \in 0..4 : \A input \in [1..n -> {1, 128, 255}] :
            base64_encode(input) = Rfc4648(input)
================================================================================
