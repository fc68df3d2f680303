----------------------------- MODULE ConsoleClient -----------------------------
(***************************************************************************)
(* The console client (client/src/client.c, client/src/main.c): a thread   *)
(* reads lines and sends them, another one receives and prints, and main() *)
(* ends the connection when the first has returned.  They share the        *)
(* running flag and the socket.  What a line says is the subject of Wire.  *)
(***************************************************************************)
EXTENDS Naturals

CONSTANTS MAX_LINES, \* bound: how many commands the user types
          MAX_UNREAD \* bound: how many packets of the server wait to be read

ASSUME ConsoleAssumption == MAX_LINES \in Nat /\ MAX_UNREAD \in Nat

VARIABLES running,                \* data.running, under its mutex
          sender, receiver, main, \* where each thread is
          shut, closed,           \* shutdown(), close() of sock_fd
          peer,                   \* the server's end of the connection
          failure,                \* the pending error of the socket
          unread,                 \* packets that have arrived
          typed,                  \* how many commands were typed
          quit,                   \* history: the user has asked to leave
          told,                   \* history: "Server closed connection" was printed
          late                    \* history: commands sent after the receiver
                                  \* had said so and cleared the flag

threads == <<running, sender, receiver, main>>
socket  == <<shut, closed, peer, failure, unread>>
record  == <<typed, quit, told, late>>
console == <<threads, socket, record>>

(* Connected; both threads are created. *)
InitConsole ==
    /\ running = TRUE
    /\ sender = "check" /\ receiver = "check" /\ main = "join_sender"
    /\ shut = FALSE /\ closed = FALSE
    /\ peer = "up" /\ failure = "none" /\ unread = 0
    /\ typed = 0 /\ quit = FALSE /\ told = FALSE /\ late = 0

Ended == main \in {"exited", "killed"}
--------------------------------------------------------------------------------
(* sender_thread: the flag is read, and then fgets waits for the user,      *)
(* whatever becomes of the flag.                                            *)
CheckUnlocked == sender' = "prompt"
CheckRunning  == sender' = IF running THEN "prompt" ELSE "returned"
SenderCheck ==
    /\ sender = "check" /\ CheckRunning
    /\ UNCHANGED <<running, receiver, main, socket, record>>

TypeNothing ==
    /\ sender = "prompt" /\ sender' = "check"
    /\ UNCHANGED <<running, receiver, main, socket, record>>
TypeCommand ==
    /\ sender = "prompt" /\ typed < MAX_LINES
    /\ sender' = "send" /\ typed' = typed + 1
    /\ UNCHANGED <<running, receiver, main, socket, quit, told, late>>
TypeQuit ==
    /\ sender = "prompt"
    /\ sender' = "returned" /\ quit' = TRUE
    /\ \/ running' = FALSE         \* "/quit"
       \/ UNCHANGED running       \* the end of the input
    /\ UNCHANGED <<receiver, main, socket, typed, told, late>>

(* send(): a server that has closed answers with a reset; that error, or    *)
(* SIGPIPE, which kills the process, is the answer to the next one.         *)
SendTaken ==
    /\ sender = "send" /\ peer # "reset"
    /\ sender' = "check"
    /\ peer' = IF peer = "up" THEN "up" ELSE "refusing"
    /\ late' = late + (IF told /\ receiver = "returned" THEN 1 ELSE 0)
    /\ UNCHANGED <<running, receiver, main, shut, closed, failure, unread, typed, quit, told>>
SendError ==
    /\ sender = "send" /\ failure = "reset"
    /\ sender' = "returned" /\ failure' = "none"
    /\ UNCHANGED <<running, receiver, main, shut, closed, peer, unread, record>>
SendKilled ==
    /\ sender = "send" /\ peer = "reset" /\ failure # "reset"
    /\ main' = "killed"
    /\ UNCHANGED <<running, sender, receiver, socket, record>>
--------------------------------------------------------------------------------
(* receiver_thread: the flag is read, recv is entered, recv returns.  Once  *)
(* inside, only data, an error, the end of the stream or shutdown() make it *)
(* return; close() by another thread does not.                              *)
ReceiverCheck ==
    /\ receiver = "check"
    /\ receiver' = IF running THEN "recv" ELSE "returned"
    /\ UNCHANGED <<running, sender, main, socket, record>>
EnterRecv ==
    /\ receiver = "recv"
    /\ receiver' = IF closed THEN "returned" ELSE "inside"
    /\ UNCHANGED <<running, sender, main, socket, record>>
RecvData ==
    /\ receiver = "inside" /\ unread > 0
    /\ unread' = unread - 1 /\ receiver' = "check"
    /\ UNCHANGED <<running, sender, main, shut, closed, peer, failure, record>>
RecvError ==
    /\ receiver = "inside" /\ unread = 0 /\ failure # "none"
    /\ failure' = "none" /\ receiver' = "returned"
    /\ UNCHANGED <<running, sender, main, shut, closed, peer, unread, record>>
(* At the end of the stream the user is told; then the flag is cleared.     *)
RecvEnd ==
    /\ receiver = "inside" /\ unread = 0 /\ failure = "none"
    /\ peer # "up" \/ shut
    /\ told' = TRUE /\ receiver' = "clear"
    /\ UNCHANGED <<running, sender, main, socket, typed, quit, late>>
StillRunning == UNCHANGED running
StopRunning  == running' = FALSE
ReceiverClears ==
    /\ receiver = "clear" /\ StopRunning /\ receiver' = "returned"
    /\ UNCHANGED <<sender, main, socket, record>>
--------------------------------------------------------------------------------
(* main(): join the sender and clear the flag, shut the socket down, close  *)
(* it, join the receiver.                                                   *)
SenderReturned   == sender = "returned"
JoinSender ==
    /\ main = "join_sender" /\ SenderReturned
    /\ running' = FALSE /\ main' = "shutdown"
    /\ UNCHANGED <<sender, receiver, socket, record>>
NoShutdown   == UNCHANGED shut
ShutdownBoth == shut' = TRUE
Shutdown ==
    /\ main = "shutdown" /\ ShutdownBoth /\ main' = "close"
    /\ UNCHANGED <<running, sender, receiver, closed, peer, failure, unread, record>>
CloseSocket ==
    /\ main = "close" /\ closed' = TRUE /\ main' = "join_receiver"
    /\ UNCHANGED <<running, sender, receiver, shut, peer, failure, unread, record>>
JoinReceiver ==
    /\ main = "join_receiver" /\ receiver = "returned"
    /\ main' = "exited"
    /\ UNCHANGED <<running, sender, receiver, socket, record>>
--------------------------------------------------------------------------------
(* The server: it answers or forwards, closes the connection, or resets it  *)
(* (it closed with commands unread); or it rejects what came after its end. *)
ServerSends ==
    /\ peer = "up" /\ unread < MAX_UNREAD
    /\ unread' = unread + 1
    /\ UNCHANGED <<threads, shut, closed, peer, failure, record>>
ServerCloses ==
    /\ peer = "up"
    /\ \/ peer' = "closed" /\ UNCHANGED failure
       \/ peer' = "reset" /\ failure' = "reset"
    /\ UNCHANGED <<threads, shut, closed, unread, record>>
ServerRejects ==
    /\ peer = "refusing"
    /\ peer' = "reset" /\ failure' = "pipe"
    /\ UNCHANGED <<threads, shut, closed, unread, record>>

Sender   == SenderCheck \/ SendTaken \/ SendError \/ SendKilled
Receiver == ReceiverCheck \/ EnterRecv \/ RecvData \/ RecvError \/ RecvEnd \/ ReceiverClears
Main     == JoinSender \/ Shutdown \/ CloseSocket \/ JoinReceiver
User     == TypeNothing \/ TypeCommand \/ TypeQuit
Server   == ServerSends \/ ServerCloses \/ ServerRejects

ConsoleStep == Sender \/ Receiver \/ Main \/ User \/ Server
ConsoleNext == ~Ended /\ ConsoleStep

(* The threads run; neither the user nor the server has to do anything.     *)
ConsoleFairness ==
    /\ WF_console(~Ended /\ Sender) /\ WF_console(~Ended /\ Receiver)
    /\ WF_console(~Ended /\ Main)
ConsoleSpec == InitConsole /\ [][ConsoleNext]_console /\ ConsoleFairness
--------------------------------------------------------------------------------
(* Every variable has its type. *)
ConsoleTypeOK ==
    /\ {running, shut, closed, quit, told} \subseteq BOOLEAN
    /\ sender \in {"check", "prompt", "send", "returned"}
    /\ receiver \in {"check", "recv", "inside", "clear", "returned"}
    /\ main \in {"join_sender", "shutdown", "close", "join_receiver", "exited", "killed"}
    /\ peer \in {"up", "closed", "refusing", "reset"}
    /\ failure \in {"none", "reset", "pipe"}
    /\ unread \in 0..MAX_UNREAD /\ typed \in 0..MAX_LINES

(* main.c, lines 69-79: the socket is shut down and closed only when its    *)
(* sender has returned and the flag is clear, so that no command goes to a  *)
(* descriptor that has been given back, and the receiver does not go on.    *)
SocketOutlivesSender == shut \/ closed => sender = "returned" /\ ~running

(* client.c, lines 45-49 and 149-154: once the receiver has found the end   *)
(* of the stream and has cleared the flag, at most one more command is sent,*)
(* the one that the user was typing; then the sender sees the flag.  (From  *)
(* the message on the screen to the flag any number of them may go.)        *)
OneMoreLine == late <= 1

(* main.c, lines 69-82: when the user leaves, by /quit or by the end of his *)
(* input, the process ends, wherever the receiver is; shutdown wakes it.    *)
QuitEnds == quit ~> Ended
================================================================================
