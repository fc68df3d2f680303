---------------------------------- MODULE Mail ----------------------------------
(***************************************************************************)
(* What the message service promises its clients (handle_client and        *)
(* handle_msg, client_handler.c), without workers, shared variables,       *)
(* descriptors and statements.  A client is greeted, gives one command at  *)
(* a time and gets one answer to each.  A command may leave one message in *)
(* the store; then, and only then, the answer is its acknowledgment, with  *)
(* the message's number.  After that, and before its author's next         *)
(* command, the message may be shown to somebody, once.                    *)
(*                                                                         *)
(* To whom it is shown, and as whose, is not part of the promise: the      *)
(* server does not keep that one (run handler_misdelivery).                *)
(***************************************************************************)
EXTENDS Naturals, Sequences

CONSTANT Clients

VARIABLES asked, \* how many commands each client has given
          stage, \* where each client is in its dialogue, see below
          kept,  \* the messages stored, each named by its author and command
          told   \* what each client has been told, in order

vars == <<asked, stage, kept, told>>

(* "away": not greeted yet.  "free": may give a command.  "owed": has given  *)
(* one and waits for the answer.  "after": its message is stored and        *)
(* acknowledged, and may be shown.  "left".                                 *)
Init ==
    /\ asked = [c \in Clients |-> 0]
    /\ stage = [c \in Clients |-> "away"]
    /\ kept = <<>>
    /\ told = [c \in Clients |-> <<>>]

Text(c) == <<c, asked[c]>>
Passes(c, from, to) == stage[c] = from /\ stage' = [stage EXCEPT ![c] = to]
Tell(c, what) == told' = [told EXCEPT ![c] = Append(@, what)]

Greet(c) ==
    /\ Passes(c, "away", "free")
    /\ Tell(c, <<"greeting">>)
    /\ UNCHANGED <<asked, kept>>

Ask(c) ==
    /\ Passes(c, "free", "owed")
    /\ asked' = [asked EXCEPT ![c] = @ + 1]
    /\ UNCHANGED <<kept, told>>

Keep(c) ==
    /\ stage[c] = "owed"
    /\ \A n \in DOMAIN kept : kept[n] # Text(c)
    /\ kept' = Append(kept, Text(c))
    /\ UNCHANGED <<asked, stage, told>>

(* The command was a message, which is stored: its number is the answer.    *)
Acknowledge(c) ==
    /\ Passes(c, "owed", "after")
    /\ \E n \in DOMAIN kept : kept[n] = Text(c) /\ Tell(c, <<"sent", n>>)
    /\ UNCHANGED <<asked, kept>>

(* Any other answer says that nothing was stored. *)
Respond(c) ==
    /\ Passes(c, "owed", "free")
    /\ \A n \in DOMAIN kept : kept[n] # Text(c)
    /\ Tell(c, <<"answer">>)
    /\ UNCHANGED <<asked, kept>>

Show(c, d) ==
    /\ Passes(c, "after", "free")
    /\ Tell(d, <<"message", Text(c)>>)
    /\ UNCHANGED <<asked, kept>>

(* There is nobody to show it to. *)
ShowNobody(c) ==
    /\ Passes(c, "after", "free")
    /\ UNCHANGED <<asked, kept, told>>

Leave(c) ==
    /\ Passes(c, "free", "left")
    /\ UNCHANGED <<asked, kept, told>>

Next ==
    \E c \in Clients :
        \/ Greet(c) \/ Ask(c) \/ Keep(c) \/ Acknowledge(c) \/ Respond(c)
        \/ ShowNobody(c) \/ Leave(c)
        \/ \E d \in Clients : Show(c, d)

Spec == Init /\ [][Next]_vars
--------------------------------------------------------------------------------
Hears(c, what) ==
    LET heard == told[c]
    IN  \E i \in DOMAIN heard : heard[i] = what

(* What follows from it.  No command leaves two messages.  A message is     *)
(* stored if and only if its author has been told its number, but for the   *)
(* one whose acknowledgment is due; what is shown to somebody has been      *)
(* acknowledged before; and no number is told and no message shown twice,   *)
(* be it to two clients.                                                    *)
MailRight ==
    /\ \A m, n \in DOMAIN kept : kept[m] = kept[n] => m = n
    /\ \A n \in DOMAIN kept :
          LET c == kept[n][1]
          IN  Hears(c, <<"sent", n>>) \/ (stage[c] = "owed" /\ kept[n] = Text(c))
    /\ \A c \in Clients :
          LET heard == told[c]
          IN  \A i \in DOMAIN heard :
                /\ heard[i][1] = "sent" =>
                      heard[i][2] \in DOMAIN kept /\ kept[heard[i][2]][1] = c
                /\ heard[i][1] = "message" =>
                      \E n \in DOMAIN kept : /\ kept[n] = heard[i][2]
                                             /\ Hears(kept[n][1], <<"sent", n>>)
    /\ \A c, d \in Clients :
          LET told_c == told[c]
              told_d == told[d]
          IN  \A i \in DOMAIN told_c, j \in DOMAIN told_d :
                told_c[i][1] \in {"sent", "message"} /\ told_c[i] = told_d[j] => c = d /\ i = j
================================================================================
