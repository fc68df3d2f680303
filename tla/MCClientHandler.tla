---------------------------- MODULE MCClientHandler ----------------------------
(* ClientHandler for TLC: two workers, two users, two or three clients, each *)
(* with a script of one to three commands.                                   *)
EXTENDS ClientHandler, TLC

CONSTANTS w1, w2, c1, c2, c3

TwoWorkers   == {w1, w2}
TwoClients   == {c1, c2}
ThreeClients == {c1, c2, c3}

TwoUsers  == {"alice", "bob"}
TwoHashes == {"#a", "#b"}
TwoNumbers == {4, 5}
StoredWhole == [u \in TwoUsers |-> u]
BothRegistered == "alice" :> "#a" @@ "bob" :> "#b"
BobRegistered  == "alice" :> NULL @@ "bob" :> "#b"

AllConsoles == [c \in Clients |-> "tcp"]
OneBrowser  == [c \in Clients |-> IF c = c2 THEN "ws" ELSE "tcp"]

Say(op, l, p) == [op |-> op, login |-> l, password |-> p]
Register(l, p) == Say("REGISTER", l, p)
Login(l, p) == Say("LOGIN", l, p)
Msg(l)      == Say("MSG", l, NULL)
Check(l)    == Say("CHECK_USER", l, NULL)
Bye         == Say("LOGOUT", NULL, NULL)
ShowHistory == Say("HISTORY", NULL, NULL)
Bad         == Say("BAD", NULL, NULL)

(* Every change once: alice registers (or asks for herself), logs in,       *)
(* unless somebody else took her login with another password, and writes;   *)
(* bob logs in, and writes or logs out.                                     *)
Everything ==
    c1 :> << {Register("alice", "#a"), Check("alice")},
             {Login("alice", "#a")}, {Msg("bob")} >> @@
    c2 :> << {Login("bob", "#b"), Register("alice", "#b")},
             {Msg("alice"), Bye} >>

(* Two people log in, one perhaps twice, or he writes to the other, who may *)
(* have asked for her history or sent nonsense instead.                     *)
Relogin ==
    c1 :> << {Login("alice", "#a"), ShowHistory, Bad} >> @@
    c2 :> << {Login("bob", "#b")}, {Login("bob", "#b"), Msg("alice")} >>

(* Two people log in, once, and write to each other; a third one only asks. *)
Conversation ==
    c1 :> << {Login("alice", "#a")}, {Msg("bob")} >> @@
    c2 :> << {Login("bob", "#b")}, {Msg("alice")} >> @@
    c3 :> << {Check("bob")} >>
================================================================================
