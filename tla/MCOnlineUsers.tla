----------------------------- MODULE MCOnlineUsers -----------------------------
(* OnlineCalls for TLC: two threads, three slots, two accounts, two sockets. *)
EXTENDS OnlineCalls, TLC

TwoAccounts == {<<1, "alice">>, <<2, "bob">>}
TwoSockets  == {4, 5}

(* Logins of at most 63 bytes are stored whole. *)
ShortLogins == "alice" :> "alice" @@ "bob" :> "bob"
================================================================================
