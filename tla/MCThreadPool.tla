----------------------------- MODULE MCThreadPool -----------------------------
(* ThreadPool for TLC: a few workers and clients. *)
EXTENDS ThreadPool

CONSTANTS w1, w2, w3, c1, c2, c3

ThreeWorkers == {w1, w2, w3}
TwoWorkers   == {w1, w2}
ThreeClients == {c1, c2, c3}

(* SIGINT hits main() wherever it does not own the queue mutex ...           *)
OutsideCriticalSection == {"accept", "add_lock"}
(* ... or anywhere at all.                                                   *)
Anywhere == MainPoints
================================================================================
