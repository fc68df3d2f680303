--------------------------------- MODULE Clients ---------------------------------
(***************************************************************************)
(* The programs a user may have in front of him: the console client or the *)
(* web page.  They share nothing, so it is one or the other from the start *)
(* on.                                                                     *)
(***************************************************************************)
EXTENDS ConsoleClient, WebClient

VARIABLE program \* "console" or "page"

vars == <<console, web, program>>

Init == program \in {"console", "page"} /\ InitConsole /\ InitWeb

Console(A) == program = "console" /\ ~Ended /\ A /\ UNCHANGED <<web, program>>
Page(A)    == program = "page" /\ A /\ UNCHANGED <<console, program>>

Next == Console(ConsoleStep) \/ Page(WebNext)

(* ConsoleFairness and WebFairness, for the program there is. *)
Fairness ==
    /\ WF_vars(Console(Sender)) /\ WF_vars(Console(Receiver)) /\ WF_vars(Console(Main))
    /\ \A s \in Slots : WF_vars(Page(Event(s)))
    /\ \A v \in Visits : WF_vars(Page(Reconnect(v)))

Spec == Init /\ [][Next]_vars /\ Fairness
--------------------------------------------------------------------------------
(* Every variable has its type. *)
ClientsTypeOK == ConsoleTypeOK /\ WebTypeOK
================================================================================
