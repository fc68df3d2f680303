--------------------------------- MODULE MCWire ---------------------------------
(* A browser and a console that talk at the same time; one message of each  *)
(* may arrive in parts.  The sizes are scaled: a byte of a length has 2     *)
(* values, a payload of 1 byte needs no extended length, one of 4 needs the *)
(* form of 8 bytes, and of the arguments one of 2 characters is kept.       *)
EXTENDS Wire

CONSTANTS browser, console, M, X

Write(string) == [op |-> "text", text |-> string]
Close == [op |-> "close", text |-> <<>>]

Dialog ==
    browser :> << {Write(<<M, BAR, X, X>>), Write(<<X, X>>)}, {Close, Write(<<>>)} >> @@
    console :> << {Write(<<BAR, M, BAR, BAR, X>>), Write(<<SP, M, SP, X, SP>>)},
                  {Write(<<X>>)} >>

Two == {browser, console}
OneBrowser == {browser}
Known == {<<M>>}
================================================================================
