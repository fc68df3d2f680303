-------------------------------- MODULE Protocol --------------------------------
(***************************************************************************)
(* protocol_parse (server/src/protocol.c), as the workers call it side by  *)
(* side.  strtok keeps its position in one static variable of the C        *)
(* library: only the first call of a parse names the worker's own buffer,  *)
(* the later ones go on wherever the last call of any worker has stopped.  *)
(* A call reads the position and writes it at its end, so it is two steps. *)
(*                                                                         *)
(* A line is a sequence of characters, BAR being the delimiter.  The copy  *)
(* into the local buffer cuts nothing, since both have BUFFER_SIZE bytes.  *)
(* The NUL that strtok writes behind a token is left out: positions only   *)
(* go forwards in the buffer of a worker that parses alone.                *)
(***************************************************************************)
EXTENDS Naturals, Sequences, SequencesExt

CONSTANTS Workers, BAR,
          Commands,  \* the words that parse_command knows
          MAX_ARGS,  \* how many arguments are kept, 4
          ArgSize,   \* how many characters of each, 1023
          STALE      \* what is found in a buffer that nobody uses any more

ASSUME ParserAssumption ==
    /\ Workers # {} /\ MAX_ARGS \in Nat /\ ArgSize \in Nat \ {0}
    /\ \A word \in Commands : word \in Seq(ToSet(word)) \ {<<>>}

VARIABLES save,   \* strtok's position: <<worker, index in its buffer>>
          from,   \* the position that a call has read
          buffer, \* the line of each worker
          msg,    \* what it has made of it so far
          parse,  \* where it is in protocol_parse
          alone   \* history: nobody else has called strtok meanwhile

parser == <<save, from, buffer, msg, parse, alone>>

Unknown == [cmd |-> <<>>, args |-> <<>>]

InitParser ==
    /\ \E w \in Workers : save = <<w, 1>>
    /\ from = [w \in Workers |-> <<w, 1>>]
    /\ buffer = [w \in Workers |-> <<>>]
    /\ msg = [w \in Workers |-> Unknown]
    /\ parse = [w \in Workers |-> "idle"]
    /\ alone = [w \in Workers |-> TRUE]

(* strtok from index i of line b: the token, empty if there is none, and    *)
(* the index at which the next call goes on.                                *)
SkipBars(b, i) == Min({j \in i..Len(b) : b[j] # BAR} \cup {Len(b) + 1})
TokenEnd(b, i) == Min({j \in SkipBars(b, i)..Len(b) : b[j] = BAR} \cup {Len(b) + 1})
TokenWithBar(b, i) == SubSeq(b, SkipBars(b, i), Min({TokenEnd(b, i), Len(b)}))
Token(b, i)    == SubSeq(b, SkipBars(b, i), TokenEnd(b, i) - 1)
After(b, i)    == Min({TokenEnd(b, i) + 1, Len(b) + 1})

Kept(token) == SubSeq(token, 1, Min({Len(token), ArgSize}))
Proceed(w, point) == parse' = [parse EXCEPT ![w] = point]
SetSave(w, position) ==
    /\ save' = position
    /\ alone' = [v \in Workers |-> IF v = w THEN alone[w] ELSE parse[v] = "idle"]

BeginParse(w, line) ==
    /\ buffer' = [buffer EXCEPT ![w] = line]
    /\ msg' = [msg EXCEPT ![w] = Unknown]
    /\ alone' = [alone EXCEPT ![w] = TRUE]
    /\ Proceed(w, "first")
    /\ UNCHANGED <<save, from>>

(* strtok(buffer, "|"), and parse_command of the token. *)
FirstToken(w) ==
    LET token == Token(buffer[w], 1)
    IN  /\ parse[w] = "first"
        /\ SetSave(w, <<w, After(buffer[w], 1)>>)
        /\ \/ /\ token \in Commands
              /\ msg' = [msg EXCEPT ![w].cmd = token]
              /\ Proceed(w, "more")
           \/ /\ token \notin Commands
              /\ Proceed(w, "done")
              /\ UNCHANGED msg
        /\ UNCHANGED <<from, buffer>>

RoomForOneMore(w) == Len(msg[w].args) <= MAX_ARGS
HasRoom(w) == Len(msg[w].args) < MAX_ARGS

(* strtok(NULL, "|"): the position is read ... *)
ReadSave(w) ==
    /\ parse[w] = "more"
    /\ from' = [from EXCEPT ![w] = save]
    /\ Proceed(w, "scan")
    /\ UNCHANGED <<save, buffer, msg, alone>>

(* ... and moved behind the token, even if there is no room for it.  In the *)
(* buffer of somebody who has left protocol_parse anything may be found.    *)
NextToken(w) ==
    LET v == from[w][1]
        i == from[w][2]
    IN  /\ parse[w] = "scan"
        /\ \E token \in IF v = w \/ parse[v] # "idle" THEN {Token(buffer[v], i)}
                        ELSE {<<>>, <<STALE>>} :
              \/ /\ token # <<>> /\ HasRoom(w)
                 /\ msg' = [msg EXCEPT ![w].args = Append(@, Kept(token))]
                 /\ Proceed(w, "more")
              \/ /\ token = <<>> \/ ~HasRoom(w)
                 /\ Proceed(w, "done")
                 /\ UNCHANGED msg
        /\ SetSave(w, <<v, After(buffer[v], i)>>)
        /\ UNCHANGED <<from, buffer>>

(* protocol_parse has returned, and its locals are gone. *)
EndParse(w) ==
    /\ parse[w] = "done"
    /\ Proceed(w, "idle")
    /\ buffer' = [buffer EXCEPT ![w] = <<>>]
    /\ from' = [from EXCEPT ![w] = <<w, 1>>]
    /\ msg' = [msg EXCEPT ![w] = Unknown]
    /\ alone' = [alone EXCEPT ![w] = TRUE]
    /\ UNCHANGED save

Parsing(w) == FirstToken(w) \/ ReadSave(w) \/ NextToken(w)
--------------------------------------------------------------------------------
(* What a line says, whoever reads it: its fields are the stretches without *)
(* a BAR that cannot be extended, in their order.                           *)
Stretches(line) ==
    {p \in (1..Len(line)) \X (1..Len(line)) :
        /\ p[1] <= p[2] /\ \A i \in p[1]..p[2] : line[i] # BAR
        /\ p[1] = 1 \/ line[p[1] - 1] = BAR
        /\ p[2] = Len(line) \/ line[p[2] + 1] = BAR}
InOrder(q) == \A i, j \in DOMAIN q : i < j => q[i][1] < q[j][1]
Fields(line) ==
    LET S == Stretches(line)
        sorted == CHOOSE q \in [1..Cardinality(S) -> S] : InOrder(q)
    IN  [i \in DOMAIN sorted |-> SubSeq(line, sorted[i][1], sorted[i][2])]
Meaning(fields) ==
    IF fields # <<>> /\ fields[1] \in Commands
    THEN [cmd |-> fields[1], args |-> Tail(fields)] ELSE Unknown

(* Fields that parsed_message_t has room for. *)
Modest(fields) ==
    /\ Len(fields) <= MAX_ARGS + 1
    /\ \A i \in DOMAIN fields : i > 1 => Len(fields[i]) <= ArgSize
================================================================================
