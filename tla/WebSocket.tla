------------------------------- MODULE WebSocket --------------------------------
(***************************************************************************)
(* Framing and handshake of browsers (server/src/websocket.c) over a       *)
(* stream of bytes.  ws_recv reads a frame with four calls of recv and     *)
(* looks at the result of the first only; recv returns what has arrived,   *)
(* at most what was asked for, and waits only while there is nothing.      *)
(*                                                                         *)
(* A byte is known by what it was sent as, and payload bytes by the byte   *)
(* of the key that masks them.  Where a byte is missing, or is not what it *)
(* is taken for, the connection is adrift: of the rest of this frame any   *)
(* number of bytes is read, and they are taken for any text.               *)
(* Browsers mask every frame (RFC 6455) and send no fragments; malloc      *)
(* succeeds.                                                               *)
(***************************************************************************)
EXTENDS Naturals, Sequences, SequencesExt

CONSTANTS BYTE,    \* 256: the values of a byte of a length
          MAX7,    \* 125: the longest payload without extended length
          BufSize, \* BUFFER_SIZE - 1, the size that handle_client passes
          JUNK     \* a character that nobody has sent

VARIABLES inbox,  \* the bytes that have arrived and were not read
          step,   \* where each worker is in reading from its client
          len, key \* locals of ws_recv

receiver == <<inbox, step, len, key>>

TWO   == MAX7 + 1 \* 126: two bytes of length follow
EIGHT == MAX7 + 2 \* 127: eight bytes follow
ExtSize(c) == IF c = TWO THEN 2 ELSE IF c = EIGHT THEN 8 ELSE 0

(* The length of a frame as ws_send writes it, and as ws_recv reads it.     *)
Place[k \in 0..8] == IF k = 0 THEN 1 ELSE BYTE * Place[k - 1]
SwappedDigits(n, size) == Reverse([i \in 1..size |-> (n \div Place[size - i]) % BYTE])
Digits(n, size) == [i \in 1..size |-> (n \div Place[size - i]) % BYTE]
WithByte(n, byte) == n * BYTE + byte
LengthField(n) ==
    IF n <= MAX7 THEN [code |-> n, ext |-> <<>>]
    ELSE IF n < BYTE * BYTE THEN [code |-> TWO, ext |-> Digits(n, 2)]
    ELSE [code |-> EIGHT, ext |-> Digits(n, 8)]
ReadLength(c, ext) ==
    IF c \in {TWO, EIGHT} THEN FoldLeft(WithByte, 0, ext) ELSE c

(* A frame as a browser sends it (RFC 6455). *)
As(kind, value) == [as |-> kind, v |-> value]
Frame(op, text) ==
    LET n == Len(text)
        c == IF n <= MAX7 THEN n ELSE IF n < BYTE * BYTE THEN TWO ELSE EIGHT
    IN  <<As("op", op), As("len", c)>>
        \o [i \in 1..ExtSize(c) |-> As("ext", (n \div Place[ExtSize(c) - i]) % BYTE)]
        \o [i \in 1..4 |-> As("key", i)]
        \o [i \in 1..n |-> As("data", <<text[i], ((i - 1) % 4) + 1>>)]
--------------------------------------------------------------------------------
(* recv of n bytes. *)
Arrived(w, n) == SubSeq(inbox[w], 1, Min({n, Len(inbox[w])}))
Recv(w, n)    == inbox' = [inbox EXCEPT ![w] = SubSeq(@, Min({n, Len(@)}) + 1, Len(@))]
At(w, point) == step' = [step EXCEPT ![w] = point]
Are(bytes, kinds) == [i \in DOMAIN bytes |-> bytes[i].as] = kinds

(* The first two bytes: opcode and length.  A close frame and a ping both   *)
(* end the command loop.                                                    *)
ReadHeader(w) ==
    LET got == Arrived(w, 2)
    IN  /\ step[w] = "header" /\ got # <<>>
        /\ Recv(w, 2)
        /\ \/ /\ ~Are(got, <<"op", "len">>)
              /\ At(w, "adrift")
              /\ UNCHANGED len
           \/ /\ Are(got, <<"op", "len">>) /\ got[1].v \in {"close", "ping"}
              /\ At(w, "closed")
              /\ UNCHANGED len
           \/ /\ Are(got, <<"op", "len">>) /\ got[1].v \notin {"close", "ping"}
              /\ len' = [len EXCEPT ![w] = got[2].v]
              /\ At(w, IF ExtSize(got[2].v) = 0 THEN "mask" ELSE "ext")
        /\ UNCHANGED key

ReadExt(w) ==
    LET size == ExtSize(len[w])
        got == Arrived(w, size)
    IN  /\ step[w] = "ext" /\ got # <<>>
        /\ Recv(w, size)
        /\ \/ /\ Are(got, [i \in 1..size |-> "ext"])
              /\ len' = [len EXCEPT ![w] =
                            ReadLength(@, [i \in 1..size |-> got[i].v])]
              /\ At(w, "mask")
           \/ /\ ~Are(got, [i \in 1..size |-> "ext"])
              /\ At(w, "adrift")
              /\ UNCHANGED len
        /\ UNCHANGED key

ThreeOfKey == 3
KeySize == 4
ReadMask(w) ==
    LET got == Arrived(w, KeySize)
    IN  /\ step[w] = "mask" /\ got # <<>>
        /\ Recv(w, KeySize)
        /\ key' = [key EXCEPT ![w] = [i \in DOMAIN got |-> got[i].v]]
        /\ At(w, IF \A i \in DOMAIN got : got[i].as = "key" THEN "payload" ELSE "adrift")
        /\ UNCHANGED len

(* The payload, cut to the buffer and unmasked; an empty one ends the       *)
(* command loop.                                                            *)
Payload(w) == IF len[w] >= BufSize THEN BufSize - 1 ELSE len[w]
Unmask(w, byte, i) ==
    IF byte.as = "data" /\ ((i - 1) % 4) + 1 \in DOMAIN key[w]
                        /\ byte.v[2] = key[w][((i - 1) % 4) + 1] THEN byte.v[1] ELSE JUNK
TextOf(w) ==
    LET got == Arrived(w, Payload(w))
    IN  [i \in 1..Payload(w) |-> IF i \in DOMAIN got THEN Unmask(w, got[i], i) ELSE JUNK]
ReadText(w) ==
    /\ step[w] = "payload" /\ Payload(w) > 0 /\ inbox[w] # <<>>
    /\ Recv(w, Payload(w)) /\ At(w, "parse")
    /\ len' = [len EXCEPT ![w] = 0] /\ key' = [key EXCEPT ![w] = <<>>]
ReadNothing(w) ==
    /\ step[w] = "payload" /\ Payload(w) = 0
    /\ At(w, "closed")
    /\ UNCHANGED <<inbox, len, key>>

ReadAdrift(w) ==
    /\ step[w] = "adrift" /\ inbox[w] # <<>>
    /\ \E n \in DOMAIN inbox[w] : Recv(w, n)
    /\ At(w, "parse")
    /\ len' = [len EXCEPT ![w] = 0] /\ key' = [key EXCEPT ![w] = <<>>]
EndAdrift(w) ==
    /\ step[w] = "adrift"
    /\ At(w, "closed")
    /\ UNCHANGED <<inbox, len, key>>
--------------------------------------------------------------------------------
(* base64_encode of the digest, for Sec-WebSocket-Accept: the position of   *)
(* each character in its table, PAD for '='.                                *)
PAD == 64
PadsTooMuch(input, i) ==
    LET Byte(k) == IF i + k <= Len(input) THEN input[i + k] ELSE 0
        val == Byte(1) * 65536 + Byte(2) * 256 + Byte(3)
    IN  <<(val \div 262144) % 64, (val \div 4096) % 64,
          IF i + 2 < Len(input) THEN (val \div 64) % 64 ELSE PAD,
          IF i + 3 <= Len(input) THEN val % 64 ELSE PAD>>
Group(input, i) ==
    LET Byte(k) == IF i + k <= Len(input) THEN input[i + k] ELSE 0
        val == Byte(1) * 65536 + Byte(2) * 256 + Byte(3)
    IN  <<(val \div 262144) % 64, (val \div 4096) % 64,
          IF i + 2 <= Len(input) THEN (val \div 64) % 64 ELSE PAD,
          IF i + 3 <= Len(input) THEN val % 64 ELSE PAD>>
base64_encode(input) ==
    [j \in 1..4 * ((Len(input) + 2) \div 3) |->
        Group(input, 3 * ((j - 1) \div 4))[((j - 1) % 4) + 1]]

(* RFC 4648: the bits, the high one of a byte first, in groups of six,      *)
(* filled up with zeros, and PADs up to a multiple of four.                 *)
Weight == <<128, 64, 32, 16, 8, 4, 2, 1>>
Bit(input, k) ==
    IF k < 8 * Len(input) THEN (input[k \div 8 + 1] \div Weight[(k % 8) + 1]) % 2 ELSE 0
Sextet(input, k) ==
    32 * Bit(input, k) + 16 * Bit(input, k + 1) + 8 * Bit(input, k + 2)
    + 4 * Bit(input, k + 3) + 2 * Bit(input, k + 4) + Bit(input, k + 5)
Rfc4648(input) ==
    [j \in 1..4 * ((Len(input) + 2) \div 3) |->
        IF 6 * (j - 1) >= 8 * Len(input) THEN PAD ELSE Sextet(input, 6 * (j - 1))]
================================================================================
