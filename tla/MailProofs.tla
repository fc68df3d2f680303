------------------------------- MODULE MailProofs -------------------------------
(* Proofs about Mail, for any clients.                                      *)
EXTENDS Mail, TLAPS

Stages  == {"away", "free", "owed", "after", "left"}
Texts   == Clients \X Nat
Packets == {<<"greeting">>, <<"answer">>} \cup ({"sent"} \X Nat) \cup ({"message"} \X Texts)
TypeInv ==
    /\ asked \in [Clients -> Nat]
    /\ stage \in [Clients -> Stages]
    /\ kept \in Seq(Texts)
    /\ told \in [Clients -> Seq(Packets)]

(* What is stored is named by commands given, and by different ones.        *)
KeptInv ==
    /\ \A n \in DOMAIN kept : kept[n][2] <= asked[kept[n][1]]
    /\ \A m, n \in DOMAIN kept : kept[m] = kept[n] => m = n

(* It is acknowledged, or about to be, and what is acknowledged is stored.  *)
Due(c, n) == stage[c] = "owed" /\ kept[n] = Text(c)
AckInv ==
    /\ \A n \in DOMAIN kept : Hears(kept[n][1], <<"sent", n>>) \/ Due(kept[n][1], n)
    /\ \A c \in Clients, n \in Nat : Hears(c, <<"sent", n>>) =>
          n \in DOMAIN kept /\ kept[n][1] = c /\ ~Due(c, n)
    /\ \A c \in Clients : stage[c] = "after" =>
          \E n \in DOMAIN kept : kept[n] = Text(c) /\ Hears(c, <<"sent", n>>)

(* What is shown has been acknowledged, and none is shown before its turn.  *)
ShownInv ==
    /\ \A d \in Clients, t \in Texts : Hears(d, <<"message", t>>) =>
          \E n \in DOMAIN kept : kept[n] = t /\ Hears(t[1], <<"sent", n>>)
    /\ \A c, d \in Clients : stage[c] \in {"owed", "after"} => ~Hears(d, <<"message", Text(c)>>)

Once ==
    \A c, d \in Clients : \A i \in DOMAIN told[c], j \in DOMAIN told[d] :
        told[c][i][1] \in {"sent", "message"} /\ told[c][i] = told[d][j] => c = d /\ i = j

MailInv == KeptInv /\ AckInv /\ ShownInv /\ Once

(* A packet that is told is heard, by that client and nobody else.          *)
Heard(c, what) == \A d \in Clients : \A p : Hears(d, p)' <=> Hears(d, p) \/ (d = c /\ p = what)
LEMMA Telling ==
  ASSUME TypeInv, NEW c \in Clients, NEW what \in Packets, Tell(c, what)
  PROVE  /\ told' \in [Clients -> Seq(Packets)] /\ Heard(c, what)
         /\ (what[1] \in {"sent", "message"} => \A d \in Clients : ~Hears(d, what)) /\ Once
                => Once'
<1>1. PICK n : n = Len(told[c])
  OBVIOUS
<1>2. /\ n \in Nat /\ DOMAIN told[c] = 1..n /\ DOMAIN told'[c] = 1..(n + 1)
      /\ told'[c][n + 1] = what /\ (\A i \in 1..n : told'[c][i] = told[c][i])
      /\ told'[c] \in Seq(Packets)
  <2>1. told[c] \in Seq(Packets)
    BY DEF TypeInv
  <2>2. told'[c] = Append(told[c], what)
    BY DEF TypeInv, Tell
  <2>3. PICK s, P : s = told[c] /\ P = Packets
    OBVIOUS
  <2>4. s \in Seq(P) /\ what \in P
    BY <2>1, <2>3
  <2>5. /\ Len(s) \in Nat /\ DOMAIN s = 1..Len(s) /\ DOMAIN Append(s, what) = 1..(Len(s) + 1)
        /\ Append(s, what)[Len(s) + 1] = what
        /\ \A i \in 1..Len(s) : Append(s, what)[i] = s[i]
        /\ Append(s, what) \in Seq(P)
    BY <2>4
  <2>6. QED
    BY <1>1, <2>2, <2>3, <2>5
<1>3. \A d \in Clients \ {c} : told'[d] = told[d]
  BY DEF TypeInv, Tell
<1>4. told' \in [Clients -> Seq(Packets)]
  <2>1. told' = [d \in Clients |-> told'[d]]
    BY DEF TypeInv, Tell
  <2>2. \A d \in Clients : told'[d] \in Seq(Packets)
    BY <1>2, <1>3 DEF TypeInv
  <2>3. QED
    BY <2>1, <2>2, Zenon
<1>5. \A i \in 1..(n + 1) : i \in 1..n \/ i = n + 1
  BY <1>2
<1>6. (\A i \in 1..n : i \in 1..(n + 1)) /\ n + 1 \in 1..(n + 1)
  BY <1>2
<1>7. Heard(c, what)
  <2> SUFFICES ASSUME NEW d \in Clients, NEW p
               PROVE  Hears(d, p)' <=> Hears(d, p) \/ (d = c /\ p = what)
    BY DEF Heard
  <2>1. CASE d = c
    <3>1. Hears(c, p) <=> \E i \in 1..n : told[c][i] = p
      BY <1>2 DEF Hears
    <3>2. Hears(c, p)' <=> \E i \in 1..(n + 1) : told'[c][i] = p
      BY <1>2 DEF Hears
    <3>3. QED
      BY <1>2, <1>5, <1>6, <2>1, <3>1, <3>2
  <2>2. CASE d # c
    BY <1>3, <2>2 DEF Hears
  <2>3. QED
    BY <2>1, <2>2
<1>8. ASSUME what[1] \in {"sent", "message"} => \A d \in Clients : ~Hears(d, what), Once
      PROVE  Once'
  <2>1. ASSUME NEW d \in Clients, NEW i \in DOMAIN told'[d]
        PROVE  \/ i \in DOMAIN told[d] /\ told'[d][i] = told[d][i]
               \/ d = c /\ i = n + 1 /\ told'[d][i] = what
    BY <1>2, <1>3, <1>5
  <2>2. ASSUME NEW d \in Clients, NEW i \in DOMAIN told[d], what[1] \in {"sent", "message"}
        PROVE  told[d][i] # what
    BY <1>8, <2>2 DEF Hears
  <2>3. ASSUME NEW d \in Clients, NEW e \in Clients,
               NEW i \in DOMAIN told'[d], NEW j \in DOMAIN told'[e],
               told'[d][i][1] \in {"sent", "message"}, told'[d][i] = told'[e][j]
        PROVE  d = e /\ i = j
    <3>1. CASE i \in DOMAIN told[d] /\ told'[d][i] = told[d][i]
      <4>1. CASE j \in DOMAIN told[e] /\ told'[e][j] = told[e][j]
        <5>1. told[d][i] = told[e][j] /\ told[d][i][1] \in {"sent", "message"}
          BY <2>3, <3>1, <4>1
        <5>2. d \in Clients /\ e \in Clients /\ i \in DOMAIN told[d] /\ j \in DOMAIN told[e]
          BY <2>3, <3>1, <4>1
        <5>3. QED
          BY <1>8, <5>1, <5>2, Zenon DEF Once
      <4>2. CASE told'[e][j] = what
        BY <2>2, <2>3, <3>1, <4>2
      <4>3. QED
        BY <2>1, <4>1, <4>2
    <3>2. CASE d = c /\ i = n + 1 /\ told'[d][i] = what
      <4>1. CASE j \in DOMAIN told[e] /\ told'[e][j] = told[e][j]
        BY <2>2, <2>3, <3>2, <4>1
      <4>2. CASE e = c /\ j = n + 1
        BY <3>2, <4>2
      <4>3. QED
        BY <2>1, <4>1, <4>2
    <3>3. QED
      BY <2>1, <3>1, <3>2
  <2>4. QED
    BY <2>3 DEF Once
<1>9. QED
  BY <1>4, <1>7, <1>8

(* Nothing is told: everything stays as it was heard.                       *)
LEMMA Silence ==
  ASSUME told' = told
  PROVE  (\A c, p : Hears(c, p)' <=> Hears(c, p)) /\ (Once => Once')
  BY DEF Hears, Once

LEMMA InitMail == Init => TypeInv /\ MailInv
<1> SUFFICES ASSUME Init PROVE TypeInv /\ MailInv
  OBVIOUS
<1> USE DEF Init
<1>1. TypeInv
  BY DEF TypeInv, Stages
<1>2. KeptInv
  BY DEF KeptInv
<1>3. \A c \in Clients : \A p : ~Hears(c, p)
  BY DEF Hears
<1>4. AckInv /\ ShownInv
  <2>1. DOMAIN kept = {}
    OBVIOUS
  <2>2. \A c \in Clients : stage[c] = "away"
    OBVIOUS
  <2>3. QED
    BY <1>3, <2>1, <2>2 DEF AckInv, ShownInv
<1>5. Once
  BY DEF Once
<1>6. QED
  BY <1>1, <1>2, <1>4, <1>5 DEF MailInv

(* A step in which a client goes on and nothing is asked or stored may tell *)
(* him a greeting or an answer, or show his message to somebody; it ends no *)
(* command whose message is stored and not acknowledged.                    *)
LEMMA PassingKeeps ==
  ASSUME TypeInv, MailInv, NEW c \in Clients, NEW a \in Stages, NEW b \in Stages,
         Passes(c, a, b), UNCHANGED <<asked, kept>>, b \notin {"owed", "after"},
         a = "owed" => \A n \in DOMAIN kept : kept[n] # Text(c),
         \/ told' = told
         \/ \E word \in {"greeting", "answer"} : Tell(c, <<word>>)
         \/ a = "after" /\ \E d \in Clients : Tell(d, <<"message", Text(c)>>)
  PROVE  TypeInv' /\ MailInv'
<1> USE DEF MailInv
<1>1. /\ stage[c] = a /\ stage'[c] = b /\ stage' \in [Clients -> Stages]
      /\ \A d \in Clients \ {c} : stage'[d] = stage[d]
  BY DEF Passes, TypeInv
<1>2. \A d \in Clients : Text(d)' = Text(d) /\ Text(d) \in Texts /\ Text(d)[1] = d
  BY DEF Text, TypeInv, Texts
<1>3. \A d \in Clients : stage'[d] \in {"owed", "after"} => stage[d] = stage'[d] /\ d # c
  BY <1>1
<1>4. /\ told' \in [Clients -> Seq(Packets)] /\ Once'
      /\ \A d \in Clients : \A n : Hears(d, <<"sent", n>>)' <=> Hears(d, <<"sent", n>>)
      /\ \A d \in Clients : \A t : Hears(d, <<"message", t>>)' =>
            Hears(d, <<"message", t>>) \/ (a = "after" /\ t = Text(c))
  <2>1. CASE told' = told
    BY <2>1, Silence DEF TypeInv
  <2>2. CASE \E word \in {"greeting", "answer"} : Tell(c, <<word>>)
    <3>1. PICK word \in {"greeting", "answer"} : Tell(c, <<word>>)
      BY <2>2
    <3>2. PICK p : p = <<word>>
      OBVIOUS
    <3>3. p \in Packets /\ p[1] \in {"greeting", "answer"} /\ \A k, x : p # <<k, x>>
      BY <3>1, <3>2 DEF Packets
    <3>4. told' \in [Clients -> Seq(Packets)] /\ Heard(c, p) /\ Once'
      BY <3>1, <3>2, <3>3, Telling
    <3>5. QED
      BY <3>3, <3>4 DEF Heard
  <2>3. CASE a = "after" /\ \E d \in Clients : Tell(d, <<"message", Text(c)>>)
    <3>1. PICK d \in Clients : Tell(d, <<"message", Text(c)>>)
      BY <2>3
    <3>2. PICK p : p = <<"message", Text(c)>>
      OBVIOUS
    <3>3. p \in Packets /\ p[1] = "message"
      BY <1>2, <3>2 DEF Packets
    <3>4. \A e \in Clients : ~Hears(e, p)
      BY <1>1, <2>3, <3>2 DEF ShownInv
    <3>5. told' \in [Clients -> Seq(Packets)] /\ Heard(d, p) /\ Once'
      BY <3>1, <3>2, <3>3, <3>4, Telling
    <3>6. QED
      BY <2>3, <3>2, <3>5 DEF Heard
  <2>4. QED
    BY <2>1, <2>2, <2>3
<1>5. TypeInv'
  BY <1>1, <1>4 DEF TypeInv
<1>6. KeptInv'
  BY DEF KeptInv
<1>7. \A d \in Clients : \A n \in DOMAIN kept : Due(d, n)' <=> Due(d, n)
  BY <1>1, <1>2, <1>3 DEF Due
<1>8. AckInv'
  <2>1. \A n \in DOMAIN kept : kept[n][1] \in Clients
    BY DEF TypeInv, Texts
  <2>2. \A n \in DOMAIN kept : (Hears(kept[n][1], <<"sent", n>>) \/ Due(kept[n][1], n))'
    <3>1. ASSUME NEW n \in DOMAIN kept, NEW d, d = kept[n][1]
          PROVE  Hears(d, <<"sent", n>>)' \/ Due(d, n)'
      <4>1. d \in Clients
        BY <2>1, <3>1
      <4>2. Hears(d, <<"sent", n>>) \/ Due(d, n)
        BY <3>1 DEF AckInv
      <4>3. QED
        BY <1>4, <1>7, <4>1, <4>2, Zenon
    <3>2. QED
      BY <3>1 DEF Hears, Due, Text
  <2>3. ASSUME NEW d \in Clients, NEW n \in Nat, Hears(d, <<"sent", n>>)'
        PROVE  n \in DOMAIN kept /\ kept[n][1] = d /\ ~Due(d, n)'
    <3>1. Hears(d, <<"sent", n>>)
      BY <1>4, <2>3, Zenon
    <3>2. QED
      BY <1>7, <3>1 DEF AckInv
  <2>4. ASSUME NEW d \in Clients, stage'[d] = "after"
        PROVE  \E n \in DOMAIN kept : kept[n] = Text(d)' /\ Hears(d, <<"sent", n>>)'
    <3>1. PICK n \in DOMAIN kept : kept[n] = Text(d) /\ Hears(d, <<"sent", n>>)
      BY <1>3, <2>4 DEF AckInv
    <3>2. Hears(d, <<"sent", n>>)'
      BY <1>4, <3>1, Zenon
    <3>3. QED
      BY <1>2, <3>1, <3>2
  <2>5. QED
    BY <2>2, <2>3, <2>4 DEF AckInv
<1>9. ShownInv'
  <2>1. ASSUME NEW d \in Clients, NEW t \in Texts, Hears(d, <<"message", t>>)'
        PROVE  \E n \in DOMAIN kept : kept[n] = t /\ Hears(t[1], <<"sent", n>>)
    <3>1. CASE Hears(d, <<"message", t>>)
      BY <3>1 DEF ShownInv
    <3>2. CASE a = "after" /\ t = Text(c)
      BY <1>1, <1>2, <3>2 DEF AckInv
    <3>3. Hears(d, <<"message", t>>)' => Hears(d, <<"message", t>>) \/ (a = "after" /\ t = Text(c))
      BY <1>4
    <3>5. Hears(d, <<"message", t>>)'
      BY <2>1
    <3>6. Hears(d, <<"message", t>>) \/ (a = "after" /\ t = Text(c))
      BY <3>3, <3>5
    <3>4. QED
      BY <3>1, <3>2, <3>6
  <2>2. \A t \in Texts : t[1] \in Clients
    BY DEF Texts
  <2>3. ASSUME NEW d \in Clients, NEW e \in Clients, stage'[d] \in {"owed", "after"}
        PROVE  ~Hears(e, <<"message", Text(d)>>)'
    <3>1. d # c /\ stage[d] \in {"owed", "after"}
      BY <1>3, <2>3
    <3>2. ~Hears(e, <<"message", Text(d)>>) /\ Text(d) # Text(c)
      BY <1>2, <3>1 DEF ShownInv
    <3>3. PICK t : t = Text(d)
      OBVIOUS
    <3>4. ~Hears(e, <<"message", t>>)'
      BY <1>4, <3>2, <3>3
    <3>5. QED
      BY <1>2, <3>3, <3>4 DEF Hears
  <2>4. QED
    BY <1>2, <1>4, <2>1, <2>2, <2>3 DEF ShownInv
<1>10. QED
  BY <1>4, <1>5, <1>6, <1>8, <1>9

LEMMA AskKeeps ==
  ASSUME TypeInv, MailInv, NEW c \in Clients, Ask(c)
  PROVE  TypeInv' /\ MailInv'
<1> USE DEF MailInv
<1>1. /\ stage[c] = "free" /\ stage'[c] = "owed" /\ stage' \in [Clients -> Stages]
      /\ asked[c] \in Nat /\ asked'[c] = asked[c] + 1 /\ asked' \in [Clients -> Nat]
      /\ \A d \in Clients \ {c} : stage'[d] = stage[d] /\ asked'[d] = asked[d]
      /\ kept' = kept /\ told' = told
  BY DEF Ask, Passes, TypeInv, Stages
<1>2. TypeInv'
  BY <1>1 DEF TypeInv
<1>3. \A n \in DOMAIN kept : kept[n] \in Texts /\ kept[n][1] \in Clients /\ kept[n][2] \in Nat
  BY DEF TypeInv, Texts
<1>4. \A d \in Clients : \A what : Hears(d, what)' <=> Hears(d, what)
  BY <1>1, Silence
<1>5. KeptInv'
  <2>1. ASSUME NEW n \in DOMAIN kept
        PROVE  kept[n][2] <= asked'[kept[n][1]]
    <3>1. kept[n][2] <= asked[kept[n][1]]
      BY DEF KeptInv
    <3>2. asked[kept[n][1]] \in Nat
      BY <1>3 DEF TypeInv
    <3>3. asked'[kept[n][1]] \in {asked[kept[n][1]], asked[kept[n][1]] + 1}
      BY <1>1, <1>3
    <3>4. QED
      BY <1>3, <3>1, <3>2, <3>3
  <2>2. QED
    BY <1>1, <2>1 DEF KeptInv
<1>6. \A d \in Clients \ {c} : Text(d)' = Text(d)
  BY <1>1 DEF Text
<1>7. \A n \in DOMAIN kept : kept[n] # Text(c)'
  <2>1. ASSUME NEW n \in DOMAIN kept, kept[n] = Text(c)'
        PROVE  FALSE
    <3>1. kept[n][1] = c /\ kept[n][2] = asked[c] + 1
      BY <1>1, <2>1 DEF Text
    <3>2. kept[n][2] <= asked[c]
      BY <3>1 DEF KeptInv
    <3>3. QED
      BY <1>1, <3>1, <3>2
  <2>2. QED
    BY <2>1
<1>8. \A d \in Clients : \A n \in DOMAIN kept : Due(d, n)' <=> Due(d, n)
  BY <1>1, <1>6, <1>7 DEF Due
<1>9. AckInv'
  <2>1. \A n \in DOMAIN kept : (Hears(kept[n][1], <<"sent", n>>) \/ Due(kept[n][1], n))'
    <3>1. ASSUME NEW n \in DOMAIN kept, NEW d, d = kept[n][1]
          PROVE  Hears(d, <<"sent", n>>)' \/ Due(d, n)'
      BY <1>3, <1>8, <1>4, <3>1 DEF AckInv
    <3>2. QED
      BY <1>1, <3>1 DEF Hears, Due, Text
  <2>2. ASSUME NEW d \in Clients, NEW n \in Nat, Hears(d, <<"sent", n>>)'
        PROVE  n \in DOMAIN kept /\ kept[n][1] = d /\ ~Due(d, n)'
    BY <1>8, <1>4, <2>2 DEF AckInv
  <2>3. ASSUME NEW d \in Clients, stage'[d] = "after"
        PROVE  \E n \in DOMAIN kept : kept[n] = Text(d)' /\ Hears(d, <<"sent", n>>)'
    BY <1>1, <1>6, <1>4, <2>3 DEF AckInv
  <2>4. QED
    BY <1>1, <2>1, <2>2, <2>3 DEF AckInv
<1>10. ShownInv'
  <2>1. ASSUME NEW d \in Clients, NEW e \in Clients, stage'[d] \in {"owed", "after"}
        PROVE  ~Hears(e, <<"message", Text(d)>>)'
    <3>1. CASE d = c
      <4>1. PICK t : t = Text(c)'
        OBVIOUS
      <4>2. t \in Texts
        BY <1>1, <4>1 DEF Text, Texts
      <4>3. \A n \in DOMAIN kept : kept[n] # t
        BY <1>7, <4>1
      <4>4. ~Hears(e, <<"message", t>>)
        BY <4>2, <4>3 DEF ShownInv
      <4>5. QED
        BY <1>1, <3>1, <4>1, <4>4 DEF Hears
    <3>2. CASE d # c
      <4>1. stage[d] \in {"owed", "after"} /\ Text(d)' = Text(d)
        BY <1>1, <1>6, <2>1, <3>2
      <4>2. ~Hears(e, <<"message", Text(d)>>)
        BY <4>1 DEF ShownInv
      <4>3. QED
        BY <1>1, <4>1, <4>2 DEF Hears
    <3>3. QED
      BY <3>1, <3>2
  <2>2. \A d \in Clients, t \in Texts : Hears(d, <<"message", t>>)' =>
          \E n \in DOMAIN kept : kept[n] = t /\ Hears(t[1], <<"sent", n>>)'
    <3>1. \A t \in Texts : t[1] \in Clients
      BY DEF Texts
    <3>2. QED
      BY <1>4, <3>1 DEF ShownInv
  <2>3. QED
    BY <1>1, <2>1, <2>2 DEF ShownInv
<1>11. Once'
  BY <1>1, Silence
<1>12. QED
  BY <1>2, <1>5, <1>9, <1>10, <1>11

LEMMA KeepKeeps ==
  ASSUME TypeInv, MailInv, NEW c \in Clients, Keep(c)
  PROVE  TypeInv' /\ MailInv'
<1> USE DEF MailInv
<1>1. PICK text : text = Text(c)
  OBVIOUS
<1>2. text \in Texts /\ text[1] = c /\ text[2] = asked[c] /\ asked[c] \in Nat
  BY <1>1 DEF Text, Texts, TypeInv
<1>3. /\ stage[c] = "owed" /\ stage' = stage /\ asked' = asked /\ told' = told
      /\ \A n \in DOMAIN kept : kept[n] # text
      /\ kept' = Append(kept, text)
  BY <1>1 DEF Keep
<1>4. PICK last : last = Len(kept) + 1
  OBVIOUS
<1>5. /\ kept' \in Seq(Texts) /\ DOMAIN kept' = DOMAIN kept \cup {last}
      /\ last \in Nat /\ last \notin DOMAIN kept /\ kept'[last] = text
      /\ \A n \in DOMAIN kept : kept'[n] = kept[n]
  BY <1>2, <1>3, <1>4 DEF TypeInv
<1>6. TypeInv'
  BY <1>3, <1>5 DEF TypeInv
<1>7. \A d \in Clients : \A what : Hears(d, what)' <=> Hears(d, what)
  BY <1>3, Silence
<1>8. \A n \in DOMAIN kept : kept[n] \in Texts /\ kept[n][1] \in Clients
  BY DEF TypeInv, Texts
<1>9. KeptInv'
  <2>1. \A n \in DOMAIN kept' : kept'[n][2] <= asked[kept'[n][1]]
    BY <1>2, <1>5 DEF KeptInv
  <2>2. \A m, n \in DOMAIN kept' : kept'[m] = kept'[n] => m = n
    BY <1>3, <1>5 DEF KeptInv
  <2>3. QED
    BY <1>3, <2>1, <2>2 DEF KeptInv
<1>10. \A d \in Clients : \A n \in DOMAIN kept : Due(d, n)' <=> Due(d, n)
  BY <1>3, <1>5 DEF Due, Text
<1>11. AckInv'
  <2>1. ASSUME NEW n \in DOMAIN kept', NEW d, d = kept'[n][1]
        PROVE  Hears(d, <<"sent", n>>)' \/ Due(d, n)'
    <3>1. CASE n \in DOMAIN kept
      BY <1>5, <1>8, <1>10, <1>7, <2>1, <3>1 DEF AckInv
    <3>2. CASE n = last
      BY <1>1, <1>2, <1>3, <1>5, <2>1, <3>2 DEF Due, Text
    <3>3. QED
      BY <1>5, <3>1, <3>2
  <2>2. \A n \in DOMAIN kept : (Hears(kept[n][1], <<"sent", n>>) \/ Due(kept[n][1], n))'
    BY <1>5, <2>1 DEF Hears, Due, Text
  <2>3. (Hears(kept[last][1], <<"sent", last>>) \/ Due(kept[last][1], last))'
    BY <1>5, <2>1 DEF Hears, Due, Text
  <2>4. ASSUME NEW d \in Clients, NEW n \in Nat, Hears(d, <<"sent", n>>)'
        PROVE  n \in DOMAIN kept' /\ kept'[n][1] = d /\ ~Due(d, n)'
    BY <1>5, <1>10, <1>7, <2>4 DEF AckInv
  <2>5. ASSUME NEW d \in Clients, stage'[d] = "after"
        PROVE  \E n \in DOMAIN kept' : kept'[n] = Text(d)' /\ Hears(d, <<"sent", n>>)'
    <3>1. PICK n \in DOMAIN kept : kept[n] = Text(d) /\ Hears(d, <<"sent", n>>)
      BY <1>3, <2>5 DEF AckInv
    <3>2. Hears(d, <<"sent", n>>)'
      BY <1>7, <3>1
    <3>3. kept'[n] = Text(d)' /\ n \in DOMAIN kept'
      BY <1>3, <1>5, <3>1 DEF Text
    <3>4. QED
      BY <3>2, <3>3
  <2>6. QED
    BY <1>5, <2>2, <2>3, <2>4, <2>5 DEF AckInv
<1>12. ShownInv'
  <2>1. ASSUME NEW d \in Clients, NEW t \in Texts, Hears(d, <<"message", t>>)'
        PROVE  \E n \in DOMAIN kept' : kept'[n] = t /\ Hears(t[1], <<"sent", n>>)'
    <3>1. t[1] \in Clients
      BY DEF Texts
    <3>2. QED
      BY <1>5, <1>7, <2>1, <3>1 DEF ShownInv
  <2>2. \A d, e \in Clients : stage'[d] \in {"owed", "after"} => ~Hears(e, <<"message", Text(d)>>)'
    BY <1>3 DEF ShownInv, Text, Hears
  <2>3. QED
    BY <2>1, <2>2 DEF ShownInv
<1>13. Once'
  BY <1>3, Silence
<1>14. QED
  BY <1>6, <1>9, <1>11, <1>12, <1>13

LEMMA AcknowledgeKeeps ==
  ASSUME TypeInv, MailInv, NEW c \in Clients, Acknowledge(c)
  PROVE  TypeInv' /\ MailInv'
<1> USE DEF MailInv
<1>1. PICK n \in DOMAIN kept : kept[n] = Text(c) /\ Tell(c, <<"sent", n>>)
  BY DEF Acknowledge
<1>2. PICK p : p = <<"sent", n>>
  OBVIOUS
<1>3. n \in DOMAIN kept /\ kept[n] = Text(c) /\ p = <<"sent", n>> /\ Tell(c, p)
  BY <1>1, <1>2
<1>4. /\ stage[c] = "owed" /\ stage'[c] = "after" /\ stage' \in [Clients -> Stages]
      /\ asked' = asked /\ kept' = kept
      /\ \A d \in Clients \ {c} : stage'[d] = stage[d]
  BY DEF Acknowledge, Passes, TypeInv, Stages
<1>5. n \in Nat /\ DOMAIN kept \subseteq Nat
  BY <1>3 DEF TypeInv
<1>6. p \in Packets /\ p[1] = "sent" /\ \A t : p # <<"message", t>>
  BY <1>3, <1>5 DEF Packets
<1>7. \A d \in Clients : Text(d)' = Text(d) /\ Text(d)[1] = d
  BY <1>4 DEF Text
<1>8. \A d \in Clients : ~Hears(d, p)
  BY <1>3, <1>4, <1>5, <1>7 DEF AckInv, Due
<1>9. told' \in [Clients -> Seq(Packets)] /\ Heard(c, p) /\ Once'
  BY <1>3, <1>6, <1>8, Telling
<1>10. /\ \A d \in Clients : \A m : Hears(d, <<"sent", m>>)' <=>
            Hears(d, <<"sent", m>>) \/ (d = c /\ m = n)
      /\ \A d \in Clients : \A t : Hears(d, <<"message", t>>)' <=> Hears(d, <<"message", t>>)
  BY <1>3, <1>6, <1>9 DEF Heard
<1>11. TypeInv'
  BY <1>4, <1>9 DEF TypeInv
<1>12. KeptInv'
  BY <1>4 DEF KeptInv
<1>13. \A d \in Clients : \A m \in DOMAIN kept : Due(d, m)' <=> Due(d, m) /\ m # n
  <2>1. \A m \in DOMAIN kept : kept[m] = Text(c) <=> m = n
    BY <1>3 DEF KeptInv
  <2>2. \A d \in Clients \ {c} : Text(d) # Text(c)
    BY <1>7
  <2>3. QED
    BY <1>3, <1>4, <1>7, <2>1, <2>2 DEF Due
<1>14. \A m \in DOMAIN kept : kept[m] \in Texts /\ kept[m][1] \in Clients
  BY DEF TypeInv, Texts
<1>15. AckInv'
  <2>1. \A m \in DOMAIN kept : (Hears(kept[m][1], <<"sent", m>>) \/ Due(kept[m][1], m))'
    <3>1. ASSUME NEW m \in DOMAIN kept, NEW d, d = kept[m][1]
          PROVE  Hears(d, <<"sent", m>>)' \/ Due(d, m)'
      <4>1. d \in Clients /\ (Hears(d, <<"sent", m>>) \/ Due(d, m))
        BY <1>14, <3>1 DEF AckInv
      <4>2. m = n => d = c
        BY <1>3, <1>7, <3>1
      <4>3. QED
        BY <1>13, <1>10, <4>1, <4>2
    <3>2. QED
      BY <1>4, <3>1 DEF Hears, Due, Text
  <2>2. ASSUME NEW d \in Clients, NEW m \in Nat, Hears(d, <<"sent", m>>)'
        PROVE  m \in DOMAIN kept /\ kept[m][1] = d /\ ~Due(d, m)'
    <3>1. CASE Hears(d, <<"sent", m>>)
      BY <1>13, <3>1 DEF AckInv
    <3>2. CASE d = c /\ m = n
      BY <1>3, <1>7, <1>13, <3>2
    <3>3. QED
      BY <1>10, <2>2, <3>1, <3>2
  <2>3. ASSUME NEW d \in Clients, stage'[d] = "after"
        PROVE  \E m \in DOMAIN kept : kept[m] = Text(d)' /\ Hears(d, <<"sent", m>>)'
    <3>1. CASE d = c
      BY <1>3, <1>7, <1>10, <3>1
    <3>2. CASE d # c
      BY <1>4, <1>7, <1>10, <2>3, <3>2 DEF AckInv
    <3>3. QED
      BY <3>1, <3>2
  <2>4. QED
    BY <1>4, <2>1, <2>2, <2>3 DEF AckInv
<1>16. ShownInv'
  <2>1. ASSUME NEW d \in Clients, NEW t \in Texts, Hears(d, <<"message", t>>)'
        PROVE  \E m \in DOMAIN kept : kept[m] = t /\ Hears(t[1], <<"sent", m>>)'
    <3>1. t[1] \in Clients
      BY DEF Texts
    <3>2. Hears(d, <<"message", t>>)
      BY <1>10, <2>1
    <3>3. QED
      BY <1>10, <3>1, <3>2 DEF ShownInv
  <2>2. ASSUME NEW d \in Clients, NEW e \in Clients, stage'[d] \in {"owed", "after"}
        PROVE  ~Hears(e, <<"message", Text(d)>>)'
    <3>1. stage[d] \in {"owed", "after"}
      BY <1>4, <2>2
    <3>2. PICK t : t = Text(d)
      OBVIOUS
    <3>3. ~Hears(e, <<"message", t>>)'
      BY <1>10, <3>1, <3>2 DEF ShownInv
    <3>4. QED
      BY <1>7, <3>2, <3>3 DEF Hears
  <2>3. QED
    BY <1>4, <2>1, <2>2 DEF ShownInv
<1>17. QED
  BY <1>9, <1>11, <1>12, <1>15, <1>16

LEMMA NextMail == TypeInv /\ MailInv /\ [Next]_vars => TypeInv' /\ MailInv'
<1> SUFFICES ASSUME TypeInv, MailInv, [Next]_vars PROVE TypeInv' /\ MailInv'
  OBVIOUS
<1>1. ASSUME NEW c \in Clients, Greet(c)
      PROVE  TypeInv' /\ MailInv'
  <2>1. \E word \in {"greeting", "answer"} : Tell(c, <<word>>)
    BY <1>1 DEF Greet
  <2>2. QED
    BY <1>1, <2>1, PassingKeeps DEF Greet, Stages
<1>2. ASSUME NEW c \in Clients, Respond(c)
      PROVE  TypeInv' /\ MailInv'
  <2>1. \E word \in {"greeting", "answer"} : Tell(c, <<word>>)
    BY <1>2 DEF Respond
  <2>2. QED
    BY <1>2, <2>1, PassingKeeps DEF Respond, Stages
<1>3. ASSUME NEW c \in Clients, ShowNobody(c) \/ Leave(c)
      PROVE  TypeInv' /\ MailInv'
  BY <1>3, PassingKeeps DEF ShowNobody, Leave, Stages
<1>4. ASSUME NEW c \in Clients, NEW d \in Clients, Show(c, d)
      PROVE  TypeInv' /\ MailInv'
  BY <1>4, PassingKeeps DEF Show, Stages
<1>5. CASE UNCHANGED vars
  <2>1. TypeInv'
    BY <1>5 DEF vars, TypeInv
  <2>2. MailInv'
    <3>1. asked' = asked /\ stage' = stage /\ kept' = kept /\ told' = told
      BY <1>5 DEF vars
    <3>2. KeptInv'
      BY <3>1 DEF MailInv, KeptInv
    <3>3. AckInv'
      BY <3>1 DEF MailInv, AckInv, Due, Hears, Text
    <3>4. ShownInv'
      BY <3>1 DEF MailInv, ShownInv, Hears, Text
    <3>5. Once'
      BY <3>1 DEF MailInv, Once
    <3>6. QED
      BY <3>2, <3>3, <3>4, <3>5 DEF MailInv
  <2>3. QED
    BY <2>1, <2>2
<1>6. QED
  BY <1>1, <1>2, <1>3, <1>4, <1>5, AskKeeps, KeepKeeps, AcknowledgeKeeps DEF Next

(* A message is stored if and only if its author has been told its number,  *)
(* but for the one whose acknowledgment is due; what is shown to somebody   *)
(* has been acknowledged before; and nobody, be it in two rooms, is shown a *)
(* message twice or told a number twice.                                    *)
THEOREM MailIsRight == Spec => []MailRight
<1>1. TypeInv /\ MailInv => MailRight
  <2> SUFFICES ASSUME TypeInv, MailInv PROVE MailRight
    OBVIOUS
  <2>1. \A n \in DOMAIN kept :
           LET c == kept[n][1]
           IN  Hears(c, <<"sent", n>>) \/ (stage[c] = "owed" /\ kept[n] = Text(c))
    BY DEF MailInv, AckInv, Due
  <2>2. ASSUME NEW c \in Clients, NEW i \in DOMAIN told[c]
        PROVE  /\ told[c][i][1] = "sent" =>
                     told[c][i][2] \in DOMAIN kept /\ kept[told[c][i][2]][1] = c
               /\ told[c][i][1] = "message" =>
                     \E n \in DOMAIN kept : /\ kept[n] = told[c][i][2]
                                            /\ Hears(kept[n][1], <<"sent", n>>)
    <3>1. PICK p \in Packets : p = told[c][i]
      BY DEF TypeInv
    <3>2. Hears(c, p)
      BY <3>1 DEF Hears
    <3>3. ASSUME p[1] = "sent"
          PROVE  p[2] \in DOMAIN kept /\ kept[p[2]][1] = c
      <4>1. p[2] \in Nat /\ p = <<"sent", p[2]>>
        BY <3>3 DEF Packets
      <4>2. PICK n \in Nat : n = p[2]
        BY <4>1
      <4>3. Hears(c, <<"sent", n>>)
        BY <3>2, <4>1, <4>2
      <4>4. QED
        BY <4>2, <4>3 DEF MailInv, AckInv
    <3>4. ASSUME p[1] = "message"
          PROVE  \E n \in DOMAIN kept : kept[n] = p[2] /\ Hears(kept[n][1], <<"sent", n>>)
      <4>1. p[2] \in Texts /\ p = <<"message", p[2]>>
        BY <3>4 DEF Packets
      <4>2. PICK t \in Texts : t = p[2]
        BY <4>1
      <4>3. Hears(c, <<"message", t>>)
        BY <3>2, <4>1, <4>2
      <4>4. PICK n \in DOMAIN kept : kept[n] = t /\ Hears(t[1], <<"sent", n>>)
        BY <4>3 DEF MailInv, ShownInv
      <4>5. QED
        BY <4>2, <4>4
    <3>5. QED
      BY <3>1, <3>3, <3>4
  <2>3. \A m, n \in DOMAIN kept : kept[m] = kept[n] => m = n
    BY DEF MailInv, KeptInv
  <2>4. QED
    BY <2>1, <2>2, <2>3 DEF MailRight, MailInv, Once
<1>2. QED
  BY InitMail, NextMail, <1>1, PTL DEF Spec
================================================================================
