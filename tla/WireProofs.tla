------------------------------- MODULE WireProofs -------------------------------
(* Proofs about Wire, for any workers, lines and frames, and whatever parts *)
(* they arrive in.                                                          *)
EXTENDS Wire, FiniteSetTheorems, SequenceTheorems, WellFoundedInduction, TLAPS

(* A set of naturals that is not empty has a least element. *)
LEMMA LeastIn ==
  ASSUME NEW S \in SUBSET Nat, S # {}
  PROVE  Min(S) \in S /\ \A y \in S : Min(S) <= y
<1>1. IsWellFoundedOn(OpToRel(<, Nat), Nat)
  BY NatLessThanWellFounded
<1>2. PICK i \in S : \A j \in S : ~(<<j, i>> \in OpToRel(<, Nat))
  BY <1>1, WFMin
<1>3. ASSUME NEW j \in S PROVE i <= j
  <2>1. ~(j < i)
    BY <1>2 DEF OpToRel
  <2>2. QED
    BY <2>1
<1>4. QED
  BY <1>3 DEF Min
(* A set of naturals up to n that is not empty has a greatest element. *)
LEMMA GreatestIn ==
  ASSUME NEW n \in Nat, NEW S \in SUBSET (0..n), S # {}
  PROVE  Max(S) \in S /\ \A y \in S : y <= Max(S)
<1> DEFINE D == {n - y : y \in S}
<1>1. D \in SUBSET Nat /\ D # {}
  <2>1. PICK y : y \in S
    OBVIOUS
  <2>2. n - y \in D
    BY <2>1
  <2>3. \A x \in S : n - x \in Nat
    OBVIOUS
  <2>4. D \in SUBSET Nat
    BY <2>3
  <2>5. QED
    BY <2>2, <2>4
<1>2. PICK d : d \in D /\ \A y \in D : d <= y
  BY <1>1, LeastIn
<1>3. PICK x \in S : d = n - x
  BY <1>2
<1>4. ASSUME NEW y \in S PROVE y <= x
  <2>1. n - y \in D
    OBVIOUS
  <2>2. n - x <= n - y
    BY <1>2, <1>3, <2>1
  <2>3. QED
    BY <1>3, <2>2
<1>5. QED
  BY <1>3, <1>4 DEF Max
--------------------------------------------------------------------------------
(* The tokens of a line. *)

(* From index i on, bars are skipped up to k, and the token ends before e.  *)
NoToken(b, i, k, e) ==
    /\ k = Len(b) + 1 /\ e = Len(b) + 1
    /\ \A j \in i..Len(b) : b[j] = BAR
IsToken(b, i, k, e) ==
    /\ k \in i..Len(b) /\ e \in (k + 1)..(Len(b) + 1)
    /\ \A j \in i..(k - 1) : b[j] = BAR
    /\ \A j \in k..(e - 1) : b[j] # BAR
    /\ e <= Len(b) => b[e] = BAR
LEMMA TokenFrom ==
  ASSUME NEW C, NEW b \in Seq(C), NEW i \in Nat \ {0}
  PROVE  \E k, e \in Nat :
            /\ k = SkipBars(b, i) /\ e = TokenEnd(b, i)
            /\ NoToken(b, i, k, e) \/ IsToken(b, i, k, e)
<1>1. Len(b) \in Nat
  OBVIOUS
<1> DEFINE A == {j \in i..Len(b) : b[j] # BAR}
<1>2. A \cup {Len(b) + 1} \in SUBSET Nat
  BY <1>1
<1>3. PICK k : k = SkipBars(b, i)
  OBVIOUS
<1>4. k \in A \cup {Len(b) + 1} /\ \A j \in A \cup {Len(b) + 1} : k <= j
  BY <1>2, <1>3, LeastIn DEF SkipBars
<1>5. k \in Nat /\ k <= Len(b) + 1 /\ (k = Len(b) + 1 \/ k \in A)
  BY <1>1, <1>2, <1>4
<1> DEFINE E == {j \in k..Len(b) : b[j] = BAR}
<1>6. E \cup {Len(b) + 1} \in SUBSET Nat
  BY <1>1, <1>5
<1>7. PICK e : e = TokenEnd(b, i)
  OBVIOUS
<1>8. e \in E \cup {Len(b) + 1} /\ \A j \in E \cup {Len(b) + 1} : e <= j
  BY <1>3, <1>6, <1>7, LeastIn DEF TokenEnd
<1>9. e \in Nat /\ e <= Len(b) + 1 /\ (e = Len(b) + 1 \/ e \in E)
  BY <1>1, <1>6, <1>8
<1>10. CASE k = Len(b) + 1
  <2>1. \A j \in i..Len(b) : b[j] = BAR
    BY <1>1, <1>4, <1>10
  <2>2. e = Len(b) + 1
    BY <1>1, <1>9, <1>10
  <2>3. QED
    BY <1>3, <1>5, <1>7, <1>9, <1>10, <2>1, <2>2 DEF NoToken
<1>11. CASE k \in A
  <2>1. \A j \in i..(k - 1) : b[j] = BAR
    BY <1>1, <1>4, <1>5, <1>11
  <2>2. \A j \in k..(e - 1) : b[j] # BAR
    BY <1>1, <1>5, <1>8, <1>9
  <2>3. e # k /\ e >= k /\ k \in i..Len(b)
    BY <1>1, <1>5, <1>9, <1>11
  <2>4. IsToken(b, i, k, e)
    BY <1>1, <1>5, <1>9, <2>1, <2>2, <2>3 DEF IsToken
  <2>5. QED
    BY <1>3, <1>5, <1>7, <1>9, <2>4
<1>12. QED
  BY <1>5, <1>10, <1>11

LEMMA AfterToken ==
  ASSUME NEW C, NEW b \in Seq(C), NEW i \in Nat \ {0}
  PROVE  LET e == TokenEnd(b, i) IN After(b, i) = IF e <= Len(b) THEN e + 1 ELSE Len(b) + 1
<1>1. PICK e \in Nat : e = TokenEnd(b, i)
  BY TokenFrom
<1>2. PICK S : S = {e + 1, Len(b) + 1}
  OBVIOUS
<1>3. S \in SUBSET Nat /\ S # {}
  BY <1>2
<1>4. PICK m : m = Min(S)
  OBVIOUS
<1>5. m \in S /\ \A y \in S : m <= y
  BY <1>3, <1>4, LeastIn
<1>6. m = IF e <= Len(b) THEN e + 1 ELSE Len(b) + 1
  BY <1>2, <1>5
<1>7. After(b, i) = m
  BY <1>1, <1>2, <1>4 DEF After
<1>8. QED
  BY <1>1, <1>6, <1>7

(* The stretches of b that begin before i are those of ps, in their order.  *)
Enumerates(b, i, ps) ==
    /\ ps \in Seq(Stretches(b)) /\ InOrder(ps)
    /\ \A p \in Stretches(b) : p[1] < i <=> \E j \in DOMAIN ps : ps[j] = p
Words(b, ps) == [j \in DOMAIN ps |-> SubSeq(b, ps[j][1], ps[j][2])]
(* Where a token may begin. *)
Boundary(b, i) == i \in 1..(Len(b) + 1) /\ (i = 1 \/ b[i - 1] = BAR \/ i = Len(b) + 1)

(* Stretches that begin at the same index are the same. *)
LEMMA StretchOf ==
  ASSUME NEW C, NEW b \in Seq(C), NEW p \in Stretches(b)
  PROVE  /\ p[1] \in 1..Len(b) /\ p[2] \in p[1]..Len(b) /\ p = <<p[1], p[2]>>
         /\ \A i \in p[1]..p[2] : b[i] # BAR
         /\ p[1] = 1 \/ b[p[1] - 1] = BAR
         /\ p[2] = Len(b) \/ b[p[2] + 1] = BAR
  BY DEF Stretches
LEMMA OneStretch ==
  ASSUME NEW C, NEW b \in Seq(C), NEW p \in Stretches(b), NEW q \in Stretches(b), p[1] = q[1]
  PROVE  p = q
<1>1. /\ p[1] \in 1..Len(b) /\ p[2] \in p[1]..Len(b) /\ p = <<p[1], p[2]>>
      /\ \A i \in p[1]..p[2] : b[i] # BAR
      /\ p[2] = Len(b) \/ b[p[2] + 1] = BAR
  BY StretchOf
<1>2. /\ q[1] \in 1..Len(b) /\ q[2] \in q[1]..Len(b) /\ q = <<q[1], q[2]>>
      /\ \A i \in q[1]..q[2] : b[i] # BAR
      /\ q[2] = Len(b) \/ b[q[2] + 1] = BAR
  BY StretchOf
<1>3. ~(p[2] < q[2])
  BY <1>1, <1>2
<1>4. ~(q[2] < p[2])
  BY <1>1, <1>2
<1>5. p[2] = q[2]
  BY <1>1, <1>2, <1>3, <1>4
<1>6. QED
  BY <1>1, <1>2, <1>5

(* A function on 1..n is a sequence, and so is what extends it by one. *)
LEMMA SequenceOf ==
  ASSUME NEW T, NEW n \in Nat, NEW u \in [1..n -> T]
  PROVE  u \in Seq(T) /\ Len(u) = n
  OBVIOUS
LEMMA Appended ==
  ASSUME NEW T, NEW n \in Nat, NEW u \in [1..n -> T], NEW v \in [1..(n + 1) -> T],
         \A j \in 1..n : v[j] = u[j]
  PROVE  v = Append(u, v[n + 1])
<1>1. u \in Seq(T) /\ Len(u) = n /\ v \in Seq(T) /\ Len(v) = n + 1 /\ v[n + 1] \in T
  BY SequenceOf
<1>2. PICK w : w = Append(u, v[n + 1])
  OBVIOUS
<1>3. w \in Seq(T) /\ Len(w) = n + 1 /\ w[n + 1] = v[n + 1] /\ \A j \in 1..n : w[j] = u[j]
  BY <1>1, <1>2
<1>4. ASSUME NEW j \in 1..(n + 1) PROVE v[j] = w[j]
  BY <1>3
<1>5. QED
  BY <1>1, <1>2, <1>3, <1>4, SeqEqual

(* One stretch more, beyond the others. *)
LEMMA OneMoreStretch ==
  ASSUME NEW C, NEW b \in Seq(C), NEW i \in Nat, NEW n \in Nat, NEW ps, Enumerates(b, i, ps),
         NEW p \in Stretches(b), i <= p[1], p[1] < n,
         \A q \in Stretches(b) : q[1] < n /\ ~(q[1] < i) => q = p
  PROVE  Enumerates(b, n, Append(ps, p)) /\ Words(b, Append(ps, p)) =
                                            Append(Words(b, ps), SubSeq(b, p[1], p[2]))
<1>1. PICK qs : qs = Append(ps, p)
  OBVIOUS
<1>2. /\ ps \in Seq(Stretches(b)) /\ Len(ps) \in Nat /\ DOMAIN ps = 1..Len(ps)
      /\ qs \in Seq(Stretches(b)) /\ Len(qs) = Len(ps) + 1 /\ DOMAIN qs = 1..(Len(ps) + 1)
      /\ \A j \in DOMAIN ps : qs[j] = ps[j] /\ ps[j] \in Stretches(b)
      /\ qs[Len(ps) + 1] = p
  BY <1>1 DEF Enumerates
<1>3. \A j \in DOMAIN ps : ps[j][1] < p[1]
  <2>1. ASSUME NEW j \in DOMAIN ps PROVE ps[j][1] < p[1]
    <3>1. PICK q \in Stretches(b) : q = ps[j]
      BY <1>2
    <3>2. q[1] < i /\ q[1] \in Nat /\ p[1] \in Nat
      BY <3>1, StretchOf DEF Enumerates
    <3>3. QED
      BY <3>1, <3>2
  <2>2. QED
    BY <2>1
<1>4. InOrder(qs)
  <2>1. ASSUME NEW j \in DOMAIN qs, NEW m \in DOMAIN qs, j < m PROVE qs[j][1] < qs[m][1]
    <3>1. j \in DOMAIN ps
      BY <1>2, <2>1
    <3>2. CASE m \in DOMAIN ps
      BY <1>2, <2>1, <3>1, <3>2 DEF Enumerates, InOrder
    <3>3. CASE m = Len(ps) + 1
      BY <1>2, <1>3, <3>1, <3>3
    <3>4. QED
      BY <1>2, <3>2, <3>3
  <2>2. QED
    BY <2>1 DEF InOrder
<1>5. ASSUME NEW q \in Stretches(b) PROVE q[1] < n <=> \E j \in DOMAIN qs : qs[j] = q
  <2>1. q[1] \in Nat /\ p[1] \in Nat
    BY StretchOf
  <2>2. CASE q[1] < i
    BY <1>2, <2>1, <2>2 DEF Enumerates
  <2>3. CASE ~(q[1] < i)
    <3>1. ~\E j \in DOMAIN ps : ps[j] = q
      BY <2>3 DEF Enumerates
    <3>2. q[1] < n <=> q = p
      BY <2>3
    <3>3. Len(ps) + 1 \in DOMAIN qs /\ \A j \in DOMAIN qs : j \in DOMAIN ps \/ j = Len(ps) + 1
      BY <1>2
    <3>4. QED
      BY <1>2, <3>1, <3>2, <3>3
  <2>4. QED
    BY <2>2, <2>3
<1>6. Enumerates(b, n, qs)
  BY <1>2, <1>4, <1>5 DEF Enumerates
<1>7. Words(b, qs) = Append(Words(b, ps), SubSeq(b, p[1], p[2]))
  <2>1. PICK us, vs, t : us = Words(b, ps) /\ vs = Words(b, qs) /\ t = SubSeq(b, p[1], p[2])
    OBVIOUS
  <2>2. us = [j \in 1..Len(ps) |-> SubSeq(b, ps[j][1], ps[j][2])]
    BY <1>2, <2>1 DEF Words
  <2>3. vs = [j \in 1..(Len(ps) + 1) |-> SubSeq(b, qs[j][1], qs[j][2])]
    BY <1>2, <2>1 DEF Words
  <2>4. PICK T : T = {SubSeq(b, ps[j][1], ps[j][2]) : j \in 1..Len(ps)} \cup {t}
    OBVIOUS
  <2>5. us \in [1..Len(ps) -> T]
    BY <2>2, <2>4
  <2>6. vs \in [1..(Len(ps) + 1) -> T]
    <3>1. ASSUME NEW j \in 1..(Len(ps) + 1) PROVE SubSeq(b, qs[j][1], qs[j][2]) \in T
      <4>1. CASE j \in 1..Len(ps)
        BY <1>2, <2>4, <4>1
      <4>2. CASE j = Len(ps) + 1
        BY <1>2, <2>1, <2>4, <4>2
      <4>3. QED
        BY <1>2, <4>1, <4>2
    <3>2. QED
      BY <2>3, <3>1
  <2>7. \A j \in 1..Len(ps) : vs[j] = us[j]
    <3>1. ASSUME NEW j \in 1..Len(ps) PROVE vs[j] = us[j]
      <4>1. ps[j] = qs[j] /\ j \in 1..(Len(ps) + 1)
        BY <1>2
      <4>2. us[j] = SubSeq(b, ps[j][1], ps[j][2])
        BY <2>2
      <4>3. vs[j] = SubSeq(b, qs[j][1], qs[j][2])
        BY <2>3, <4>1
      <4>4. QED
        BY <4>1, <4>2, <4>3
    <3>2. QED
      BY <3>1
  <2>8. vs[Len(ps) + 1] = t
    <3>1. Len(ps) + 1 \in 1..(Len(ps) + 1)
      BY <1>2
    <3>2. vs[Len(ps) + 1] = SubSeq(b, qs[Len(ps) + 1][1], qs[Len(ps) + 1][2])
      BY <2>3, <3>1
    <3>3. QED
      BY <1>2, <2>1, <3>2
  <2>9. vs = Append(us, t)
    BY <1>2, <2>5, <2>6, <2>7, <2>8, Appended
  <2>10. QED
    BY <2>1, <2>9
<1>8. QED
  BY <1>1, <1>6, <1>7

(* A call of strtok finds the next stretch, or there are no more of them. *)
LEMMA OneMoreToken ==
  ASSUME NEW C, NEW b \in Seq(C), NEW i \in Nat, Boundary(b, i), NEW ps, Enumerates(b, i, ps),
         Token(b, i) # <<>>
  PROVE  \E p \in Stretches(b) :
            /\ Token(b, i) = SubSeq(b, p[1], p[2])
            /\ Words(b, Append(ps, p)) = Append(Words(b, ps), Token(b, i))
            /\ Enumerates(b, After(b, i), Append(ps, p))
            /\ Boundary(b, After(b, i)) /\ i < After(b, i)
<1>1. Len(b) \in Nat /\ i \in 1..(Len(b) + 1)
  BY DEF Boundary
<1>2. PICK k, e \in Nat : k = SkipBars(b, i) /\ e = TokenEnd(b, i) /\
                         (NoToken(b, i, k, e) \/ IsToken(b, i, k, e))
  BY <1>1, TokenFrom
<1>3. Token(b, i) = SubSeq(b, k, e - 1)
  BY <1>2 DEF Token
<1>4. PICK n : n = After(b, i)
  OBVIOUS
<1>5. n = IF e <= Len(b) THEN e + 1 ELSE Len(b) + 1
  BY <1>1, <1>2, <1>4, AfterToken
<1>6. IsToken(b, i, k, e)
  BY <1>1, <1>2, <1>3 DEF NoToken
<1>7. /\ k \in i..Len(b) /\ e \in (k + 1)..(Len(b) + 1)
      /\ \A j \in i..(k - 1) : b[j] = BAR
      /\ \A j \in k..(e - 1) : b[j] # BAR
      /\ e <= Len(b) => b[e] = BAR
  BY <1>6 DEF IsToken
<1>8. n \in Nat /\ k < n /\ i < n /\ n \in 1..(Len(b) + 1)
  BY <1>1, <1>2, <1>5, <1>7
<1>9. Boundary(b, n)
  BY <1>1, <1>2, <1>5, <1>7 DEF Boundary
<1>10. PICK p : p = <<k, e - 1>>
  OBVIOUS
<1>11. p[1] = k /\ p[2] = e - 1
  BY <1>10
<1>12. p \in Stretches(b)
  <2>1. p \in (1..Len(b)) \X (1..Len(b)) /\ p[1] <= p[2]
    BY <1>1, <1>2, <1>7, <1>10
  <2>2. p[1] = 1 \/ b[p[1] - 1] = BAR
    <3>1. CASE k = i
      BY <1>1, <1>7, <1>11, <3>1 DEF Boundary
    <3>2. CASE k # i
      <4>1. k - 1 \in i..(k - 1)
        BY <1>1, <1>7, <3>2
      <4>2. QED
        BY <1>7, <1>11, <4>1
    <3>3. QED
      BY <3>1, <3>2
  <2>3. p[2] = Len(b) \/ b[p[2] + 1] = BAR
    BY <1>1, <1>2, <1>7, <1>11
  <2>4. \A j \in p[1]..p[2] : b[j] # BAR
    BY <1>7, <1>11
  <2>5. QED
    BY <2>1, <2>2, <2>3, <2>4 DEF Stretches
<1>13. ASSUME NEW q \in Stretches(b), q[1] < n, ~(q[1] < i) PROVE q = p
  <2>1. /\ q[1] \in 1..Len(b) /\ q[2] \in q[1]..Len(b) /\ b[q[1]] # BAR
        /\ q[1] = 1 \/ b[q[1] - 1] = BAR
    <3>1. /\ q[1] \in 1..Len(b) /\ q[2] \in q[1]..Len(b) /\ \A j \in q[1]..q[2] : b[j] # BAR
          /\ q[1] = 1 \/ b[q[1] - 1] = BAR
      BY StretchOf
    <3>2. q[1] \in q[1]..q[2]
      BY <1>1, <3>1
    <3>3. QED
      BY <3>1, <3>2
  <2>2. ~(q[1] < k)
    BY <1>1, <1>7, <1>13, <2>1
  <2>3. q[1] # e
    BY <1>1, <1>7, <2>1
  <2>4. ~(k < q[1] /\ q[1] < e)
    <3>1. SUFFICES ASSUME k < q[1], q[1] < e PROVE FALSE
      OBVIOUS
    <3>2. q[1] - 1 \in k..(e - 1) /\ q[1] # 1
      BY <1>1, <1>2, <1>7, <2>1, <3>1
    <3>3. QED
      BY <1>7, <2>1, <3>2
  <2>5. q[1] = p[1]
    BY <1>1, <1>2, <1>5, <1>11, <1>13, <2>1, <2>2, <2>3, <2>4
  <2>6. QED
    BY <1>12, <2>5, OneStretch
<1>14. i <= p[1] /\ p[1] < n
  BY <1>7, <1>8, <1>11
<1>15. Enumerates(b, n, Append(ps, p))
       /\ Words(b, Append(ps, p)) = Append(Words(b, ps), SubSeq(b, p[1], p[2]))
  BY <1>8, <1>12, <1>13, <1>14, OneMoreStretch
<1>16. QED
  BY <1>3, <1>4, <1>8, <1>9, <1>11, <1>12, <1>15

LEMMA NoMoreToken ==
  ASSUME NEW C, NEW b \in Seq(C), NEW i \in Nat, Boundary(b, i), NEW ps, Enumerates(b, i, ps),
         Token(b, i) = <<>>
  PROVE  Enumerates(b, Len(b) + 1, ps)
<1>1. Len(b) \in Nat /\ i \in 1..(Len(b) + 1)
  BY DEF Boundary
<1>2. PICK k, e \in Nat : k = SkipBars(b, i) /\ e = TokenEnd(b, i) /\
                         (NoToken(b, i, k, e) \/ IsToken(b, i, k, e))
  BY <1>1, TokenFrom
<1>3. Token(b, i) = SubSeq(b, k, e - 1)
  BY <1>2 DEF Token
<1>4. ~IsToken(b, i, k, e)
  <2>1. SUFFICES ASSUME k \in i..Len(b), e \in (k + 1)..(Len(b) + 1) PROVE SubSeq(b, k, e - 1) # <<>>
    BY <1>3 DEF IsToken
  <2>2. k <= e - 1 /\ e - 1 \in Int /\ \A j \in k..(e - 1) : b[j] \in C
    BY <1>1, <1>2, <2>1
  <2>3. PICK n \in Int : n = e - 1
    BY <2>2
  <2>4. Len(SubSeq(b, k, n)) = n - k + 1
    BY <2>2, <2>3, SubSeqProperties
  <2>5. Len(SubSeq(b, k, n)) # 0
    BY <2>2, <2>3, <2>4
  <2>6. QED
    BY <2>3, <2>5
<1>5. \A j \in i..Len(b) : b[j] = BAR
  BY <1>2, <1>4 DEF NoToken
<1>6. ASSUME NEW p \in Stretches(b) PROVE p[1] < i /\ p[1] < Len(b) + 1
  <2>1. p[1] \in 1..Len(b) /\ p[2] \in p[1]..Len(b) /\ \A j \in p[1]..p[2] : b[j] # BAR
    BY StretchOf
  <2>2. b[p[1]] # BAR
    BY <1>1, <2>1
  <2>3. QED
    BY <1>1, <1>5, <2>1, <2>2
<1>7. QED
  BY <1>6 DEF Enumerates

(* Whatever of the stretches has been listed, the others can be listed too. *)
Extended(b, ps, qs) ==
    /\ Enumerates(b, Len(b) + 1, qs) /\ Len(ps) <= Len(qs)
    /\ \A j \in 1..Len(ps) : qs[j] = ps[j]
LEMMA Extends ==
  ASSUME NEW C, NEW b \in Seq(C), NEW i \in Nat, Boundary(b, i), NEW ps, Enumerates(b, i, ps)
  PROVE  \E qs \in Seq(Stretches(b)) : Extended(b, ps, qs)
<1> DEFINE Bad == {m \in Nat : \E k \in 1..(Len(b) + 1) : \E rs \in Seq(Stretches(b)) :
                      /\ m = Len(b) + 1 - k /\ Boundary(b, k) /\ Enumerates(b, k, rs)
                      /\ ~\E qs \in Seq(Stretches(b)) : Extended(b, rs, qs)}
<1>1. SUFFICES ASSUME ~\E qs \in Seq(Stretches(b)) : Extended(b, ps, qs) PROVE FALSE
  OBVIOUS
<1>2. Len(b) \in Nat /\ i \in 1..(Len(b) + 1) /\ Len(b) + 1 - i \in Nat /\ ps \in Seq(Stretches(b))
  BY DEF Boundary, Enumerates
<1>3. Len(b) + 1 - i \in Bad
  BY <1>1, <1>2
<1>4. PICK m \in Bad : \A y \in Bad : m <= y
  <2>1. Bad \in SUBSET Nat /\ Bad # {}
    BY <1>3
  <2>2. Min(Bad) \in Bad /\ \A y \in Bad : Min(Bad) <= y
    BY <2>1, LeastIn
  <2>3. QED
    BY <2>2
<1>5. PICK k \in 1..(Len(b) + 1) : \E rs \in Seq(Stretches(b)) :
                      /\ m = Len(b) + 1 - k /\ Boundary(b, k) /\ Enumerates(b, k, rs)
                      /\ ~\E qs \in Seq(Stretches(b)) : Extended(b, rs, qs)
  BY <1>4
<1>6. PICK rs \in Seq(Stretches(b)) :
                      /\ m = Len(b) + 1 - k /\ Boundary(b, k) /\ Enumerates(b, k, rs)
                      /\ ~\E qs \in Seq(Stretches(b)) : Extended(b, rs, qs)
  BY <1>5
<1>7. k \in Nat
  BY <1>2
<1>8. CASE Token(b, k) = <<>>
  <2>1. Enumerates(b, Len(b) + 1, rs)
    BY <1>6, <1>7, <1>8, NoMoreToken
  <2>2. Extended(b, rs, rs)
    BY <1>6, <2>1 DEF Extended
  <2>3. QED
    BY <1>6, <2>2
<1>9. CASE Token(b, k) # <<>>
  <2>1. PICK p \in Stretches(b) : /\ Enumerates(b, After(b, k), Append(rs, p))
                                 /\ Boundary(b, After(b, k)) /\ k < After(b, k)
    BY <1>6, <1>7, <1>9, OneMoreToken
  <2>2. PICK n : n = After(b, k)
    OBVIOUS
  <2>3. PICK ts : ts = Append(rs, p)
    OBVIOUS
  <2>4. n \in 1..(Len(b) + 1) /\ Boundary(b, n) /\ k < n /\ Enumerates(b, n, ts)
    BY <2>1, <2>2, <2>3 DEF Boundary
  <2>5. ts \in Seq(Stretches(b)) /\ Len(ts) = Len(rs) + 1 /\ \A j \in 1..Len(rs) : ts[j] = rs[j]
    BY <1>6, <2>3
  <2>6. Len(b) + 1 - n \in Nat /\ ~(m <= Len(b) + 1 - n)
    BY <1>2, <1>6, <1>7, <2>4
  <2>7. Len(b) + 1 - n \notin Bad
    BY <1>4, <2>6
  <2>8. PICK qs \in Seq(Stretches(b)) : Extended(b, ts, qs)
    BY <2>4, <2>5, <2>6, <2>7
  <2>9. Extended(b, rs, qs)
    <3>1. Len(rs) \in Nat /\ Len(qs) \in Nat
      BY <1>6, <2>8
    <3>2. QED
      BY <2>5, <2>8, <3>1 DEF Extended
  <2>10. QED
    BY <1>6, <2>9
<1>10. QED
  BY <1>8, <1>9

(* Two lists of all stretches in their order cannot differ. *)
Lists(b, n, q) == /\ q \in [1..n -> Stretches(b)] /\ InOrder(q)
                  /\ \A p \in Stretches(b) : \E m \in 1..n : q[m] = p
SameBelow(j, n, q, r) == j \in 1..n /\ \A m \in 1..n : m < j => q[m] = r[m]
LEMMA NoFirstDifference ==
  ASSUME NEW C, NEW b \in Seq(C), NEW n \in Nat, NEW q, NEW r, Lists(b, n, q), Lists(b, n, r),
         NEW j, SameBelow(j, n, q, r)
  PROVE  ~(q[j][1] < r[j][1])
<1>1. SUFFICES ASSUME q[j][1] < r[j][1] PROVE FALSE
  OBVIOUS
<1>2. j \in 1..n /\ q[j] \in Stretches(b)
  BY DEF SameBelow, Lists
<1>3. PICK m \in 1..n : r[m] = q[j]
  BY <1>2 DEF Lists
<1>4. \A p \in Stretches(b) : p[1] \in Nat
  BY StretchOf
<1>5. r[m][1] \in Nat /\ r[j][1] \in Nat /\ r[m][1] < r[j][1]
  BY <1>1, <1>2, <1>3, <1>4 DEF Lists
<1>6. m < j
  <2>1. m # j
    BY <1>5
  <2>2. ~(j < m)
    <3>1. \A x, y \in 1..n : x < y => r[x][1] < r[y][1]
      BY DEF Lists, InOrder
    <3>2. QED
      BY <1>2, <1>5, <3>1
  <2>3. QED
    BY <1>2, <2>1, <2>2
<1>7. q[m] = q[j]
  BY <1>3, <1>6 DEF SameBelow
<1>8. q[m][1] < q[j][1] /\ q[j][1] \in Nat
  BY <1>2, <1>3, <1>4, <1>6 DEF Lists, InOrder
<1>9. QED
  BY <1>7, <1>8
LEMMA OneOrder ==
  ASSUME NEW C, NEW b \in Seq(C), NEW n \in Nat, NEW q, NEW r, Lists(b, n, q), Lists(b, n, r)
  PROVE  q = r
<1> DEFINE D == {j \in 1..n : q[j] # r[j]}
<1>1. SUFFICES ASSUME D # {} PROVE FALSE
  <2>1. ASSUME D = {} PROVE q = r
    <3>1. \A j \in 1..n : q[j] = r[j]
      BY <2>1
    <3>2. q \in [1..n -> Stretches(b)] /\ r \in [1..n -> Stretches(b)]
      BY DEF Lists
    <3>3. QED
      BY <3>1, <3>2
  <2>2. QED
    BY <2>1
<1>2. PICK j : j = Min(D)
  OBVIOUS
<1>3. D \in SUBSET Nat
  OBVIOUS
<1>4. j \in D /\ \A m \in D : j <= m
  BY <1>1, <1>2, <1>3, LeastIn
<1>5. j \in 1..n /\ q[j] # r[j] /\ SameBelow(j, n, q, r) /\ SameBelow(j, n, r, q)
  BY <1>4 DEF SameBelow
<1>6. q[j] \in Stretches(b) /\ r[j] \in Stretches(b)
  BY <1>5 DEF Lists
<1>7. ~(q[j][1] < r[j][1]) /\ ~(r[j][1] < q[j][1])
  BY <1>5, NoFirstDifference
<1>8. \A p \in Stretches(b) : p[1] \in Nat
  BY StretchOf
<1>9. q[j][1] = r[j][1]
  BY <1>6, <1>7, <1>8
<1>10. QED
  BY <1>5, <1>6, <1>9, OneStretch

(* Fields lists what any list of the stretches in their order lists. *)
LEMMA InOrderIsInjective ==
  ASSUME NEW C, NEW b \in Seq(C), NEW n \in Nat, NEW q \in [1..n -> Stretches(b)], InOrder(q)
  PROVE  q \in Injection(1..n, Stretches(b))
<1>1. ASSUME NEW j \in 1..n, NEW m \in 1..n, q[j] = q[m] PROVE j = m
  <2>1. q[j][1] \in Nat /\ q[m][1] \in Nat
    BY StretchOf
  <2>2. ~(j < m)
    BY <1>1, <2>1 DEF InOrder
  <2>3. ~(m < j)
    BY <1>1, <2>1 DEF InOrder
  <2>4. QED
    BY <2>2, <2>3
<1>2. QED
  BY <1>1 DEF Injection, IsInjective
LEMMA FieldsAre ==
  ASSUME NEW C, NEW b \in Seq(C), NEW qs, Enumerates(b, Len(b) + 1, qs)
  PROVE  Fields(b) = Words(b, qs)
<1>1. PICK n \in Nat : n = Len(qs)
  BY DEF Enumerates
<1>2. PICK S : S = Stretches(b)
  OBVIOUS
<1>3. qs \in [1..n -> S] /\ InOrder(qs) /\ DOMAIN qs = 1..n
  BY <1>1, <1>2 DEF Enumerates
<1>4. \A p \in S : \E m \in 1..n : qs[m] = p
  <2>1. ASSUME NEW p \in Stretches(b) PROVE \E m \in 1..n : qs[m] = p
    <3>1. p[1] < Len(b) + 1
      <4>1. p[1] \in 1..Len(b) /\ Len(b) \in Nat
        BY StretchOf
      <4>2. QED
        BY <4>1
    <3>2. QED
      BY <1>3, <3>1 DEF Enumerates
  <2>2. QED
    BY <1>2, <2>1
<1>5. qs \in Bijection(1..n, S)
  BY <1>2, <1>3, <1>4, InOrderIsInjective DEF Bijection, Surjection
<1>6. IsFiniteSet(S) /\ Cardinality(S) = n
  <2>1. IsFiniteSet(1..n) /\ Cardinality(1..n) = n
    BY FS_Interval
  <2>2. ExistsBijection(1..n, S)
    BY <1>5 DEF ExistsBijection
  <2>3. QED
    BY <2>1, <2>2, FS_Bijection
<1>7. PICK r : r = CHOOSE q \in [1..Cardinality(S) -> S] : InOrder(q)
  OBVIOUS
<1>8. r \in [1..n -> S] /\ InOrder(r)
  BY <1>3, <1>6, <1>7
<1>9. \A p \in S : \E m \in 1..n : r[m] = p
  <2>1. r \in Injection(1..n, S)
    BY <1>2, <1>8, InOrderIsInjective
  <2>2. Cardinality(1..n) = Cardinality(S)
    BY <1>6, FS_Interval
  <2>3. r \in Surjection(1..n, S)
    BY <1>6, <2>1, <2>2, FS_Injection
  <2>4. QED
    BY <2>3 DEF Surjection
<1>10. r = qs
  <2>1. Lists(b, n, r) /\ Lists(b, n, qs)
    BY <1>2, <1>3, <1>4, <1>8, <1>9 DEF Lists
  <2>2. QED
    BY <2>1, OneOrder
<1>11. Fields(b) = [j \in DOMAIN r |-> SubSeq(b, r[j][1], r[j][2])]
  BY <1>2, <1>7 DEF Fields
<1>12. QED
  BY <1>10, <1>11 DEF Words
--------------------------------------------------------------------------------
(* The fold of ReadLength: f is the function that FoldLeft defines on the   *)
(* sets of the first n indices of s.                                        *)
FoldOn(f, n, s) ==
    f = [S \in SUBSET (1..n) |-> IF S = {} THEN 0 ELSE WithByte(f[S \ {Max(S)}], s[Max(S)])]
LEMMA FoldStep ==
  ASSUME NEW n \in Nat, NEW s, NEW f, FoldOn(f, n, s)
  PROVE  \E g : FoldOn(g, n + 1, s)
<1> DEFINE m == n + 1
           g == [S \in SUBSET (1..m) |-> IF m \in S THEN WithByte(f[S \ {m}], s[m]) ELSE f[S]]
           h == [S \in SUBSET (1..m) |-> IF S = {} THEN 0 ELSE WithByte(g[S \ {Max(S)}], s[Max(S)])]
<1>1. \A S \in SUBSET (1..m) : m \notin S => S \in SUBSET (1..n)
  OBVIOUS
<1>2. \A S \in SUBSET (1..m) : S \ {m} \in SUBSET (1..n) /\ m \notin S \ {m}
  OBVIOUS
<1>3. ASSUME NEW S \in SUBSET (1..m) PROVE g[S] = h[S]
  <2>1. CASE m \in S
    <3>1. Max(S) = m
      <4>1. PICK x : x = Max(S)
        OBVIOUS
      <4>2. x \in S /\ \A y \in S : y <= x
        <5>1. m \in Nat /\ S \in SUBSET (0..m) /\ S # {}
          BY <2>1
        <5>2. QED
          BY <4>1, <5>1, GreatestIn
      <4>3. x \in 1..m /\ m <= x
        BY <2>1, <4>2
      <4>4. x = m
        BY <4>3
      <4>5. QED
        BY <4>1, <4>4
    <3>2. S \ {m} \in SUBSET (1..m) /\ S \ {m} \in SUBSET (1..n) /\ m \notin S \ {m} /\ S # {}
      BY <2>1
    <3>3. g[S \ {m}] = f[S \ {m}]
      BY <3>2
    <3>4. h[S] = WithByte(g[S \ {m}], s[m])
      BY <3>1, <3>2
    <3>5. QED
      BY <2>1, <3>3, <3>4
  <2>2. CASE m \notin S
    <3>1. S \in SUBSET (1..n)
      BY <2>2
    <3>2. g[S] = f[S]
      BY <2>2
    <3>3. f[S] = IF S = {} THEN 0 ELSE WithByte(f[S \ {Max(S)}], s[Max(S)])
      BY <3>1 DEF FoldOn
    <3>4. g[S \ {Max(S)}] = f[S \ {Max(S)}]
      BY <2>2
    <3>5. QED
      BY <3>2, <3>3, <3>4
  <2>3. QED
    BY <2>1, <2>2
<1>4. FoldOn(g, m, s)
  <2>1. g = h
    BY <1>3
  <2>2. QED
    BY <2>1 DEF FoldOn
<1>5. QED
  BY <1>4

LEMMA FoldExists ==
  ASSUME NEW n \in Nat, NEW s
  PROVE  \E f : FoldOn(f, n, s)
<1> DEFINE Bad == {m \in Nat : ~\E f : FoldOn(f, m, s)}
<1>1. SUFFICES ASSUME n \in Bad PROVE FALSE
  OBVIOUS
<1>2. PICK m : m = Min(Bad)
  OBVIOUS
<1>3. m \in Bad /\ \A y \in Bad : m <= y
  <2>1. Bad \in SUBSET Nat /\ Bad # {}
    BY <1>1
  <2>2. QED
    BY <1>2, <2>1, LeastIn
<1>4. m \in Nat /\ ~\E f : FoldOn(f, m, s)
  BY <1>3
<1>5. m # 0
  <2>1. SUFFICES ASSUME m = 0 PROVE FALSE
    OBVIOUS
  <2>2. PICK f : f = [S \in SUBSET (1..0) |-> 0]
    OBVIOUS
  <2>3. \A S \in SUBSET (1..0) : S = {}
    OBVIOUS
  <2>4. f = [S \in SUBSET (1..0) |-> IF S = {} THEN 0 ELSE WithByte(f[S \ {Max(S)}], s[Max(S)])]
    BY <2>2, <2>3
  <2>5. FoldOn(f, 0, s)
    BY <2>4 DEF FoldOn
  <2>6. QED
    BY <1>4, <2>1, <2>5
<1>6. m - 1 \in Nat /\ m - 1 \notin Bad
  BY <1>3, <1>4, <1>5
<1>7. PICK f : FoldOn(f, m - 1, s)
  BY <1>6
<1>8. \E g : FoldOn(g, (m - 1) + 1, s)
  BY <1>6, <1>7, FoldStep
<1>9. (m - 1) + 1 = m
  BY <1>4
<1>10. QED
  BY <1>4, <1>8, <1>9
(* What ReadLength computes is the value of f for all the indices.          *)
LEMMA FoldValue ==
  ASSUME NEW s, NEW n \in Nat, DOMAIN s = 1..n
  PROVE  \E f : FoldOn(f, n, s) /\ FoldLeft(WithByte, 0, s) = f[1..n]
<1> DEFINE Body(f) == [S \in SUBSET (1..n) |->
                         IF S = {} THEN 0 ELSE WithByte(f[S \ {Max(S)}], s[Max(S)])]
           iter == CHOOSE f : f = Body(f)
<1>1. PICK f : f = Body(f)
  BY FoldExists DEF FoldOn
<1>2. iter = Body(iter)
  BY <1>1
<1>3. FoldLeft(WithByte, 0, s) = iter[1..n]
  BY DEF FoldLeft, MapThenFoldSet
<1>4. FoldOn(iter, n, s)
  BY <1>2 DEF FoldOn
<1>5. QED
  BY <1>3, <1>4
(* It goes from one prefix to the next. *)
LEMMA FoldPrefix ==
  ASSUME NEW s, NEW n \in Nat, NEW f, FoldOn(f, n, s), NEW i \in 1..n
  PROVE  f[1..0] = 0 /\ f[1..i] = WithByte(f[1..(i - 1)], s[i])
<1>1. f[1..0] = 0
  <2>1. 1..0 = {} /\ {} \in SUBSET (1..n)
    OBVIOUS
  <2>2. QED
    BY <2>1 DEF FoldOn
<1>2. PICK S : S = 1..i
  OBVIOUS
<1>3. /\ S \in SUBSET (1..n) /\ S # {} /\ i \in Nat /\ i \in S
      /\ S \in SUBSET (0..i)
  <2>1. i \in S /\ i \in Nat /\ S \in SUBSET (1..n)
    BY <1>2
  <2>2. \A x \in S : x \in 0..i
    BY <1>2
  <2>3. QED
    BY <2>1, <2>2
<1>4. Max(S) \in S /\ \A y \in S : y <= Max(S)
  BY <1>3, GreatestIn
<1>5. Max(S) = i
  BY <1>2, <1>3, <1>4
<1>6. S \ {i} = 1..(i - 1)
  BY <1>2, <1>3
<1>7. f[S] = WithByte(f[S \ {Max(S)}], s[Max(S)])
  BY <1>3 DEF FoldOn
<1>8. QED
  BY <1>1, <1>2, <1>5, <1>6, <1>7

LEMMA FoldIsNat ==
  ASSUME NEW s \in Seq(Nat), BYTE \in Nat
  PROVE  FoldLeft(WithByte, 0, s) \in Nat
<1>1. PICK n \in Nat : n = Len(s)
  OBVIOUS
<1>2. PICK f : FoldOn(f, n, s) /\ FoldLeft(WithByte, 0, s) = f[1..n]
  BY <1>1, FoldValue
<1> DEFINE Bad == {i \in 0..n : f[1..i] \notin Nat}
<1>3. ASSUME Bad # {} PROVE FALSE
  <2>1. PICK i : i = Min(Bad)
    OBVIOUS
  <2>2. i \in Bad /\ \A y \in Bad : i <= y
    <3>1. Bad \in SUBSET Nat
      OBVIOUS
    <3>2. QED
      BY <1>3, <2>1, <3>1, LeastIn
  <2>3. i # 0
    <3>1. CASE n = 0
      <4>1. f[1..0] = 0
        <5>1. 1..0 = {} /\ {} \in SUBSET (1..n)
          OBVIOUS
        <5>2. QED
          BY <1>2, <5>1 DEF FoldOn
      <4>2. QED
        BY <2>2, <4>1
    <3>2. CASE n # 0
      <4>1. 1 \in 1..n
        BY <1>1, <3>2
      <4>2. f[1..0] = 0
        BY <1>2, <4>1, FoldPrefix
      <4>3. QED
        BY <2>2, <4>2
    <3>3. QED
      BY <3>1, <3>2
  <2>4. i \in 1..n /\ i - 1 \in 0..n /\ i - 1 \notin Bad
    BY <1>1, <2>2, <2>3
  <2>5. PICK a \in Nat : a = f[1..(i - 1)]
    BY <2>4
  <2>6. f[1..i] = a * BYTE + s[i]
    <3>1. DOMAIN s = 1..n
      BY <1>1
    <3>2. f[1..i] = WithByte(f[1..(i - 1)], s[i])
      BY <1>2, <2>4, FoldPrefix
    <3>3. QED
      BY <2>5, <3>2 DEF WithByte
  <2>7. s[i] \in Nat
    BY <1>1, <2>4
  <2>8. a * BYTE \in Nat
    BY <2>5
  <2>9. QED
    BY <2>2, <2>6, <2>7, <2>8
<1>4. n \in 0..n
  BY <1>1
<1>5. QED
  BY <1>2, <1>3, <1>4
--------------------------------------------------------------------------------
(* The digits of a length, and the length that they give. *)
LEMMA Places ==
  ASSUME BYTE \in Nat
  PROVE  Place[0] = 1 /\ \A k \in 1..8 : Place[k] = BYTE * Place[k - 1]
<1> DEFINE Body(f) == [k \in 0..8 |-> IF k = 0 THEN 1 ELSE BYTE * f[k - 1]]
           b == BYTE
           f == [k \in 0..8 |-> IF k = 0 THEN 1 ELSE IF k = 1 THEN b * 1
                   ELSE IF k = 2 THEN b * (b * 1) ELSE IF k = 3 THEN b * (b * (b * 1))
                   ELSE IF k = 4 THEN b * (b * (b * (b * 1)))
                   ELSE IF k = 5 THEN b * (b * (b * (b * (b * 1))))
                   ELSE IF k = 6 THEN b * (b * (b * (b * (b * (b * 1)))))
                   ELSE IF k = 7 THEN b * (b * (b * (b * (b * (b * (b * 1))))))
                   ELSE b * (b * (b * (b * (b * (b * (b * (b * 1)))))))]
<1>1. f = Body(f)
  <2>1. ASSUME NEW k \in 0..8 PROVE f[k] = Body(f)[k]
    <3>1. k \in {0, 1, 2, 3, 4, 5, 6, 7, 8}
      OBVIOUS
    <3>2. QED
      BY <3>1
  <2>2. QED
    BY <2>1
<1>2. Place = CHOOSE g : g = Body(g)
  BY DEF Place
<1>3. Place = Body(Place)
  BY <1>1, <1>2
<1>4. QED
  BY <1>3
LEMMA PlacesArePositive ==
  ASSUME BYTE \in Nat \ {0}
  PROVE  \A k \in 0..8 : Place[k] \in Nat \ {0}
<1> DEFINE Bad == {k \in 0..8 : Place[k] \notin Nat \ {0}}
<1>1. SUFFICES ASSUME Bad # {} PROVE FALSE
  OBVIOUS
<1>2. PICK k : k = Min(Bad)
  OBVIOUS
<1>3. k \in Bad /\ \A y \in Bad : k <= y
  <2>1. Bad \in SUBSET Nat
    OBVIOUS
  <2>2. QED
    BY <1>1, <1>2, <2>1, LeastIn
<1>4. k # 0
  BY <1>3, Places
<1>5. k \in 1..8 /\ k - 1 \in 0..8 /\ k - 1 \notin Bad
  BY <1>3, <1>4
<1>6. PICK p \in Nat \ {0} : p = Place[k - 1]
  BY <1>5
<1>7. Place[k] = BYTE * p
  BY <1>5, <1>6, Places
<1>8. BYTE * p \in Nat \ {0}
  BY <1>6
<1>9. QED
  BY <1>3, <1>7, <1>8
LEMMA DivisionIs ==
  ASSUME NEW n \in Nat, NEW c \in Nat \ {0}, NEW q \in Nat, c * q <= n, n < c * q + c
  PROVE  n \div c = q
  OBVIOUS
LEMMA NestedDivision ==
  ASSUME NEW n \in Nat, NEW b \in Nat \ {0}, NEW p \in Nat \ {0}
  PROVE  (n \div (b * p)) * b + ((n \div p) % b) = n \div p
<1>1. PICK m \in Nat : m = n \div p
  OBVIOUS
<1>2. PICK q \in Nat : q = m \div b
  OBVIOUS
<1>3. PICK r \in 0..(b - 1) : r = m % b
  OBVIOUS
<1>4. p * m <= n /\ n < p * m + p
  BY <1>1
<1>5. m = b * q + r
  BY <1>2, <1>3
<1>6. b * p \in Nat \ {0}
  OBVIOUS
<1>7. p * m = (b * p) * q + p * r
  BY <1>5
<1>8. 0 <= p * r /\ p * r + p <= b * p
  <2>1. r + 1 <= b
    OBVIOUS
  <2>2. p * (r + 1) <= p * b
    BY <2>1
  <2>3. p * (r + 1) = p * r + p /\ p * b = b * p /\ p * r \in Nat
    OBVIOUS
  <2>4. QED
    BY <2>2, <2>3
<1>9. (b * p) * q <= n /\ n < (b * p) * q + b * p
  <2>1. PICK x, y, z \in Nat : x = (b * p) * q /\ y = p * r /\ z = b * p
    OBVIOUS
  <2>2. x + y <= n /\ n < x + y + p /\ y + p <= z /\ 0 <= y
    BY <1>4, <1>7, <1>8, <2>1
  <2>3. x <= n /\ n < x + z
    BY <2>1, <2>2
  <2>4. QED
    BY <2>1, <2>3
<1>10. n \div (b * p) = q
  BY <1>6, <1>9, DivisionIs
<1>11. q * b = b * q
  OBVIOUS
<1>12. QED
  BY <1>1, <1>3, <1>5, <1>10, <1>11
LEMMA ReadDigits ==
  ASSUME BYTE \in Nat \ {0}, NEW size \in 1..8, NEW n \in Nat, n < Place[size]
  PROVE  Digits(n, size) \in Seq(Nat) /\ Len(Digits(n, size)) = size
         /\ FoldLeft(WithByte, 0, Digits(n, size)) = n
<1>1. PICK s : s = Digits(n, size)
  OBVIOUS
<1>2. ASSUME NEW i \in 1..size PROVE (n \div Place[size - i]) % BYTE \in Nat
  <2>1. size - i \in 0..8
    OBVIOUS
  <2>2. PICK p \in Nat \ {0} : p = Place[size - i]
    BY <2>1, PlacesArePositive
  <2>3. PICK m \in Nat : m = n \div p
    BY <2>2
  <2>4. m % BYTE \in Nat
    BY <2>3
  <2>5. QED
    BY <2>2, <2>3, <2>4
<1>3. s = [i \in 1..size |-> (n \div Place[size - i]) % BYTE]
  BY <1>1 DEF Digits
<1>4. DOMAIN s = 1..size /\ \A i \in 1..size : s[i] = (n \div Place[size - i]) % BYTE
  BY <1>3
<1>5. s \in Seq(Nat) /\ Len(s) = size
  <2>1. s \in [1..size -> Nat]
    BY <1>2, <1>3
  <2>2. size \in Nat
    OBVIOUS
  <2>3. QED
    BY <2>1, <2>2
<1>6. PICK f : FoldOn(f, size, s) /\ FoldLeft(WithByte, 0, s) = f[1..size]
  <2>1. size \in Nat
    OBVIOUS
  <2>2. QED
    BY <1>4, <2>1, FoldValue
<1> DEFINE Bad == {i \in 0..size : f[1..i] # n \div Place[size - i]}
<1>7. ASSUME Bad # {} PROVE FALSE
  <2>1. PICK i : i = Min(Bad)
    OBVIOUS
  <2>2. i \in Bad /\ \A y \in Bad : i <= y
    <3>1. Bad \in SUBSET Nat
      OBVIOUS
    <3>2. QED
      BY <1>7, <2>1, <3>1, LeastIn
  <2>3. i # 0
    <3>1. 1 \in 1..size /\ size \in Nat /\ size - 0 = size
      OBVIOUS
    <3>2. f[1..0] = 0
      <4>1. PICK k \in Nat : k = size
        BY <3>1
      <4>2. FoldOn(f, k, s) /\ 1 \in 1..k
        BY <1>6, <3>1, <4>1
      <4>3. QED
        BY <4>2, FoldPrefix, ZenonT(40)
    <3>3. PICK p \in Nat \ {0} : p = Place[size]
      BY PlacesArePositive
    <3>4. n \div p = 0
      BY <3>3
    <3>5. QED
      BY <2>2, <3>1, <3>2, <3>3, <3>4
  <2>4. i \in 1..size /\ i - 1 \in 0..size /\ i - 1 \notin Bad
    BY <2>2, <2>3
  <2>5. PICK p \in Nat \ {0} : p = Place[size - i]
    <3>1. size - i \in 0..8
      BY <2>4
    <3>2. QED
      BY <3>1, PlacesArePositive
  <2>6. Place[size - (i - 1)] = BYTE * p
    <3>1. size - (i - 1) \in 1..8 /\ (size - (i - 1)) - 1 = size - i
      BY <2>4
    <3>2. PICK k \in 1..8 : k = size - (i - 1)
      BY <3>1
    <3>3. Place[k] = BYTE * Place[k - 1]
      BY Places
    <3>4. QED
      BY <2>5, <3>1, <3>2, <3>3
  <2>7. f[1..(i - 1)] = n \div (BYTE * p)
    BY <2>4, <2>6
  <2>8. f[1..i] = WithByte(f[1..(i - 1)], s[i])
    <3>1. size \in Nat
      OBVIOUS
    <3>2. QED
      BY <1>6, <2>4, <3>1, FoldPrefix
  <2>9. f[1..i] = (n \div (BYTE * p)) * BYTE + ((n \div p) % BYTE)
    BY <1>4, <2>4, <2>5, <2>7, <2>8 DEF WithByte
  <2>10. f[1..i] = n \div p
    BY <2>5, <2>9, NestedDivision
  <2>11. QED
    BY <2>2, <2>5, <2>10
<1>8. f[1..size] = n
  <2>1. size \in 0..size /\ size - size = 0
    OBVIOUS
  <2>2. f[1..size] = n \div Place[0]
    BY <1>7, <2>1
  <2>3. n \div 1 = n
    OBVIOUS
  <2>4. QED
    BY <2>2, <2>3, Places
<1>9. QED
  BY <1>1, <1>5, <1>6, <1>8
LEMMA PlacesGrow ==
  ASSUME BYTE \in Nat \ {0, 1}
  PROVE  \A k \in 0..8 : Place[k] <= Place[8] /\ (k < 8 => Place[k] < Place[8])
<1>1. \A k \in 0..8 : Place[k] \in Nat \ {0}
  BY PlacesArePositive
<1>2. ASSUME NEW k \in 0..7 PROVE Place[k] < Place[k + 1]
  <2>1. k \in 0..8 /\ k + 1 \in 1..8 /\ (k + 1) - 1 = k
    OBVIOUS
  <2>2. PICK p \in Nat \ {0} : p = Place[k]
    BY <1>1, <2>1
  <2>3. PICK j \in 1..8 : j = k + 1
    BY <2>1
  <2>4. Place[j] = BYTE * Place[j - 1]
    BY Places
  <2>5. p < BYTE * p
    OBVIOUS
  <2>6. QED
    BY <2>1, <2>2, <2>3, <2>4, <2>5
<1> DEFINE Bad == {d \in 1..8 : ~(Place[8 - d] < Place[8])}
<1>3. ASSUME Bad # {} PROVE FALSE
  <2>1. PICK d : d = Min(Bad)
    OBVIOUS
  <2>2. d \in Bad /\ \A y \in Bad : d <= y
    <3>1. Bad \in SUBSET Nat
      OBVIOUS
    <3>2. QED
      BY <1>3, <2>1, <3>1, LeastIn
  <2>3. PICK k \in 0..7 : k = 8 - d
    BY <2>2
  <2>4. Place[k] < Place[k + 1] /\ ~(Place[k] < Place[8])
    BY <1>2, <2>2, <2>3
  <2>5. k + 1 = 8 \/ Place[k + 1] < Place[8]
    <3>1. k + 1 = 8 \/ (d - 1 \in 1..8 /\ d - 1 \notin Bad /\ 8 - (d - 1) = k + 1)
      BY <2>2, <2>3
    <3>2. QED
      BY <3>1
  <2>6. Place[k] \in Nat /\ Place[k + 1] \in Nat /\ Place[8] \in Nat
    <3>1. k \in 0..8 /\ k + 1 \in 0..8 /\ 8 \in 0..8
      OBVIOUS
    <3>2. QED
      BY <1>1, <3>1
  <2>7. QED
    BY <2>4, <2>5, <2>6
<1>4. ASSUME NEW k \in 0..8 PROVE Place[k] <= Place[8] /\ (k < 8 => Place[k] < Place[8])
  <2>1. CASE k = 8
    BY <1>1, <2>1
  <2>2. CASE k # 8
    <3>1. 8 - k \in 1..8 /\ 8 - (8 - k) = k /\ 8 \in 0..8
      BY <2>2
    <3>2. 8 - k \notin Bad
      BY <1>3
    <3>3. Place[k] < Place[8]
      BY <3>1, <3>2
    <3>4. QED
      BY <1>1, <3>1, <3>3
  <2>3. QED
    BY <2>1, <2>2
<1>5. QED
  BY <1>4
(* Every length that eight bytes can hold is read as ws_send has written it. *)
LEMMA LengthIsRead ==
  ASSUME NEW n \in Nat, n < Place[8]
  PROVE  LET field == LengthField(n)
         IN  /\ ReadLength(field.code, field.ext) = n
             /\ Len(field.ext) = ExtSize(field.code)
             /\ (field.code = EIGHT) = (n >= Place[2])
<1>1. /\ BYTE \in Nat \ {0, 1} /\ BYTE \in Nat \ {0} /\ MAX7 \in 0..(BYTE * BYTE - 1) /\ BYTE * BYTE \in Nat
      /\ MAX7 \in Nat /\ MAX7 < BYTE * BYTE
  BY WireAssumption
<1>2. TWO = MAX7 + 1 /\ EIGHT = MAX7 + 2 /\ TWO # EIGHT
  BY <1>1 DEF TWO, EIGHT
<1>3. Place[2] = BYTE * BYTE
  <2>1. 1 \in 1..8 /\ 2 \in 1..8 /\ 1 - 1 = 0 /\ 2 - 1 = 1 /\ BYTE * 1 = BYTE
    BY <1>1
  <2>2. Place[1] = BYTE * Place[0] /\ Place[2] = BYTE * Place[1]
    BY <1>1, <2>1, Places
  <2>3. QED
    BY <1>1, <2>1, <2>2, Places
<1>4. PICK field : field = LengthField(n)
  OBVIOUS
<1>5. CASE n <= MAX7
  <2>1. field.code = n /\ field.ext = <<>> /\ n # TWO /\ n # EIGHT
    BY <1>1, <1>2, <1>4, <1>5 DEF LengthField
  <2>2. ~(n >= Place[2])
    BY <1>1, <1>3, <1>5
  <2>3. QED
    BY <1>4, <2>1, <2>2 DEF ReadLength, ExtSize
<1>6. CASE ~(n <= MAX7) /\ n < BYTE * BYTE
  <2>1. field.code = TWO /\ field.ext = Digits(n, 2)
    BY <1>4, <1>6 DEF LengthField
  <2>2. FoldLeft(WithByte, 0, Digits(n, 2)) = n /\ Len(Digits(n, 2)) = 2
    <3>1. 2 \in 1..8 /\ n < Place[2]
      BY <1>3, <1>6
    <3>2. QED
      BY <1>1, <3>1, ReadDigits
  <2>3. ~(n >= Place[2])
    BY <1>1, <1>3, <1>6
  <2>4. QED
    BY <1>2, <1>4, <2>1, <2>2, <2>3 DEF ReadLength, ExtSize
<1>7. CASE ~(n <= MAX7) /\ ~(n < BYTE * BYTE)
  <2>1. field.code = EIGHT /\ field.ext = Digits(n, 8)
    BY <1>4, <1>7 DEF LengthField
  <2>2. FoldLeft(WithByte, 0, Digits(n, 8)) = n /\ Len(Digits(n, 8)) = 8
    <3>1. 8 \in 1..8
      OBVIOUS
    <3>2. QED
      BY <1>1, <3>1, ReadDigits
  <2>3. n >= Place[2]
    BY <1>1, <1>3, <1>7
  <2>4. QED
    BY <1>2, <1>4, <2>1, <2>2, <2>3 DEF ReadLength, ExtSize
<1>8. QED
  BY <1>5, <1>6, <1>7
(* ws_send and ws_recv agree on every length of up to eight bytes, however  *)
(* many values a byte has and however long the short form reaches.          *)
THEOREM LengthsAreRead == Spec => []LengthsAgree
<1>1. ASSUME NEW n \in (0..Place[3]) \cup {Place[k] - 1 : k \in 4..8}
      PROVE  n \in Nat /\ n < Place[8]
  <2>1. BYTE \in Nat \ {0, 1} /\ BYTE \in Nat \ {0}
    BY WireAssumption
  <2>2. \A k \in 0..8 : Place[k] \in Nat \ {0} /\ Place[k] <= Place[8] /\ (k < 8 => Place[k] < Place[8])
    BY <2>1, PlacesArePositive, PlacesGrow
  <2>3. 3 \in 0..8 /\ \A k \in 4..8 : k \in 0..8
    OBVIOUS
  <2>4. CASE n \in 0..Place[3]
    <3>1. PICK p, q \in Nat : p = Place[3] /\ q = Place[8] /\ p < q
      BY <2>2
    <3>2. QED
      BY <2>4, <3>1
  <2>5. CASE n \in {Place[k] - 1 : k \in 4..8}
    <3>1. PICK k \in 4..8 : n = Place[k] - 1
      BY <2>5
    <3>2. PICK p, q \in Nat : p = Place[k] /\ q = Place[8] /\ p # 0 /\ p <= q
      BY <2>2, <2>3
    <3>3. QED
      BY <3>1, <3>2
  <2>6. QED
    BY <2>4, <2>5
<1>2. LengthsAgree
  BY <1>1, LengthIsRead DEF LengthsAgree
<1>3. QED
  BY <1>2, PTL
--------------------------------------------------------------------------------
(* Bit m of a byte, the high one first; and a byte from what is left of it  *)
(* after each of its bits.                                                  *)
BitOf(b, m) == (b \div Weight[m + 1]) % 2
LEMMA Rests ==
  ASSUME NEW b \in Nat, NEW q2 \in Nat, NEW q4 \in Nat, NEW q6 \in Nat,
         NEW r2 \in Nat, NEW r4 \in Nat, NEW r6 \in Nat,
         NEW a2 \in Nat, NEW a3 \in Nat, NEW a4 \in Nat, NEW a5 \in Nat, NEW a6 \in Nat,
         NEW a7 \in Nat,
         b = 2 * (2 * q2 + a6) + a7, b = 4 * q2 + r2,
         q2 = 2 * (2 * q4 + a4) + a5, b = 16 * q4 + r4,
         q4 = 2 * (2 * q6 + a2) + a3, b = 64 * q6 + r6
  PROVE  /\ r2 = 2 * a6 + a7 /\ r4 = 8 * a4 + 4 * a5 + 2 * a6 + a7
         /\ r6 = 32 * a2 + 16 * a3 + 8 * a4 + 4 * a5 + 2 * a6 + a7
  OBVIOUS
(* Six bits out of two bytes are what they are of each. *)
LEMMA Rejoined ==
  ASSUME NEW x6 \in Nat, NEW x7 \in Nat,
         NEW y0 \in Nat, NEW y1 \in Nat, NEW y2 \in Nat, NEW y3 \in Nat
  PROVE  /\ 32 * x6 + 16 * x7 + 8 * y0 + 4 * y1 + 2 * y2 + y3
               = 16 * (2 * x6 + x7) + (8 * y0 + 4 * y1 + 2 * y2 + y3)
         /\ 32 * y0 + 16 * y1 + 8 * y2 + 4 * y3 + 2 * x6 + x7
               = 4 * (8 * y0 + 4 * y1 + 2 * y2 + y3) + (2 * x6 + x7)
  OBVIOUS
(* The quotients and remainders of a byte that base64 takes, by its bits. *)
LEMMA ByteBits ==
  ASSUME NEW b \in 0..255
  PROVE  /\ BitOf(b, 0) \in Nat /\ BitOf(b, 1) \in Nat /\ BitOf(b, 2) \in Nat /\ BitOf(b, 3) \in Nat
         /\ BitOf(b, 4) \in Nat /\ BitOf(b, 5) \in Nat /\ BitOf(b, 6) \in Nat /\ BitOf(b, 7) \in Nat
         /\ b \div 4 = 32 * BitOf(b, 0) + 16 * BitOf(b, 1) + 8 * BitOf(b, 2) + 4 * BitOf(b, 3)
                       + 2 * BitOf(b, 4) + BitOf(b, 5)
         /\ b % 4 = 2 * BitOf(b, 6) + BitOf(b, 7)
         /\ b \div 16 = 8 * BitOf(b, 0) + 4 * BitOf(b, 1) + 2 * BitOf(b, 2) + BitOf(b, 3)
         /\ b % 16 = 8 * BitOf(b, 4) + 4 * BitOf(b, 5) + 2 * BitOf(b, 6) + BitOf(b, 7)
         /\ b \div 64 = 2 * BitOf(b, 0) + BitOf(b, 1)
         /\ b % 64 = 32 * BitOf(b, 2) + 16 * BitOf(b, 3) + 8 * BitOf(b, 4) + 4 * BitOf(b, 5)
                     + 2 * BitOf(b, 6) + BitOf(b, 7)
<1>1. /\ BitOf(b, 0) = (b \div 128) % 2 /\ BitOf(b, 1) = (b \div 64) % 2
      /\ BitOf(b, 2) = (b \div 32) % 2 /\ BitOf(b, 3) = (b \div 16) % 2
      /\ BitOf(b, 4) = (b \div 8) % 2 /\ BitOf(b, 5) = (b \div 4) % 2
      /\ BitOf(b, 6) = (b \div 2) % 2 /\ BitOf(b, 7) = (b \div 1) % 2
  BY DEF BitOf, Weight
<1>2. \A x \in Nat : x % 2 \in {0, 1} /\ x = 2 * (x \div 2) + (x % 2) /\ x \div 2 \in Nat
  OBVIOUS
<1>3. /\ b \in Nat /\ b \div 1 = b /\ b \div 2 \in Nat /\ b \div 4 \in Nat /\ b \div 8 \in Nat
      /\ b \div 16 \in Nat /\ b \div 32 \in Nat /\ b \div 64 \in Nat
      /\ b \div 128 \in {0, 1}
  OBVIOUS
<1>4. /\ b \div 4 = (b \div 2) \div 2 /\ b \div 8 = (b \div 4) \div 2
      /\ b \div 16 = (b \div 8) \div 2 /\ b \div 32 = (b \div 16) \div 2
      /\ b \div 64 = (b \div 32) \div 2 /\ b \div 128 = (b \div 64) \div 2
  OBVIOUS
<1>11. /\ BitOf(b, 0) \in Nat /\ BitOf(b, 1) \in Nat /\ BitOf(b, 2) \in Nat /\ BitOf(b, 3) \in Nat
       /\ BitOf(b, 4) \in Nat /\ BitOf(b, 5) \in Nat /\ BitOf(b, 6) \in Nat /\ BitOf(b, 7) \in Nat
  <2>1. /\ (b \div 128) % 2 \in Nat /\ (b \div 64) % 2 \in Nat /\ (b \div 32) % 2 \in Nat
        /\ (b \div 16) % 2 \in Nat /\ (b \div 8) % 2 \in Nat /\ (b \div 4) % 2 \in Nat
        /\ (b \div 2) % 2 \in Nat /\ (b \div 1) % 2 \in Nat
    OBVIOUS
  <2>2. QED
    BY <1>1, <2>1
<1>5. /\ b = 4 * (b \div 4) + (b % 4) /\ b = 16 * (b \div 16) + (b % 16)
      /\ b = 64 * (b \div 64) + (b % 64)
      /\ b % 4 \in Nat /\ b % 16 \in Nat /\ b % 64 \in Nat
  OBVIOUS
<1>6. PICK q1 \in Nat, q2 \in Nat, q3 \in Nat, q4 \in Nat, q5 \in Nat, q6 \in Nat, q7 \in {0, 1} :
        /\ q1 = b \div 2 /\ q2 = b \div 4 /\ q3 = b \div 8 /\ q4 = b \div 16
        /\ q5 = b \div 32 /\ q6 = b \div 64 /\ q7 = b \div 128
  BY <1>3
<1>7. /\ BitOf(b, 7) \in {0, 1} /\ b = 2 * q1 + BitOf(b, 7)
      /\ BitOf(b, 6) \in {0, 1} /\ q1 = 2 * q2 + BitOf(b, 6)
      /\ BitOf(b, 5) \in {0, 1} /\ q2 = 2 * q3 + BitOf(b, 5)
      /\ BitOf(b, 4) \in {0, 1} /\ q3 = 2 * q4 + BitOf(b, 4)
      /\ BitOf(b, 3) \in {0, 1} /\ q4 = 2 * q5 + BitOf(b, 3)
      /\ BitOf(b, 2) \in {0, 1} /\ q5 = 2 * q6 + BitOf(b, 2)
      /\ BitOf(b, 1) \in {0, 1} /\ q6 = 2 * q7 + BitOf(b, 1)
      /\ BitOf(b, 0) \in {0, 1} /\ BitOf(b, 0) = q7
  BY <1>1, <1>2, <1>3, <1>4, <1>6
<1>8. PICK r2 \in Nat, r4 \in Nat, r6 \in Nat :
        r2 = b % 4 /\ r4 = b % 16 /\ r6 = b % 64
        /\ b = 4 * q2 + r2 /\ b = 16 * q4 + r4 /\ b = 64 * q6 + r6
  BY <1>5, <1>6
<1>9. /\ q2 = 32 * BitOf(b, 0) + 16 * BitOf(b, 1) + 8 * BitOf(b, 2) + 4 * BitOf(b, 3) + 2 * BitOf(b, 4) + BitOf(b, 5)
      /\ r2 = 2 * BitOf(b, 6) + BitOf(b, 7)
      /\ q4 = 8 * BitOf(b, 0) + 4 * BitOf(b, 1) + 2 * BitOf(b, 2) + BitOf(b, 3)
      /\ r4 = 8 * BitOf(b, 4) + 4 * BitOf(b, 5) + 2 * BitOf(b, 6) + BitOf(b, 7)
      /\ q6 = 2 * BitOf(b, 0) + BitOf(b, 1)
      /\ r6 = 32 * BitOf(b, 2) + 16 * BitOf(b, 3) + 8 * BitOf(b, 4) + 4 * BitOf(b, 5) + 2 * BitOf(b, 6) + BitOf(b, 7)
  <2>1. PICK a0 \in Nat, a1 \in Nat, a2 \in Nat, a3 \in Nat,
             a4 \in Nat, a5 \in Nat, a6 \in Nat, a7 \in Nat :
          /\ a0 = BitOf(b, 0) /\ a1 = BitOf(b, 1) /\ a2 = BitOf(b, 2) /\ a3 = BitOf(b, 3)
          /\ a4 = BitOf(b, 4) /\ a5 = BitOf(b, 5) /\ a6 = BitOf(b, 6) /\ a7 = BitOf(b, 7)
    BY <1>11, Zenon
  <2>2. /\ b = 2 * q1 + a7 /\ q1 = 2 * q2 + a6 /\ q2 = 2 * q3 + a5 /\ q3 = 2 * q4 + a4
        /\ q4 = 2 * q5 + a3 /\ q5 = 2 * q6 + a2 /\ q6 = 2 * q7 + a1 /\ q7 = a0
    BY <1>7, <2>1
  <2>3. /\ q6 = 2 * a0 + a1 /\ q4 = 8 * a0 + 4 * a1 + 2 * a2 + a3
        /\ q2 = 32 * a0 + 16 * a1 + 8 * a2 + 4 * a3 + 2 * a4 + a5
    BY <2>2
  <2>4. /\ r2 = 2 * a6 + a7 /\ r4 = 8 * a4 + 4 * a5 + 2 * a6 + a7
        /\ r6 = 32 * a2 + 16 * a3 + 8 * a4 + 4 * a5 + 2 * a6 + a7
    <3>1. /\ b = 2 * (2 * q2 + a6) + a7 /\ b = 4 * q2 + r2
          /\ q2 = 2 * (2 * q4 + a4) + a5 /\ b = 16 * q4 + r4
          /\ q4 = 2 * (2 * q6 + a2) + a3 /\ b = 64 * q6 + r6
      BY <1>8, <2>2
    <3>2. q2 \in Nat /\ q4 \in Nat /\ q6 \in Nat /\ r2 \in Nat /\ r4 \in Nat /\ r6 \in Nat
      BY <1>6, <1>8
    <3>3. /\ a2 \in Nat /\ a3 \in Nat /\ a4 \in Nat /\ a5 \in Nat /\ a6 \in Nat /\ a7 \in Nat
      BY <2>1
    <3>4. QED
      BY <3>1, <3>2, <3>3, Rests
  <2>5. QED
    BY <2>1, <2>3, <2>4
<1>12. /\ q2 = b \div 4 /\ r2 = b % 4 /\ q4 = b \div 16 /\ r4 = b % 16
       /\ q6 = b \div 64 /\ r6 = b % 64
  BY <1>6, <1>8
<1>13. QED
  BY <1>9, <1>11, <1>12, Zenon

(* What the shifts take from three bytes. *)
Joint(b1, b2, b3) == b1 * 65536 + b2 * 256 + b3
FirstSix(val)  == (val \div 262144) % 64
SecondSix(val) == (val \div 4096) % 64
ThirdSix(val)  == (val \div 64) % 64
FourthSix(val) == val % 64
LEMMA Shifts ==
  ASSUME NEW b1 \in 0..255, NEW b2 \in 0..255, NEW b3 \in 0..255
  PROVE  /\ FirstSix(Joint(b1, b2, b3)) = b1 \div 4
         /\ SecondSix(Joint(b1, b2, b3)) = 16 * (b1 % 4) + b2 \div 16
         /\ ThirdSix(Joint(b1, b2, b3)) = 4 * (b2 % 16) + b3 \div 64
         /\ FourthSix(Joint(b1, b2, b3)) = b3 % 64
<1> DEFINE val == Joint(b1, b2, b3)
<1>1. PICK h1 \in 0..63, l1 \in 0..3 : b1 = 4 * h1 + l1 /\ h1 = b1 \div 4 /\ l1 = b1 % 4
  OBVIOUS
<1>2. PICK h2 \in 0..15, l2 \in 0..15 : b2 = 16 * h2 + l2 /\ h2 = b2 \div 16 /\ l2 = b2 % 16
  OBVIOUS
<1>3. PICK h3 \in 0..3, l3 \in 0..63 : b3 = 64 * h3 + l3 /\ h3 = b3 \div 64 /\ l3 = b3 % 64
  OBVIOUS
<1>4. val \div 262144 = h1
  BY <1>1, <1>2, <1>3 DEF Joint
<1>5. val \div 4096 = 64 * h1 + (16 * l1 + h2)
  BY <1>1, <1>2, <1>3 DEF Joint
<1>6. val \div 64 = 64 * (64 * h1 + 16 * l1 + h2) + (4 * l2 + h3)
  BY <1>1, <1>2, <1>3 DEF Joint
<1>7. val % 64 = l3
  BY <1>1, <1>2, <1>3 DEF Joint
<1>8. \A h \in Nat : \A m \in 0..63 : (64 * h + m) % 64 = m
  OBVIOUS
<1> HIDE DEF val
<1>10. /\ (val \div 262144) % 64 = b1 \div 4
       /\ (val \div 4096) % 64 = 16 * (b1 % 4) + b2 \div 16
       /\ (val \div 64) % 64 = 4 * (b2 % 16) + b3 \div 64
       /\ val % 64 = b3 % 64
  BY <1>1, <1>2, <1>3, <1>4, <1>5, <1>6, <1>7, <1>8
<1>9. QED
  BY <1>10 DEF val, FirstSix, SecondSix, ThirdSix, FourthSix

(* The bytes of a group, and a bit of the input in its group. *)
ByteOf(input, i, k) == IF i + k <= Len(input) THEN input[i + k] ELSE 0
LEMMA GroupBit ==
  ASSUME NEW n \in Nat, NEW input \in [1..n -> 0..255], Len(input) = n, NEW i \in Nat,
         NEW h \in 1..3, NEW m \in 0..7
  PROVE  /\ ByteOf(input, i, h) \in 0..255
         /\ Bit(input, 8 * i + 8 * (h - 1) + m) = BitOf(ByteOf(input, i, h), m)
<1>1. PICK k \in Nat : k = 8 * i + 8 * (h - 1) + m
  OBVIOUS
<1>2. k \div 8 + 1 = i + h /\ k % 8 = m
  BY <1>1
<1>3. k < 8 * n <=> i + h <= n
  BY <1>1
<1>4. PICK b : b = ByteOf(input, i, h)
  OBVIOUS
<1>5. CASE i + h <= n
  <2>1. i + h \in 1..n /\ b = input[i + h]
    BY <1>4, <1>5 DEF ByteOf
  <2>2. Bit(input, k) = (input[i + h] \div Weight[m + 1]) % 2
    BY <1>2, <1>3, <1>5 DEF Bit
  <2>3. Bit(input, k) = BitOf(b, m) /\ b \in 0..255
    BY <2>1, <2>2 DEF BitOf
  <2>4. QED
    BY <1>1, <1>4, <2>3
<1>6. CASE ~(i + h <= n)
  <2>1. b = 0 /\ Bit(input, k) = 0
    BY <1>3, <1>4, <1>6 DEF ByteOf, Bit
  <2>2. Weight[m + 1] \in Nat \ {0}
    BY DEF Weight
  <2>3. BitOf(b, m) = 0
    <3>1. PICK w \in Nat \ {0} : w = Weight[m + 1]
      BY <2>2
    <3>2. 0 \div w = 0
      OBVIOUS
    <3>3. QED
      BY <2>1, <3>1, <3>2 DEF BitOf
  <2>4. QED
    BY <1>1, <1>4, <2>1, <2>3
<1>7. QED
  BY <1>5, <1>6

(* A character of a group. *)
LEMMA SextetIs ==
  ASSUME NEW n \in Nat, NEW input \in [1..n -> 0..255], Len(input) = n, NEW i \in Nat
  PROVE  /\ Sextet(input, 8 * i) = ByteOf(input, i, 1) \div 4
         /\ Sextet(input, 8 * i + 6) = 16 * (ByteOf(input, i, 1) % 4) + ByteOf(input, i, 2) \div 16
         /\ Sextet(input, 8 * i + 12) = 4 * (ByteOf(input, i, 2) % 16) + ByteOf(input, i, 3) \div 64
         /\ Sextet(input, 8 * i + 18) = ByteOf(input, i, 3) % 64
<1>1. PICK b1 \in 0..255, b2 \in 0..255, b3 \in 0..255 :
         b1 = ByteOf(input, i, 1) /\ b2 = ByteOf(input, i, 2) /\ b3 = ByteOf(input, i, 3)
  <2>1. 0 \in 0..7
    OBVIOUS
  <2>2. \A h \in 1..3 : ByteOf(input, i, h) \in 0..255
    BY <2>1, GroupBit
  <2>3. ByteOf(input, i, 1) \in 0..255 /\ ByteOf(input, i, 2) \in 0..255 /\ ByteOf(input, i, 3) \in 0..255
    BY <2>2
  <2>4. QED
    BY <2>3, Zenon
<1>2. \A m \in 0..7 : /\ Bit(input, 8 * i + m) = BitOf(b1, m)
                      /\ Bit(input, 8 * i + 8 + m) = BitOf(b2, m)
                      /\ Bit(input, 8 * i + 16 + m) = BitOf(b3, m)
  <2> SUFFICES ASSUME NEW m \in 0..7
               PROVE  /\ Bit(input, 8 * i + m) = BitOf(b1, m)
                      /\ Bit(input, 8 * i + 8 + m) = BitOf(b2, m)
                      /\ Bit(input, 8 * i + 16 + m) = BitOf(b3, m)
    OBVIOUS
  <2>1. \A h \in 1..3 : Bit(input, 8 * i + 8 * (h - 1) + m) = BitOf(ByteOf(input, i, h), m)
    BY GroupBit
  <2>2. /\ 8 * i + 8 * (1 - 1) + m = 8 * i + m /\ 8 * i + 8 * (2 - 1) + m = 8 * i + 8 + m
        /\ 8 * i + 8 * (3 - 1) + m = 8 * i + 16 + m /\ 1 \in 1..3 /\ 2 \in 1..3 /\ 3 \in 1..3
    OBVIOUS
  <2>3. /\ Bit(input, 8 * i + 8 * (1 - 1) + m) = BitOf(b1, m)
        /\ Bit(input, 8 * i + 8 * (2 - 1) + m) = BitOf(b2, m)
        /\ Bit(input, 8 * i + 8 * (3 - 1) + m) = BitOf(b3, m)
    BY <1>1, <2>1, <2>2
  <2>4. QED
    BY <2>2, <2>3
<1>3. PICK k \in Nat : k = 8 * i
  OBVIOUS
<1>4. /\ Bit(input, k) = BitOf(b1, 0) /\ Bit(input, k + 1) = BitOf(b1, 1)
      /\ Bit(input, k + 2) = BitOf(b1, 2) /\ Bit(input, k + 3) = BitOf(b1, 3)
      /\ Bit(input, k + 4) = BitOf(b1, 4) /\ Bit(input, k + 5) = BitOf(b1, 5)
      /\ Bit(input, k + 6) = BitOf(b1, 6) /\ Bit(input, k + 7) = BitOf(b1, 7)
      /\ Bit(input, k + 8) = BitOf(b2, 0) /\ Bit(input, k + 9) = BitOf(b2, 1)
      /\ Bit(input, k + 10) = BitOf(b2, 2) /\ Bit(input, k + 11) = BitOf(b2, 3)
      /\ Bit(input, k + 12) = BitOf(b2, 4) /\ Bit(input, k + 13) = BitOf(b2, 5)
      /\ Bit(input, k + 14) = BitOf(b2, 6) /\ Bit(input, k + 15) = BitOf(b2, 7)
      /\ Bit(input, k + 16) = BitOf(b3, 0) /\ Bit(input, k + 17) = BitOf(b3, 1)
      /\ Bit(input, k + 18) = BitOf(b3, 2) /\ Bit(input, k + 19) = BitOf(b3, 3)
      /\ Bit(input, k + 20) = BitOf(b3, 4) /\ Bit(input, k + 21) = BitOf(b3, 5)
      /\ Bit(input, k + 22) = BitOf(b3, 6) /\ Bit(input, k + 23) = BitOf(b3, 7)
  BY <1>2, <1>3
<1>5. /\ Sextet(input, k) = 32 * BitOf(b1, 0) + 16 * BitOf(b1, 1) + 8 * BitOf(b1, 2) + 4 * BitOf(b1, 3)
                            + 2 * BitOf(b1, 4) + BitOf(b1, 5)
      /\ Sextet(input, k + 6) = 32 * BitOf(b1, 6) + 16 * BitOf(b1, 7) + 8 * BitOf(b2, 0)
                            + 4 * BitOf(b2, 1) + 2 * BitOf(b2, 2) + BitOf(b2, 3)
      /\ Sextet(input, k + 12) = 32 * BitOf(b2, 4) + 16 * BitOf(b2, 5) + 8 * BitOf(b2, 6)
                            + 4 * BitOf(b2, 7) + 2 * BitOf(b3, 0) + BitOf(b3, 1)
      /\ Sextet(input, k + 18) = 32 * BitOf(b3, 2) + 16 * BitOf(b3, 3) + 8 * BitOf(b3, 4)
                            + 4 * BitOf(b3, 5) + 2 * BitOf(b3, 6) + BitOf(b3, 7)
  <2>1. /\ k + 6 + 1 = k + 7 /\ k + 6 + 2 = k + 8 /\ k + 6 + 3 = k + 9 /\ k + 6 + 4 = k + 10
        /\ k + 6 + 5 = k + 11
        /\ k + 12 + 1 = k + 13 /\ k + 12 + 2 = k + 14 /\ k + 12 + 3 = k + 15 /\ k + 12 + 4 = k + 16
        /\ k + 12 + 5 = k + 17
        /\ k + 18 + 1 = k + 19 /\ k + 18 + 2 = k + 20 /\ k + 18 + 3 = k + 21 /\ k + 18 + 4 = k + 22
        /\ k + 18 + 5 = k + 23
    OBVIOUS
  <2>2. QED
    BY <1>4, <2>1 DEF Sextet
<1>6. /\ Sextet(input, k) = b1 \div 4
      /\ Sextet(input, k + 18) = b3 % 64
  BY <1>1, <1>5, ByteBits
<1>7. Sextet(input, k + 6) = 16 * (b1 % 4) + b2 \div 16
  <2>1. PICK x6 \in Nat, x7 \in Nat, y0 \in Nat, y1 \in Nat, y2 \in Nat, y3 \in Nat :
          /\ x6 = BitOf(b1, 6) /\ x7 = BitOf(b1, 7)
          /\ y0 = BitOf(b2, 0) /\ y1 = BitOf(b2, 1) /\ y2 = BitOf(b2, 2) /\ y3 = BitOf(b2, 3)
    <3>1. BitOf(b1, 6) \in Nat /\ BitOf(b1, 7) \in Nat
      BY <1>1, ByteBits
    <3>2. /\ BitOf(b2, 0) \in Nat /\ BitOf(b2, 1) \in Nat /\ BitOf(b2, 2) \in Nat /\ BitOf(b2, 3) \in Nat
      BY <1>1, ByteBits
    <3>3. QED
      BY <3>1, <3>2, Zenon
  <2>2. b1 % 4 = 2 * x6 + x7 /\ b2 \div 16 = 8 * y0 + 4 * y1 + 2 * y2 + y3
    BY <1>1, <2>1, ByteBits
  <2>3. Sextet(input, k + 6) = 32 * x6 + 16 * x7 + 8 * y0 + 4 * y1 + 2 * y2 + y3
    BY <1>5, <2>1
  <2>4. 32 * x6 + 16 * x7 + 8 * y0 + 4 * y1 + 2 * y2 + y3
          = 16 * (2 * x6 + x7) + (8 * y0 + 4 * y1 + 2 * y2 + y3)
    <3>1. x6 \in Nat /\ x7 \in Nat /\ y0 \in Nat /\ y1 \in Nat /\ y2 \in Nat /\ y3 \in Nat
      BY <2>1
    <3>2. QED
      BY <3>1
  <2>5. QED
    BY <2>2, <2>3, <2>4, Zenon
<1>8. Sextet(input, k + 12) = 4 * (b2 % 16) + b3 \div 64
  <2>1. PICK y4 \in Nat, y5 \in Nat, y6 \in Nat, y7 \in Nat, z0 \in Nat, z1 \in Nat :
          /\ y4 = BitOf(b2, 4) /\ y5 = BitOf(b2, 5) /\ y6 = BitOf(b2, 6) /\ y7 = BitOf(b2, 7)
          /\ z0 = BitOf(b3, 0) /\ z1 = BitOf(b3, 1)
    <3>1. BitOf(b3, 0) \in Nat /\ BitOf(b3, 1) \in Nat
      BY <1>1, ByteBits
    <3>2. /\ BitOf(b2, 4) \in Nat /\ BitOf(b2, 5) \in Nat /\ BitOf(b2, 6) \in Nat /\ BitOf(b2, 7) \in Nat
      BY <1>1, ByteBits
    <3>3. QED
      BY <3>1, <3>2, Zenon
  <2>2. b3 \div 64 = 2 * z0 + z1 /\ b2 % 16 = 8 * y4 + 4 * y5 + 2 * y6 + y7
    BY <1>1, <2>1, ByteBits
  <2>3. Sextet(input, k + 12) = 32 * y4 + 16 * y5 + 8 * y6 + 4 * y7 + 2 * z0 + z1
    BY <1>5, <2>1
  <2>4. 32 * y4 + 16 * y5 + 8 * y6 + 4 * y7 + 2 * z0 + z1
          = 4 * (8 * y4 + 4 * y5 + 2 * y6 + y7) + (2 * z0 + z1)
    <3>1. y4 \in Nat /\ y5 \in Nat /\ y6 \in Nat /\ y7 \in Nat /\ z0 \in Nat /\ z1 \in Nat
      BY <2>1
    <3>2. QED
      BY <3>1
  <2>5. QED
    BY <2>2, <2>3, <2>4, Zenon
<1>9. QED
  BY <1>1, <1>3, <1>6, <1>7, <1>8

(* base64_encode is that of RFC 4648, for bytes of every number and value. *)
LEMMA Base64IsRight ==
  ASSUME NEW n \in Nat, NEW input \in [1..n -> 0..255], Len(input) = n
  PROVE  base64_encode(input) = Rfc4648(input)
<1> DEFINE groups == (n + 2) \div 3
<1>2. ASSUME NEW j \in 1..4 * groups
      PROVE  Group(input, 3 * ((j - 1) \div 4))[((j - 1) % 4) + 1] =
             IF 6 * (j - 1) >= 8 * n THEN PAD ELSE Sextet(input, 6 * (j - 1))
  <2>1. PICK g \in Nat, r \in 0..3 : g = (j - 1) \div 4 /\ r = (j - 1) % 4 /\ j - 1 = 4 * g + r
    <3>1. PICK m \in Nat : m = j - 1
      OBVIOUS
    <3>2. m \div 4 \in Nat /\ m % 4 \in 0..3 /\ m = 4 * (m \div 4) + (m % 4)
      OBVIOUS
    <3>3. QED
      BY <3>1, <3>2
  <2>2. 3 * g + 1 <= n
    BY <2>1
  <2>3. PICK i \in Nat : i = 3 * g
    OBVIOUS
  <2>4. 6 * (j - 1) = 8 * i + 6 * r
    BY <2>1, <2>3
  <2>5. PICK b1 \in 0..255, b2 \in 0..255, b3 \in 0..255 :
           b1 = ByteOf(input, i, 1) /\ b2 = ByteOf(input, i, 2) /\ b3 = ByteOf(input, i, 3)
    <3>1. 0 \in 0..7
      OBVIOUS
    <3>2. \A h \in 1..3 : ByteOf(input, i, h) \in 0..255
      BY <3>1, GroupBit
    <3>3. ByteOf(input, i, 1) \in 0..255 /\ ByteOf(input, i, 2) \in 0..255 /\ ByteOf(input, i, 3) \in 0..255
      BY <3>2
    <3>4. QED
      BY <3>3, Zenon
  <2>6. PICK s1, s2, s3, s4 : /\ s1 = Sextet(input, 8 * i) /\ s2 = Sextet(input, 8 * i + 6)
                              /\ s3 = Sextet(input, 8 * i + 12) /\ s4 = Sextet(input, 8 * i + 18)
    OBVIOUS
  <2>8. /\ FirstSix(Joint(b1, b2, b3)) = s1 /\ SecondSix(Joint(b1, b2, b3)) = s2
        /\ ThirdSix(Joint(b1, b2, b3)) = s3 /\ FourthSix(Joint(b1, b2, b3)) = s4
    <3>1. /\ Sextet(input, 8 * i) = b1 \div 4
          /\ Sextet(input, 8 * i + 6) = 16 * (b1 % 4) + b2 \div 16
          /\ Sextet(input, 8 * i + 12) = 4 * (b2 % 16) + b3 \div 64
          /\ Sextet(input, 8 * i + 18) = b3 % 64
      BY <2>5, SextetIs
    <3>2. b1 \in 0..255 /\ b2 \in 0..255 /\ b3 \in 0..255
      BY <2>5
    <3>3. /\ FirstSix(Joint(b1, b2, b3)) = b1 \div 4
          /\ SecondSix(Joint(b1, b2, b3)) = 16 * (b1 % 4) + b2 \div 16
          /\ ThirdSix(Joint(b1, b2, b3)) = 4 * (b2 % 16) + b3 \div 64
          /\ FourthSix(Joint(b1, b2, b3)) = b3 % 64
      BY <3>2, Shifts
    <3>4. QED
      BY <2>6, <3>1, <3>3
  <2>7. Group(input, i) = <<s1, s2, IF i + 2 <= n THEN s3 ELSE PAD,
                            IF i + 3 <= n THEN s4 ELSE PAD>>
    <3>1. Group(input, i) =
            <<FirstSix(Joint(b1, b2, b3)), SecondSix(Joint(b1, b2, b3)),
              IF i + 2 <= n THEN ThirdSix(Joint(b1, b2, b3)) ELSE PAD,
              IF i + 3 <= n THEN FourthSix(Joint(b1, b2, b3)) ELSE PAD>>
      <4>1. Group(input, i) =
            LET v == Joint(ByteOf(input, i, 1), ByteOf(input, i, 2), ByteOf(input, i, 3))
            IN  <<FirstSix(v), SecondSix(v), IF i + 2 <= n THEN ThirdSix(v) ELSE PAD,
                  IF i + 3 <= n THEN FourthSix(v) ELSE PAD>>
        BY DEF Group, ByteOf, Joint, FirstSix, SecondSix, ThirdSix, FourthSix
      <4>2. QED
        BY <2>5, <4>1
    <3>2. QED
      BY <2>8, <3>1
  <2>9. ASSUME r = 0
        PROVE  Group(input, i)[r + 1] = IF 6 * (j - 1) >= 8 * n THEN PAD ELSE Sextet(input, 6 * (j - 1))
    <3>1. ~(6 * (j - 1) >= 8 * n) /\ 6 * (j - 1) = 8 * i
      BY <2>2, <2>3, <2>4, <2>9
    <3>2. Group(input, i)[1] = s1
      BY <2>7
    <3>3. QED
      <4>1. r + 1 = 1
        BY <2>9
      <4>2. QED
        BY <2>6, <3>1, <3>2, <4>1
  <2>10. ASSUME r = 1
         PROVE  Group(input, i)[r + 1] = IF 6 * (j - 1) >= 8 * n THEN PAD ELSE Sextet(input, 6 * (j - 1))
    <3>1. ~(6 * (j - 1) >= 8 * n) /\ 6 * (j - 1) = 8 * i + 6
      BY <2>2, <2>3, <2>4, <2>10
    <3>2. Group(input, i)[2] = s2
      BY <2>7
    <3>3. QED
      BY <2>6, <2>10, <3>1, <3>2
  <2>11. ASSUME r = 2
         PROVE  Group(input, i)[r + 1] = IF 6 * (j - 1) >= 8 * n THEN PAD ELSE Sextet(input, 6 * (j - 1))
    <3>1. (6 * (j - 1) >= 8 * n <=> ~(i + 2 <= n)) /\ 6 * (j - 1) = 8 * i + 12
      BY <2>2, <2>3, <2>4, <2>11
    <3>2. Group(input, i)[3] = IF i + 2 <= n THEN s3 ELSE PAD
      BY <2>7
    <3>3. QED
      BY <2>6, <2>11, <3>1, <3>2
  <2>12. ASSUME r = 3
         PROVE  Group(input, i)[r + 1] = IF 6 * (j - 1) >= 8 * n THEN PAD ELSE Sextet(input, 6 * (j - 1))
    <3>1. (6 * (j - 1) >= 8 * n <=> ~(i + 3 <= n)) /\ 6 * (j - 1) = 8 * i + 18
      BY <2>2, <2>3, <2>4, <2>12
    <3>2. Group(input, i)[4] = IF i + 3 <= n THEN s4 ELSE PAD
      BY <2>7
    <3>3. QED
      BY <2>6, <2>12, <3>1, <3>2
  <2>13. Group(input, i)[r + 1] = IF 6 * (j - 1) >= 8 * n THEN PAD ELSE Sextet(input, 6 * (j - 1))
    BY <2>1, <2>9, <2>10, <2>11, <2>12
  <2>14. QED
    BY <2>1, <2>3, <2>13
<1>3. QED
  BY <1>2 DEF base64_encode, Rfc4648
(* The key of a handshake is answered with the encoding of RFC 4648. *)
THEOREM Base64IsRead == Spec => []Base64Right
<1>1. ASSUME NEW n \in 0..4, NEW input \in [1..n -> {1, 128, 255}]
      PROVE  base64_encode(input) = Rfc4648(input)
  <2>1. n \in Nat /\ input \in [1..n -> 0..255]
    OBVIOUS
  <2>2. Len(input) = n
    BY <2>1
  <2>3. QED
    BY <2>1, <2>2, Base64IsRight
<1>2. Base64Right
  BY <1>1 DEF Base64Right
<1>3. QED
  BY <1>2, PTL
--------------------------------------------------------------------------------
(* What the variables hold. *)
Bytes == [as : {"http", "key"}, v : 1..4] \cup [as : {"char"}, v : Chars]
            \cup [as : {"op"}, v : {item.op : item \in Items}]
            \cup [as : {"len", "ext"}, v : Nat] \cup [as : {"data"}, v : Chars \X (1..4)]
Positions == Workers \X (Nat \ {0})
Messages == {m \in [cmd : Commands \cup {<<>>}, args : Seq(Seq(Chars))] :
                /\ Len(m.args) <= MAX_ARGS
                /\ \A i \in DOMAIN m.args : Len(m.args[i]) \in 1..ArgSize}

StreamsOK == inbox \in [Workers -> Seq(Bytes)] /\ flight \in [Workers -> Seq(Seq(Bytes))]
SaidOK == said \in [Workers -> Seq(Items)] /\ \A w \in Workers : Len(said[w]) <= Len(Script[w])
FrameOK == len \in [Workers -> Nat] /\ DOMAIN key = Workers
           /\ \A w \in Workers : DOMAIN key[w] \subseteq 1..4
StepOK == step \in [Workers -> Points] /\ parse \in [Workers -> {"idle", "first", "more", "scan", "done"}]
          /\ \A w \in Workers : (parse[w] = "idle") = (step[w] # "parse")
ParserOK == save \in Positions /\ from \in [Workers -> Positions] /\ buffer \in [Workers -> Seq(Chars)]
            /\ msg \in [Workers -> Messages] /\ alone \in [Workers -> BOOLEAN]
Typed == StreamsOK /\ SaidOK /\ FrameOK /\ StepOK /\ ParserOK

(* The characters and the bytes. *)
LEMMA Wider ==
  ASSUME NEW S, NEW T, S \subseteq T, NEW s \in Seq(S)
  PROVE  s \in Seq(T)
<1>1. \A i \in 1..Len(s) : s[i] \in T
  OBVIOUS
<1>2. s \in [1..Len(s) -> T]
  BY <1>1
<1>3. Len(s) \in Nat
  OBVIOUS
<1>4. QED
  BY <1>2, <1>3
LEMMA CharsAre ==
  /\ {NL, SP, BAR, JUNK, STALE} \subseteq Chars
  /\ \A item \in Items : item.text \in Seq(Chars)
  /\ \A word \in Commands : word \in Seq(Chars) /\ word # <<>>
<1>1. {NL, SP, BAR, JUNK, STALE} \subseteq Chars
  BY DEF Chars
<1>2. ASSUME NEW item \in Items PROVE item.text \in Seq(Chars)
  <2>1. item.text \in Seq(ToSet(item.text))
    BY WireAssumption DEF Items
  <2>2. ToSet(item.text) \subseteq Chars
    BY DEF Chars
  <2>3. QED
    BY <2>1, <2>2, Wider
<1>3. ASSUME NEW word \in Commands PROVE word \in Seq(Chars) /\ word # <<>>
  <2>1. word \in Seq(ToSet(word)) /\ word # <<>>
    <3>1. PICK S : S = Seq(ToSet(word))
      OBVIOUS
    <3>2. \A other \in Commands : other \in Seq(ToSet(other)) \ {<<>>}
      BY ParserAssumption
    <3>3. word \in S \ {<<>>}
      BY <3>1, <3>2
    <3>4. QED
      BY <3>1, <3>3
  <2>2. ToSet(word) \subseteq Chars
    BY DEF Chars
  <2>3. QED
    BY <2>1, <2>2, Wider
<1>4. QED
  BY <1>1, <1>2, <1>3
LEMMA BytesAre ==
  ASSUME NEW byte \in Bytes
  PROVE  /\ byte.as \in {"len", "ext"} => byte.v \in Nat
         /\ byte.as = "char" => byte.v \in Chars
         /\ byte.as = "data" => byte.v[1] \in Chars
  BY DEF Bytes
LEMMA BytesOf ==
  /\ \A c \in Chars : As("char", c) \in Bytes
  /\ \A i \in 1..4 : As("http", i) \in Bytes /\ As("key", i) \in Bytes
  /\ \A item \in Items : As("op", item.op) \in Bytes
  /\ \A n \in Nat : As("len", n) \in Bytes /\ As("ext", n) \in Bytes
  /\ \A c \in Chars : \A i \in 1..4 : As("data", <<c, i>>) \in Bytes
  BY DEF As, Bytes

(* What recv takes from the stream and what it leaves there. *)
LEMMA LesserOf ==
  ASSUME NEW a \in Nat, NEW b \in Nat
  PROVE  Min({a, b}) = IF a <= b THEN a ELSE b
<1>1. PICK S : S = {a, b}
  OBVIOUS
<1>2. S \in SUBSET Nat /\ S # {}
  BY <1>1
<1>3. PICK m : m = Min(S)
  OBVIOUS
<1>4. m \in S /\ \A y \in S : m <= y
  BY <1>2, <1>3, LeastIn
<1>5. QED
  BY <1>1, <1>3, <1>4
LEMMA PartOf ==
  ASSUME NEW T, NEW s \in Seq(T), NEW m \in Nat \ {0}, NEW n \in Nat, n <= Len(s)
  PROVE  SubSeq(s, m, n) \in Seq(T) /\ Len(SubSeq(s, m, n)) = IF m <= n THEN n - m + 1 ELSE 0
<1>1. m \in Int /\ n \in Int /\ \A i \in m..n : s[i] \in T
  OBVIOUS
<1>2. QED
  BY <1>1, SubSeqProperties
LEMMA ArrivedIs ==
  ASSUME StreamsOK, NEW w \in Workers, NEW n \in Nat
  PROVE  /\ Arrived(w, n) \in Seq(Bytes) /\ Len(Arrived(w, n)) <= n
         /\ \A rest : rest = SubSeq(inbox[w], Min({n, Len(inbox[w])}) + 1, Len(inbox[w])) =>
                rest \in Seq(Bytes)
<1>1. PICK s \in Seq(Bytes) : s = inbox[w]
  BY DEF StreamsOK
<1>2. PICK m \in Nat : m = Min({n, Len(s)}) /\ m <= n /\ m <= Len(s)
  <2>1. PICK l \in Nat : l = Len(s)
    OBVIOUS
  <2>2. Min({n, l}) = IF n <= l THEN n ELSE l
    BY LesserOf
  <2>3. PICK m \in Nat : m = IF n <= l THEN n ELSE l
    OBVIOUS
  <2>4. m = Min({n, Len(s)}) /\ m <= n /\ m <= Len(s)
    BY <2>1, <2>2, <2>3
  <2>5. QED
    BY <2>4
<1>3. SubSeq(s, 1, m) \in Seq(Bytes) /\ Len(SubSeq(s, 1, m)) = IF 1 <= m THEN m - 1 + 1 ELSE 0
  <2>1. 1 \in Nat \ {0}
    OBVIOUS
  <2>2. QED
    BY <1>2, <2>1, PartOf
<1>4. SubSeq(s, m + 1, Len(s)) \in Seq(Bytes)
  <2>1. m + 1 \in Nat \ {0} /\ Len(s) \in Nat /\ Len(s) <= Len(s)
    OBVIOUS
  <2>2. QED
    BY <2>1, PartOf
<1>5. Len(SubSeq(s, 1, m)) <= n
  BY <1>2, <1>3
<1>6. QED
  BY <1>1, <1>2, <1>3, <1>4, <1>5 DEF Arrived
LEMMA RecvKeeps ==
  ASSUME StreamsOK, NEW w \in Workers, NEW n \in Nat, Recv(w, n), UNCHANGED flight
  PROVE  StreamsOK'
<1>1. PICK rest : rest = SubSeq(inbox[w], Min({n, Len(inbox[w])}) + 1, Len(inbox[w]))
  OBVIOUS
<1>2. rest \in Seq(Bytes)
  BY <1>1, ArrivedIs
<1>3. inbox' = [inbox EXCEPT ![w] = rest]
  BY <1>1 DEF Recv
<1>4. QED
  BY <1>2, <1>3 DEF StreamsOK

(* A step of protocol_parse. *)
LEMMA TokenTyped ==
  ASSUME NEW C, NEW b \in Seq(C), NEW i \in Nat \ {0}
  PROVE  Token(b, i) \in Seq(C) /\ After(b, i) \in Nat \ {0}
<1>1. PICK l \in Nat : l = Len(b)
  OBVIOUS
<1>2. PICK k, e \in Nat : k = SkipBars(b, i) /\ e = TokenEnd(b, i) /\
                         (NoToken(b, i, k, e) \/ IsToken(b, i, k, e))
  BY TokenFrom
<1>3. k \in Nat \ {0} /\ e \in 1..(l + 1) /\ e - 1 \in Nat /\ e - 1 <= l
  BY <1>1, <1>2 DEF NoToken, IsToken
<1>4. SubSeq(b, k, e - 1) \in Seq(C)
  BY <1>1, <1>3, PartOf
<1>5. After(b, i) = IF e <= l THEN e + 1 ELSE l + 1
  BY <1>1, <1>2, AfterToken
<1>6. QED
  BY <1>1, <1>2, <1>3, <1>4, <1>5 DEF Token
LEMMA KeptTyped ==
  ASSUME NEW C, NEW token \in Seq(C), token # <<>>
  PROVE  Kept(token) \in Seq(C) /\ Len(Kept(token)) \in 1..ArgSize
         /\ (Len(token) <= ArgSize => Kept(token) = token)
<1>1. ArgSize \in Nat \ {0}
  BY ParserAssumption
<1>2. PICK l \in Nat : l = Len(token)
  OBVIOUS
<1>3. l # 0
  BY <1>2
<1>4. PICK m : m = Min({l, ArgSize})
  OBVIOUS
<1>5. m = IF l <= ArgSize THEN l ELSE ArgSize
  BY <1>1, <1>4, LesserOf
<1>6. m \in 1..ArgSize /\ m <= l /\ m \in Nat
  BY <1>1, <1>3, <1>5
<1>7. 1 \in Nat \ {0} /\ 1 <= m
  BY <1>6
<1>8. SubSeq(token, 1, m) \in Seq(C) /\ Len(SubSeq(token, 1, m)) = m - 1 + 1
  BY <1>2, <1>6, <1>7, PartOf
<1>9. l <= ArgSize => SubSeq(token, 1, m) = token
  BY <1>2, <1>5, SubSeqFull
<1>10. m - 1 + 1 = m
  BY <1>6
<1>11. QED
  BY <1>2, <1>4, <1>6, <1>8, <1>9, <1>10 DEF Kept
LEMMA UnknownTyped == Unknown \in Messages
<1>1. PICK none \in Seq(Seq(Chars)) : none = <<>>
  BY EmptySeq
<1>2. Len(none) <= MAX_ARGS /\ \A i \in DOMAIN none : Len(none[i]) \in 1..ArgSize
  BY <1>1, ParserAssumption
<1>3. QED
  BY <1>1, <1>2 DEF Unknown, Messages
LEMMA BeginTyped ==
  ASSUME ParserOK, NEW w \in Workers, NEW line \in Seq(Chars), BeginParse(w, line)
  PROVE  ParserOK'
<1>1. buffer' \in [Workers -> Seq(Chars)]
  BY DEF BeginParse, ParserOK
<1>2. msg' \in [Workers -> Messages] /\ alone' \in [Workers -> BOOLEAN]
  BY UnknownTyped DEF BeginParse, ParserOK
<1>3. QED
  BY <1>1, <1>2 DEF BeginParse, ParserOK
LEMMA EndTyped ==
  ASSUME ParserOK, NEW w \in Workers, EndParse(w)
  PROVE  ParserOK'
<1>1. buffer' \in [Workers -> Seq(Chars)] /\ from' \in [Workers -> Positions]
  <2>1. PICK none \in Seq(Chars) : none = <<>>
    BY EmptySeq
  <2>2. <<w, 1>> \in Positions
    BY DEF Positions
  <2>3. QED
    BY <2>1, <2>2 DEF EndParse, ParserOK
<1>2. msg' \in [Workers -> Messages] /\ alone' \in [Workers -> BOOLEAN]
  BY UnknownTyped DEF EndParse, ParserOK
<1>3. QED
  BY <1>1, <1>2 DEF EndParse, ParserOK
LEMMA SaveTyped ==
  ASSUME NEW w \in Workers, NEW position \in Positions, alone \in [Workers -> BOOLEAN],
         SetSave(w, position)
  PROVE  save' \in Positions /\ alone' \in [Workers -> BOOLEAN]
  BY DEF SetSave
LEMMA FirstTyped ==
  ASSUME ParserOK, StepOK, NEW w \in Workers, FirstToken(w)
  PROVE  ParserOK' /\ \E point \in {"more", "done"} : parse' = [parse EXCEPT ![w] = point]
<1>1. PICK token : token = Token(buffer[w], 1)
  OBVIOUS
<1>2. After(buffer[w], 1) \in Nat \ {0}
  <2>1. buffer[w] \in Seq(Chars) /\ 1 \in Nat \ {0}
    BY DEF ParserOK
  <2>2. QED
    BY <2>1, TokenTyped
<1>3. <<w, After(buffer[w], 1)>> \in Positions
  BY <1>2 DEF Positions
<1>4. save' \in Positions /\ alone' \in [Workers -> BOOLEAN]
  BY <1>3, SaveTyped DEF FirstToken, ParserOK
<1>5. msg' \in [Workers -> Messages]
  <2>1. CASE token \in Commands /\ msg' = [msg EXCEPT ![w].cmd = token]
    <3>1. [msg[w] EXCEPT !.cmd = token] \in Messages
      <4>1. msg[w] \in Messages
        BY DEF ParserOK
      <4>2. QED
        BY <2>1, <4>1 DEF Messages
    <3>2. QED
      BY <2>1, <3>1 DEF ParserOK
  <2>2. CASE UNCHANGED msg
    BY <2>2 DEF ParserOK
  <2>3. QED
    BY <1>1, <2>1, <2>2 DEF FirstToken
<1>6. \E point \in {"more", "done"} : parse' = [parse EXCEPT ![w] = point]
  BY DEF FirstToken, Proceed
<1>7. QED
  BY <1>4, <1>5, <1>6 DEF FirstToken, ParserOK
LEMMA ReadTyped ==
  ASSUME ParserOK, StepOK, NEW w \in Workers, ReadSave(w)
  PROVE  ParserOK' /\ \E point \in {"scan"} : parse' = [parse EXCEPT ![w] = point]
  BY DEF ReadSave, Proceed, ParserOK
(* With one argument more. *)
LEMMA MoreArguments ==
  ASSUME NEW m \in Messages, NEW arg \in Seq(Chars), Len(arg) \in 1..ArgSize,
         Len(m.args) < MAX_ARGS
  PROVE  [m EXCEPT !.args = Append(@, arg)] \in Messages
<1>1. /\ m \in [cmd : Commands \cup {<<>>}, args : Seq(Seq(Chars))]
      /\ \A i \in DOMAIN m.args : Len(m.args[i]) \in 1..ArgSize
  BY DEF Messages
<1>2. PICK args \in Seq(Seq(Chars)) : args = m.args
  BY <1>1
<1>3. PICK all \in Seq(Seq(Chars)) : all = Append(args, arg)
  BY AppendProperties
<1>4. PICK l \in Nat : l = Len(args)
  OBVIOUS
<1>5. Len(all) = l + 1 /\ DOMAIN all = 1..(l + 1) /\ all[l + 1] = arg
      /\ \A i \in 1..l : all[i] = args[i]
  BY <1>3, <1>4
<1>6. Len(all) <= MAX_ARGS
  BY <1>2, <1>4, <1>5, ParserAssumption
<1>7. \A i \in DOMAIN all : Len(all[i]) \in 1..ArgSize
  <2>1. \A i \in 1..l : Len(all[i]) \in 1..ArgSize
    <3>1. DOMAIN args = 1..l
      BY <1>4
    <3>2. \A i \in 1..l : Len(args[i]) \in 1..ArgSize
      BY <1>1, <1>2, <3>1
    <3>3. QED
      BY <1>5, <3>2
  <2>2. \A i \in 1..(l + 1) : i \in 1..l \/ i = l + 1
    OBVIOUS
  <2>3. QED
    BY <1>5, <2>1, <2>2
<1>8. [m EXCEPT !.args = all] \in Messages
  BY <1>1, <1>6, <1>7 DEF Messages
<1>9. [m EXCEPT !.args = Append(@, arg)] = [m EXCEPT !.args = all]
  BY <1>2, <1>3
<1>10. QED
  BY <1>8, <1>9
LEMMA NextTyped ==
  ASSUME ParserOK, StepOK, NEW w \in Workers, NextToken(w)
  PROVE  ParserOK' /\ \E point \in {"more", "done"} : parse' = [parse EXCEPT ![w] = point]
<1>1. PICK v \in Workers : v = from[w][1]
  BY DEF ParserOK, Positions
<1>2. PICK i \in Nat \ {0} : i = from[w][2]
  BY DEF ParserOK, Positions
<1>3. PICK token : token \in (IF v = w \/ parse[v] # "idle" THEN {Token(buffer[v], i)}
                             ELSE {<<>>, <<STALE>>}) /\
              ((token # <<>> /\ HasRoom(w) /\
                msg' = [msg EXCEPT ![w].args = Append(@, Kept(token))] /\ Proceed(w, "more")) \/
               (Proceed(w, "done") /\ UNCHANGED msg))
  BY <1>1, <1>2 DEF NextToken
<1>4. buffer[v] \in Seq(Chars)
  BY DEF ParserOK
<1>5. Token(buffer[v], i) \in Seq(Chars) /\ After(buffer[v], i) \in Nat \ {0}
  BY <1>4, TokenTyped
<1>6. token \in Seq(Chars)
  <2>1. <<>> \in Seq(Chars) /\ <<STALE>> \in Seq(Chars)
    BY CharsAre
  <2>2. QED
    BY <1>3, <1>5, <2>1
<1>7. <<v, After(buffer[v], i)>> \in Positions
  BY <1>5 DEF Positions
<1>8. save' \in Positions /\ alone' \in [Workers -> BOOLEAN]
  <2>1. SetSave(w, <<v, After(buffer[v], i)>>)
    BY <1>1, <1>2 DEF NextToken
  <2>2. QED
    BY <1>7, <2>1, SaveTyped DEF ParserOK
<1>9. msg' \in [Workers -> Messages]
  <2>1. CASE token # <<>> /\ HasRoom(w) /\ msg' = [msg EXCEPT ![w].args = Append(@, Kept(token))]
    <3>1. PICK arg \in Seq(Chars) : arg = Kept(token) /\ Len(arg) \in 1..ArgSize
      BY <1>6, <2>1, KeptTyped
    <3>2. PICK m \in Messages : m = msg[w]
      BY DEF ParserOK
    <3>3. Len(m.args) < MAX_ARGS
      BY <2>1, <3>2 DEF HasRoom
    <3>4. [m EXCEPT !.args = Append(@, arg)] \in Messages
      BY <3>1, <3>3, MoreArguments
    <3>5. msg' = [msg EXCEPT ![w] = [m EXCEPT !.args = Append(@, arg)]]
      BY <2>1, <3>1, <3>2 DEF ParserOK
    <3>6. QED
      BY <3>4, <3>5 DEF ParserOK
  <2>2. CASE UNCHANGED msg
    BY <2>2 DEF ParserOK
  <2>3. QED
    BY <1>3, <2>1, <2>2
<1>10. \E point \in {"more", "done"} : parse' = [parse EXCEPT ![w] = point]
  BY <1>3 DEF Proceed
<1>11. QED
  BY <1>8, <1>9, <1>10 DEF NextToken, ParserOK

(* A step of the loop of handle_client. *)
LEMMA StepTyped ==
  ASSUME StepOK, NEW w \in Workers, NEW p \in Points,
         NEW q \in {"idle", "first", "more", "scan", "done"}, (q = "idle") = (p # "parse"),
         step' = [step EXCEPT ![w] = p], parse' = [parse EXCEPT ![w] = q]
  PROVE  StepOK'
<1>1. /\ step' \in [Workers -> Points]
      /\ parse' \in [Workers -> {"idle", "first", "more", "scan", "done"}]
  BY DEF StepOK
<1>2. ASSUME NEW v \in Workers PROVE (parse'[v] = "idle") = (step'[v] # "parse")
  <2>1. CASE v = w
    BY <2>1 DEF StepOK
  <2>2. CASE v # w
    BY <2>2 DEF StepOK
  <2>3. QED
    BY <2>1, <2>2
<1>3. QED
  BY <1>1, <1>2 DEF StepOK
LEMMA IdleStepTyped ==
  ASSUME StepOK, NEW w \in Workers, NEW p \in Points, step[w] # "parse", p # "parse",
         step' = [step EXCEPT ![w] = p], UNCHANGED parse
  PROVE  StepOK'
<1>1. parse[w] = "idle" /\ parse' = [parse EXCEPT ![w] = "idle"]
  BY DEF StepOK
<1>2. QED
  BY <1>1, StepTyped
LEMMA ParserUnchanged ==
  ASSUME ParserOK, UNCHANGED parser
  PROVE  ParserOK' /\ UNCHANGED parse
  BY DEF ParserOK, parser
LEMMA FrameUnchanged ==
  ASSUME FrameOK, UNCHANGED <<len, key>>
  PROVE  FrameOK'
  BY DEF FrameOK
LEMMA SaidUnchanged ==
  ASSUME SaidOK, UNCHANGED said
  PROVE  SaidOK'
  BY DEF SaidOK

(* What clients send. *)
LEMMA LineIs ==
  ASSUME NEW text \in Seq(Chars)
  PROVE  \E e \in 0..1 :
            /\ Line(text) \in Seq(Bytes) /\ Len(Line(text)) = Len(text) + e
            /\ \A i \in 1..(Len(text) + e) :
                  Line(text)[i] = IF i <= Len(text) THEN As("char", text[i]) ELSE As("char", NL)
            /\ text = <<>> => e = 1
<1>1. PICK n \in Nat : n = Len(text)
  OBVIOUS
<1>2. PICK l, m, nl : l = [i \in 1..n |-> As("char", text[i])] /\ m = Newline(text) /\ nl = As("char", NL)
  OBVIOUS
<1>3. l \in Seq(Bytes) /\ Len(l) = n
  <2>1. \A i \in 1..n : As("char", text[i]) \in Bytes
    BY <1>1, BytesOf
  <2>2. l \in [1..n -> Bytes]
    BY <1>2, <2>1
  <2>3. QED
    BY <2>2, SequenceOf
<1>4. nl \in Bytes
  BY <1>2, CharsAre, BytesOf
<1>5. m = (IF n + 1 < BufSize THEN <<nl>> ELSE <<>>)
  BY <1>1, <1>2 DEF Newline
<1>6. PICK e \in 0..1 : /\ m \in Seq(Bytes) /\ Len(m) = e /\ (e = 1 => m[1] = nl)
                       /\ (n + 1 < BufSize => e = 1)
  <2>1. CASE n + 1 < BufSize
    <3>1. m = <<nl>>
      BY <1>5, <2>1
    <3>2. m \in Seq(Bytes) /\ Len(m) = 1 /\ m[1] = nl
      BY <1>4, <3>1
    <3>3. QED
      BY <3>2
  <2>2. CASE ~(n + 1 < BufSize)
    <3>1. m = <<>>
      BY <1>5, <2>2
    <3>2. m \in Seq(Bytes) /\ Len(m) = 0
      BY <3>1
    <3>3. QED
      BY <2>2, <3>2
  <2>3. QED
    BY <2>1, <2>2
<1>7. PICK b : b = Line(text) /\ b = l \o m
  BY <1>1, <1>2 DEF Line
<1>8. /\ b \in Seq(Bytes) /\ Len(b) = n + e
      /\ \A i \in 1..(n + e) : b[i] = IF i <= n THEN l[i] ELSE m[i - n]
  <2>1. l \in Seq(Bytes) /\ m \in Seq(Bytes)
    BY <1>3, <1>6
  <2>2. /\ l \o m \in Seq(Bytes) /\ Len(l \o m) = Len(l) + Len(m)
        /\ \A i \in 1..(Len(l) + Len(m)) : (l \o m)[i] = IF i <= Len(l) THEN l[i] ELSE m[i - Len(l)]
    BY <2>1, ConcatProperties
  <2>3. QED
    BY <1>3, <1>6, <1>7, <2>2
<1>9. ASSUME NEW i \in 1..(n + e)
      PROVE  b[i] = IF i <= n THEN As("char", text[i]) ELSE nl
  <2>1. CASE i <= n
    <3>1. i \in 1..n
      BY <2>1
    <3>2. b[i] = l[i]
      BY <1>8, <2>1
    <3>3. l[i] = As("char", text[i])
      BY <1>2, <3>1
    <3>4. QED
      BY <2>1, <3>2, <3>3
  <2>2. CASE ~(i <= n)
    <3>1. e = 1 /\ i - n = 1
      BY <2>2
    <3>2. b[i] = m[1]
      BY <1>8, <2>2, <3>1
    <3>3. QED
      BY <1>6, <2>2, <3>1, <3>2
  <2>3. QED
    BY <2>1, <2>2
<1>10. text = <<>> => e = 1
  <2>1. BufSize \in Nat \ {0, 1}
    BY WireAssumption
  <2>2. text = <<>> => n = 0
    BY <1>1
  <2>3. QED
    BY <1>6, <2>1, <2>2
<1>11. QED
  BY <1>1, <1>2, <1>7, <1>8, <1>9, <1>10
LEMMA LineTyped ==
  ASSUME NEW text \in Seq(Chars)
  PROVE  Line(text) \in Seq(Bytes)
  BY LineIs
LEMMA FormattedTyped ==
  ASSUME NEW text \in Seq(Chars)
  PROVE  Formatted(text) \in Seq(Chars)
<1>1. PICK l \in Nat : l = Len(text) /\ DOMAIN text = 1..l
  OBVIOUS
<1>2. ASSUME NEW i \in 1..l
      PROVE  (IF text[i] = SP /\ Cardinality(Spaces(text) \cap (1..i)) <= 2 THEN BAR ELSE text[i]) \in Chars
  BY <1>1, CharsAre
<1>3. Formatted(text) \in [1..l -> Chars]
  BY <1>1, <1>2 DEF Formatted
<1>4. QED
  BY <1>3
LEMMA ExtTyped ==
  ASSUME NEW n \in Nat, NEW size \in 0..8, NEW i \in 1..size
  PROVE  (n \div Place[size - i]) % BYTE \in Nat
<1>1. BYTE \in Nat \ {0}
  BY WireAssumption
<1>2. size - i \in 0..8
  OBVIOUS
<1>3. PICK p \in Nat \ {0} : p = Place[size - i]
  BY <1>1, <1>2, PlacesArePositive
<1>4. PICK m \in Nat : m = n \div p
  BY <1>3
<1>5. m % BYTE \in Nat
  BY <1>1, <1>4
<1>6. QED
  BY <1>3, <1>4, <1>5
LEMMA FrameTyped ==
  ASSUME NEW item \in Items
  PROVE  Frame(item.op, item.text) \in Seq(Bytes)
<1>1. PICK text \in Seq(Chars) : text = item.text
  BY CharsAre
<1>2. PICK n \in Nat : n = Len(text) /\ DOMAIN text = 1..n
  OBVIOUS
<1>3. PICK c : c = IF n <= MAX7 THEN n ELSE IF n < BYTE * BYTE THEN TWO ELSE EIGHT
  OBVIOUS
<1>4. c \in Nat
  BY <1>3, WireAssumption DEF TWO, EIGHT
<1>5. PICK size \in 0..8 : size = ExtSize(c)
  BY DEF ExtSize
<1>6. PICK head, ext, mask, data :
        /\ head = <<As("op", item.op), As("len", c)>>
        /\ ext = [i \in 1..size |-> As("ext", (n \div Place[size - i]) % BYTE)]
        /\ mask = [i \in 1..4 |-> As("key", i)]
        /\ data = [i \in 1..n |-> As("data", <<text[i], ((i - 1) % 4) + 1>>)]
  OBVIOUS
<1>7. head \in Seq(Bytes)
  <2>1. As("op", item.op) \in Bytes /\ As("len", c) \in Bytes
    BY <1>4, BytesOf
  <2>2. QED
    BY <1>6, <2>1
<1>8. ext \in Seq(Bytes)
  <2>1. ASSUME NEW i \in 1..size PROVE As("ext", (n \div Place[size - i]) % BYTE) \in Bytes
    BY ExtTyped, BytesOf
  <2>2. ext \in [1..size -> Bytes]
    BY <1>6, <2>1
  <2>3. size \in Nat
    OBVIOUS
  <2>4. QED
    BY <2>2, <2>3
<1>9. mask \in Seq(Bytes)
  <2>1. \A i \in 1..4 : As("key", i) \in Bytes
    BY BytesOf
  <2>2. mask \in [1..4 -> Bytes] /\ 4 \in Nat
    BY <1>6, <2>1
  <2>3. QED
    BY <2>2, SequenceOf
<1>10. data \in Seq(Bytes)
  <2>1. ASSUME NEW i \in 1..n PROVE As("data", <<text[i], ((i - 1) % 4) + 1>>) \in Bytes
    <3>1. text[i] \in Chars /\ ((i - 1) % 4) + 1 \in 1..4
      BY <1>2
    <3>2. QED
      BY <3>1, BytesOf
  <2>2. data \in [1..n -> Bytes]
    BY <1>6, <2>1
  <2>3. QED
    BY <2>2
<1>11. ((head \o ext) \o mask) \o data \in Seq(Bytes)
  BY <1>7, <1>8, <1>9, <1>10, ConcatProperties
<1>12. QED
  BY <1>1, <1>2, <1>3, <1>5, <1>6, <1>11 DEF Frame
LEMMA SayTyped ==
  ASSUME Typed, NEW w \in Workers, Say(w)
  PROVE  Typed'
<1>1. PICK n \in 1..Len(Script[w]) : n = Len(said[w]) + 1
  BY WireAssumption DEF Typed, SaidOK, Say
<1>2. PICK item \in Script[w][n] :
        /\ said' = [said EXCEPT ![w] = Append(@, item)]
        /\ flight' = [flight EXCEPT ![w] = Append(@,
              IF w \in Browsers THEN Frame(item.op, item.text) ELSE Line(Formatted(item.text)))]
  BY <1>1 DEF Say
<1>3. item \in Items
  BY <1>2 DEF Items
<1>4. PICK bytes \in Seq(Bytes) :
        bytes = IF w \in Browsers THEN Frame(item.op, item.text) ELSE Line(Formatted(item.text))
  BY <1>3, CharsAre, FrameTyped, LineTyped, FormattedTyped
<1>5. flight' \in [Workers -> Seq(Seq(Bytes))]
  <2>1. flight[w] \in Seq(Seq(Bytes))
    BY DEF Typed, StreamsOK
  <2>2. Append(flight[w], bytes) \in Seq(Seq(Bytes))
    BY <2>1, AppendProperties
  <2>3. flight' = [flight EXCEPT ![w] = Append(flight[w], bytes)]
    BY <1>2, <1>4
  <2>4. QED
    BY <2>2, <2>3 DEF Typed, StreamsOK
<1>6. SaidOK'
  <2>1. said[w] \in Seq(Items)
    BY DEF Typed, SaidOK
  <2>2. Append(said[w], item) \in Seq(Items) /\ Len(Append(said[w], item)) = n
    BY <1>1, <1>3, <2>1, AppendProperties
  <2>3. said' = [said EXCEPT ![w] = Append(said[w], item)]
    BY <1>2
  <2>4. n <= Len(Script[w])
    BY WireAssumption
  <2>5. QED
    BY <2>2, <2>3, <2>4 DEF Typed, SaidOK
<1>7. QED
  BY <1>5, <1>6, ParserUnchanged DEF Typed, StreamsOK, FrameOK, StepOK, Say, receiver
LEMMA DeliverTyped ==
  ASSUME Typed, NEW w \in Workers, Deliver(w)
  PROVE  Typed'
<1>1. PICK first \in Seq(Bytes) : first = Head(flight[w])
  <2>1. flight[w] \in Seq(Seq(Bytes)) /\ flight[w] # <<>>
    BY DEF Typed, StreamsOK, Deliver
  <2>2. Head(flight[w]) \in Seq(Bytes)
    BY <2>1, HeadTailProperties
  <2>3. QED
    BY <2>2
<1>2. PICK n \in 1..Len(first) :
        LET rest == SubSeq(first, n + 1, Len(first))
        IN  /\ inbox' = [inbox EXCEPT ![w] = @ \o SubSeq(first, 1, n)]
            /\ flight' = [flight EXCEPT ![w] = (IF rest = <<>> THEN <<>> ELSE <<rest>>) \o Tail(@)]
  BY <1>1 DEF Deliver
<1>3. PICK l \in Nat : l = Len(first)
  OBVIOUS
<1>4. PICK part \in Seq(Bytes) : part = SubSeq(first, 1, n)
  <2>1. 1 \in Nat \ {0} /\ n \in Nat /\ n <= Len(first)
    BY <1>3
  <2>2. QED
    BY <2>1, PartOf
<1>5. PICK rest \in Seq(Bytes) : rest = SubSeq(first, n + 1, Len(first))
  <2>1. n + 1 \in Nat \ {0} /\ Len(first) \in Nat /\ Len(first) <= Len(first)
    BY <1>3
  <2>2. QED
    BY <2>1, PartOf
<1>6. inbox' \in [Workers -> Seq(Bytes)]
  <2>1. inbox[w] \o part \in Seq(Bytes)
    BY ConcatProperties DEF Typed, StreamsOK
  <2>2. inbox' = [inbox EXCEPT ![w] = inbox[w] \o part]
    BY <1>2, <1>4
  <2>3. QED
    BY <2>1, <2>2 DEF Typed, StreamsOK
<1>7. flight' \in [Workers -> Seq(Seq(Bytes))]
  <2>1. PICK fs \in Seq(Seq(Bytes)) : fs = flight[w] /\ fs # <<>>
    BY DEF Typed, StreamsOK, Deliver
  <2>2. PICK others \in Seq(Seq(Bytes)) : others = Tail(fs)
    BY <2>1, HeadTailProperties
  <2>3. PICK now \in Seq(Seq(Bytes)) : now = IF rest = <<>> THEN <<>> ELSE <<rest>>
    <3>1. <<>> \in Seq(Seq(Bytes)) /\ <<rest>> \in Seq(Seq(Bytes))
      BY EmptySeq
    <3>2. QED
      BY <3>1
  <2>4. now \o others \in Seq(Seq(Bytes))
    BY ConcatProperties
  <2>5. flight' = [flight EXCEPT ![w] = now \o others]
    BY <1>2, <1>5, <2>1, <2>2, <2>3
  <2>6. QED
    BY <2>4, <2>5 DEF Typed, StreamsOK
<1>8. UNCHANGED parser /\ UNCHANGED <<step, len, key, said>>
  BY DEF Deliver
<1>9. QED
  BY <1>6, <1>7, <1>8, ParserUnchanged, SaidUnchanged DEF Typed, StreamsOK, FrameOK, StepOK

(* What the loop of handle_client reads. *)
LEMMA PeekTyped ==
  ASSUME Typed, NEW w \in Workers, Peek(w)
  PROVE  Typed'
<1>1. PICK p \in Points \ {"parse"} : step' = [step EXCEPT ![w] = p] /\ step[w] # "parse"
  BY DEF Peek, At, Points
<1>2. UNCHANGED parser /\ UNCHANGED <<flight, inbox, len, key, said>>
  BY DEF Peek, history
<1>3. ParserOK' /\ UNCHANGED parse /\ StreamsOK' /\ FrameOK' /\ SaidOK'
  BY <1>2, ParserUnchanged, FrameUnchanged, SaidUnchanged DEF Typed, StreamsOK
<1>4. StepOK'
  BY <1>1, <1>3, IdleStepTyped DEF Typed
<1>5. QED
  BY <1>3, <1>4 DEF Typed
LEMMA HandshakeTyped ==
  ASSUME Typed, NEW w \in Workers, Handshake(w)
  PROVE  Typed'
<1>1. PICK p \in Points \ {"parse"} : step' = [step EXCEPT ![w] = p] /\ step[w] # "parse"
  BY DEF Handshake, At, Points
<1>2. UNCHANGED parser /\ UNCHANGED <<flight, len, key, said>> /\ inbox' = [inbox EXCEPT ![w] = <<>>]
  BY DEF Handshake, history
<1>3. StreamsOK'
  <2>1. <<>> \in Seq(Bytes)
    BY EmptySeq
  <2>2. QED
    BY <1>2, <2>1 DEF Typed, StreamsOK
<1>4. ParserOK' /\ UNCHANGED parse /\ FrameOK' /\ SaidOK'
  BY <1>2, ParserUnchanged, FrameUnchanged, SaidUnchanged DEF Typed
<1>5. StepOK'
  BY <1>1, <1>4, IdleStepTyped DEF Typed
<1>6. QED
  BY <1>3, <1>4, <1>5 DEF Typed
LEMMA StrippedTyped ==
  ASSUME NEW bytes \in Seq(Bytes)
  PROVE  Stripped(Text(bytes)) \in Seq(Chars)
<1>1. PICK l \in Nat : l = Len(bytes) /\ DOMAIN bytes = 1..l
  OBVIOUS
<1>2. PICK text : text = Text(bytes)
  OBVIOUS
<1>3. text \in Seq(Chars) /\ DOMAIN text = 1..l /\ Len(text) = l
  <2>1. ASSUME NEW i \in 1..l
        PROVE  (IF bytes[i].as = "char" THEN bytes[i].v ELSE JUNK) \in Chars
    <3>1. bytes[i] \in Bytes
      BY <1>1
    <3>2. QED
      BY <3>1, BytesAre, CharsAre
  <2>2. text \in [1..l -> Chars]
    BY <1>1, <1>2, <2>1 DEF Text
  <2>3. QED
    BY <2>2, SequenceOf
<1>4. PICK S : S = {i \in DOMAIN text : text[i] # NL} \cup {0}
  OBVIOUS
<1>5. S \in SUBSET (0..l) /\ S # {}
  BY <1>3, <1>4
<1>6. PICK m : m = Max(S)
  OBVIOUS
<1>7. m \in Nat /\ m <= Len(text)
  <2>1. m \in S
    BY <1>5, <1>6, GreatestIn
  <2>2. m \in 0..l
    BY <1>5, <2>1
  <2>3. QED
    BY <1>3, <2>2
<1>8. SubSeq(text, 1, m) \in Seq(Chars)
  <2>1. 1 \in Nat \ {0}
    OBVIOUS
  <2>2. QED
    BY <1>3, <1>7, <2>1, PartOf
<1>9. QED
  BY <1>2, <1>4, <1>6, <1>8 DEF Stripped
LEMMA ReadLineTyped ==
  ASSUME Typed, NEW w \in Workers, ReadLine(w)
  PROVE  Typed'
<1>1. PICK text : text = Stripped(Text(Arrived(w, BufSize)))
  OBVIOUS
<1>2. BufSize \in Nat
  BY WireAssumption
<1>3. text \in Seq(Chars)
  BY <1>1, <1>2, ArrivedIs, StrippedTyped DEF Typed
<1>4. step[w] = "line" /\ Recv(w, BufSize) /\ UNCHANGED <<flight, len, key, said>>
  BY DEF ReadLine, history
<1>5. StreamsOK' /\ FrameOK' /\ SaidOK'
  BY <1>2, <1>4, RecvKeeps, FrameUnchanged, SaidUnchanged DEF Typed
<1>6. CASE UNCHANGED step /\ UNCHANGED parser
  <2>1. ParserOK' /\ StepOK'
    BY <1>6, ParserUnchanged DEF Typed, StepOK
  <2>2. QED
    BY <1>5, <2>1 DEF Typed
<1>7. CASE At(w, "parse") /\ BeginParse(w, text)
  <2>1. ParserOK'
    BY <1>3, <1>7, BeginTyped DEF Typed
  <2>2. StepOK'
    <3>1. step' = [step EXCEPT ![w] = "parse"] /\ parse' = [parse EXCEPT ![w] = "first"]
      BY <1>7 DEF At, BeginParse, Proceed
    <3>2. "parse" \in Points
      BY DEF Points
    <3>3. QED
      BY <3>1, <3>2, StepTyped DEF Typed
  <2>3. QED
    BY <1>5, <2>1, <2>2 DEF Typed
<1>8. QED
  BY <1>1, <1>6, <1>7 DEF ReadLine
LEMMA HeaderTyped ==
  ASSUME Typed, NEW w \in Workers, ReadHeader(w), UNCHANGED <<parser, flight, said>>
  PROVE  Typed'
<1>1. PICK got \in Seq(Bytes) : got = Arrived(w, 2)
  BY ArrivedIs DEF Typed
<1>2. PICK p \in Points \ {"parse"} : step' = [step EXCEPT ![w] = p] /\ step[w] # "parse"
  BY DEF ReadHeader, At, Points
<1>3. StreamsOK'
  BY RecvKeeps DEF ReadHeader, Typed
<1>4. FrameOK'
  <2>1. CASE UNCHANGED len
    BY <2>1, FrameUnchanged DEF ReadHeader, Typed
  <2>2. CASE Are(got, <<"op", "len">>) /\ len' = [len EXCEPT ![w] = got[2].v]
    <3>1. PICK kinds : kinds = [i \in DOMAIN got |-> got[i].as] /\ kinds = <<"op", "len">>
      BY <2>2 DEF Are
    <3>2. 2 \in DOMAIN got
      BY <3>1
    <3>3. got[2].as = "len" /\ got[2] \in Bytes
      <4>1. kinds[2] = "len" /\ kinds[2] = got[2].as
        BY <3>1, <3>2
      <4>2. got[2] \in Bytes
        BY <3>2
      <4>3. QED
        BY <4>1, <4>2
    <3>4. got[2].v \in Nat
      BY <3>3, BytesAre
    <3>5. UNCHANGED key
      BY DEF ReadHeader
    <3>6. QED
      BY <2>2, <3>4, <3>5 DEF Typed, FrameOK
  <2>3. QED
    BY <1>1, <2>1, <2>2 DEF ReadHeader
<1>5. ParserOK' /\ UNCHANGED parse /\ SaidOK'
  BY ParserUnchanged, SaidUnchanged DEF Typed
<1>6. StepOK'
  BY <1>2, <1>5, IdleStepTyped DEF Typed
<1>7. QED
  BY <1>3, <1>4, <1>5, <1>6 DEF Typed
LEMMA ExtReadTyped ==
  ASSUME Typed, NEW w \in Workers, ReadExt(w), UNCHANGED <<parser, flight, said>>
  PROVE  Typed'
<1>1. PICK size \in Nat : size = ExtSize(len[w])
  BY DEF ExtSize
<1>2. PICK got \in Seq(Bytes) : got = Arrived(w, size)
  BY ArrivedIs DEF Typed
<1>3. PICK p \in Points \ {"parse"} : step' = [step EXCEPT ![w] = p] /\ step[w] # "parse"
  BY DEF ReadExt, At, Points
<1>4. StreamsOK'
  <2>1. Recv(w, size)
    BY <1>1 DEF ReadExt
  <2>2. QED
    BY <2>1, RecvKeeps DEF ReadExt, Typed
<1>5. FrameOK'
  <2>1. CASE UNCHANGED len
    BY <2>1, FrameUnchanged DEF ReadExt, Typed
  <2>2. CASE Are(got, [i \in 1..size |-> "ext"]) /\
             len' = [len EXCEPT ![w] = ReadLength(@, [i \in 1..size |-> got[i].v])]
    <3>1. PICK kinds : kinds = [i \in DOMAIN got |-> got[i].as] /\ kinds = [i \in 1..size |-> "ext"]
      BY <2>2 DEF Are
    <3>2. DOMAIN got = 1..size
      BY <3>1
    <3>3. \A i \in 1..size : got[i].as = "ext" /\ got[i] \in Bytes
      BY <3>1, <3>2
    <3>4. PICK values : values = [i \in 1..size |-> got[i].v]
      OBVIOUS
    <3>5. values \in [1..size -> Nat]
      BY <3>3, <3>4, BytesAre
    <3>6. values \in Seq(Nat)
      BY <3>5
    <3>7. ReadLength(len[w], values) \in Nat
      <4>1. len[w] \in Nat /\ BYTE \in Nat
        BY WireAssumption DEF Typed, FrameOK
      <4>2. QED
        BY <3>6, <4>1, FoldIsNat DEF ReadLength
    <3>8. len' = [len EXCEPT ![w] = ReadLength(len[w], values)]
      BY <2>2, <3>4
    <3>9. UNCHANGED key
      BY DEF ReadExt
    <3>10. QED
      BY <3>7, <3>8, <3>9 DEF Typed, FrameOK
  <2>3. QED
    BY <1>1, <1>2, <2>1, <2>2 DEF ReadExt
<1>6. ParserOK' /\ UNCHANGED parse /\ SaidOK'
  BY ParserUnchanged, SaidUnchanged DEF Typed
<1>7. StepOK'
  BY <1>3, <1>6, IdleStepTyped DEF Typed
<1>8. QED
  BY <1>4, <1>5, <1>6, <1>7 DEF Typed
LEMMA MaskTyped ==
  ASSUME Typed, NEW w \in Workers, ReadMask(w), UNCHANGED <<parser, flight, said>>
  PROVE  Typed'
<1>1. KeySize = 4
  BY DEF KeySize
<1>2. PICK got \in Seq(Bytes) : got = Arrived(w, KeySize) /\ Len(got) <= 4
  BY <1>1, ArrivedIs DEF Typed
<1>3. PICK p \in Points \ {"parse"} : step' = [step EXCEPT ![w] = p] /\ step[w] # "parse"
  BY DEF ReadMask, At, Points
<1>4. StreamsOK'
  BY <1>1, RecvKeeps DEF ReadMask, Typed
<1>5. FrameOK'
  <2>1. PICK k : k = [i \in DOMAIN got |-> got[i].v]
    OBVIOUS
  <2>2. DOMAIN k \subseteq 1..4
    <3>1. DOMAIN got = 1..Len(got) /\ Len(got) \in Nat
      OBVIOUS
    <3>2. DOMAIN k = 1..Len(got)
      BY <2>1, <3>1
    <3>3. QED
      BY <1>2, <3>1, <3>2
  <2>3. key' = [key EXCEPT ![w] = k] /\ UNCHANGED len
    BY <1>2, <2>1 DEF ReadMask
  <2>4. QED
    BY <2>2, <2>3 DEF Typed, FrameOK
<1>6. ParserOK' /\ UNCHANGED parse /\ SaidOK'
  BY ParserUnchanged, SaidUnchanged DEF Typed
<1>7. StepOK'
  BY <1>3, <1>6, IdleStepTyped DEF Typed
<1>8. QED
  BY <1>4, <1>5, <1>6, <1>7 DEF Typed
LEMMA TextTyped ==
  ASSUME Typed, NEW w \in Workers
  PROVE  Payload(w) \in Nat /\ TextOf(w) \in Seq(Chars)
<1>1. PICK n \in Nat : n = Payload(w)
  BY WireAssumption DEF Typed, FrameOK, Payload
<1>2. PICK got \in Seq(Bytes) : got = Arrived(w, n)
  BY ArrivedIs DEF Typed
<1>3. ASSUME NEW i \in 1..n
      PROVE  (IF i \in DOMAIN got THEN Unmask(w, got[i], i) ELSE JUNK) \in Chars
  <2>1. CASE i \in DOMAIN got
    <3>1. PICK byte \in Bytes : byte = got[i]
      BY <2>1
    <3>2. Unmask(w, byte, i) \in Chars
      BY BytesAre, CharsAre DEF Unmask
    <3>3. QED
      BY <2>1, <3>1, <3>2
  <2>2. CASE i \notin DOMAIN got
    BY <2>2, CharsAre
  <2>3. QED
    BY <2>1, <2>2
<1>4. PICK text : text = TextOf(w)
  OBVIOUS
<1>5. text \in [1..n -> Chars]
  BY <1>1, <1>2, <1>3, <1>4 DEF TextOf
<1>6. QED
  BY <1>1, <1>4, <1>5, SequenceOf
(* A line goes to protocol_parse. *)
LEMMA GoesToParse ==
  ASSUME Typed, NEW w \in Workers, NEW line \in Seq(Chars), BeginParse(w, line), At(w, "parse"),
         UNCHANGED <<flight, said>>, NEW n \in Nat, Recv(w, n),
         len' = [len EXCEPT ![w] = 0], key' = [key EXCEPT ![w] = <<>>]
  PROVE  Typed'
<1>1. ParserOK'
  BY BeginTyped DEF Typed
<1>2. StepOK'
  <2>1. step' = [step EXCEPT ![w] = "parse"] /\ parse' = [parse EXCEPT ![w] = "first"]
    BY DEF At, BeginParse, Proceed
  <2>2. "parse" \in Points
    BY DEF Points
  <2>3. QED
    BY <2>1, <2>2, StepTyped DEF Typed
<1>3. FrameOK'
  <2>1. DOMAIN <<>> = {}
    OBVIOUS
  <2>2. QED
    BY <2>1 DEF Typed, FrameOK
<1>4. StreamsOK' /\ SaidOK'
  BY RecvKeeps, SaidUnchanged DEF Typed
<1>5. QED
  BY <1>1, <1>2, <1>3, <1>4 DEF Typed
LEMMA ClosedTyped ==
  ASSUME Typed, NEW w \in Workers, step[w] # "parse", At(w, "closed"),
         UNCHANGED <<parser, inbox, len, key, flight, said>>
  PROVE  Typed'
<1>1. ParserOK' /\ UNCHANGED parse /\ FrameOK' /\ SaidOK' /\ StreamsOK'
  BY ParserUnchanged, FrameUnchanged, SaidUnchanged DEF Typed, StreamsOK
<1>2. StepOK'
  <2>1. step' = [step EXCEPT ![w] = "closed"] /\ "closed" \in Points
    BY DEF At, Points
  <2>2. QED
    BY <1>1, <2>1, IdleStepTyped DEF Typed
<1>3. QED
  BY <1>1, <1>2 DEF Typed
LEMMA AnyTextTyped ==
  ASSUME NEW text \in AnyText
  PROVE  text \in Seq(Chars)
<1>1. <<JUNK>> \in Seq(Chars) /\ <<BAR, JUNK>> \in Seq(Chars)
  BY CharsAre
<1>2. ASSUME NEW word \in Commands PROVE word \o <<BAR, JUNK>> \in Seq(Chars)
  BY <1>1, CharsAre, ConcatProperties
<1>3. QED
  BY <1>1, <1>2 DEF AnyText
LEMMA ReadFrameTyped ==
  ASSUME Typed, NEW w \in Workers, ReadFrame(w)
  PROVE  Typed'
<1>1. UNCHANGED <<flight, said>>
  BY DEF ReadFrame, history
<1>2. CASE ReadHeader(w) /\ UNCHANGED parser
  BY <1>1, <1>2, HeaderTyped
<1>3. CASE ReadExt(w) /\ UNCHANGED parser
  BY <1>1, <1>3, ExtReadTyped
<1>4. CASE ReadMask(w) /\ UNCHANGED parser
  BY <1>1, <1>4, MaskTyped
<1>5. CASE ReadNothing(w) /\ UNCHANGED parser
  BY <1>1, <1>5, ClosedTyped DEF ReadNothing
<1>6. CASE ReadText(w) /\ BeginParse(w, TextOf(w))
  <2>1. PICK n \in Nat : n = Payload(w)
    BY TextTyped
  <2>2. PICK line \in Seq(Chars) : line = TextOf(w)
    BY TextTyped
  <2>3. /\ BeginParse(w, line) /\ Recv(w, n) /\ At(w, "parse")
        /\ len' = [len EXCEPT ![w] = 0] /\ key' = [key EXCEPT ![w] = <<>>]
    BY <1>6, <2>1, <2>2 DEF ReadText
  <2>4. QED
    BY <1>1, <2>3, GoesToParse
<1>7. CASE EndAdrift(w) /\ UNCHANGED parser
  BY <1>1, <1>7, ClosedTyped DEF EndAdrift
<1>8. CASE ReadAdrift(w) /\ \E text \in AnyText : BeginParse(w, text)
  <2>1. PICK line \in AnyText : BeginParse(w, line)
    BY <1>8
  <2>2. line \in Seq(Chars)
    BY AnyTextTyped
  <2>3. PICK n \in DOMAIN inbox[w] : Recv(w, n)
    BY <1>8 DEF ReadAdrift
  <2>4. n \in Nat
    BY DEF Typed, StreamsOK
  <2>5. At(w, "parse") /\ len' = [len EXCEPT ![w] = 0] /\ key' = [key EXCEPT ![w] = <<>>]
    BY <1>8 DEF ReadAdrift
  <2>6. QED
    BY <1>1, <2>1, <2>2, <2>3, <2>4, <2>5, GoesToParse
<1>9. QED
  BY <1>2, <1>3, <1>4, <1>5, <1>6, <1>7, <1>8 DEF ReadFrame
LEMMA ParseTyped ==
  ASSUME Typed, NEW w \in Workers, Parse(w)
  PROVE  Typed'
<1>1. UNCHANGED <<inbox, step, len, key, flight, said>>
  BY DEF Parse, receiver, history
<1>2. StreamsOK' /\ FrameOK' /\ SaidOK'
  BY <1>1, FrameUnchanged, SaidUnchanged DEF Typed, StreamsOK
<1>3. parse[w] # "idle"
  BY DEF Parse, Parsing, FirstToken, ReadSave, NextToken
<1>4. ParserOK' /\ \E point \in {"more", "scan", "done"} : parse' = [parse EXCEPT ![w] = point]
  <2>1. CASE FirstToken(w)
    BY <2>1, FirstTyped DEF Typed
  <2>2. CASE ReadSave(w)
    BY <2>2, ReadTyped DEF Typed
  <2>3. CASE NextToken(w)
    BY <2>3, NextTyped DEF Typed
  <2>4. QED
    BY <2>1, <2>2, <2>3 DEF Parse, Parsing
<1>5. PICK point \in {"more", "scan", "done"} : parse' = [parse EXCEPT ![w] = point]
  BY <1>4
<1>6. StepOK'
  <2>1. step[w] = "parse" /\ "parse" \in Points
    BY <1>3 DEF Typed, StepOK, Points
  <2>2. step' = [step EXCEPT ![w] = "parse"]
    BY <1>1, <2>1 DEF Typed, StepOK
  <2>3. QED
    BY <1>5, <2>1, <2>2, StepTyped DEF Typed
<1>7. QED
  BY <1>2, <1>4, <1>6 DEF Typed
LEMMA UnderstoodTyped ==
  ASSUME Typed, NEW w \in Workers, Understood(w)
  PROVE  Typed'
<1>1. UNCHANGED <<inbox, len, key, flight, said>> /\ EndParse(w)
  BY DEF Understood
<1>2. StreamsOK' /\ FrameOK' /\ SaidOK' /\ ParserOK'
  BY <1>1, FrameUnchanged, SaidUnchanged, EndTyped DEF Typed, StreamsOK
<1>3. StepOK'
  <2>1. PICK p \in Points : step' = [step EXCEPT ![w] = p] /\ p # "parse"
    BY DEF Understood, At, Again, Points
  <2>2. parse' = [parse EXCEPT ![w] = "idle"]
    BY <1>1 DEF EndParse, Proceed
  <2>3. QED
    BY <2>1, <2>2, StepTyped DEF Typed
<1>4. QED
  BY <1>2, <1>3 DEF Typed
LEMMA InitTyped ==
  ASSUME Init
  PROVE  Typed
<1>1. StreamsOK
  <2>1. PICK request \in [1..4 -> Bytes] : request = Request
    BY BytesOf DEF Request
  <2>2. request \in Seq(Bytes)
    <3>1. 4 \in Nat
      OBVIOUS
    <3>2. QED
      BY <3>1, SequenceOf
  <2>3. <<Request>> \in Seq(Seq(Bytes)) /\ <<>> \in Seq(Seq(Bytes)) /\ <<>> \in Seq(Bytes)
    BY <2>1, <2>2, EmptySeq
  <2>4. QED
    BY <2>3 DEF Init, StreamsOK
<1>2. SaidOK
  <2>1. <<>> \in Seq(Items) /\ Len(<<>>) = 0
    BY EmptySeq
  <2>2. said = [w \in Workers |-> <<>>]
    BY DEF Init
  <2>3. \A w \in Workers : Len(Script[w]) \in Nat
    BY WireAssumption
  <2>4. QED
    BY <2>1, <2>2, <2>3 DEF SaidOK
<1>3. FrameOK
  BY DEF Init, FrameOK
<1>4. StepOK
  BY DEF Init, InitParser, StepOK, Points
<1>5. ParserOK
  <2>1. save \in Positions /\ from \in [Workers -> Positions]
    BY DEF Init, InitParser, Positions
  <2>2. buffer \in [Workers -> Seq(Chars)]
    <3>1. <<>> \in Seq(Chars)
      BY EmptySeq
    <3>2. QED
      BY <3>1 DEF Init, InitParser
  <2>3. msg \in [Workers -> Messages] /\ alone \in [Workers -> BOOLEAN]
    BY UnknownTyped DEF Init, InitParser
  <2>4. QED
    BY <2>1, <2>2, <2>3 DEF ParserOK
<1>6. QED
  BY <1>1, <1>2, <1>3, <1>4, <1>5 DEF Typed
LEMMA NextIsTyped ==
  ASSUME Typed, [Next]_vars
  PROVE  Typed'
<1>1. CASE UNCHANGED vars
  BY <1>1 DEF vars, parser, receiver, history, Typed, StreamsOK, SaidOK, FrameOK, StepOK, ParserOK
<1>2. CASE Next
  <2>1. PICK w \in Workers : Say(w) \/ Deliver(w) \/ Serving(w)
    BY <1>2 DEF Next
  <2>2. QED
    BY <2>1, SayTyped, DeliverTyped, PeekTyped, HandshakeTyped, ReadLineTyped, ReadFrameTyped,
       ParseTyped, UnderstoodTyped DEF Serving
<1>3. QED
  BY <1>1, <1>2
LEMMA AlwaysTyped == Spec => []Typed
  BY InitTyped, NextIsTyped, PTL DEF Spec
(* What the types of the sequences say of each byte. *)
LEMMA EachIsByte == \A byte \in Bytes : IsByte(byte)
<1>1. ASSUME NEW byte \in Bytes PROVE IsByte(byte)
  <2>1. CASE byte \in [as : {"http", "key"}, v : 1..4]
    BY <2>1 DEF IsByte
  <2>2. CASE byte \in [as : {"char"}, v : Chars]
    BY <2>2 DEF IsByte
  <2>3. CASE byte \in [as : {"op"}, v : {item.op : item \in Items}]
    BY <2>3 DEF IsByte
  <2>4. CASE byte \in [as : {"len", "ext"}, v : Nat]
    BY <2>4 DEF IsByte
  <2>5. CASE byte \in [as : {"data"}, v : Chars \X (1..4)]
    BY <2>5 DEF IsByte
  <2>6. QED
    BY <2>1, <2>2, <2>3, <2>4, <2>5 DEF Bytes
<1>2. QED
  BY <1>1
LEMMA AllAreBytes ==
  ASSUME NEW bytes \in Seq(Bytes)
  PROVE  AreBytes(bytes)
<1>1. \A i \in 1..Len(bytes) : bytes[i] \in Bytes
  OBVIOUS
<1>2. QED
  BY <1>1, EachIsByte DEF AreBytes
(* handle_client, ws_recv and protocol_parse keep to their types: no more   *)
(* than MAX_ARGS arguments are kept, of no more than ArgSize characters,    *)
(* whatever a client sends and wherever strtok goes on; and what is in      *)
(* flight, unread or being parsed consists of bytes and of characters.      *)
THEOREM WireTyped == Spec => []WireTypeOK
<1>1. ASSUME Typed PROVE WireTypeOK
  <2>1. save \in Workers \X Nat /\ \A w \in Workers : from[w] \in Workers \X Nat
    BY <1>1 DEF Typed, ParserOK, Positions
  <2>2. \A w \in Workers : /\ msg[w].cmd \in Commands \cup {<<>>}
                          /\ Len(msg[w].args) <= MAX_ARGS
                          /\ \A i \in DOMAIN msg[w].args : Len(msg[w].args[i]) \in 1..ArgSize
    BY <1>1 DEF Typed, ParserOK, Messages
  <2>3. \A w \in Workers : step[w] \in Points /\ (parse[w] = "idle") = (step[w] # "parse")
    BY <1>1 DEF Typed, StepOK
  <2>4. \A w \in Workers : len[w] \in Nat /\ \A i \in DOMAIN key[w] : i <= 4
    BY <1>1 DEF Typed, FrameOK
  <2>5. \A w \in Workers : Len(said[w]) <= Len(Script[w])
    BY <1>1 DEF Typed, SaidOK
  <2>6. ASSUME NEW w \in Workers
        PROVE  /\ AreBytes(inbox[w]) /\ \A m \in 1..Len(flight[w]) : AreBytes(flight[w][m])
               /\ said[w] \in Seq(Items)
    <3>1. inbox[w] \in Seq(Bytes) /\ flight[w] \in Seq(Seq(Bytes)) /\ said[w] \in Seq(Items)
      BY <1>1 DEF Typed, StreamsOK, SaidOK
    <3>2. PICK S : S = Seq(Bytes)
      OBVIOUS
    <3>3. flight[w] \in Seq(S)
      BY <3>1, <3>2
    <3>4. ASSUME NEW m \in 1..Len(flight[w]) PROVE AreBytes(flight[w][m])
      <4>1. flight[w][m] \in S
        BY <3>3
      <4>2. PICK bytes \in Seq(Bytes) : bytes = flight[w][m]
        BY <3>2, <4>1
      <4>3. QED
        BY <4>2, AllAreBytes
    <3>5. QED
      BY <3>1, <3>4, AllAreBytes
  <2>7. \A w \in Workers : buffer[w] \in Seq(Chars) /\ alone[w] \in BOOLEAN
    BY <1>1 DEF Typed, ParserOK
  <2>8. QED
    BY <2>1, <2>2, <2>3, <2>4, <2>5, <2>6, <2>7 DEF WireTypeOK
<1>2. QED
  BY <1>1, AlwaysTyped, PTL
--------------------------------------------------------------------------------
(* What protocol_parse has made of a line. *)
LEMMA WordsAre ==
  ASSUME NEW C, NEW b \in Seq(C), NEW ps \in Seq(Stretches(b))
  PROVE  Words(b, ps) \in Seq(Seq(C)) /\ Len(Words(b, ps)) = Len(ps)
<1>1. PICK n \in Nat : n = Len(ps) /\ DOMAIN ps = 1..n
  OBVIOUS
<1>2. ASSUME NEW j \in 1..n PROVE SubSeq(b, ps[j][1], ps[j][2]) \in Seq(C)
  <2>1. PICK p \in Stretches(b) : p = ps[j]
    BY <1>1
  <2>2. p[1] \in 1..Len(b) /\ p[2] \in p[1]..Len(b) /\ Len(b) \in Nat
    BY StretchOf
  <2>3. p[1] \in Nat \ {0} /\ p[2] \in Nat /\ p[2] <= Len(b)
    BY <2>2
  <2>4. QED
    BY <2>1, <2>3, PartOf
<1>3. Words(b, ps) \in [1..n -> Seq(C)]
  BY <1>1, <1>2 DEF Words
<1>4. QED
  BY <1>1, <1>3, SequenceOf
LEMMA Nothing ==
  ASSUME NEW C, NEW b \in Seq(C)
  PROVE  Boundary(b, 1) /\ Enumerates(b, 1, <<>>) /\ Words(b, <<>>) = <<>>
<1>1. Len(b) \in Nat
  OBVIOUS
<1>2. Boundary(b, 1)
  BY <1>1 DEF Boundary
<1>3. <<>> \in Seq(Stretches(b)) /\ DOMAIN <<>> = {} /\ InOrder(<<>>)
  BY EmptySeq DEF InOrder
<1>4. \A p \in Stretches(b) : ~(p[1] < 1)
  <2>1. ASSUME NEW p \in Stretches(b) PROVE ~(p[1] < 1)
    BY StretchOf
  <2>2. QED
    BY <2>1
<1>5. Enumerates(b, 1, <<>>)
  BY <1>3, <1>4 DEF Enumerates
<1>6. Words(b, <<>>) = <<>>
  BY <1>3 DEF Words
<1>7. QED
  BY <1>2, <1>5, <1>6
(* The fields of a line begin with the words that were found first. *)
LEMMA FieldsBegin ==
  ASSUME NEW C, NEW b \in Seq(C), NEW i \in Nat, Boundary(b, i), NEW ps, Enumerates(b, i, ps)
  PROVE  /\ Len(Fields(b)) \in Nat /\ Len(ps) \in Nat /\ Len(ps) <= Len(Fields(b))
         /\ \A j \in 1..Len(ps) : Fields(b)[j] = Words(b, ps)[j]
<1>1. PICK qs \in Seq(Stretches(b)) : Extended(b, ps, qs)
  BY Extends
<1>2. Fields(b) = Words(b, qs)
  BY <1>1, FieldsAre DEF Extended
<1>3. Len(Fields(b)) = Len(qs) /\ Len(qs) \in Nat /\ Len(ps) \in Nat /\ Len(ps) <= Len(qs)
  BY <1>1, <1>2, WordsAre DEF Extended, Enumerates
<1>4. ASSUME NEW j \in 1..Len(ps) PROVE Words(b, qs)[j] = Words(b, ps)[j]
  <2>1. j \in DOMAIN ps /\ j \in DOMAIN qs /\ qs[j] = ps[j]
    BY <1>1, <1>3 DEF Extended, Enumerates
  <2>2. QED
    BY <2>1 DEF Words
<1>5. QED
  BY <1>2, <1>3, <1>4

ReadSoFar(m, words) ==
    /\ words # <<>> /\ m.cmd = words[1] /\ m.cmd \in Commands /\ Len(m.args) = Len(words) - 1
    /\ \A j \in 1..Len(m.args) : m.args[j] = Kept(words[j + 1])
Reading(b, m, i) ==
    /\ i \in Nat \ {0} /\ Boundary(b, i)
    /\ \E ps \in Seq(Stretches(b)) : Enumerates(b, i, ps) /\ ReadSoFar(m, Words(b, ps))
Finished(b, m) == Modest(Fields(b)) => m = Meaning(Fields(b))

LEMMA FirstWord ==
  ASSUME NEW b \in Seq(Chars), NEW m, m.args = <<>>, m.cmd = Token(b, 1), Token(b, 1) \in Commands
  PROVE  Reading(b, m, After(b, 1))
<1>1. PICK token : token = Token(b, 1)
  OBVIOUS
<1>2. token # <<>> /\ token \in Commands
  BY <1>1, CharsAre
<1>3. 1 \in Nat /\ Boundary(b, 1) /\ Enumerates(b, 1, <<>>) /\ Words(b, <<>>) = <<>>
  BY Nothing
<1>4. PICK p \in Stretches(b) : /\ Words(b, Append(<<>>, p)) = Append(<<>>, token)
                               /\ Enumerates(b, After(b, 1), Append(<<>>, p))
                               /\ Boundary(b, After(b, 1)) /\ 1 < After(b, 1)
  BY <1>1, <1>2, <1>3, OneMoreToken
<1>5. PICK ps : ps = Append(<<>>, p)
  OBVIOUS
<1>6. PICK words : words = Append(<<>>, token)
  OBVIOUS
<1>7. words = <<token>>
  BY <1>6
<1>8. ReadSoFar(m, words)
  BY <1>1, <1>2, <1>7 DEF ReadSoFar
<1>9. After(b, 1) \in Nat \ {0}
  <2>1. 1 \in Nat \ {0}
    OBVIOUS
  <2>2. QED
    BY <2>1, TokenTyped
<1>10. Enumerates(b, After(b, 1), ps) /\ Words(b, ps) = words
  BY <1>4, <1>5, <1>6
<1>11. ps \in Seq(Stretches(b))
  BY <1>10 DEF Enumerates
<1>12. QED
  BY <1>4, <1>8, <1>9, <1>10, <1>11 DEF Reading
LEMMA NotUnderstood ==
  ASSUME NEW b \in Seq(Chars), Token(b, 1) \notin Commands
  PROVE  Finished(b, Unknown)
<1>1. 1 \in Nat /\ Boundary(b, 1) /\ Enumerates(b, 1, <<>>) /\ Words(b, <<>>) = <<>>
  BY Nothing
<1>2. CASE Token(b, 1) = <<>>
  <2>1. Enumerates(b, Len(b) + 1, <<>>)
    BY <1>1, <1>2, NoMoreToken
  <2>2. Fields(b) = <<>>
    BY <1>1, <2>1, FieldsAre
  <2>3. QED
    BY <2>2 DEF Finished, Meaning
<1>3. CASE Token(b, 1) # <<>>
  <2>1. PICK token : token = Token(b, 1)
    OBVIOUS
  <2>2. PICK p \in Stretches(b) : /\ Words(b, Append(<<>>, p)) = Append(<<>>, token)
                                 /\ Enumerates(b, After(b, 1), Append(<<>>, p))
                                 /\ Boundary(b, After(b, 1)) /\ 1 < After(b, 1)
    BY <1>1, <1>3, <2>1, OneMoreToken
  <2>3. PICK ps : ps = Append(<<>>, p)
    OBVIOUS
  <2>4. PICK words : words = Append(<<>>, token)
    OBVIOUS
  <2>5. words = <<token>> /\ Len(ps) = 1
    BY <2>3, <2>4
  <2>6. After(b, 1) \in Nat
    <3>1. 1 \in Nat \ {0}
      OBVIOUS
    <3>2. QED
      BY <3>1, TokenTyped
  <2>7. Len(Fields(b)) \in Nat /\ 1 <= Len(Fields(b)) /\ Fields(b)[1] = words[1]
    <3>1. Enumerates(b, After(b, 1), ps) /\ Words(b, ps) = words /\ Boundary(b, After(b, 1))
      BY <2>2, <2>3, <2>4
    <3>2. Len(Fields(b)) \in Nat /\ Len(ps) <= Len(Fields(b)) /\ \A j \in 1..Len(ps) : Fields(b)[j] = words[j]
      BY <2>6, <3>1, FieldsBegin
    <3>3. QED
      BY <2>5, <3>2
  <2>8. Fields(b)[1] \notin Commands
    BY <2>1, <2>5, <2>7
  <2>9. QED
    BY <2>8 DEF Finished, Meaning
<1>4. QED
  BY <1>2, <1>3
LEMMA OneMoreWord ==
  ASSUME NEW b \in Seq(Chars), NEW m \in Messages, NEW i, Reading(b, m, i), NEW token,
         token = Token(b, i), token # <<>>
  PROVE  Reading(b, [m EXCEPT !.args = Append(@, Kept(token))], After(b, i))
<1>1. PICK ps \in Seq(Stretches(b)) : Enumerates(b, i, ps) /\ ReadSoFar(m, Words(b, ps))
  BY DEF Reading
<1>2. i \in Nat \ {0} /\ i \in Nat /\ Boundary(b, i)
  BY DEF Reading
<1>3. PICK p \in Stretches(b) : /\ Words(b, Append(ps, p)) = Append(Words(b, ps), token)
                               /\ Enumerates(b, After(b, i), Append(ps, p))
                               /\ Boundary(b, After(b, i)) /\ i < After(b, i)
  BY <1>1, <1>2, OneMoreToken
<1>4. PICK qs : qs = Append(ps, p)
  OBVIOUS
<1>5. PICK us \in Seq(Seq(Chars)) : us = Words(b, ps)
  BY WordsAre
<1>6. token \in Seq(Chars) /\ After(b, i) \in Nat \ {0}
  BY <1>2, TokenTyped
<1>7. PICK vs \in Seq(Seq(Chars)) : vs = Append(us, token)
  BY <1>6, AppendProperties
<1>8. PICK l \in Nat : l = Len(us)
  OBVIOUS
<1>9. Len(vs) = l + 1 /\ vs[l + 1] = token /\ \A j \in 1..l : vs[j] = us[j]
  BY <1>7, <1>8
<1>10. PICK args \in Seq(Seq(Chars)) : args = m.args
  BY DEF Messages
<1>11. PICK arg \in Seq(Chars) : arg = Kept(token)
  BY <1>6, KeptTyped
<1>12. PICK all \in Seq(Seq(Chars)) : all = Append(args, arg)
  BY AppendProperties
<1>13. l # 0 /\ Len(args) = l - 1 /\ m.cmd = us[1] /\ m.cmd \in Commands
       /\ \A j \in 1..(l - 1) : args[j] = Kept(us[j + 1])
  BY <1>1, <1>5, <1>8, <1>10 DEF ReadSoFar
<1>14. Len(all) = l /\ all[l] = arg /\ \A j \in 1..(l - 1) : all[j] = args[j]
  BY <1>8, <1>12, <1>13
<1>15. PICK n : n = [m EXCEPT !.args = all]
  OBVIOUS
<1>16. n.cmd = m.cmd /\ n.args = all
  BY <1>15 DEF Messages
<1>17. \A j \in 1..l : all[j] = Kept(vs[j + 1])
  <2>1. ASSUME NEW j \in 1..l PROVE all[j] = Kept(vs[j + 1])
    <3>1. CASE j = l
      BY <1>9, <1>11, <1>14, <3>1
    <3>2. CASE j # l
      <4>1. j \in 1..(l - 1) /\ j + 1 \in 1..l
        BY <3>2
      <4>2. QED
        BY <1>9, <1>13, <1>14, <4>1
    <3>3. QED
      BY <3>1, <3>2
  <2>2. QED
    BY <2>1
<1>18. vs # <<>> /\ vs[1] = us[1]
  BY <1>8, <1>9, <1>13
<1>19. ReadSoFar(n, vs)
  BY <1>9, <1>13, <1>14, <1>16, <1>17, <1>18 DEF ReadSoFar
<1>20. Enumerates(b, After(b, i), qs) /\ Words(b, qs) = vs
  BY <1>3, <1>4, <1>5, <1>7
<1>21. qs \in Seq(Stretches(b))
  BY <1>20 DEF Enumerates
<1>22. Reading(b, n, After(b, i))
  BY <1>3, <1>6, <1>19, <1>20, <1>21 DEF Reading
<1>23. [m EXCEPT !.args = Append(@, Kept(token))] = n
  BY <1>10, <1>11, <1>12, <1>15
<1>24. QED
  BY <1>22, <1>23
LEMMA AllRead ==
  ASSUME NEW b \in Seq(Chars), NEW m \in Messages, NEW i, Reading(b, m, i),
         Token(b, i) = <<>> \/ ~(Len(m.args) < MAX_ARGS)
  PROVE  Finished(b, m)
<1>1. PICK ps \in Seq(Stretches(b)) : Enumerates(b, i, ps) /\ ReadSoFar(m, Words(b, ps))
  BY DEF Reading
<1>2. i \in Nat \ {0} /\ i \in Nat /\ Boundary(b, i)
  BY DEF Reading
<1>3. PICK words \in Seq(Seq(Chars)) : words = Words(b, ps) /\ Len(words) = Len(ps)
  BY WordsAre
<1>4. PICK args \in Seq(Seq(Chars)) : args = m.args
  BY DEF Messages
<1>5. PICK l \in Nat : l = Len(words)
  OBVIOUS
<1>6. l # 0 /\ Len(args) = l - 1 /\ m.cmd = words[1] /\ m.cmd \in Commands
      /\ \A j \in 1..(l - 1) : args[j] = Kept(words[j + 1])
  BY <1>1, <1>3, <1>4, <1>5 DEF ReadSoFar
<1>7. MAX_ARGS \in Nat
  BY ParserAssumption
<1>8. CASE Token(b, i) # <<>>
  <2>1. ~(l - 1 < MAX_ARGS)
    BY <1>4, <1>6, <1>8
  <2>2. PICK p \in Stretches(b) : /\ Enumerates(b, After(b, i), Append(ps, p))
                                 /\ Boundary(b, After(b, i))
    BY <1>1, <1>2, <1>8, OneMoreToken
  <2>3. PICK qs : qs = Append(ps, p)
    OBVIOUS
  <2>4. Len(qs) = l + 1
    BY <1>3, <1>5, <2>3
  <2>5. After(b, i) \in Nat
    BY <1>2, TokenTyped
  <2>6. Len(Fields(b)) \in Nat /\ Len(qs) <= Len(Fields(b))
    BY <2>2, <2>3, <2>5, FieldsBegin
  <2>7. ~(Len(Fields(b)) <= MAX_ARGS + 1)
    BY <1>7, <2>1, <2>4, <2>6
  <2>8. QED
    BY <2>7 DEF Finished, Modest
<1>9. CASE Token(b, i) = <<>>
  <2>1. Enumerates(b, Len(b) + 1, ps)
    BY <1>1, <1>2, <1>9, NoMoreToken
  <2>2. Fields(b) = words
    BY <1>3, <2>1, FieldsAre
  <2>3. SUFFICES ASSUME Modest(words) PROVE m = Meaning(words)
    BY <2>2 DEF Finished
  <2>4. ASSUME NEW j \in 1..(l - 1) PROVE args[j] = words[j + 1]
    <3>1. j + 1 \in DOMAIN words /\ j + 1 > 1
      BY <1>5
    <3>2. Len(words[j + 1]) <= ArgSize /\ words[j + 1] \in Seq(Chars)
      BY <2>3, <3>1 DEF Modest
    <3>3. words[j + 1] # <<>>
      <4>1. PICK q \in Stretches(b) : q = ps[j + 1]
        BY <1>3, <1>5, <3>1
      <4>2. q[1] \in 1..Len(b) /\ q[2] \in q[1]..Len(b) /\ Len(b) \in Nat
        BY StretchOf
      <4>3. q[1] \in Nat \ {0} /\ q[2] \in Nat /\ q[2] <= Len(b) /\ q[1] <= q[2]
        BY <4>2
      <4>4. Len(SubSeq(b, q[1], q[2])) = q[2] - q[1] + 1
        BY <4>3, PartOf
      <4>5. Len(SubSeq(b, q[1], q[2])) # 0
        BY <4>3, <4>4
      <4>6. words[j + 1] = SubSeq(b, q[1], q[2])
        <5>1. j + 1 \in DOMAIN ps
          BY <1>3, <1>5, <3>1
        <5>2. Words(b, ps)[j + 1] = SubSeq(b, ps[j + 1][1], ps[j + 1][2])
          BY <5>1 DEF Words
        <5>3. QED
          BY <1>3, <4>1, <5>2
      <4>7. Len(words[j + 1]) # 0
        BY <4>5, <4>6
      <4>8. Len(<<>>) = 0
        OBVIOUS
      <4>9. QED
        BY <4>7, <4>8, Zenon
    <3>4. Kept(words[j + 1]) = words[j + 1]
      BY <3>2, <3>3, KeptTyped
    <3>5. QED
      BY <1>6, <3>4
  <2>5. PICK rest \in Seq(Seq(Chars)) : rest = Tail(words) /\ Len(rest) = l - 1
                        /\ \A j \in 1..(l - 1) : rest[j] = words[j + 1]
    <3>1. words # <<>>
      BY <1>5, <1>6
    <3>2. /\ Tail(words) \in Seq(Seq(Chars)) /\ Len(Tail(words)) = Len(words) - 1
          /\ \A j \in 1..Len(Tail(words)) : Tail(words)[j] = words[j + 1]
      BY <3>1, HeadTailProperties
    <3>3. QED
      BY <1>5, <3>2
  <2>6. args = rest
    BY <1>6, <2>4, <2>5, SeqEqual
  <2>7. words # <<>> /\ words[1] \in Commands
    BY <1>5, <1>6
  <2>8. m = [cmd |-> words[1], args |-> rest]
    BY <1>4, <1>6, <2>6 DEF Messages
  <2>9. QED
    BY <2>5, <2>7, <2>8 DEF Meaning
<1>10. QED
  BY <1>8, <1>9

(* What a worker has read, as long as nobody else has called strtok. *)
ParseIs(w) ==
    parse[w] # "idle" /\ alone[w] =>
        /\ parse[w] = "first" => msg[w] = Unknown
        /\ parse[w] \in {"more", "scan"} => save[1] = w /\ Reading(buffer[w], msg[w], save[2])
        /\ parse[w] = "scan" => from[w] = save
        /\ parse[w] = "done" => Finished(buffer[w], msg[w])
ParserInv == Typed /\ \A w \in Workers : ParseIs(w)

LEMMA InvInit ==
  ASSUME Init
  PROVE  ParserInv
  BY InitTyped DEF ParserInv, ParseIs, Init, InitParser
(* A worker that does not parse changes nothing of what others have read,   *)
(* and whoever calls strtok tells the others.                               *)
LEMMA BeginKeepsOthers ==
  ASSUME ParserInv, NEW w \in Workers, NEW line, BeginParse(w, line), NEW v \in Workers
  PROVE  ParseIs(v)'
<1>1. ParserOK /\ StepOK /\ ParseIs(v)
  BY DEF ParserInv, Typed
<1>2. CASE v = w
  BY <1>1, <1>2 DEF BeginParse, Proceed, ParserOK, StepOK, ParseIs
<1>3. CASE v # w
  BY <1>1, <1>3 DEF BeginParse, Proceed, ParserOK, StepOK, ParseIs
<1>4. QED
  BY <1>2, <1>3
LEMMA EndKeepsOthers ==
  ASSUME ParserInv, NEW w \in Workers, EndParse(w), NEW v \in Workers
  PROVE  ParseIs(v)'
<1>1. ParserOK /\ StepOK /\ ParseIs(v)
  BY DEF ParserInv, Typed
<1>2. CASE v = w
  BY <1>1, <1>2 DEF EndParse, Proceed, ParserOK, StepOK, ParseIs
<1>3. CASE v # w
  BY <1>1, <1>3 DEF EndParse, Proceed, ParserOK, StepOK, ParseIs
<1>4. QED
  BY <1>2, <1>3
LEMMA SaveTellsOthers ==
  ASSUME ParserInv, NEW w \in Workers, NEW position, SetSave(w, position), NEW point,
         parse' = [parse EXCEPT ![w] = point], NEW v \in Workers, v # w
  PROVE  ParseIs(v)'
<1>1. alone'[v] = (parse[v] = "idle") /\ parse'[v] = parse[v]
  BY DEF SetSave, ParserInv, Typed, StepOK
<1>2. QED
  BY <1>1 DEF ParseIs
LEMMA FirstKeeps ==
  ASSUME ParserInv, NEW w \in Workers, FirstToken(w), NEW v \in Workers
  PROVE  ParseIs(v)'
<1>1. ParserOK /\ StepOK /\ ParseIs(w)
  BY DEF ParserInv, Typed
<1>2. PICK token : token = Token(buffer[w], 1)
  OBVIOUS
<1>3. SetSave(w, <<w, After(buffer[w], 1)>>) /\ parse[w] = "first" /\ UNCHANGED <<from, buffer>>
  BY DEF FirstToken
<1>4. PICK point : parse' = [parse EXCEPT ![w] = point]
  BY DEF FirstToken, Proceed
<1>5. CASE v # w
  BY <1>3, <1>4, <1>5, SaveTellsOthers
<1>6. CASE v = w
  <2>1. SUFFICES ASSUME alone'[w] PROVE ParseIs(w)'
    BY <1>6 DEF ParseIs
  <2>2. alone[w] /\ msg[w] = Unknown
    BY <1>1, <1>3, <2>1 DEF SetSave, ParseIs
  <2>3. PICK b \in Seq(Chars) : b = buffer[w]
    BY <1>1 DEF ParserOK
  <2>4. CASE token \in Commands /\ msg' = [msg EXCEPT ![w].cmd = token] /\ Proceed(w, "more")
    <3>1. PICK m : m = msg'[w]
      OBVIOUS
    <3>2. m.cmd = token /\ m.args = <<>>
      BY <1>1, <2>2, <2>4, <3>1 DEF ParserOK, Unknown
    <3>3. Reading(b, m, After(b, 1))
      BY <1>2, <2>3, <2>4, <3>2, FirstWord
    <3>4. PICK position : position = <<w, After(buffer[w], 1)>>
      OBVIOUS
    <3>5. save' = position /\ position[1] = w /\ position[2] = After(b, 1)
      BY <1>3, <2>3, <3>4 DEF SetSave
    <3>6. buffer'[w] = b /\ parse'[w] = "more"
      BY <1>1, <1>3, <2>3, <2>4 DEF Proceed, StepOK
    <3>7. QED
      BY <3>1, <3>3, <3>5, <3>6 DEF ParseIs
  <2>5. CASE token \notin Commands /\ UNCHANGED msg /\ Proceed(w, "done")
    <3>1. Finished(b, Unknown)
      BY <1>2, <2>3, <2>5, NotUnderstood
    <3>2. buffer'[w] = b /\ parse'[w] = "done" /\ msg'[w] = Unknown
      BY <1>1, <1>3, <2>2, <2>3, <2>5 DEF Proceed, StepOK
    <3>3. QED
      BY <3>1, <3>2 DEF ParseIs
  <2>6. QED
    BY <1>2, <2>4, <2>5 DEF FirstToken
<1>7. QED
  BY <1>5, <1>6
LEMMA ReadKeeps ==
  ASSUME ParserInv, NEW w \in Workers, ReadSave(w), NEW v \in Workers
  PROVE  ParseIs(v)'
<1>1. ParserOK /\ StepOK /\ ParseIs(v)
  BY DEF ParserInv, Typed
<1>2. CASE v = w
  BY <1>1, <1>2 DEF ReadSave, Proceed, ParserOK, StepOK, ParseIs
<1>3. CASE v # w
  BY <1>1, <1>3 DEF ReadSave, Proceed, ParserOK, StepOK, ParseIs
<1>4. QED
  BY <1>2, <1>3
LEMMA NextKeeps ==
  ASSUME ParserInv, NEW w \in Workers, NextToken(w), NEW v \in Workers
  PROVE  ParseIs(v)'
<1>1. ParserOK /\ StepOK /\ ParseIs(w)
  BY DEF ParserInv, Typed
<1>2. PICK u, i : u = from[w][1] /\ i = from[w][2]
  OBVIOUS
<1>3. SetSave(w, <<u, After(buffer[u], i)>>) /\ parse[w] = "scan" /\ UNCHANGED <<from, buffer>>
  BY <1>2 DEF NextToken
<1>4. PICK token : token \in (IF u = w \/ parse[u] # "idle" THEN {Token(buffer[u], i)}
                             ELSE {<<>>, <<STALE>>}) /\
              ((token # <<>> /\ HasRoom(w) /\
                msg' = [msg EXCEPT ![w].args = Append(@, Kept(token))] /\ Proceed(w, "more")) \/
               ((token = <<>> \/ ~HasRoom(w)) /\ Proceed(w, "done") /\ UNCHANGED msg))
  BY <1>2 DEF NextToken
<1>5. PICK point : parse' = [parse EXCEPT ![w] = point]
  BY <1>4 DEF Proceed
<1>6. CASE v # w
  BY <1>3, <1>5, <1>6, SaveTellsOthers
<1>7. CASE v = w
  <2>1. SUFFICES ASSUME alone'[w] PROVE ParseIs(w)'
    BY <1>7 DEF ParseIs
  <2>2. alone[w]
    BY <1>3, <2>1 DEF SetSave
  <2>3. PICK b \in Seq(Chars) : b = buffer[w]
    BY <1>1 DEF ParserOK
  <2>4. PICK m \in Messages : m = msg[w]
    BY <1>1 DEF ParserOK
  <2>5. u = w /\ Reading(b, m, i)
    BY <1>1, <1>2, <1>3, <2>2, <2>3, <2>4 DEF ParseIs
  <2>6. token = Token(b, i)
    BY <1>4, <2>3, <2>5
  <2>7. CASE token # <<>> /\ HasRoom(w) /\ Proceed(w, "more") /\
             msg' = [msg EXCEPT ![w].args = Append(@, Kept(token))]
    <3>1. PICK n : n = [m EXCEPT !.args = Append(@, Kept(token))]
      OBVIOUS
    <3>2. Reading(b, n, After(b, i))
      BY <2>5, <2>6, <2>7, <3>1, OneMoreWord
    <3>3. msg'[w] = n
      BY <1>1, <2>4, <2>7, <3>1 DEF ParserOK
    <3>4. PICK position : position = <<u, After(buffer[u], i)>>
      OBVIOUS
    <3>5. save' = position /\ position[1] = w /\ position[2] = After(b, i)
      BY <1>3, <2>3, <2>5, <3>4 DEF SetSave
    <3>6. buffer'[w] = b /\ parse'[w] = "more"
      BY <1>1, <1>3, <2>3, <2>7 DEF Proceed, StepOK
    <3>7. QED
      BY <3>2, <3>3, <3>5, <3>6 DEF ParseIs
  <2>8. CASE (token = <<>> \/ ~HasRoom(w)) /\ UNCHANGED msg /\ Proceed(w, "done")
    <3>1. Token(b, i) = <<>> \/ ~(Len(m.args) < MAX_ARGS)
      BY <2>4, <2>6, <2>8 DEF HasRoom
    <3>2. Finished(b, m)
      BY <2>5, <3>1, AllRead
    <3>3. buffer'[w] = b /\ parse'[w] = "done" /\ msg'[w] = m
      BY <1>1, <1>3, <2>3, <2>4, <2>8 DEF Proceed, StepOK
    <3>4. QED
      BY <3>2, <3>3 DEF ParseIs
  <2>9. QED
    BY <1>4, <2>7, <2>8
<1>8. QED
  BY <1>6, <1>7
LEMMA InvNext ==
  ASSUME ParserInv, [Next]_vars
  PROVE  ParserInv'
<1>1. Typed'
  BY NextIsTyped DEF ParserInv
<1>2. SUFFICES ASSUME NEW v \in Workers PROVE ParseIs(v)'
  BY <1>1 DEF ParserInv
<1>3. CASE UNCHANGED parser
  BY <1>3 DEF ParserInv, ParseIs, parser
<1>4. ASSUME NEW w \in Workers, NEW line, BeginParse(w, line) PROVE ParseIs(v)'
  BY <1>4, BeginKeepsOthers
<1>5. CASE UNCHANGED vars
  BY <1>3, <1>5 DEF vars
<1>6. CASE Next
  <2>1. PICK w \in Workers : Say(w) \/ Deliver(w) \/ Serving(w)
    BY <1>6 DEF Next
  <2>2. CASE Say(w) \/ Deliver(w) \/ Peek(w) \/ Handshake(w)
    BY <1>3, <2>2 DEF Say, Deliver, Peek, Handshake
  <2>3. CASE ReadLine(w)
    BY <1>3, <1>4, <2>3 DEF ReadLine
  <2>4. CASE ReadFrame(w)
    BY <1>3, <1>4, <2>4 DEF ReadFrame
  <2>5. CASE Parse(w)
    BY <2>5, FirstKeeps, ReadKeeps, NextKeeps DEF Parse, Parsing
  <2>6. CASE Understood(w)
    BY <2>6, EndKeepsOthers DEF Understood
  <2>7. QED
    BY <2>1, <2>2, <2>3, <2>4, <2>5, <2>6 DEF Serving
<1>7. QED
  BY <1>5, <1>6
(* protocol_parse understands every line that it has to itself and room     *)
(* for, whatever the line, the commands and the sizes.                      *)
THEOREM ParserRight == Spec => []ParsedRight
<1>1. ASSUME ParserInv PROVE ParsedRight
  BY <1>1 DEF ParserInv, ParseIs, Finished, ParsedRight
<1>2. QED
  BY <1>1, InvInit, InvNext, PTL DEF Spec
================================================================================
