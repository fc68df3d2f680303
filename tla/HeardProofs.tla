------------------------------ MODULE HeardProofs ------------------------------
(* Proofs about Wire that what is heard on an ordinary connection is what    *)
(* was said on it: for any workers, scripts and sizes, and whatever parts    *)
(* the messages of other connections arrive in.                              *)
EXTENDS WireProofs

(* The same characters, k places further on. *)
Same(a, b, k, x, y) == \A j \in x..y : a[j] = b[j + k]

LEMMA SamePart ==
  ASSUME NEW C, NEW a \in Seq(C), NEW b \in Seq(C), NEW k \in Nat, NEW x \in Nat \ {0}, NEW y \in Nat,
         y <= Len(a), y + k <= Len(b), Same(a, b, k, x, y)
  PROVE  SubSeq(a, x, y) = SubSeq(b, x + k, y + k)
<1>1. x \in Int /\ y \in Int /\ x + k \in Int /\ y + k \in Int
  OBVIOUS
<1>2. \A j \in x..y : a[j] \in C
  OBVIOUS
<1>3. \A j \in (x + k)..(y + k) : b[j] \in C
  OBVIOUS
<1>4. PICK s : s = SubSeq(a, x, y)
  OBVIOUS
<1>5. PICK t : t = SubSeq(b, x + k, y + k)
  OBVIOUS
<1>6. /\ s \in Seq(C) /\ Len(s) = IF x <= y THEN y - x + 1 ELSE 0
      /\ \A i \in 1..(y - x + 1) : s[i] = a[x + i - 1]
  BY <1>1, <1>2, <1>4, SubSeqProperties
<1>7. /\ t \in Seq(C) /\ Len(t) = IF x + k <= y + k THEN (y + k) - (x + k) + 1 ELSE 0
      /\ \A i \in 1..((y + k) - (x + k) + 1) : t[i] = b[x + k + i - 1]
  BY <1>1, <1>3, <1>5, SubSeqProperties
<1>8. Len(s) = Len(t)
  BY <1>6, <1>7
<1>9. ASSUME NEW i \in 1..Len(s) PROVE s[i] = t[i]
  <2>1. x <= y /\ i \in 1..(y - x + 1) /\ i \in 1..((y + k) - (x + k) + 1)
    BY <1>6
  <2>2. x + i - 1 \in x..y /\ (x + i - 1) + k = x + k + i - 1
    BY <2>1
  <2>3. a[x + i - 1] = b[(x + i - 1) + k]
    BY <2>2 DEF Same
  <2>4. QED
    BY <1>6, <1>7, <2>1, <2>2, <2>3
<1>10. QED
  BY <1>4, <1>5, <1>6, <1>7, <1>8, <1>9, SeqEqual

LEMMA Listed ==
  ASSUME NEW C, NEW b \in Seq(C)
  PROVE  \E qs \in Seq(Stretches(b)) : Enumerates(b, Len(b) + 1, qs) /\ Fields(b) = Words(b, qs)
<1>1. 1 \in Nat /\ Boundary(b, 1) /\ Enumerates(b, 1, <<>>)
  BY Nothing
<1>2. PICK qs \in Seq(Stretches(b)) : Extended(b, <<>>, qs)
  BY <1>1, Extends
<1>3. Enumerates(b, Len(b) + 1, qs)
  BY <1>2 DEF Extended
<1>4. QED
  BY <1>3, FieldsAre

(* The stretches of a line on both sides of a bar. *)
Halves(b, i, u, v) ==
    /\ Len(u) = i - 1 /\ \A j \in 1..Len(u) : u[j] = b[j]
    /\ Len(v) = Len(b) - i /\ \A j \in 1..Len(v) : v[j] = b[j + i]
Later(p, i) == <<p[1] + i, p[2] + i>>

LEMMA LeftStretch ==
  ASSUME NEW C, NEW b \in Seq(C), NEW i \in 1..Len(b), b[i] = BAR, NEW u \in Seq(C), NEW v \in Seq(C),
         Halves(b, i, u, v), NEW p \in Stretches(u)
  PROVE  p \in Stretches(b) /\ p[1] < i /\ p[2] < i
<1>1. /\ p[1] \in 1..Len(u) /\ p[2] \in p[1]..Len(u) /\ p = <<p[1], p[2]>>
      /\ \A j \in p[1]..p[2] : u[j] # BAR
      /\ p[1] = 1 \/ u[p[1] - 1] = BAR
      /\ p[2] = Len(u) \/ u[p[2] + 1] = BAR
  BY StretchOf
<1>2. Len(b) \in Nat /\ Len(u) = i - 1 /\ \A j \in 1..Len(u) : u[j] = b[j]
  BY DEF Halves
<1>3. PICK x \in Nat, y \in Nat : x = p[1] /\ y = p[2] /\ 1 <= x /\ x <= y /\ y <= i - 1
  BY <1>1, <1>2
<1>4. p \in (1..Len(b)) \X (1..Len(b)) /\ p[1] <= p[2]
  BY <1>1, <1>2, <1>3
<1>5. \A j \in p[1]..p[2] : b[j] # BAR
  BY <1>1, <1>2, <1>3
<1>6. p[1] = 1 \/ b[p[1] - 1] = BAR
  BY <1>1, <1>2, <1>3
<1>7. p[2] = Len(b) \/ b[p[2] + 1] = BAR
  BY <1>1, <1>2, <1>3
<1>8. QED
  BY <1>3, <1>4, <1>5, <1>6, <1>7 DEF Stretches

LEMMA RightStretch ==
  ASSUME NEW C, NEW b \in Seq(C), NEW i \in 1..Len(b), b[i] = BAR, NEW u \in Seq(C), NEW v \in Seq(C),
         Halves(b, i, u, v), NEW p \in Stretches(v)
  PROVE  Later(p, i) \in Stretches(b) /\ Later(p, i)[1] > i
<1>1. /\ p[1] \in 1..Len(v) /\ p[2] \in p[1]..Len(v) /\ p = <<p[1], p[2]>>
      /\ \A j \in p[1]..p[2] : v[j] # BAR
      /\ p[1] = 1 \/ v[p[1] - 1] = BAR
      /\ p[2] = Len(v) \/ v[p[2] + 1] = BAR
  BY StretchOf
<1>2. \A j \in 1..Len(v) : v[j] = b[j + i]
  BY DEF Halves
<1>3. Len(b) \in Nat /\ i \in Nat /\ Len(v) \in Nat /\ Len(v) = Len(b) - i
  BY DEF Halves
<1>4. p[1] \in 1..Len(v) /\ p[2] \in p[1]..Len(v)
  BY <1>1
<1>5. PICK x \in Nat, y \in Nat : x = p[1] /\ y = p[2] /\ 1 <= x /\ x <= y /\ y + i <= Len(b)
  BY <1>4, <1>3
<1>6. PICK q : q = <<x + i, y + i>>
  OBVIOUS
<1>7. q \in (1..Len(b)) \X (1..Len(b)) /\ q[1] = x + i /\ q[2] = y + i /\ q[1] \in Nat /\ q[2] \in Nat
  BY <1>3, <1>5, <1>6, SMTT(20)
<1>8. ASSUME NEW j \in q[1]..q[2] PROVE b[j] # BAR
  <2>1. j \in Int /\ x + i <= j /\ j <= y + i
    BY <1>7
  <2>2. j - i \in x..y /\ j - i \in 1..Len(v) /\ (j - i) + i = j
    BY <1>3, <1>5, <2>1, SMTT(20)
  <2>3. v[j - i] = b[j]
    BY <1>2, <2>2
  <2>4. QED
    BY <1>1, <1>5, <2>2, <2>3
<1>9. q[1] = 1 \/ b[q[1] - 1] = BAR
  <2>1. CASE x = 1
    BY <1>7, <2>1
  <2>2. CASE x # 1
    <3>1. x - 1 \in 1..Len(v) /\ (x - 1) + i = q[1] - 1
      BY <1>3, <1>5, <1>7, <2>2, SMTT(20)
    <3>2. v[x - 1] = BAR
      BY <1>1, <1>5, <2>2
    <3>3. QED
      BY <1>2, <3>1, <3>2
  <2>3. QED
    BY <2>1, <2>2
<1>10. q[2] = Len(b) \/ b[q[2] + 1] = BAR
  <2>1. CASE y = Len(v)
    BY <1>3, <1>7, <2>1
  <2>2. CASE y # Len(v)
    <3>1. y + 1 \in 1..Len(v) /\ (y + 1) + i = q[2] + 1
      <4>1. y <= Len(v)
        BY <1>3, <1>5
      <4>2. y < Len(v)
        BY <1>3, <1>5, <2>2, <4>1
      <4>3. y + 1 \in 1..Len(v)
        BY <1>3, <1>5, <4>2
      <4>4. (y + 1) + i = q[2] + 1
        BY <1>3, <1>5, <1>7
      <4>5. QED
        BY <4>3, <4>4
    <3>2. v[y + 1] = BAR
      BY <1>1, <1>5, <2>2
    <3>3. QED
      BY <1>2, <3>1, <3>2
  <2>3. QED
    BY <2>1, <2>2
<1>11. q \in Stretches(b)
  BY <1>5, <1>7, <1>8, <1>9, <1>10 DEF Stretches
<1>12. QED
  BY <1>5, <1>6, <1>7, <1>11 DEF Later

LEMMA StretchInHalf ==
  ASSUME NEW C, NEW b \in Seq(C), NEW i \in 1..Len(b), b[i] = BAR, NEW u \in Seq(C), NEW v \in Seq(C),
         Halves(b, i, u, v), NEW p \in Stretches(b)
  PROVE  p \in Stretches(u) \/ \E q \in Stretches(v) : p = Later(q, i)
<1>1. /\ p[1] \in 1..Len(b) /\ p[2] \in p[1]..Len(b) /\ p = <<p[1], p[2]>>
      /\ \A j \in p[1]..p[2] : b[j] # BAR
      /\ p[1] = 1 \/ b[p[1] - 1] = BAR
      /\ p[2] = Len(b) \/ b[p[2] + 1] = BAR
  BY StretchOf
<1>2. (\A j \in 1..Len(u) : u[j] = b[j]) /\ \A j \in 1..Len(v) : v[j] = b[j + i]
  BY DEF Halves
<1>3. /\ Len(b) \in Nat /\ Len(u) \in Nat /\ Len(v) \in Nat /\ i \in Nat /\ 1 <= i /\ i <= Len(b)
      /\ Len(u) = i - 1 /\ Len(v) = Len(b) - i
  BY DEF Halves
<1>4. p[1] \in 1..Len(b) /\ p[2] \in p[1]..Len(b)
  BY <1>1
<1>5. PICK x \in Nat, y \in Nat : x = p[1] /\ y = p[2] /\ 1 <= x /\ x <= y /\ y <= Len(b)
  BY <1>4, <1>3
<1>6. i \notin x..y
  BY <1>1, <1>5
<1>7. CASE y < i
  <2>1. p = <<x, y>> /\ x \in 1..Len(u) /\ y \in 1..Len(u)
    <3>1. p = <<x, y>>
      BY <1>1, <1>5
    <3>2. QED
      BY <1>3, <1>5, <1>7, <3>1
  <2>2. p \in (1..Len(u)) \X (1..Len(u)) /\ p[1] <= p[2]
    <3>1. p \in (1..Len(u)) \X (1..Len(u))
      BY <2>1
    <3>2. p[1] <= p[2]
      BY <1>5
    <3>3. QED
      BY <3>1, <3>2
  <2>3. ASSUME NEW j \in p[1]..p[2] PROVE u[j] # BAR
    <3>1. j \in x..y
      BY <1>5
    <3>2. j \in 1..Len(u)
      BY <1>3, <1>5, <1>7, <3>1
    <3>3. b[j] # BAR
      BY <1>1
    <3>4. QED
      BY <1>2, <3>2, <3>3
  <2>4. p[1] = 1 \/ u[p[1] - 1] = BAR
    BY <1>1, <1>2, <1>3, <1>5, <1>7
  <2>5. p[2] = Len(u) \/ u[p[2] + 1] = BAR
    BY <1>1, <1>2, <1>3, <1>5, <1>7
  <2>6. QED
    BY <2>2, <2>3, <2>4, <2>5 DEF Stretches
<1>8. CASE x > i
  <2>1. PICK q : q = <<x - i, y - i>>
    OBVIOUS
  <2>2. x - i \in 1..Len(v) /\ y - i \in 1..Len(v) /\ x - i <= y - i
    BY <1>3, <1>5, <1>8
  <2>3. q \in (1..Len(v)) \X (1..Len(v)) /\ q[1] = x - i /\ q[2] = y - i /\ q[1] <= q[2]
                                          /\ q[1] \in Nat /\ q[2] \in Nat
    BY <2>1, <2>2
  <2>4. ASSUME NEW j \in q[1]..q[2] PROVE v[j] # BAR
    <3>1. j \in 1..Len(v) /\ j + i \in x..y
      BY <1>3, <1>5, <1>8, <2>3, SMTT(20)
    <3>2. QED
      BY <1>1, <1>2, <1>5, <3>1
  <2>5. q[1] = 1 \/ v[q[1] - 1] = BAR
    <3>1. CASE x = i + 1
      BY <2>3, <3>1
    <3>2. CASE x # i + 1
      <4>1. x - i - 1 \in 1..Len(v) /\ (x - i - 1) + i = x - 1 /\ x # 1
        <5>1. x > i + 1
          BY <1>3, <1>5, <1>8, <3>2, <2>3
        <5>2. x - i - 1 \in 1..Len(v)
          BY <1>3, <1>5, <5>1
        <5>3. (x - i - 1) + i = x - 1 /\ x # 1
          BY <1>3, <1>5, <5>1
        <5>4. QED
          BY <5>2, <5>3
      <4>2. q[1] - 1 \in 1..Len(v) /\ (q[1] - 1) + i = x - 1 /\ x # 1
        BY <2>3, <4>1
      <4>3. QED
        BY <1>1, <1>2, <1>5, <4>2
    <3>3. QED
      BY <3>1, <3>2
  <2>6. q[2] = Len(v) \/ v[q[2] + 1] = BAR
    <3>1. CASE y = Len(b)
      BY <1>3, <2>3, <3>1
    <3>2. CASE y # Len(b)
      <4>1. y - i + 1 \in 1..Len(v) /\ (y - i + 1) + i = y + 1
        BY <1>3, <1>5, <1>8, <3>2, SMTT(20)
      <4>2. q[2] + 1 \in 1..Len(v) /\ (q[2] + 1) + i = y + 1
        BY <2>3, <4>1
      <4>3. QED
        BY <1>1, <1>2, <1>5, <3>2, <4>2
    <3>3. QED
      BY <3>1, <3>2
  <2>7. q \in Stretches(v)
    BY <2>3, <2>4, <2>5, <2>6 DEF Stretches
  <2>8. p = Later(q, i)
    <3>1. p = <<x, y>>
      BY <1>1, <1>5
    <3>2. (x - i) + i = x /\ (y - i) + i = y
      BY <1>3, <1>5
    <3>3. QED
      BY <2>3, <3>1, <3>2 DEF Later
  <2>9. QED
    BY <2>7, <2>8
<1>9. QED
  BY <1>5, <1>6, <1>7, <1>8

(* The words of a line with a bar are those before it and those after it.   *)
ListsBoth(u, v, ps, rs) == Enumerates(u, Len(u) + 1, ps) /\ Enumerates(v, Len(v) + 1, rs)
Joined(i, ps, rs, m, n, qs) ==
    /\ m = Len(ps) /\ n = Len(rs)
    /\ qs = [j \in 1..(m + n) |-> IF j <= m THEN ps[j] ELSE Later(rs[j - m], i)]

LEMMA WordsOnBothSides ==
  ASSUME NEW C, NEW b \in Seq(C), NEW i \in 1..Len(b), b[i] = BAR, NEW u \in Seq(C), NEW v \in Seq(C),
         Halves(b, i, u, v), NEW ps, NEW rs, ListsBoth(u, v, ps, rs),
         NEW m \in Nat, NEW n \in Nat, NEW qs, Joined(i, ps, rs, m, n, qs)
  PROVE  Enumerates(b, Len(b) + 1, qs)
<1>1. Enumerates(u, Len(u) + 1, ps) /\ Enumerates(v, Len(v) + 1, rs)
  BY DEF ListsBoth
<1>2. /\ m = Len(ps) /\ n = Len(rs)
       /\ qs = [j \in 1..(m + n) |-> IF j <= m THEN ps[j] ELSE Later(rs[j - m], i)]
  BY DEF Joined
<1>3. \A j \in 1..m : ps[j] \in Stretches(u) /\ qs[j] = ps[j]
  BY <1>1, <1>2 DEF Enumerates
<1>4. ASSUME NEW j \in 1..(m + n), ~(j <= m)
      PROVE  j - m \in 1..n /\ rs[j - m] \in Stretches(v) /\ qs[j] = Later(rs[j - m], i)
  <2>1. j - m \in 1..n
    BY <1>4
  <2>2. QED
    BY <1>4, <1>1, <1>2, <2>1 DEF Enumerates
<1>5. ASSUME NEW j \in 1..(m + n), j <= m PROVE qs[j] \in Stretches(b) /\ qs[j][1] < i
  <2>1. PICK p \in Stretches(u) : p = ps[j] /\ p = qs[j]
    <3>1. j \in 1..m
      BY <1>5
    <3>2. QED
      BY <1>3, <3>1
  <2>2. QED
    BY <2>1, LeftStretch
<1>6. ASSUME NEW j \in 1..(m + n), ~(j <= m) PROVE qs[j] \in Stretches(b) /\ qs[j][1] > i
  <2>1. PICK p \in Stretches(v) : Later(p, i) = qs[j]
    BY <1>4, <1>6
  <2>2. QED
    BY <2>1, RightStretch
<1>7. qs \in Seq(Stretches(b)) /\ Len(qs) = m + n
  <2>1. \A j \in 1..(m + n) : qs[j] \in Stretches(b)
    BY <1>5, <1>6
  <2>2. qs = [j \in 1..(m + n) |-> qs[j]]
    BY <1>2
  <2>3. qs \in [1..(m + n) -> Stretches(b)] /\ m + n \in Nat
    BY <2>1, <2>2
  <2>4. QED
    BY <2>3, SequenceOf
<1>8. DOMAIN qs = 1..(m + n) /\ DOMAIN ps = 1..m /\ DOMAIN rs = 1..n
  BY <1>7, <1>1, <1>2 DEF Enumerates
<1>9. \A p \in Stretches(b) : p[1] \in Nat
  BY StretchOf
<1>10. ASSUME NEW j \in 1..(m + n), NEW k \in 1..(m + n), j < k PROVE qs[j][1] < qs[k][1]
  <2>1. CASE k <= m
    <3>1. j \in 1..m /\ k \in 1..m
      BY <1>10, <2>1
    <3>2. ps[j][1] < ps[k][1]
      BY <1>8, <1>10, <1>1, <3>1 DEF Enumerates, InOrder
    <3>3. QED
      BY <1>3, <3>1, <3>2
  <2>2. CASE ~(k <= m) /\ j <= m
    <3>1. qs[j][1] < i /\ qs[k][1] > i
      BY <1>5, <1>6, <2>2
    <3>2. qs[j][1] \in Nat /\ qs[k][1] \in Nat
      BY <1>5, <1>6, <1>9
    <3>3. QED
      BY <3>1, <3>2
  <2>3. CASE ~(k <= m) /\ ~(j <= m)
    <3>1. j - m \in 1..n /\ k - m \in 1..n /\ j - m < k - m
      BY <1>4, <1>10, <2>3
    <3>2. rs[j - m][1] < rs[k - m][1]
      BY <1>8, <1>1, <3>1 DEF Enumerates, InOrder
    <3>3. PICK p \in Stretches(v) : p = rs[j - m] /\ qs[j] = Later(p, i)
      BY <1>4, <2>3
    <3>4. PICK q \in Stretches(v) : q = rs[k - m] /\ qs[k] = Later(q, i)
      BY <1>4, <2>3
    <3>5. PICK x \in Nat, y \in Nat : x = p[1] /\ y = q[1] /\ x < y
      <4>1. p[1] \in Nat /\ q[1] \in Nat
        BY StretchOf
      <4>2. QED
        BY <3>2, <3>3, <3>4, <4>1
    <3>6. qs[j][1] = x + i /\ qs[k][1] = y + i
      <4>1. qs[j] = <<x + i, p[2] + i>> /\ qs[k] = <<y + i, q[2] + i>>
        BY <3>3, <3>4, <3>5 DEF Later
      <4>2. QED
        BY <4>1
    <3>7. QED
      BY <3>5, <3>6
  <2>4. QED
    BY <1>10, <2>1, <2>2, <2>3
<1>11. InOrder(qs)
  BY <1>8, <1>10 DEF InOrder
<1>12. ASSUME NEW p \in Stretches(b) PROVE p[1] < Len(b) + 1 /\ \E j \in DOMAIN qs : qs[j] = p
  <2>1. p[1] < Len(b) + 1
    <3>1. p[1] \in 1..Len(b)
      BY StretchOf
    <3>2. QED
      BY <3>1
  <2>2. CASE p \in Stretches(u)
    <3>1. p[1] < Len(u) + 1
      <4>1. p[1] \in 1..Len(u)
        BY <2>2, StretchOf
      <4>2. QED
        BY <4>1
    <3>2. PICK j \in DOMAIN ps : ps[j] = p
      BY <1>1, <2>2, <3>1 DEF Enumerates
    <3>3. j \in DOMAIN qs /\ qs[j] = p
      BY <1>3, <1>8, <3>2
    <3>4. QED
      BY <2>1, <3>3
  <2>3. CASE \E q \in Stretches(v) : p = Later(q, i)
    <3>1. PICK q \in Stretches(v) : p = Later(q, i)
      BY <2>3
    <3>2. q[1] < Len(v) + 1
      <4>1. q[1] \in 1..Len(v)
        BY StretchOf
      <4>2. QED
        BY <4>1
    <3>3. PICK j \in DOMAIN rs : rs[j] = q
      BY <1>1, <3>2 DEF Enumerates
    <3>4. j + m \in 1..(m + n) /\ ~(j + m <= m) /\ (j + m) - m = j
      BY <1>8, <3>3
    <3>5. qs[j + m] = p
      BY <1>4, <3>1, <3>3, <3>4
    <3>6. QED
      BY <1>8, <2>1, <3>4, <3>5
  <2>4. QED
    BY <2>2, <2>3, StretchInHalf
<1>13. QED
  BY <1>7, <1>11, <1>12 DEF Enumerates

LEMMA FieldsOnBothSides ==
  ASSUME NEW C, NEW b \in Seq(C), NEW i \in 1..Len(b), b[i] = BAR, NEW u \in Seq(C), NEW v \in Seq(C),
         Halves(b, i, u, v)
  PROVE  Fields(b) = Fields(u) \o Fields(v)
<1>1. PICK ps \in Seq(Stretches(u)) : Enumerates(u, Len(u) + 1, ps) /\ Fields(u) = Words(u, ps)
  BY Listed
<1>2. PICK rs \in Seq(Stretches(v)) : Enumerates(v, Len(v) + 1, rs) /\ Fields(v) = Words(v, rs)
  BY Listed
<1>3. PICK m \in Nat, n \in Nat : m = Len(ps) /\ n = Len(rs)
  OBVIOUS
<1>4. PICK qs : qs = [j \in 1..(m + n) |-> IF j <= m THEN ps[j] ELSE Later(rs[j - m], i)]
  OBVIOUS
<1>5. Enumerates(b, Len(b) + 1, qs)
  <2>1. ListsBoth(u, v, ps, rs) /\ Joined(i, ps, rs, m, n, qs)
    BY <1>1, <1>2, <1>3, <1>4 DEF ListsBoth, Joined
  <2>2. QED
    BY <2>1, WordsOnBothSides
<1>6. Fields(b) = Words(b, qs)
  BY <1>5, FieldsAre
<1>7. PICK su : su = Words(u, ps)
  OBVIOUS
<1>8. PICK sv : sv = Words(v, rs)
  OBVIOUS
<1>9. su \in Seq(Seq(C)) /\ Len(su) = m /\ sv \in Seq(Seq(C)) /\ Len(sv) = n
  BY <1>3, <1>7, <1>8, WordsAre
<1>10. PICK sb : sb = Words(b, qs)
  OBVIOUS
<1>11. qs \in Seq(Stretches(b)) /\ DOMAIN qs = 1..(m + n) /\ Len(qs) = m + n
  <2>1. qs \in Seq(Stretches(b))
    BY <1>5 DEF Enumerates
  <2>2. DOMAIN qs = 1..(m + n)
    BY <1>4
  <2>3. QED
    BY <2>1, <2>2
<1>12. sb \in Seq(Seq(C)) /\ Len(sb) = m + n
  BY <1>10, <1>11, WordsAre
<1>13. PICK s : s = su \o sv
  OBVIOUS
<1>14. /\ s \in Seq(Seq(C)) /\ Len(s) = m + n
       /\ \A j \in 1..(m + n) : s[j] = IF j <= m THEN su[j] ELSE sv[j - m]
  BY <1>9, <1>13, ConcatProperties
<1>15. (\A j \in 1..Len(u) : u[j] = b[j]) /\ (\A j \in 1..Len(v) : v[j] = b[j + i])
  BY DEF Halves
<1>16. /\ Len(b) \in Nat /\ Len(u) \in Nat /\ Len(v) \in Nat /\ i \in Nat /\ 1 <= i /\ i <= Len(b)
       /\ Len(u) = i - 1 /\ Len(v) = Len(b) - i
  BY DEF Halves
<1>17. DOMAIN ps = 1..m /\ DOMAIN rs = 1..n
  BY <1>3
<1>18. ASSUME NEW j \in 1..(m + n) PROVE sb[j] = s[j]
  <2>1. sb[j] = SubSeq(b, qs[j][1], qs[j][2])
    BY <1>10, <1>11 DEF Words
  <2>2. CASE j <= m
    <3>1. j \in 1..m
      BY <2>2
    <3>2. PICK p \in Stretches(u) : p = ps[j] /\ qs[j] = p
      BY <1>3, <1>4, <2>2, <3>1
    <3>3. PICK x \in Nat, y \in Nat : x = p[1] /\ y = p[2] /\ 1 <= x /\ y <= Len(u)
      <4>1. p[1] \in 1..Len(u) /\ p[2] \in p[1]..Len(u)
        BY StretchOf
      <4>2. QED
        BY <1>16, <4>1
    <3>4. \A k \in x..y : u[k] = b[k + 0]
      BY <1>15, <1>16, <3>3
    <3>5. SubSeq(u, x, y) = SubSeq(b, x + 0, y + 0)
      <4>1. 0 \in Nat /\ x \in Nat \ {0} /\ y <= Len(u) /\ y + 0 <= Len(b)
        BY <1>16, <3>3
      <4>2. Same(u, b, 0, x, y)
        BY <3>4 DEF Same
      <4>3. QED
        BY <4>1, <4>2, SamePart
    <3>6. su[j] = SubSeq(u, x, y)
      BY <1>7, <1>17, <3>1, <3>2, <3>3 DEF Words
    <3>7. sb[j] = SubSeq(b, x, y)
      BY <2>1, <3>2, <3>3
    <3>8. x + 0 = x /\ y + 0 = y
      BY <3>3
    <3>9. QED
      BY <1>14, <2>2, <3>5, <3>6, <3>7, <3>8
  <2>3. CASE ~(j <= m)
    <3>1. j - m \in 1..n
      BY <2>3
    <3>2. PICK p \in Stretches(v) : p = rs[j - m]
      BY <1>3, <3>1
    <3>3. qs[j] = Later(p, i)
      BY <1>4, <2>3, <3>2
    <3>4. PICK x \in Nat, y \in Nat : x = p[1] /\ y = p[2] /\ 1 <= x /\ y <= Len(v)
      <4>1. p[1] \in 1..Len(v) /\ p[2] \in p[1]..Len(v)
        BY StretchOf
      <4>2. QED
        BY <1>16, <4>1
    <3>5. \A k \in x..y : v[k] = b[k + i]
      BY <1>15, <1>16, <3>4
    <3>6. y + i <= Len(b)
      BY <1>16, <3>4
    <3>7. SubSeq(v, x, y) = SubSeq(b, x + i, y + i)
      <4>1. i \in Nat /\ x \in Nat \ {0} /\ y \in Nat /\ y <= Len(v) /\ y + i <= Len(b)
        BY <1>16, <3>4, <3>6
      <4>2. Same(v, b, i, x, y)
        BY <3>5 DEF Same
      <4>3. QED
        BY <4>1, <4>2, SamePart
    <3>8. sv[j - m] = SubSeq(v, x, y)
      BY <1>8, <1>17, <3>1, <3>2, <3>4 DEF Words
    <3>9. sb[j] = SubSeq(b, x + i, y + i)
      <4>1. qs[j] = <<x + i, y + i>>
        BY <3>3, <3>4 DEF Later
      <4>2. qs[j][1] = x + i /\ qs[j][2] = y + i
        BY <4>1
      <4>3. QED
        BY <2>1, <4>2
    <3>10. QED
      BY <1>14, <2>3, <3>7, <3>8, <3>9
  <2>4. QED
    BY <2>2, <2>3
<1>19. sb = s
  BY <1>12, <1>14, <1>18, SeqEqual
<1>20. QED
  BY <1>1, <1>2, <1>6, <1>7, <1>8, <1>10, <1>13, <1>19
--------------------------------------------------------------------------------
(* Where the first two spaces of a line are.                                *)
LEMMA Few ==
  ASSUME NEW n \in Nat, NEW S \in SUBSET (1..n), NEW T \in SUBSET S
  PROVE  IsFiniteSet(S) /\ Cardinality(S) \in Nat /\ Cardinality(T) \in Nat /\ Cardinality(T) <= Cardinality(S)
<1>1. 1 \in Int /\ n \in Int /\ IsFiniteSet(1..n)
  BY FS_Interval
<1>2. IsFiniteSet(S)
  BY <1>1, FS_Subset
<1>3. IsFiniteSet(T) /\ Cardinality(T) <= Cardinality(S)
  BY <1>2, FS_Subset
<1>4. QED
  BY <1>2, <1>3, FS_CardinalityType

LEMMA TwoElements ==
  ASSUME NEW x, NEW y, x # y
  PROVE  IsFiniteSet({x, y}) /\ Cardinality({x, y}) = 2
<1>1. Cardinality({x}) = 1 /\ IsFiniteSet({x})
  BY FS_Singleton
<1>2. IsFiniteSet({x} \cup {y}) /\ Cardinality({x} \cup {y}) = Cardinality({x}) + 1
  BY <1>1, FS_AddElement
<1>3. {x} \cup {y} = {x, y}
  OBVIOUS
<1>4. QED
  BY <1>1, <1>2, <1>3

LEMMA ThreeElements ==
  ASSUME NEW x, NEW y, NEW z, x # y, z # x, z # y
  PROVE  Cardinality({x, y, z}) = 3
<1>1. Cardinality({x, y}) = 2 /\ IsFiniteSet({x, y})
  BY TwoElements
<1>2. IsFiniteSet({x, y} \cup {z}) /\ Cardinality({x, y} \cup {z}) = Cardinality({x, y}) + 1
  BY <1>1, FS_AddElement
<1>3. {x, y} \cup {z} = {x, y, z}
  OBVIOUS
<1>4. QED
  BY <1>1, <1>2, <1>3

Least(S, x) == x \in S /\ \A y \in S : x <= y

LEMMA OneIsTheFirst ==
  ASSUME NEW n \in Nat, NEW S \in SUBSET (1..n), NEW f, Least(S, f), NEW i \in S
  PROVE  Cardinality(S \cap (1..i)) \in Nat /\ (Cardinality(S \cap (1..i)) = 1 <=> i = f)
<1>1. f \in S /\ f \in 1..n /\ i \in 1..n /\ f <= i /\ \A y \in S : f <= y
  BY DEF Least
<1>2. PICK T \in SUBSET S : T = S \cap (1..i)
  OBVIOUS
<1>3. T \in SUBSET (1..n) /\ f \in T /\ i \in T
  BY <1>1, <1>2
<1>4. Cardinality(T) \in Nat
  BY Few
<1>5. CASE i = f
  <2>1. T = {f}
    BY <1>1, <1>2, <1>5
  <2>2. QED
    BY <1>2, <1>4, <1>5, <2>1, FS_Singleton
<1>6. CASE i # f
  <2>1. PICK U \in SUBSET T : U = {f, i}
    BY <1>3
  <2>2. Cardinality(U) = 2
    BY <1>6, <2>1, TwoElements
  <2>3. Cardinality(U) <= Cardinality(T)
    BY <1>3, Few
  <2>4. QED
    BY <1>2, <1>4, <1>6, <2>2, <2>3
<1>7. QED
  BY <1>5, <1>6

LEMMA TwoIsTheSecond ==
  ASSUME NEW n \in Nat, NEW S \in SUBSET (1..n), NEW f, Least(S, f), NEW g, Least(S \ {f}, g),
         NEW i \in S
  PROVE  /\ Cardinality(S \cap (1..i)) = 2 <=> i = g
         /\ Cardinality(S \cap (1..i)) <= 2 <=> i \in {f, g}
<1>1. /\ f \in S /\ f \in 1..n /\ i \in 1..n /\ f <= i /\ \A y \in S : f <= y
      /\ g \in S /\ g # f /\ g \in 1..n /\ \A y \in S : y # f => g <= y
  BY DEF Least
<1>2. PICK T \in SUBSET S : T = S \cap (1..i)
  OBVIOUS
<1>3. T \in SUBSET (1..n) /\ f \in T /\ i \in T
  BY <1>1, <1>2
<1>4. Cardinality(T) \in Nat /\ (Cardinality(T) = 1 <=> i = f)
  BY <1>2, OneIsTheFirst
<1>5. CASE i = f
  BY <1>1, <1>2, <1>4, <1>5
<1>6. CASE i = g
  <2>1. T = {f, g}
    <3>1. ASSUME NEW y \in T PROVE y \in {f, g}
      <4>1. y \in S /\ y \in 1..g /\ y \in 1..n
        BY <1>2, <1>6
      <4>2. y = f \/ g <= y
        BY <1>1, <4>1
      <4>3. QED
        BY <1>1, <4>1, <4>2
    <3>2. QED
      BY <1>3, <1>6, <3>1
  <2>2. Cardinality({f, g}) = 2
    BY <1>1, TwoElements
  <2>3. QED
    BY <1>2, <1>6, <2>1, <2>2
<1>7. CASE i # f /\ i # g
  <2>1. g \in T
    <3>1. g <= i
      BY <1>1, <1>7
    <3>2. QED
      BY <1>1, <1>2, <3>1
  <2>2. PICK U \in SUBSET T : U = {f, g, i}
    BY <1>3, <2>1
  <2>3. Cardinality(U) = 3
    BY <1>1, <1>7, <2>2, ThreeElements
  <2>4. Cardinality(U) <= Cardinality(T)
    BY <1>3, Few
  <2>5. QED
    BY <1>2, <1>4, <1>7, <2>3, <2>4
<1>8. QED
  BY <1>5, <1>6, <1>7

LEMMA FewSpaces ==
  ASSUME NEW C, NEW text \in Seq(C)
  PROVE  Spaces(text) \in SUBSET (1..Len(text)) /\ Len(text) \in Nat
  BY DEF Spaces

LEMMA LeastExists ==
  ASSUME NEW n \in Nat, NEW S \in SUBSET (1..n), S # {}
  PROVE  \E x \in S : Least(S, x)
<1>1. S \in SUBSET Nat
  OBVIOUS
<1>2. QED
  BY <1>1, LeastIn DEF Least

(* Space(text, k), if there is a space with that number, and if not.        *)
LEMMA SpaceIs ==
  ASSUME NEW C, NEW text \in Seq(C), NEW k \in Nat, NEW x,
         \/ /\ x \in Spaces(text)
            /\ \A i \in Spaces(text) : Cardinality(Spaces(text) \cap (1..i)) = k <=> i = x
         \/ /\ x = Len(text) + 1
            /\ \A i \in Spaces(text) : Cardinality(Spaces(text) \cap (1..i)) # k
  PROVE  Space(text, k) = x
<1>1. Spaces(text) \in SUBSET (1..Len(text)) /\ Len(text) \in Nat
  BY FewSpaces
<1>2. PICK A : A = {i \in Spaces(text) : Cardinality(Spaces(text) \cap (1..i)) = k} \cup {Len(text) + 1}
  OBVIOUS
<1>3. A = {x} \cup {Len(text) + 1} /\ x \in Nat /\ x <= Len(text) + 1
  BY <1>1, <1>2
<1>4. A \in SUBSET Nat /\ A # {}
  BY <1>1, <1>3
<1>5. PICK m : m = Min(A)
  OBVIOUS
<1>6. m \in A /\ \A y \in A : m <= y
  BY <1>4, <1>5, LeastIn
<1>7. m = x
  BY <1>1, <1>3, <1>6
<1>8. QED
  BY <1>2, <1>5, <1>7 DEF Space

LEMMA FirstSpaceIs ==
  ASSUME NEW C, NEW text \in Seq(C), NEW f, Least(Spaces(text), f)
  PROVE  Space(text, 1) = f
<1>1. Spaces(text) \in SUBSET (1..Len(text)) /\ Len(text) \in Nat /\ f \in Spaces(text) /\ 1 \in Nat
  BY FewSpaces DEF Least
<1>2. \A i \in Spaces(text) : Cardinality(Spaces(text) \cap (1..i)) = 1 <=> i = f
  BY <1>1, OneIsTheFirst
<1>3. QED
  BY <1>1, <1>2, SpaceIs

LEMMA SecondSpaceIs ==
  ASSUME NEW C, NEW text \in Seq(C), NEW f, Least(Spaces(text), f), NEW g, Least(Spaces(text) \ {f}, g)
  PROVE  Space(text, 2) = g
<1>1. Spaces(text) \in SUBSET (1..Len(text)) /\ Len(text) \in Nat /\ g \in Spaces(text) /\ 2 \in Nat
  BY FewSpaces DEF Least
<1>2. PICK n : n = Len(text)
  OBVIOUS
<1>3. PICK S : S = Spaces(text)
  OBVIOUS
<1>4. n \in Nat /\ S \in SUBSET (1..n) /\ Least(S, f) /\ Least(S \ {f}, g)
  BY <1>1, <1>2, <1>3
<1>5. ASSUME NEW i \in S PROVE Cardinality(S \cap (1..i)) = 2 <=> i = g
  BY <1>4, TwoIsTheSecond, ZenonT(40)
<1>6. QED
  BY <1>1, <1>3, <1>5, SpaceIs

LEMMA OneSpaceIs ==
  ASSUME NEW C, NEW text \in Seq(C), NEW f, Spaces(text) = {f}
  PROVE  Space(text, 1) = f /\ Space(text, 2) = Len(text) + 1
<1>1. Spaces(text) \in SUBSET (1..Len(text)) /\ Len(text) \in Nat /\ f \in Nat /\ 2 \in Nat
  BY FewSpaces
<1>2. Least(Spaces(text), f)
  BY <1>1 DEF Least
<1>3. \A i \in Spaces(text) : Cardinality(Spaces(text) \cap (1..i)) = 1
  BY <1>1, <1>2, OneIsTheFirst
<1>4. \A i \in Spaces(text) : Cardinality(Spaces(text) \cap (1..i)) # 2
  BY <1>3
<1>5. QED
  BY <1>1, <1>2, <1>4, FirstSpaceIs, SpaceIs

LEMMA NoSpaceIs ==
  ASSUME NEW C, NEW text \in Seq(C), Spaces(text) = {}
  PROVE  Space(text, 1) = Len(text) + 1 /\ Space(text, 2) = Len(text) + 1
<1>1. 1 \in Nat /\ 2 \in Nat
  OBVIOUS
<1>2. QED
  BY <1>1, SpaceIs

LEMMA PartIs ==
  ASSUME NEW T, NEW s \in Seq(T), NEW m \in Nat \ {0}, NEW n \in Nat, n <= Len(s), m <= n + 1, NEW t,
         t = SubSeq(s, m, n)
  PROVE  /\ t \in Seq(T) /\ Len(t) = n - m + 1
         /\ \A i \in 1..(n - m + 1) : t[i] = s[m + i - 1]
<1>1. m \in Int /\ n \in Int /\ \A i \in m..n : s[i] \in T
  OBVIOUS
<1>2. /\ t \in Seq(T) /\ Len(t) = IF m <= n THEN n - m + 1 ELSE 0
      /\ \A i \in 1..(n - m + 1) : t[i] = s[m + i - 1]
  BY <1>1, SubSeqProperties
<1>3. (IF m <= n THEN n - m + 1 ELSE 0) = n - m + 1
  OBVIOUS
<1>4. QED
  BY <1>2, <1>3

LEMMA FieldsTyped ==
  ASSUME NEW C, NEW b \in Seq(C)
  PROVE  Fields(b) \in Seq(Seq(C))
  BY Listed, WordsAre

LEMMA NoFields == Fields(<<>>) = <<>>
<1>1. PICK b : b = <<>>
  OBVIOUS
<1>2. b \in Seq({}) /\ Len(b) + 1 = 1
  BY <1>1, EmptySeq
<1>3. Enumerates(b, Len(b) + 1, <<>>) /\ Words(b, <<>>) = <<>>
  BY <1>2, Nothing
<1>4. Fields(b) = <<>>
  BY <1>2, <1>3, FieldsAre
<1>5. QED
  BY <1>1, <1>4

(* The bars that sender_thread writes are where the spaces were.            *)
BarsFor(text, t, S) ==
    /\ Len(t) = Len(text) /\ \A i \in S : t[i] = BAR
    /\ \A i \in 1..Len(text) : i \notin S => t[i] = text[i]

LEMMA FormattedIs ==
  ASSUME NEW text \in Seq(Chars), NEW S, NEW t, t = Formatted(text),
         \A i \in Spaces(text) : Cardinality(Spaces(text) \cap (1..i)) <= 2 <=> i \in S,
         S \in SUBSET Spaces(text)
  PROVE  t \in Seq(Chars) /\ BarsFor(text, t, S)
<1>1. t \in Seq(Chars)
  BY FormattedTyped
<1>2. t = [i \in DOMAIN text |-> IF text[i] = SP /\ Cardinality(Spaces(text) \cap (1..i)) <= 2
                                 THEN BAR ELSE text[i]]
  BY DEF Formatted
<1>3. DOMAIN t = 1..Len(text) /\ Len(text) \in Nat
  BY <1>2
<1>4. Len(t) = Len(text)
  BY <1>1, <1>3
<1>5. ASSUME NEW i \in S PROVE t[i] = BAR
  BY <1>2, <1>5 DEF Spaces
<1>6. ASSUME NEW i \in 1..Len(text), i \notin S PROVE t[i] = text[i]
  BY <1>2, <1>6 DEF Spaces
<1>7. QED
  BY <1>1, <1>4, <1>5, <1>6 DEF BarsFor

MeansThree(text, f, g) ==
    Fields(SubSeq(text, 1, f - 1)) \o Fields(SubSeq(text, f + 1, g - 1))
                                   \o Fields(SubSeq(text, g + 1, Len(text)))

LEMMA NoSpaceMeans ==
  ASSUME NEW text \in Seq(Chars), NEW t \in Seq(Chars), BarsFor(text, t, {}), NEW n \in Nat, n = Len(text)
  PROVE  Fields(t) = MeansThree(text, n + 1, n + 1)
<1>1. Len(t) = Len(text) /\ \A i \in 1..Len(t) : t[i] = text[i]
  BY DEF BarsFor
<1>2. t = text
  BY <1>1, SeqEqual
<1>3. SubSeq(text, 1, (n + 1) - 1) = text
  <2>1. (n + 1) - 1 = Len(text)
    OBVIOUS
  <2>2. SubSeq(text, 1, Len(text)) = text
    BY SubSeqFull
  <2>3. QED
    BY <2>1, <2>2
<1>4. SubSeq(text, (n + 1) + 1, (n + 1) - 1) = <<>>
  <2>1. (n + 1) + 1 \in Int /\ (n + 1) - 1 \in Int /\ (n + 1) - 1 < (n + 1) + 1
    OBVIOUS
  <2>2. QED
    BY <2>1, SubSeqEmpty
<1>5. SubSeq(text, (n + 1) + 1, Len(text)) = <<>>
  <2>1. (n + 1) + 1 \in Int /\ Len(text) \in Int /\ Len(text) < (n + 1) + 1
    OBVIOUS
  <2>2. QED
    BY <2>1, SubSeqEmpty
<1>6. PICK s \in Seq(Seq(Chars)) : s = Fields(text)
  BY FieldsTyped
<1>7. s \o <<>> = s /\ s \o <<>> \o <<>> = s
  BY ConcatEmptySeq
<1>8. QED
  BY <1>2, <1>3, <1>4, <1>5, <1>6, <1>7, NoFields DEF MeansThree

LEMMA OneSpaceMeans ==
  ASSUME NEW text \in Seq(Chars), NEW t \in Seq(Chars), NEW f \in 1..Len(text), BarsFor(text, t, {f}),
         NEW n \in Nat, n = Len(text)
  PROVE  Fields(t) = MeansThree(text, f, n + 1)
<1>1. Len(t) = n /\ t[f] = BAR /\ \A i \in 1..n : i # f => t[i] = text[i]
  BY DEF BarsFor
<1>2. f \in Nat /\ 1 <= f /\ f <= n /\ f - 1 \in Nat /\ f + 1 \in Nat /\ (n + 1) - 1 = n
  OBVIOUS
<1>3. PICK u : u = SubSeq(text, 1, f - 1)
  OBVIOUS
<1>4. u \in Seq(Chars) /\ Len(u) = f - 1 /\ \A i \in 1..(f - 1) : u[i] = text[i]
  <2>1. 1 \in Nat \ {0} /\ f - 1 <= Len(text) /\ 1 <= (f - 1) + 1
    BY <1>2
  <2>2. /\ u \in Seq(Chars) /\ Len(u) = (f - 1) - 1 + 1
        /\ \A i \in 1..((f - 1) - 1 + 1) : u[i] = text[1 + i - 1]
    BY <1>2, <1>3, <2>1, PartIs
  <2>3. (f - 1) - 1 + 1 = f - 1 /\ \A i \in 1..(f - 1) : 1 + i - 1 = i
    BY <1>2
  <2>4. QED
    BY <2>2, <2>3
<1>5. PICK v : v = SubSeq(text, f + 1, n)
  OBVIOUS
<1>6. v \in Seq(Chars) /\ Len(v) = n - f /\ \A i \in 1..(n - f) : v[i] = text[i + f]
  <2>1. f + 1 \in Nat \ {0} /\ n <= Len(text) /\ f + 1 <= n + 1
    BY <1>2
  <2>2. /\ v \in Seq(Chars) /\ Len(v) = n - (f + 1) + 1
        /\ \A i \in 1..(n - (f + 1) + 1) : v[i] = text[(f + 1) + i - 1]
    BY <1>5, <2>1, PartIs
  <2>3. n - (f + 1) + 1 = n - f /\ \A i \in 1..(n - f) : (f + 1) + i - 1 = i + f
    BY <1>2
  <2>4. QED
    BY <2>2, <2>3
<1>7. ASSUME NEW i \in 1..(f - 1) PROVE u[i] = t[i]
  <2>1. i \in 1..n /\ i # f
    BY <1>2
  <2>2. QED
    BY <1>1, <1>4, <2>1
<1>8. ASSUME NEW i \in 1..(n - f) PROVE v[i] = t[i + f]
  <2>1. i + f \in 1..n /\ i + f # f
    BY <1>2
  <2>2. QED
    BY <1>1, <1>6, <2>1
<1>9. Halves(t, f, u, v)
  BY <1>1, <1>4, <1>6, <1>7, <1>8 DEF Halves
<1>10. Fields(t) = Fields(u) \o Fields(v)
  BY <1>1, <1>4, <1>6, <1>9, FieldsOnBothSides
<1>11. SubSeq(text, (n + 1) + 1, Len(text)) = <<>>
  <2>1. (n + 1) + 1 \in Int /\ Len(text) \in Int /\ Len(text) < (n + 1) + 1
    OBVIOUS
  <2>2. QED
    BY <2>1, SubSeqEmpty
<1>12. PICK s \in Seq(Seq(Chars)) : s = Fields(u) \o Fields(v)
  <2>1. Fields(u) \in Seq(Seq(Chars)) /\ Fields(v) \in Seq(Seq(Chars))
    BY <1>4, <1>6, FieldsTyped
  <2>2. QED
    BY <2>1, ConcatProperties
<1>13. s \o <<>> = s
  BY ConcatEmptySeq
<1>14. QED
  BY <1>2, <1>3, <1>5, <1>10, <1>11, <1>12, <1>13, NoFields DEF MeansThree

LEMMA TwoSpacesMean ==
  ASSUME NEW text \in Seq(Chars), NEW t \in Seq(Chars), NEW f \in 1..Len(text), NEW g \in 1..Len(text),
         f < g, BarsFor(text, t, {f, g}), NEW n \in Nat, n = Len(text)
  PROVE  Fields(t) = MeansThree(text, f, g)
<1>1. Len(t) = n /\ t[f] = BAR /\ t[g] = BAR /\ \A i \in 1..n : i # f /\ i # g => t[i] = text[i]
  BY DEF BarsFor
<1>2. /\ f \in Nat /\ g \in Nat /\ 1 <= f /\ f < g /\ g <= n /\ f - 1 \in Nat /\ f + 1 \in Nat
      /\ g - 1 \in Nat /\ g + 1 \in Nat
  OBVIOUS
<1>3. PICK u : u = SubSeq(text, 1, f - 1)
  OBVIOUS
<1>4. u \in Seq(Chars) /\ Len(u) = f - 1 /\ \A i \in 1..(f - 1) : u[i] = text[i]
  <2>1. 1 \in Nat \ {0} /\ f - 1 <= Len(text) /\ 1 <= (f - 1) + 1
    BY <1>2
  <2>2. /\ u \in Seq(Chars) /\ Len(u) = (f - 1) - 1 + 1
        /\ \A i \in 1..((f - 1) - 1 + 1) : u[i] = text[1 + i - 1]
    BY <1>2, <1>3, <2>1, PartIs
  <2>3. (f - 1) - 1 + 1 = f - 1 /\ \A i \in 1..(f - 1) : 1 + i - 1 = i
    BY <1>2
  <2>4. QED
    BY <2>2, <2>3
<1>5. PICK v : v = SubSeq(t, f + 1, n)
  OBVIOUS
<1>6. v \in Seq(Chars) /\ Len(v) = n - f /\ \A i \in 1..(n - f) : v[i] = t[i + f]
  <2>1. f + 1 \in Nat \ {0} /\ n <= Len(t) /\ f + 1 <= n + 1
    BY <1>1, <1>2
  <2>2. /\ v \in Seq(Chars) /\ Len(v) = n - (f + 1) + 1
        /\ \A i \in 1..(n - (f + 1) + 1) : v[i] = t[(f + 1) + i - 1]
    BY <1>5, <2>1, PartIs
  <2>3. n - (f + 1) + 1 = n - f /\ \A i \in 1..(n - f) : (f + 1) + i - 1 = i + f
    BY <1>2
  <2>4. QED
    BY <2>2, <2>3
<1>7. ASSUME NEW i \in 1..(f - 1) PROVE u[i] = t[i]
  <2>1. i \in 1..n /\ i # f /\ i # g
    BY <1>2
  <2>2. QED
    BY <1>1, <1>4, <2>1
<1>8. Halves(t, f, u, v)
  BY <1>1, <1>4, <1>6, <1>7 DEF Halves
<1>9. Fields(t) = Fields(u) \o Fields(v)
  BY <1>1, <1>4, <1>6, <1>8, FieldsOnBothSides
<1>10. PICK d \in Nat : d = g - f /\ 1 <= d /\ d <= n - f /\ d + f = g
  BY <1>2
<1>11. d \in 1..Len(v) /\ v[d] = BAR
  <2>1. d \in 1..(n - f)
    BY <1>2, <1>10
  <2>2. QED
    BY <1>1, <1>6, <1>10, <2>1
<1>12. PICK x : x = SubSeq(text, f + 1, g - 1)
  OBVIOUS
<1>13. x \in Seq(Chars) /\ Len(x) = d - 1 /\ \A i \in 1..(d - 1) : x[i] = text[i + f]
  <2>1. f + 1 \in Nat \ {0} /\ g - 1 <= Len(text) /\ f + 1 <= (g - 1) + 1
    BY <1>2
  <2>2. /\ x \in Seq(Chars) /\ Len(x) = (g - 1) - (f + 1) + 1
        /\ \A i \in 1..((g - 1) - (f + 1) + 1) : x[i] = text[(f + 1) + i - 1]
    BY <1>2, <1>12, <2>1, PartIs
  <2>3. (g - 1) - (f + 1) + 1 = d - 1 /\ \A i \in 1..(d - 1) : (f + 1) + i - 1 = i + f
    BY <1>2, <1>10
  <2>4. QED
    BY <2>2, <2>3
<1>14. PICK y : y = SubSeq(text, g + 1, n)
  OBVIOUS
<1>15. y \in Seq(Chars) /\ Len(y) = n - g /\ \A i \in 1..(n - g) : y[i] = text[i + g]
  <2>1. g + 1 \in Nat \ {0} /\ n <= Len(text) /\ g + 1 <= n + 1
    BY <1>2
  <2>2. /\ y \in Seq(Chars) /\ Len(y) = n - (g + 1) + 1
        /\ \A i \in 1..(n - (g + 1) + 1) : y[i] = text[(g + 1) + i - 1]
    BY <1>14, <2>1, PartIs
  <2>3. n - (g + 1) + 1 = n - g /\ \A i \in 1..(n - g) : (g + 1) + i - 1 = i + g
    BY <1>2
  <2>4. QED
    BY <2>2, <2>3
<1>16. ASSUME NEW i \in 1..(d - 1) PROVE x[i] = v[i]
  <2>1. i \in 1..(n - f) /\ i + f \in 1..n /\ i + f # f /\ i + f # g
    BY <1>2, <1>10
  <2>2. t[i + f] = text[i + f]
    BY <1>1, <2>1
  <2>3. QED
    BY <1>6, <1>13, <2>1, <2>2
<1>17. ASSUME NEW i \in 1..(n - g) PROVE y[i] = v[i + d]
  <2>1. i + d \in 1..(n - f) /\ (i + d) + f = i + g /\ i + g \in 1..n /\ i + g # f /\ i + g # g
    BY <1>2, <1>10
  <2>2. t[i + g] = text[i + g]
    BY <1>1, <2>1
  <2>3. v[i + d] = t[(i + d) + f]
    BY <1>6, <2>1
  <2>4. QED
    BY <1>15, <2>1, <2>2, <2>3
<1>18. Len(v) - d = n - g
  BY <1>2, <1>6, <1>10
<1>19. Halves(v, d, x, y)
  BY <1>13, <1>15, <1>16, <1>17, <1>18 DEF Halves
<1>20. Fields(v) = Fields(x) \o Fields(y)
  BY <1>6, <1>11, <1>13, <1>15, <1>19, FieldsOnBothSides, ZenonT(40)
<1>21. /\ Fields(u) \in Seq(Seq(Chars)) /\ Fields(x) \in Seq(Seq(Chars))
       /\ Fields(y) \in Seq(Seq(Chars))
  BY <1>4, <1>13, <1>15, FieldsTyped
<1>22. (Fields(u) \o Fields(x)) \o Fields(y) = Fields(u) \o (Fields(x) \o Fields(y))
  <2>1. PICK T : T = Seq(Chars)
    OBVIOUS
  <2>2. PICK a \in Seq(T), b \in Seq(T), c \in Seq(T) :
                a = Fields(u) /\ b = Fields(x) /\ c = Fields(y)
    BY <1>21, <2>1
  <2>3. (a \o b) \o c = a \o (b \o c)
    BY <2>2, ConcatAssociative, SMTT(20)
  <2>4. QED
    BY <2>2, <2>3
<1>23. QED
  BY <1>3, <1>9, <1>12, <1>14, <1>20, <1>22 DEF MeansThree

(* What sender_thread makes of a line, protocol_parse takes apart as meant. *)
LEMMA FormattedMeans ==
  ASSUME NEW w \in Workers, w \notin Browsers, NEW text \in Seq(Chars)
  PROVE  Meant(w, text) = Fields(Formatted(text))
<1>1. PICK n \in Nat : n = Len(text)
  OBVIOUS
<1>2. Spaces(text) \in SUBSET (1..n)
  BY <1>1, FewSpaces
<1>3. Meant(w, text) = MeansThree(text, Space(text, 1), Space(text, 2))
  BY DEF Meant, MeansThree
<1>4. PICK t : t = Formatted(text)
  OBVIOUS
<1>5. CASE Spaces(text) = {}
  <2>1. t \in Seq(Chars) /\ BarsFor(text, t, {})
    BY <1>4, <1>5, FormattedIs
  <2>2. Space(text, 1) = n + 1 /\ Space(text, 2) = n + 1
    BY <1>1, <1>5, NoSpaceIs
  <2>3. Fields(t) = MeansThree(text, n + 1, n + 1)
    BY <1>1, <2>1, NoSpaceMeans
  <2>4. QED
    BY <1>3, <1>4, <2>2, <2>3
<1>6. CASE Spaces(text) # {}
  <2>1. PICK f \in Spaces(text) : Least(Spaces(text), f)
    BY <1>2, <1>6, LeastExists
  <2>2. f \in 1..Len(text) /\ f \in Nat /\ Space(text, 1) = f
    BY <1>1, <1>2, <2>1, FirstSpaceIs
  <2>3. CASE Spaces(text) \ {f} = {}
    <3>1. Spaces(text) = {f}
      BY <2>3
    <3>2. \A i \in Spaces(text) : Cardinality(Spaces(text) \cap (1..i)) = 1
      <4>1. \A i \in Spaces(text) : Cardinality(Spaces(text) \cap (1..i)) = 1 <=> i = f
        BY <1>2, <2>1, OneIsTheFirst
      <4>2. QED
        BY <3>1, <4>1
    <3>3. \A i \in Spaces(text) : Cardinality(Spaces(text) \cap (1..i)) <= 2 <=> i \in {f}
      BY <3>1, <3>2
    <3>4. t \in Seq(Chars) /\ BarsFor(text, t, {f})
      BY <1>4, <3>1, <3>3, FormattedIs
    <3>5. Fields(t) = MeansThree(text, f, n + 1)
      BY <1>1, <2>2, <3>4, OneSpaceMeans
    <3>6. Space(text, 2) = n + 1
      BY <1>1, <3>1, OneSpaceIs
    <3>7. QED
      BY <1>3, <1>4, <2>2, <3>5, <3>6
  <2>4. CASE Spaces(text) \ {f} # {}
    <3>1. Spaces(text) \ {f} \in SUBSET (1..n)
      BY <1>2
    <3>2. PICK g \in Spaces(text) \ {f} : Least(Spaces(text) \ {f}, g)
      BY <2>4, <3>1, LeastExists
    <3>3. g \in 1..Len(text) /\ Space(text, 2) = g
      BY <1>1, <1>2, <2>1, <3>2, SecondSpaceIs
    <3>4. \A i \in Spaces(text) : Cardinality(Spaces(text) \cap (1..i)) <= 2 <=> i \in {f, g}
      BY <1>2, <2>1, <3>2, TwoIsTheSecond
    <3>5. {f, g} \in SUBSET Spaces(text)
      BY <2>1, <3>2
    <3>6. t \in Seq(Chars) /\ BarsFor(text, t, {f, g})
      BY <1>4, <3>4, <3>5, FormattedIs
    <3>7. f < g
      <4>1. f <= g /\ f # g
        BY <2>1, <3>2 DEF Least
      <4>2. QED
        BY <2>2, <3>3, <4>1
    <3>8. Fields(t) = MeansThree(text, f, g)
      BY <1>1, <2>2, <3>3, <3>6, <3>7, TwoSpacesMean
    <3>9. QED
      BY <1>3, <1>4, <2>2, <3>3, <3>8
  <2>5. QED
    BY <2>3, <2>4
<1>7. QED
  BY <1>5, <1>6
--------------------------------------------------------------------------------
(* What a message looks like in the stream.                                 *)
Code(n) == IF n <= MAX7 THEN n ELSE IF n < BYTE * BYTE THEN TWO ELSE EIGHT
Header(op, n) == <<As("op", op), As("len", Code(n))>>
Ext(n) == [i \in 1..ExtSize(Code(n)) |-> As("ext", (n \div Place[ExtSize(Code(n)) - i]) % BYTE)]
Keys == [i \in 1..4 |-> As("key", i)]
Data(text) == [i \in 1..Len(text) |-> As("data", <<text[i], ((i - 1) % 4) + 1>>)]
Sent(w, item) == IF w \in Browsers THEN Frame(item.op, item.text) ELSE Line(Formatted(item.text))

LEMMA CodeIs ==
  ASSUME NEW n \in Nat
  PROVE  Code(n) \in Nat /\ ExtSize(Code(n)) \in 0..8
  BY WireAssumption DEF Code, TWO, EIGHT, ExtSize

LEMMA PartsAre ==
  ASSUME NEW item \in Items, NEW n \in Nat, n = Len(item.text)
  PROVE  /\ Header(item.op, n) \in Seq(Bytes) /\ Len(Header(item.op, n)) = 2
         /\ Ext(n) \in Seq(Bytes) /\ Len(Ext(n)) = ExtSize(Code(n))
         /\ Keys \in Seq(Bytes) /\ Len(Keys) = 4
         /\ Data(item.text) \in Seq(Bytes) /\ Len(Data(item.text)) = n
<1>1. PICK text \in Seq(Chars) : text = item.text
  BY CharsAre
<1>2. n = Len(text) /\ DOMAIN text = 1..n
  BY <1>1
<1>3. PICK c \in Nat : c = Code(n)
  BY CodeIs
<1>4. PICK size \in 0..8 : size = ExtSize(c)
  BY <1>3, CodeIs
<1>5. Header(item.op, n) \in Seq(Bytes) /\ Len(Header(item.op, n)) = 2
  <2>1. As("op", item.op) \in Bytes /\ As("len", c) \in Bytes
    BY BytesOf
  <2>2. QED
    BY <1>3, <2>1 DEF Header
<1>6. Ext(n) \in Seq(Bytes) /\ Len(Ext(n)) = size
  <2>1. ASSUME NEW i \in 1..size PROVE As("ext", (n \div Place[size - i]) % BYTE) \in Bytes
    BY ExtTyped, BytesOf
  <2>2. Ext(n) = [i \in 1..size |-> As("ext", (n \div Place[size - i]) % BYTE)]
    BY <1>3, <1>4 DEF Ext
  <2>3. Ext(n) \in [1..size -> Bytes] /\ size \in Nat
    BY <2>1, <2>2
  <2>4. QED
    BY <2>3, SequenceOf
<1>7. Keys \in Seq(Bytes) /\ Len(Keys) = 4
  <2>1. \A i \in 1..4 : As("key", i) \in Bytes
    BY BytesOf
  <2>2. Keys \in [1..4 -> Bytes] /\ 4 \in Nat
    BY <2>1 DEF Keys
  <2>3. QED
    BY <2>2, SequenceOf
<1>8. Data(text) \in Seq(Bytes) /\ Len(Data(text)) = n
  <2>1. ASSUME NEW i \in 1..n PROVE As("data", <<text[i], ((i - 1) % 4) + 1>>) \in Bytes
    <3>1. text[i] \in Chars /\ ((i - 1) % 4) + 1 \in 1..4
      BY <1>2
    <3>2. QED
      BY <3>1, BytesOf
  <2>2. Data(text) = [i \in 1..n |-> As("data", <<text[i], ((i - 1) % 4) + 1>>)]
    BY <1>2 DEF Data
  <2>3. Data(text) \in [1..n -> Bytes]
    BY <2>1, <2>2
  <2>4. QED
    BY <2>3, SequenceOf
<1>9. QED
  BY <1>1, <1>3, <1>4, <1>5, <1>6, <1>7, <1>8

LEMMA Regroup == \A x, y, z \in Seq(Bytes) : (x \o y) \o z = x \o (y \o z)
  BY ConcatAssociative

LEMMA FrameIs ==
  ASSUME NEW item \in Items, NEW n \in Nat, n = Len(item.text)
  PROVE  Frame(item.op, item.text) = Header(item.op, n) \o (Ext(n) \o (Keys \o Data(item.text)))
<1>1. PICK h \in Seq(Bytes), e \in Seq(Bytes), k \in Seq(Bytes), d \in Seq(Bytes) :
            h = Header(item.op, n) /\ e = Ext(n) /\ k = Keys /\ d = Data(item.text)
  BY PartsAre
<1>2. Frame(item.op, item.text) = ((h \o e) \o k) \o d
  BY <1>1 DEF Frame, Header, Ext, Keys, Data, Code
<1>3. PICK front \in Seq(Bytes), back \in Seq(Bytes) : front = h \o e /\ back = k \o d
  BY <1>1, ConcatProperties
<1>4. front \in Seq(Bytes) /\ back \in Seq(Bytes)
  BY <1>3
<1>5. (front \o k) \o d = front \o (k \o d)
  BY <1>1, <1>4, Regroup, SMTT(20)
<1>6. (h \o e) \o back = h \o (e \o back)
  BY <1>1, <1>4, Regroup, SMTT(20)
<1>7. QED
  BY <1>1, <1>2, <1>3, <1>5, <1>6

LEMMA SentTyped ==
  ASSUME NEW w \in Workers, NEW item \in Items
  PROVE  Sent(w, item) \in Seq(Bytes) /\ Sent(w, item) # <<>>
<1>1. CASE w \in Browsers
  <2>1. PICK n \in Nat : n = Len(item.text)
    BY CharsAre
  <2>2. PICK h \in Seq(Bytes), t \in Seq(Bytes) : /\ Len(h) = 2 /\ h = Header(item.op, n)
                                                  /\ t = Ext(n) \o (Keys \o Data(item.text))
    <3>1. Keys \o Data(item.text) \in Seq(Bytes)
      BY <2>1, PartsAre, ConcatProperties
    <3>2. Ext(n) \o (Keys \o Data(item.text)) \in Seq(Bytes)
      BY <2>1, <3>1, PartsAre, ConcatProperties
    <3>3. QED
      BY <2>1, <3>2, PartsAre
  <2>3. Sent(w, item) = h \o t
    <3>1. Frame(item.op, item.text) = Header(item.op, n) \o (Ext(n) \o (Keys \o Data(item.text)))
      BY <2>1, FrameIs
    <3>2. QED
      BY <1>1, <2>2, <3>1 DEF Sent
  <2>4. h \o t \in Seq(Bytes) /\ Len(h \o t) = 2 + Len(t)
    <3>1. h \in Seq(Bytes) /\ t \in Seq(Bytes) /\ Len(h) = 2
      BY <2>2
    <3>2. h \o t \in Seq(Bytes) /\ Len(h \o t) = Len(h) + Len(t)
      BY <3>1, ConcatProperties
    <3>3. QED
      BY <3>1, <3>2
  <2>5. h \o t # <<>>
    BY <2>4
  <2>6. QED
    BY <2>3, <2>4, <2>5
<1>2. CASE w \notin Browsers
  <2>1. PICK t \in Seq(Chars) : t = Formatted(item.text)
    BY CharsAre, FormattedTyped
  <2>2. Line(t) \in Seq(Bytes)
    BY LineTyped
  <2>3. PICK e \in 0..1 : Len(Line(t)) = Len(t) + e /\ (t = <<>> => e = 1)
    BY LineIs
  <2>4. Len(Line(t)) # 0
    BY <2>3
  <2>5. QED
    BY <1>2, <2>1, <2>2, <2>4 DEF Sent
<1>3. QED
  BY <1>1, <1>2

(* A stream of bytes that consists of n of the messages, the first of them  *)
(* the one after k; its end from each of them on is c.                      *)
ChainBy(w, bytes, items, k, n, c) ==
    /\ c \in [0..n -> Seq(Bytes)] /\ c[0] = bytes /\ c[n] = <<>>
    /\ \A j \in 1..n : k + j \in 1..Len(items) /\ c[j - 1] = Sent(w, items[k + j]) \o c[j]
Chain(w, bytes, items, k, n) == \E c : ChainBy(w, bytes, items, k, n, c)

LEMMA NoChain ==
  ASSUME NEW w, NEW items, NEW k
  PROVE  Chain(w, <<>>, items, k, 0)
<1>1. PICK c : c = [j \in 0..0 |-> <<>>]
  OBVIOUS
<1>2. c \in [0..0 -> Seq(Bytes)]
  <2>1. <<>> \in Seq(Bytes)
    BY EmptySeq
  <2>2. QED
    BY <1>1, <2>1
<1>3. c[0] = <<>> /\ 1..0 = {}
  BY <1>1
<1>4. ChainBy(w, <<>>, items, k, 0, c)
  BY <1>2, <1>3 DEF ChainBy
<1>5. QED
  BY <1>4 DEF Chain

LEMMA FirstOfChain ==
  ASSUME NEW w \in Workers, NEW bytes, NEW items \in Seq(Items), NEW k \in Nat, NEW n \in Nat,
         Chain(w, bytes, items, k, n)
  PROVE  /\ n = 0 => bytes = <<>>
         /\ n # 0 => /\ bytes # <<>> /\ k + 1 \in 1..Len(items)
                     /\ \E rest \in Seq(Bytes) : /\ bytes = Sent(w, items[k + 1]) \o rest
                                                 /\ Chain(w, rest, items, k + 1, n - 1)
<1>1. PICK c : ChainBy(w, bytes, items, k, n, c)
  BY DEF Chain
<1>2. n = 0 => bytes = <<>>
  BY <1>1 DEF ChainBy
<1>3. ASSUME n # 0
      PROVE  /\ bytes # <<>> /\ k + 1 \in 1..Len(items)
             /\ \E rest \in Seq(Bytes) : /\ bytes = Sent(w, items[k + 1]) \o rest
                                         /\ Chain(w, rest, items, k + 1, n - 1)
  <2>1. 1 \in 1..n /\ 1 \in 0..n /\ 1 - 1 = 0 /\ n - 1 \in Nat
    BY <1>3
  <2>2. PICK rest \in Seq(Bytes) : rest = c[1]
    BY <1>1, <2>1 DEF ChainBy
  <2>3. k + 1 \in 1..Len(items) /\ bytes = Sent(w, items[k + 1]) \o rest
    BY <1>1, <2>1, <2>2 DEF ChainBy
  <2>4. PICK d : d = [j \in 0..(n - 1) |-> c[j + 1]]
    OBVIOUS
  <2>5. d \in [0..(n - 1) -> Seq(Bytes)]
    <3>1. ASSUME NEW j \in 0..(n - 1) PROVE c[j + 1] \in Seq(Bytes)
      <4>1. j + 1 \in 0..n
        BY <2>1
      <4>2. QED
        BY <1>1, <4>1 DEF ChainBy
    <3>2. QED
      BY <2>4, <3>1
  <2>6. d[0] = rest /\ d[n - 1] = <<>>
    <3>1. 0 \in 0..(n - 1) /\ n - 1 \in 0..(n - 1) /\ 0 + 1 = 1 /\ (n - 1) + 1 = n
      BY <2>1
    <3>2. c[n] = <<>>
      BY <1>1 DEF ChainBy
    <3>3. d[0] = c[1] /\ d[n - 1] = c[n]
      BY <2>4, <3>1
    <3>4. QED
      BY <2>2, <3>2, <3>3
  <2>7. ASSUME NEW j \in 1..(n - 1)
        PROVE  (k + 1) + j \in 1..Len(items) /\ d[j - 1] = Sent(w, items[(k + 1) + j]) \o d[j]
    <3>1. j + 1 \in 1..n /\ k + (j + 1) = (k + 1) + j /\ (j + 1) - 1 = j
      BY <2>1
    <3>2. k + (j + 1) \in 1..Len(items) /\ c[(j + 1) - 1] = Sent(w, items[k + (j + 1)]) \o c[j + 1]
      BY <1>1, <3>1 DEF ChainBy
    <3>3. d[j - 1] = c[j] /\ d[j] = c[j + 1]
      <4>1. j - 1 \in 0..(n - 1) /\ j \in 0..(n - 1) /\ (j - 1) + 1 = j
        BY <2>1
      <4>2. QED
        BY <2>4, <4>1
    <3>4. QED
      BY <3>1, <3>2, <3>3
  <2>8. ChainBy(w, rest, items, k + 1, n - 1, d)
    BY <2>5, <2>6, <2>7 DEF ChainBy
  <2>9. Chain(w, rest, items, k + 1, n - 1)
    BY <2>8 DEF Chain
  <2>10. items[k + 1] \in Items
    BY <2>3
  <2>11. bytes # <<>>
    <3>1. PICK s \in Seq(Bytes) : s = Sent(w, items[k + 1]) /\ s # <<>>
      BY <2>10, SentTyped
    <3>2. s \o rest # <<>>
      BY <3>1, ConcatEqualIffEmpty
    <3>3. QED
      BY <2>3, <3>1, <3>2
  <2>12. QED
    BY <2>3, <2>9, <2>11
<1>4. QED
  BY <1>2, <1>3

LEMMA ChainGrows ==
  ASSUME NEW w \in Workers, NEW bytes, NEW items \in Seq(Items), NEW more \in Seq(Items), NEW k \in Nat,
         NEW n \in Nat, Chain(w, bytes, items, k, n), Len(items) <= Len(more),
         \A j \in 1..Len(items) : more[j] = items[j]
  PROVE  Chain(w, bytes, more, k, n)
<1>1. PICK c : ChainBy(w, bytes, items, k, n, c)
  BY DEF Chain
<1>2. ASSUME NEW j \in 1..n
      PROVE  k + j \in 1..Len(more) /\ c[j - 1] = Sent(w, more[k + j]) \o c[j]
  <2>1. k + j \in 1..Len(items) /\ c[j - 1] = Sent(w, items[k + j]) \o c[j]
    BY <1>1 DEF ChainBy
  <2>2. Len(items) \in Nat /\ Len(more) \in Nat
    OBVIOUS
  <2>3. k + j \in 1..Len(more)
    BY <2>1, <2>2
  <2>4. QED
    BY <2>1, <2>3
<1>3. ChainBy(w, bytes, more, k, n, c)
  BY <1>1, <1>2 DEF ChainBy
<1>4. QED
  BY <1>3 DEF Chain

LEMMA ChainContinues ==
  ASSUME NEW w \in Workers, NEW bytes \in Seq(Bytes), NEW items \in Seq(Items), NEW k \in Nat,
         NEW n \in Nat, Chain(w, bytes, items, k, n), k + n + 1 \in 1..Len(items),
         NEW s \in Seq(Bytes), s = Sent(w, items[k + n + 1])
  PROVE  Chain(w, bytes \o s, items, k, n + 1)
<1>1. PICK c : ChainBy(w, bytes, items, k, n, c)
  BY DEF Chain
<1>2. PICK d : d = [j \in 0..(n + 1) |-> IF j <= n THEN c[j] \o s ELSE <<>>]
  OBVIOUS
<1>3. \A j \in 0..n : c[j] \in Seq(Bytes)
  BY <1>1 DEF ChainBy
<1>4. d \in [0..(n + 1) -> Seq(Bytes)]
  <2>1. ASSUME NEW j \in 0..(n + 1) PROVE (IF j <= n THEN c[j] \o s ELSE <<>>) \in Seq(Bytes)
    <3>1. CASE j <= n
      <4>1. j \in 0..n
        BY <3>1
      <4>2. PICK x \in Seq(Bytes) : x = c[j]
        BY <1>3, <4>1
      <4>3. x \o s \in Seq(Bytes)
        BY ConcatProperties
      <4>4. QED
        BY <3>1, <4>2, <4>3
    <3>2. CASE ~(j <= n)
      BY <3>2, EmptySeq
    <3>3. QED
      BY <3>1, <3>2
  <2>2. QED
    BY <1>2, <2>1
<1>5. d[0] = bytes \o s /\ d[n + 1] = <<>>
  <2>1. 0 \in 0..(n + 1) /\ 0 <= n /\ n + 1 \in 0..(n + 1) /\ ~(n + 1 <= n)
    OBVIOUS
  <2>2. c[0] = bytes
    BY <1>1 DEF ChainBy
  <2>3. QED
    BY <1>2, <2>1, <2>2
<1>6. ASSUME NEW j \in 1..(n + 1)
      PROVE  k + j \in 1..Len(items) /\ d[j - 1] = Sent(w, items[k + j]) \o d[j]
  <2>1. CASE j <= n
    <3>1. j \in 1..n /\ j - 1 \in 0..(n + 1) /\ j - 1 <= n /\ j \in 0..(n + 1) /\ j \in 0..n
      BY <2>1
    <3>2. k + j \in 1..Len(items) /\ c[j - 1] = Sent(w, items[k + j]) \o c[j]
      BY <1>1, <3>1 DEF ChainBy
    <3>3. items[k + j] \in Items
      BY <3>2
    <3>4. PICK x \in Seq(Bytes), y \in Seq(Bytes) : x = Sent(w, items[k + j]) /\ y = c[j]
      BY <1>3, <3>1, <3>3, SentTyped
    <3>5. (x \o y) \o s = x \o (y \o s)
      <4>1. x \in Seq(Bytes) /\ y \in Seq(Bytes)
        BY <3>4
      <4>2. QED
        BY <4>1, Regroup
    <3>6. d[j - 1] = c[j - 1] \o s /\ d[j] = c[j] \o s
      BY <1>2, <2>1, <3>1
    <3>7. QED
      BY <3>2, <3>4, <3>5, <3>6
  <2>2. CASE ~(j <= n)
    <3>1. j = n + 1
      BY <2>2
    <3>2. j - 1 = n /\ n \in 0..(n + 1) /\ n <= n /\ n + 1 \in 0..(n + 1) /\ ~(n + 1 <= n)
          /\ k + j = k + n + 1
      BY <3>1
    <3>3. c[n] = <<>>
      BY <1>1 DEF ChainBy
    <3>4. d[j - 1] = <<>> \o s /\ d[j] = <<>>
      <4>1. d[n] = c[n] \o s /\ d[n + 1] = <<>>
        BY <1>2, <3>2
      <4>2. QED
        BY <3>1, <3>2, <3>3, <4>1
    <3>5. <<>> \o s = s /\ s \o <<>> = s
      BY ConcatEmptySeq
    <3>6. k + j \in 1..Len(items) /\ s = Sent(w, items[k + j])
      BY <3>2
    <3>7. d[j - 1] = s
      BY <3>4, <3>5
    <3>8. Sent(w, items[k + j]) \o d[j] = s
      BY <3>4, <3>5, <3>6
    <3>9. QED
      BY <3>6, <3>7, <3>8
  <2>3. QED
    BY <2>1, <2>2
<1>7. ChainBy(w, bytes \o s, items, k, n + 1, d)
  BY <1>4, <1>5, <1>6 DEF ChainBy
<1>8. QED
  BY <1>7 DEF Chain
--------------------------------------------------------------------------------
(* What recv makes of it.                                                   *)
SplitAt(b, n, s, t) == SubSeq(b, 1, n) = s /\ SubSeq(b, n + 1, Len(b)) = t

LEMMA FrontAndRest ==
  ASSUME NEW T, NEW s \in Seq(T), NEW t \in Seq(T), NEW n \in Nat, n = Len(s)
  PROVE  SplitAt(s \o t, Min({n, Len(s \o t)}), s, t)
<1>1. PICK b : b = s \o t
  OBVIOUS
<1>2. /\ b \in Seq(T) /\ Len(b) = Len(s) + Len(t)
      /\ \A i \in 1..(Len(s) + Len(t)) : b[i] = IF i <= Len(s) THEN s[i] ELSE t[i - Len(s)]
  BY <1>1, ConcatProperties
<1>3. PICK l \in Nat : l = Len(t) /\ Len(b) = n + l
  BY <1>2
<1>4. Min({n, n + l}) = n
  BY LesserOf
<1>5. PICK x : x = SubSeq(b, 1, n)
  OBVIOUS
<1>6. x \in Seq(T) /\ Len(x) = n /\ \A i \in 1..n : x[i] = b[i]
  <2>1. 1 \in Nat \ {0} /\ n <= Len(b) /\ 1 <= n + 1
    BY <1>3
  <2>2. x \in Seq(T) /\ Len(x) = n - 1 + 1 /\ \A i \in 1..(n - 1 + 1) : x[i] = b[1 + i - 1]
    BY <1>2, <1>5, <2>1, PartIs
  <2>3. n - 1 + 1 = n /\ \A i \in 1..n : 1 + i - 1 = i
    OBVIOUS
  <2>4. QED
    BY <2>2, <2>3
<1>7. x = s
  <2>1. \A i \in 1..n : b[i] = s[i]
    BY <1>2, <1>3
  <2>2. QED
    BY <1>6, <2>1, SeqEqual
<1>8. PICK y : y = SubSeq(b, n + 1, n + l)
  OBVIOUS
<1>9. y \in Seq(T) /\ Len(y) = l /\ \A i \in 1..l : y[i] = b[n + i]
  <2>1. PICK p \in Nat \ {0} : p = n + 1
    OBVIOUS
  <2>2. PICK q \in Nat : q = n + l
    BY <1>3
  <2>3. q <= Len(b) /\ p <= q + 1 /\ y = SubSeq(b, p, q)
    BY <1>3, <1>8, <2>1, <2>2
  <2>4. y \in Seq(T) /\ Len(y) = q - p + 1 /\ \A i \in 1..(q - p + 1) : y[i] = b[p + i - 1]
    BY <1>2, <2>3, PartIs
  <2>5. q - p + 1 = l /\ \A i \in 1..l : p + i - 1 = n + i
    BY <1>3, <2>1, <2>2
  <2>6. QED
    BY <2>4, <2>5
<1>10. y = t
  <2>1. ASSUME NEW i \in 1..l PROVE y[i] = t[i]
    <3>1. n + i \in 1..(n + l) /\ ~(n + i <= n) /\ (n + i) - n = i
      BY <1>3
    <3>2. b[n + i] = t[i]
      BY <1>2, <1>3, <3>1
    <3>3. QED
      BY <1>9, <3>2
  <2>2. QED
    BY <1>3, <1>9, <2>1, SeqEqual
<1>11. QED
  BY <1>1, <1>3, <1>4, <1>5, <1>7, <1>8, <1>10 DEF SplitAt

LEMMA Takes ==
  ASSUME StreamsOK, NEW w \in Workers, NEW s \in Seq(Bytes), NEW t \in Seq(Bytes),
         inbox[w] = s \o t, NEW n \in Nat, n = Len(s)
  PROVE  Arrived(w, n) = s /\ (Recv(w, n) => inbox'[w] = t)
<1>1. PICK b : b = inbox[w]
  OBVIOUS
<1>2. /\ SubSeq(b, 1, Min({n, Len(b)})) = s
      /\ SubSeq(b, Min({n, Len(b)}) + 1, Len(b)) = t
  <2>1. b = s \o t
    BY <1>1
  <2>2. PICK T : T = Bytes
    OBVIOUS
  <2>3. s \in Seq(T) /\ t \in Seq(T)
    BY <2>2
  <2>4. SplitAt(s \o t, Min({n, Len(s \o t)}), s, t)
    BY <2>3, FrontAndRest
  <2>5. QED
    BY <2>1, <2>4 DEF SplitAt
<1>3. DOMAIN inbox = Workers
  BY DEF StreamsOK
<1>4. Arrived(w, n) = s
  BY <1>1, <1>2 DEF Arrived
<1>5. ASSUME Recv(w, n) PROVE inbox'[w] = t
  <2>1. inbox'[w] = SubSeq(b, Min({n, Len(b)}) + 1, Len(b))
    BY <1>1, <1>3, <1>5 DEF Recv
  <2>2. QED
    BY <1>2, <2>1
<1>6. QED
  BY <1>4, <1>5

LEMMA HeaderIs ==
  ASSUME NEW op, NEW n \in Nat, NEW got, got = Header(op, n)
  PROVE  got # <<>> /\ Are(got, <<"op", "len">>) /\ got[1].v = op /\ got[2].v = Code(n)
<1>1. PICK c \in Nat : c = Code(n)
  BY CodeIs
<1>2. got = <<As("op", op), As("len", c)>>
  BY <1>1 DEF Header
<1>3. got[1] = As("op", op) /\ got[2] = As("len", c) /\ DOMAIN got = 1..2 /\ got # <<>>
  BY <1>2
<1>4. PICK kinds : kinds = [i \in DOMAIN got |-> got[i].as]
  OBVIOUS
<1>5. kinds = [i \in 1..2 |-> kinds[i]] /\ kinds[1] = "op" /\ kinds[2] = "len"
  BY <1>3, <1>4 DEF As
<1>6. kinds = <<"op", "len">>
  BY <1>5
<1>7. QED
  BY <1>1, <1>3, <1>4, <1>6 DEF Are, As

AllExt(size) == [i \in 1..size |-> "ext"]
Values(got, size) == [i \in 1..size |-> got[i].v]

LEMMA ExtIs ==
  ASSUME NEW n \in Nat, n < Place[8], NEW size, size = ExtSize(Code(n)), size # 0,
         NEW got, got = Ext(n)
  PROVE  got # <<>> /\ Are(got, AllExt(size)) /\ ReadLength(Code(n), Values(got, size)) = n
<1>1. size \in 1..8
  BY CodeIs
<1>2. DOMAIN got = 1..size /\ \A i \in 1..size : got[i] = As("ext", (n \div Place[size - i]) % BYTE)
  BY DEF Ext
<1>3. got # <<>>
  <2>1. 1 \in DOMAIN got
    BY <1>1, <1>2
  <2>2. QED
    BY <2>1
<1>4. [i \in DOMAIN got |-> got[i].as] = [i \in 1..size |-> "ext"]
  BY <1>2 DEF As
<1>5. [i \in 1..size |-> got[i].v] = Digits(n, size)
  BY <1>2 DEF As, Digits
<1>6. ~(n <= MAX7)
  BY WireAssumption DEF Code, ExtSize, TWO, EIGHT
<1>7. /\ LengthField(n).code = Code(n)
      /\ LengthField(n).ext = Digits(n, size)
  BY <1>6, WireAssumption DEF LengthField, Code, ExtSize, TWO, EIGHT
<1>8. ReadLength(LengthField(n).code, LengthField(n).ext) = n
  BY LengthIsRead
<1>9. QED
  BY <1>3, <1>4, <1>5, <1>7, <1>8 DEF Are, AllExt, Values

LEMMA NoExt ==
  ASSUME NEW n \in Nat, ExtSize(Code(n)) = 0
  PROVE  Code(n) = n /\ Ext(n) = <<>>
<1>1. Code(n) = n
  BY WireAssumption DEF Code, ExtSize, TWO, EIGHT
<1>2. Ext(n) = [i \in 1..0 |-> As("ext", (n \div Place[0 - i]) % BYTE)]
  BY DEF Ext
<1>3. 1..0 = {}
  OBVIOUS
<1>4. QED
  BY <1>1, <1>2, <1>3

LEMMA KeysAre ==
  ASSUME NEW got, got = Keys
  PROVE  /\ got # <<>> /\ [i \in DOMAIN got |-> got[i].v] = [i \in 1..4 |-> i]
         /\ \A i \in DOMAIN got : got[i].as = "key"
<1>1. DOMAIN got = 1..4 /\ \A i \in 1..4 : got[i] = As("key", i)
  BY DEF Keys
<1>2. 1 \in DOMAIN got
  BY <1>1
<1>3. QED
  BY <1>1, <1>2 DEF As

LEMMA DataIs ==
  ASSUME StreamsOK, NEW w \in Workers, NEW text \in Seq(Chars), NEW n \in Nat, n = Len(text), n < BufSize,
         Data(text) \in Seq(Bytes), Len(Data(text)) = n, NEW t \in Seq(Bytes),
         inbox[w] = Data(text) \o t, len[w] = n, key[w] = [i \in 1..4 |-> i]
  PROVE  Payload(w) = n /\ TextOf(w) = text
<1>1. Payload(w) = n
  BY WireAssumption DEF Payload
<1>2. PICK got : got = Arrived(w, n)
  OBVIOUS
<1>3. got = Data(text)
  BY <1>2, Takes
<1>4. DOMAIN got = 1..n /\ \A i \in 1..n : got[i] = As("data", <<text[i], ((i - 1) % 4) + 1>>)
  BY <1>3 DEF Data
<1>5. ASSUME NEW i \in 1..n
      PROVE  (IF i \in DOMAIN got THEN Unmask(w, got[i], i) ELSE JUNK) = text[i]
  <2>1. PICK j \in 1..4 : j = ((i - 1) % 4) + 1
    OBVIOUS
  <2>2. got[i] = As("data", <<text[i], j>>)
    BY <1>4, <2>1
  <2>3. got[i].as = "data" /\ got[i].v = <<text[i], j>>
    BY <2>2 DEF As
  <2>4. got[i].v[1] = text[i] /\ got[i].v[2] = j
    BY <2>3
  <2>5. j \in DOMAIN key[w] /\ key[w][j] = j
    BY <2>1
  <2>6. QED
    BY <1>4, <2>1, <2>3, <2>4, <2>5 DEF Unmask
<1>6. TextOf(w) = [i \in 1..n |-> IF i \in DOMAIN got THEN Unmask(w, got[i], i) ELSE JUNK]
  BY <1>1, <1>2 DEF TextOf
<1>7. TextOf(w) = [i \in 1..n |-> text[i]]
  BY <1>5, <1>6
<1>8. text = [i \in 1..n |-> text[i]]
  OBVIOUS
<1>9. QED
  BY <1>1, <1>7, <1>8

LEMMA LineStripped ==
  ASSUME NEW t \in Seq(Chars), NEW n \in Nat, n = Len(t), n # 0, t[n] # NL
  PROVE  Line(t) \in Seq(Bytes) /\ Len(Line(t)) <= n + 1 /\ Stripped(Text(Line(t))) = t
<1>1. PICK e \in 0..1 : /\ Line(t) \in Seq(Bytes) /\ Len(Line(t)) = n + e
                       /\ \A i \in 1..(n + e) :
                             Line(t)[i] = IF i <= n THEN As("char", t[i]) ELSE As("char", NL)
  BY LineIs
<1>2. PICK b : b = Line(t)
  OBVIOUS
<1>3. PICK k \in Nat : k = n + e /\ n <= k /\ k <= n + 1
  OBVIOUS
<1>4. b \in Seq(Bytes) /\ Len(b) = k
  BY <1>1, <1>2, <1>3
<1>5. ASSUME NEW i \in 1..k PROVE b[i] = IF i <= n THEN As("char", t[i]) ELSE As("char", NL)
  BY <1>1, <1>2, <1>3
<1>6. PICK x : x = Text(b)
  OBVIOUS
<1>7. x = [i \in 1..k |-> IF b[i].as = "char" THEN b[i].v ELSE JUNK]
  BY <1>4, <1>6 DEF Text
<1>8. ASSUME NEW i \in 1..k PROVE x[i] = IF i <= n THEN t[i] ELSE NL
  <2>1. b[i] = As("char", IF i <= n THEN t[i] ELSE NL)
    BY <1>5
  <2>2. QED
    BY <1>7, <2>1 DEF As
<1>9. DOMAIN x = 1..k /\ \A i \in 1..n : i \in 1..k /\ x[i] = t[i]
  <2>1. ASSUME NEW i \in 1..n PROVE i \in 1..k /\ i <= n
    BY <1>3
  <2>2. QED
    BY <1>7, <1>8, <2>1
<1>10. x \in Seq(Chars) /\ Len(x) = k
  <2>1. ASSUME NEW i \in 1..k PROVE x[i] \in Chars
    <3>1. i <= n => i \in 1..n /\ t[i] \in Chars
      OBVIOUS
    <3>2. QED
      BY <1>8, <3>1, CharsAre
  <2>2. x \in [1..k -> Chars]
    BY <1>7, <2>1
  <2>3. QED
    BY <2>2, SequenceOf
<1>11. PICK S : S = {i \in DOMAIN x : x[i] # NL} \cup {0}
  OBVIOUS
<1>12. S \in SUBSET (0..n) /\ n \in S
  <2>1. ASSUME NEW i \in S PROVE i \in 0..n
    <3>1. i = 0 \/ (i \in 1..k /\ x[i] # NL)
      BY <1>9, <1>11
    <3>2. QED
      BY <1>8, <3>1
  <2>2. n \in 1..n
    OBVIOUS
  <2>3. n \in S
    BY <1>9, <1>11, <2>2
  <2>4. QED
    BY <2>1, <2>3
<1>13. PICK max : max = Max(S)
  OBVIOUS
<1>14. max \in S /\ \A y \in S : y <= max
  BY <1>12, <1>13, GreatestIn
<1>15. max = n
  BY <1>12, <1>14
<1>16. PICK s : s = SubSeq(x, 1, n)
  OBVIOUS
<1>17. s \in Seq(Chars) /\ Len(s) = n /\ \A i \in 1..n : s[i] = x[i]
  <2>1. 1 \in Nat \ {0} /\ n <= Len(x) /\ 1 <= n + 1
    BY <1>3, <1>10
  <2>2. s \in Seq(Chars) /\ Len(s) = n - 1 + 1 /\ \A i \in 1..(n - 1 + 1) : s[i] = x[1 + i - 1]
    BY <1>10, <1>16, <2>1, PartIs
  <2>3. n - 1 + 1 = n /\ \A i \in 1..n : 1 + i - 1 = i
    OBVIOUS
  <2>4. QED
    BY <2>2, <2>3
<1>18. s = t
  BY <1>9, <1>17, SeqEqual
<1>19. Stripped(x) = s
  BY <1>11, <1>13, <1>15, <1>16 DEF Stripped
<1>20. QED
  BY <1>2, <1>3, <1>4, <1>6, <1>18, <1>19
--------------------------------------------------------------------------------
(* How far an ordinary connection is: what was said before is heard, what   *)
(* is begun is at hand, and the rest waits in the stream or is in flight.   *)
Busy == {"ext", "mask", "payload", "parse", "closed"}
Begun(w) == Len(heard[w]) + (IF step[w] \in Busy THEN 1 ELSE 0)
Talk(item) == item.op \notin {"close", "ping"}
Taken(w, text) == IF w \in Browsers THEN text ELSE Formatted(text)
InFrame(w, item, part) ==
    /\ w \in Browsers /\ Talk(item)
    /\ \/ /\ step[w] = "ext" /\ len[w] = Code(Len(item.text)) /\ ExtSize(len[w]) # 0
          /\ part = Ext(Len(item.text)) \o (Keys \o Data(item.text))
       \/ /\ step[w] = "mask" /\ len[w] = Len(item.text)
          /\ part = Keys \o Data(item.text)
       \/ /\ step[w] = "payload" /\ len[w] = Len(item.text) /\ key[w] = [i \in 1..4 |-> i]
          /\ part = Data(item.text)
BetweenLines(w, part) ==
    part = <<>> /\ step[w] \in IF w \in Browsers THEN {"header"} ELSE {"peek", "line"}
AtHand(w, item, part) ==
    \/ BetweenLines(w, part)
    \/ InFrame(w, item, part)
    \/ step[w] = "parse" /\ part = <<>> /\ ~Ends(w, item) /\ buffer[w] = Taken(w, item.text)
    \/ step[w] = "closed" /\ Ends(w, item)

InFlight(w, k) == \A j \in 1..Len(flight[w]) : flight[w][j] = Sent(w, said[w][k + j])
NoneEnds(w) == \A j \in 1..Len(heard[w]) : ~Ends(w, said[w][j])
Flowing(w, b, q, part, rest) ==
    /\ b = Begun(w) /\ b + q + Len(flight[w]) = Len(said[w])
    /\ inbox[w] = part \o rest /\ Chain(w, rest, said[w], b, q)
    /\ InFlight(w, b + q) /\ NoneEnds(w) /\ AtHand(w, said[w][b], part)
    /\ is_websocket[w] <=> w \in Browsers
    /\ w \in Browsers \/ q <= 1
Greeting(w) ==
    /\ w \in Browsers /\ ~is_websocket[w] /\ said[w] = <<>> /\ heard[w] = <<>>
    /\ \/ flight[w] = <<Request>> /\ inbox[w] = <<>> /\ step[w] = "peek"
       \/ flight[w] = <<>> /\ inbox[w] = Request /\ step[w] \in {"peek", "handshake"}
Flow(w) ==
    Greeting(w) \/ \E b, q \in Nat : \E part, rest \in Seq(Bytes) : Flowing(w, b, q, part, rest)

Right(item, w, result) ==
    LET fields == Meant(w, item.text)
    IN  result.alone /\ Modest(fields) => result.msg = Meaning(fields)
HeardWell(w) == \A n \in 1..Len(heard[w]) : Right(said[w][n], w, heard[w][n])
SaidFrom(w) == \A n \in 1..Len(said[w]) : said[w][n] \in Script[w][n]

HistoryOK ==
    /\ heard \in [Workers -> Seq([msg : Messages, alone : BOOLEAN])]
    /\ cuts \in [Workers -> Nat] /\ joined \in [Workers -> BOOLEAN]
    /\ is_websocket \in [Workers -> BOOLEAN]
WellHeard(w) == SaidFrom(w) /\ (Ordinary(w) => Flow(w) /\ HeardWell(w))
HeardInv == ParserInv /\ HistoryOK /\ \A w \in Workers : WellHeard(w)

(* There is a number of messages in flight. *)
LEMMA FlightIs ==
  ASSUME Typed, NEW w \in Workers
  PROVE  \E f \in Nat : f = Len(flight[w])
<1>1. PICK T : T = Seq(Bytes)
  OBVIOUS
<1>2. flight[w] \in Seq(T)
  BY <1>1 DEF Typed, StreamsOK
<1>3. QED
  BY <1>2

(* What other workers do. *)
Still(w) ==
    /\ inbox'[w] = inbox[w] /\ flight'[w] = flight[w] /\ said'[w] = said[w] /\ heard'[w] = heard[w]
    /\ step'[w] = step[w] /\ len'[w] = len[w] /\ key'[w] = key[w] /\ buffer'[w] = buffer[w]
    /\ is_websocket'[w] = is_websocket[w] /\ cuts'[w] = cuts[w] /\ joined'[w] = joined[w]

LEMMA StillKept ==
  ASSUME NEW w \in Workers, Still(w), WellHeard(w)
  PROVE  WellHeard(w)'
<1>1. SaidFrom(w)'
  BY DEF WellHeard, SaidFrom, Still
<1>2. SUFFICES ASSUME Ordinary(w)' PROVE Flow(w)' /\ HeardWell(w)'
  BY <1>1 DEF WellHeard
<1>3. Ordinary(w)
  BY <1>2 DEF Ordinary, Still
<1>4. HeardWell(w)'
  BY <1>3 DEF WellHeard, HeardWell, Still
<1>5. CASE Greeting(w)
  <2>1. Greeting(w)'
    BY <1>5 DEF Greeting, Still
  <2>2. QED
    BY <1>4, <2>1 DEF Flow
<1>6. CASE \E b, q \in Nat : \E part, rest \in Seq(Bytes) : Flowing(w, b, q, part, rest)
  <2>1. PICK b \in Nat, q \in Nat : \E part, rest \in Seq(Bytes) : Flowing(w, b, q, part, rest)
    BY <1>6
  <2>2. PICK part \in Seq(Bytes), rest \in Seq(Bytes) : Flowing(w, b, q, part, rest)
    BY <2>1
  <2>3. InFlight(w, b + q)' /\ NoneEnds(w)'
    BY <2>2 DEF Flowing, InFlight, NoneEnds, Still
  <2>4. AtHand(w, said[w][b], part)'
    BY <2>2 DEF Flowing, AtHand, BetweenLines, InFrame, Still
  <2>5. (b = Begun(w))'
    BY <2>2 DEF Flowing, Begun, Still
  <2>6. Flowing(w, b, q, part, rest)'
    BY <2>2, <2>3, <2>4, <2>5 DEF Flowing, Still
  <2>7. QED
    BY <1>4, <2>1, <2>2, <2>6 DEF Flow
<1>7. QED
  BY <1>3, <1>5, <1>6 DEF WellHeard, Flow

LEMMA HistoryInit ==
  ASSUME Init
  PROVE  HistoryOK
<1>1. <<>> \in Seq([msg : Messages, alone : BOOLEAN])
  BY EmptySeq
<1>2. QED
  BY <1>1 DEF Init, HistoryOK

LEMMA HistoryNext ==
  ASSUME Typed, HistoryOK, [Next]_vars
  PROVE  HistoryOK'
<1>1. CASE UNCHANGED <<heard, cuts, joined, is_websocket>>
  BY <1>1 DEF HistoryOK
<1>2. CASE UNCHANGED vars
  BY <1>1, <1>2 DEF vars, history
<1>3. ASSUME NEW w \in Workers, Deliver(w) PROVE HistoryOK'
  <2>1. UNCHANGED <<heard, is_websocket>>
    BY <1>3 DEF Deliver
  <2>2. cuts' \in [Workers -> Nat]
    BY <1>3 DEF Deliver, HistoryOK
  <2>3. joined' \in [Workers -> BOOLEAN]
    BY <1>3 DEF Deliver, HistoryOK
  <2>4. QED
    BY <2>1, <2>2, <2>3 DEF HistoryOK
<1>4. ASSUME NEW w \in Workers, Handshake(w) PROVE HistoryOK'
  <2>1. UNCHANGED <<heard, cuts, joined>>
    BY <1>4 DEF Handshake, history
  <2>2. is_websocket' \in [Workers -> BOOLEAN]
    BY <1>4 DEF Handshake, HistoryOK
  <2>3. QED
    BY <2>1, <2>2 DEF HistoryOK
<1>5. ASSUME NEW w \in Workers, Understood(w) PROVE HistoryOK'
  <2>1. UNCHANGED <<cuts, joined, is_websocket>>
    BY <1>5 DEF Understood
  <2>2. PICK result : /\ result = [msg |-> msg[w], alone |-> alone[w]]
                      /\ heard' = IF Ordinary(w) THEN [heard EXCEPT ![w] = Append(@, result)] ELSE heard
    BY <1>5 DEF Understood
  <2>3. result \in [msg : Messages, alone : BOOLEAN]
    BY <2>2 DEF Typed, ParserOK
  <2>4. Append(heard[w], result) \in Seq([msg : Messages, alone : BOOLEAN])
    BY <2>3, AppendProperties DEF HistoryOK
  <2>5. heard' \in [Workers -> Seq([msg : Messages, alone : BOOLEAN])]
    BY <2>2, <2>4 DEF HistoryOK
  <2>6. QED
    BY <2>1, <2>5 DEF HistoryOK
<1>6. ASSUME NEW w \in Workers, Say(w) \/ Peek(w) \/ ReadLine(w) \/ ReadFrame(w) \/ Parse(w)
      PROVE  HistoryOK'
  BY <1>1, <1>6 DEF Say, Peek, ReadLine, ReadFrame, Parse, history
<1>7. QED
  BY <1>2, <1>3, <1>4, <1>5, <1>6 DEF Next, Serving

(* A worker and its client change nothing of the others. *)
LEMMA OneParses ==
  ASSUME Typed, NEW w \in Workers, NEW v \in Workers, v # w, NEW line, BeginParse(w, line)
  PROVE  buffer'[v] = buffer[v]
  BY DEF BeginParse, Typed, ParserOK

LEMMA OneReads ==
  ASSUME Typed, NEW w \in Workers, NEW v \in Workers, v # w, NEW n, Recv(w, n)
  PROVE  inbox'[v] = inbox[v]
  BY DEF Recv, Typed, StreamsOK

LEMMA OneSteps ==
  ASSUME Typed, NEW w \in Workers, NEW v \in Workers, v # w, NEW point, At(w, point)
  PROVE  step'[v] = step[v]
  BY DEF At, Typed, StepOK

LEMMA OneReadsFrame ==
  ASSUME Typed, NEW w \in Workers, NEW v \in Workers, v # w, ReadFrame(w)
  PROVE  inbox'[v] = inbox[v] /\ step'[v] = step[v] /\ len'[v] = len[v] /\ key'[v] = key[v]
         /\ buffer'[v] = buffer[v]
<1>1. CASE ReadHeader(w) /\ UNCHANGED parser
  <2>1. inbox'[v] = inbox[v] /\ step'[v] = step[v]
    BY <1>1, OneReads, OneSteps DEF ReadHeader
  <2>2. len'[v] = len[v] /\ key'[v] = key[v]
    BY <1>1 DEF ReadHeader, Typed, FrameOK
  <2>3. QED
    BY <1>1, <2>1, <2>2 DEF parser
<1>2. CASE ReadExt(w) /\ UNCHANGED parser
  <2>1. inbox'[v] = inbox[v] /\ step'[v] = step[v]
    BY <1>2, OneReads, OneSteps DEF ReadExt
  <2>2. len'[v] = len[v] /\ key'[v] = key[v]
    BY <1>2 DEF ReadExt, Typed, FrameOK
  <2>3. QED
    BY <1>2, <2>1, <2>2 DEF parser
<1>3. CASE ReadMask(w) /\ UNCHANGED parser
  <2>1. inbox'[v] = inbox[v] /\ step'[v] = step[v]
    BY <1>3, OneReads, OneSteps DEF ReadMask
  <2>2. len'[v] = len[v] /\ key'[v] = key[v]
    BY <1>3 DEF ReadMask, Typed, FrameOK
  <2>3. QED
    BY <1>3, <2>1, <2>2 DEF parser
<1>4. CASE (ReadNothing(w) \/ EndAdrift(w)) /\ UNCHANGED parser
  BY <1>4, OneSteps DEF ReadNothing, EndAdrift, parser
<1>5. CASE ReadText(w) /\ BeginParse(w, TextOf(w))
  <2>1. inbox'[v] = inbox[v] /\ step'[v] = step[v] /\ buffer'[v] = buffer[v]
    BY <1>5, OneReads, OneSteps, OneParses DEF ReadText
  <2>2. len'[v] = len[v] /\ key'[v] = key[v]
    BY <1>5 DEF ReadText, Typed, FrameOK
  <2>3. QED
    BY <2>1, <2>2
<1>6. CASE ReadAdrift(w) /\ \E text \in AnyText : BeginParse(w, text)
  <2>1. inbox'[v] = inbox[v] /\ step'[v] = step[v] /\ buffer'[v] = buffer[v]
    BY <1>6, OneReads, OneSteps, OneParses DEF ReadAdrift
  <2>2. len'[v] = len[v] /\ key'[v] = key[v]
    BY <1>6 DEF ReadAdrift, Typed, FrameOK
  <2>3. QED
    BY <2>1, <2>2
<1>7. QED
  BY <1>1, <1>2, <1>3, <1>4, <1>5, <1>6 DEF ReadFrame

LEMMA OthersStill ==
  ASSUME Typed, HistoryOK, NEW w \in Workers, NEW v \in Workers, v # w,
         Say(w) \/ Deliver(w) \/ Serving(w)
  PROVE  Still(v)
<1>1. CASE Say(w)
  <2>1. said'[v] = said[v] /\ flight'[v] = flight[v]
    BY <1>1 DEF Say, Typed, StreamsOK, SaidOK
  <2>2. QED
    BY <1>1, <2>1 DEF Say, Still, parser, receiver
<1>2. CASE Deliver(w)
  <2>1. inbox'[v] = inbox[v] /\ flight'[v] = flight[v]
    BY <1>2 DEF Deliver, Typed, StreamsOK
  <2>2. cuts'[v] = cuts[v] /\ joined'[v] = joined[v]
    BY <1>2 DEF Deliver, HistoryOK
  <2>3. QED
    BY <1>2, <2>1, <2>2 DEF Deliver, Still, parser
<1>3. CASE Peek(w)
  <2>1. step'[v] = step[v]
    BY <1>3, OneSteps DEF Peek
  <2>2. QED
    BY <1>3, <2>1 DEF Peek, Still, parser, history
<1>4. CASE Handshake(w)
  <2>1. step'[v] = step[v]
    BY <1>4, OneSteps DEF Handshake
  <2>2. inbox'[v] = inbox[v] /\ is_websocket'[v] = is_websocket[v]
    BY <1>4 DEF Handshake, Typed, StreamsOK, HistoryOK
  <2>3. QED
    BY <1>4, <2>1, <2>2 DEF Handshake, Still, parser, history
<1>5. CASE ReadLine(w)
  <2>1. inbox'[v] = inbox[v]
    BY <1>5, OneReads DEF ReadLine
  <2>2. step'[v] = step[v] /\ buffer'[v] = buffer[v]
    BY <1>5, OneSteps, OneParses DEF ReadLine, parser
  <2>3. QED
    BY <1>5, <2>1, <2>2 DEF ReadLine, Still, history
<1>6. CASE ReadFrame(w)
  BY <1>6, OneReadsFrame DEF ReadFrame, Still, history
<1>7. CASE Parse(w)
  <2>1. UNCHANGED buffer
    BY <1>7 DEF Parse, Parsing, FirstToken, ReadSave, NextToken
  <2>2. QED
    BY <1>7, <2>1 DEF Parse, Still, receiver, history
<1>8. CASE Understood(w)
  <2>1. step'[v] = step[v]
    BY <1>8, OneSteps DEF Understood
  <2>2. buffer'[v] = buffer[v]
    BY <1>8 DEF Understood, EndParse, Typed, ParserOK
  <2>3. heard'[v] = heard[v]
    BY <1>8 DEF Understood, HistoryOK
  <2>4. QED
    BY <1>8, <2>1, <2>2, <2>3 DEF Understood, Still
<1>9. QED
  BY <1>1, <1>2, <1>3, <1>4, <1>5, <1>6, <1>7, <1>8 DEF Serving

(* What a worker does, and its own client. *)
LEMMA Otherwise ==
  ASSUME NEW w \in Workers, WellHeard(w), said'[w] = said[w], heard'[w] = heard[w],
         Ordinary(w)' => Ordinary(w), Ordinary(w)' => Flow(w)'
  PROVE  WellHeard(w)'
  BY DEF WellHeard, SaidFrom, HeardWell

(* A connection that is ordinary now was ordinary before. *)
LEMMA LaterOrdinary ==
  ASSUME Typed, HistoryOK, NEW w \in Workers, Say(w) \/ Deliver(w) \/ Serving(w), Ordinary(w)'
  PROVE  Ordinary(w)
<1>1. CASE cuts'[w] = cuts[w] /\ joined'[w] = joined[w] /\ said'[w] = said[w]
  BY <1>1 DEF Ordinary
<1>2. CASE Say(w)
  <2>1. cuts'[w] = cuts[w] /\ joined'[w] = joined[w]
    BY <1>2 DEF Say
  <2>2. PICK old \in Seq(Items) : old = said[w] /\ DOMAIN said = Workers
    BY DEF Typed, SaidOK
  <2>3. PICK item : said'[w] = Append(old, item)
    BY <1>2, <2>2 DEF Say
  <2>4. item \in Items
    <3>1. PICK more \in Seq(Items) : more = said'[w]
      BY <1>2, SayTyped DEF Typed, SaidOK
    <3>2. DOMAIN more = 1..(Len(old) + 1) /\ more[Len(old) + 1] = item /\ Len(old) \in Nat
      BY <2>2, <2>3, <3>1
    <3>3. Len(old) + 1 \in DOMAIN more
      BY <3>2
    <3>4. QED
      BY <3>2, <3>3
  <2>5. ASSUME NEW n \in DOMAIN said[w] PROVE Len(said[w][n].text) < BufSize
    <3>1. n \in DOMAIN said'[w] /\ said'[w][n] = said[w][n]
      BY <2>2, <2>3, <2>4, AppendProperties
    <3>2. QED
      BY <3>1 DEF Ordinary
  <2>6. QED
    BY <2>1, <2>5 DEF Ordinary
<1>3. CASE Deliver(w)
  <2>1. said'[w] = said[w] /\ (w \in Browsers \/ ~joined'[w])
    BY <1>3 DEF Deliver, Ordinary
  <2>2. w \in Browsers \/ ~joined[w]
    BY <1>3, <2>1 DEF Deliver, HistoryOK
  <2>3. cuts[w] = 0
    <3>1. PICK n : n \in {0, 1} /\ cuts'[w] = cuts[w] + n
      BY <1>3 DEF Deliver, HistoryOK
    <3>2. cuts[w] \in Nat /\ cuts'[w] = 0
      BY DEF HistoryOK, Ordinary
    <3>3. QED
      BY <3>1, <3>2
  <2>4. QED
    BY <2>1, <2>2, <2>3 DEF Ordinary
<1>4. CASE Serving(w)
  BY <1>1, <1>4 DEF Serving, Peek, Handshake, ReadLine, ReadFrame, Parse, Understood, history
<1>5. QED
  BY <1>2, <1>3, <1>4

(* What the client says is the last of what is in flight. *)
LEMMA SayKeeps ==
  ASSUME Typed, HistoryOK, NEW w \in Workers, WellHeard(w), Say(w)
  PROVE  WellHeard(w)'
<1>1. PICK old \in Seq(Items), n \in Nat : old = said[w] /\ n = Len(old) /\ DOMAIN old = 1..n
  BY DEF Typed, SaidOK
<1>2. PICK item \in Script[w][n + 1] : said'[w] = Append(old, item) /\
               flight'[w] = Append(flight[w], Sent(w, item))
  <2>1. DOMAIN said = Workers /\ DOMAIN flight = Workers
    BY DEF Typed, SaidOK, StreamsOK
  <2>2. QED
    BY <1>1, <2>1 DEF Say, Sent
<1>3. item \in Items
  <2>1. n < Len(Script[w]) /\ Len(Script[w]) \in Nat
    BY <1>1, WireAssumption DEF Say
  <2>2. n + 1 \in 1..Len(Script[w])
    BY <2>1
  <2>3. QED
    BY <2>2 DEF Items
<1>4. PICK new \in Seq(Items) : new = said'[w] /\ new = Append(old, item)
  BY <1>2, <1>3, AppendProperties
<1>5. Len(new) = n + 1 /\ DOMAIN new = 1..(n + 1) /\ new[n + 1] = item /\ \A j \in 1..n : new[j] = old[j]
  BY <1>1, <1>3, <1>4, AppendProperties
<1>6. /\ inbox'[w] = inbox[w] /\ step'[w] = step[w] /\ len'[w] = len[w] /\ key'[w] = key[w]
      /\ buffer'[w] = buffer[w] /\ heard'[w] = heard[w] /\ is_websocket'[w] = is_websocket[w]
      /\ w \in Browsers => is_websocket[w]
  BY DEF Say, receiver, parser
<1>7. SaidFrom(w)'
  <2>1. ASSUME NEW j \in 1..(n + 1) PROVE new[j] \in Script[w][j]
    <3>1. CASE j \in 1..n
      BY <1>1, <1>5, <3>1 DEF WellHeard, SaidFrom
    <3>2. CASE j = n + 1
      BY <1>2, <1>5, <3>2
    <3>3. QED
      BY <3>1, <3>2
  <2>2. QED
    BY <1>4, <1>5, <2>1 DEF SaidFrom
<1>8. SUFFICES ASSUME Ordinary(w)' PROVE Flow(w)' /\ HeardWell(w)'
  BY <1>7 DEF WellHeard
<1>9. Flow(w) /\ HeardWell(w)
  BY <1>8, LaterOrdinary DEF WellHeard
<1>10. ~Greeting(w)
  BY <1>6 DEF Greeting
<1>11. PICK b \in Nat, q \in Nat : \E part, rest \in Seq(Bytes) : Flowing(w, b, q, part, rest)
  BY <1>9, <1>10 DEF Flow
<1>12. PICK part \in Seq(Bytes), rest \in Seq(Bytes) : Flowing(w, b, q, part, rest)
  BY <1>11
<1>13. PICK fl \in Seq(Seq(Bytes)), f \in Nat : fl = flight[w] /\ f = Len(fl) /\ DOMAIN fl = 1..f
  BY DEF Typed, StreamsOK
<1>14. b + q + f = n
  BY <1>1, <1>12, <1>13 DEF Flowing
<1>15. PICK h \in Nat : h = Len(heard[w]) /\ h <= b
  <2>1. PICK h \in Nat : h = Len(heard[w])
    BY DEF HistoryOK
  <2>2. b = h + (IF step[w] \in Busy THEN 1 ELSE 0)
    BY <1>12, <2>1 DEF Flowing, Begun
  <2>3. h <= b
    BY <2>2
  <2>4. QED
    BY <2>1, <2>3
<1>16. Chain(w, rest, new, b, q)
  <2>1. Chain(w, rest, old, b, q)
    BY <1>1, <1>12 DEF Flowing
  <2>2. Len(old) <= Len(new) /\ \A j \in 1..Len(old) : new[j] = old[j]
    BY <1>1, <1>5
  <2>3. QED
    BY <2>1, <2>2, ChainGrows
<1>17. PICK s \in Seq(Bytes) : s = Sent(w, item)
  BY <1>3, SentTyped
<1>18. PICK gl : gl = flight'[w] /\ gl = Append(fl, s)
  BY <1>2, <1>13, <1>17
<1>19. Len(gl) = f + 1 /\ gl[f + 1] = s /\ \A j \in 1..f : gl[j] = fl[j]
  BY <1>13, <1>18, AppendProperties
<1>20. InFlight(w, b + q)'
  <2>1. ASSUME NEW j \in 1..(f + 1) PROVE gl[j] = Sent(w, new[b + q + j])
    <3>1. CASE j \in 1..f
      <4>1. b + q + j \in 1..n
        BY <1>14, <3>1
      <4>2. gl[j] = Sent(w, old[b + q + j])
        BY <1>1, <1>12, <1>13, <1>19, <3>1 DEF Flowing, InFlight
      <4>3. QED
        BY <1>5, <4>1, <4>2
    <3>2. CASE j = f + 1
      <4>1. b + q + j = n + 1
        BY <1>14, <3>2
      <4>2. QED
        BY <1>5, <1>17, <1>19, <3>2, <4>1
    <3>3. QED
      BY <3>1, <3>2
  <2>2. QED
    BY <1>4, <1>18, <1>19, <2>1 DEF InFlight
<1>21. NoneEnds(w)'
  <2>1. ASSUME NEW j \in 1..h PROVE ~Ends(w, new[j])
    <3>1. j \in 1..n
      BY <1>14, <1>15
    <3>2. QED
      BY <1>1, <1>5, <1>12, <1>15, <3>1 DEF Flowing, NoneEnds
  <2>2. QED
    BY <1>4, <1>6, <1>15, <2>1 DEF NoneEnds
<1>22. AtHand(w, said[w][b], part)'
  <2>1. AtHand(w, old[b], part)
    BY <1>1, <1>12 DEF Flowing
  <2>2. CASE BetweenLines(w, part)
    BY <1>6, <2>2 DEF AtHand, BetweenLines
  <2>3. CASE ~BetweenLines(w, part)
    <3>1. step[w] \in Busy
      BY <2>1, <2>3 DEF AtHand, InFrame, Busy
    <3>2. b \in 1..n
      <4>1. b = h + 1
        BY <1>12, <1>15, <3>1 DEF Flowing, Begun
      <4>2. QED
        BY <1>14, <4>1
    <3>3. new[b] = old[b]
      BY <1>5, <3>2
    <3>4. AtHand(w, old[b], part)'
      BY <1>6, <2>1 DEF AtHand, BetweenLines, InFrame
    <3>5. QED
      BY <1>4, <3>3, <3>4
  <2>4. QED
    BY <2>2, <2>3
<1>23. Flowing(w, b, q, part, rest)'
  <2>1. (b = Begun(w))'
    BY <1>6, <1>12 DEF Flowing, Begun
  <2>2. b + q + Len(gl) = Len(new)
    BY <1>5, <1>14, <1>19
  <2>3. (inbox[w] = part \o rest)' /\ (is_websocket[w] <=> w \in Browsers)' /\ (w \in Browsers \/ q <= 1)
    BY <1>6, <1>12 DEF Flowing
  <2>4. QED
    BY <1>4, <1>16, <1>18, <1>20, <1>21, <1>22, <2>1, <2>2, <2>3 DEF Flowing
<1>24. HeardWell(w)'
  <2>1. ASSUME NEW j \in 1..h PROVE Right(new[j], w, heard[w][j])
    <3>1. j \in 1..n
      BY <1>14, <1>15
    <3>2. QED
      BY <1>1, <1>5, <1>9, <1>15, <3>1 DEF HeardWell
  <2>2. QED
    BY <1>4, <1>6, <1>15, <2>1 DEF HeardWell
<1>25. QED
  BY <1>11, <1>12, <1>23, <1>24 DEF Flow

(* Bytes with nothing after them are the whole message. *)
LEMMA WholeMessage ==
  ASSUME NEW s \in Seq(Bytes), NEW n \in 1..Len(s), SubSeq(s, n + 1, Len(s)) = <<>>
  PROVE  n = Len(s) /\ SubSeq(s, 1, n) = s
<1>1. PICK l \in Nat : l = Len(s)
  OBVIOUS
<1>2. PICK p \in Nat \ {0} : p = n + 1
  OBVIOUS
<1>3. PICK x : x = SubSeq(s, p, l)
  OBVIOUS
<1>4. n = l
  <2>1. Len(x) = IF p <= l THEN l - p + 1 ELSE 0
    BY <1>1, <1>3, PartOf
  <2>2. Len(x) = 0
    BY <1>1, <1>2, <1>3
  <2>3. QED
    BY <1>1, <1>2, <2>1, <2>2
<1>5. SubSeq(s, 1, Len(s)) = s
  BY SubSeqFull
<1>6. QED
  BY <1>1, <1>4, <1>5

IsTail(t, g, s) == t = Tail(s) /\ g = Len(t) /\ Len(s) = g + 1 /\ \A j \in 1..g : t[j] = s[j + 1]

LEMMA RestOf ==
  ASSUME NEW T, NEW s \in Seq(T), s # <<>>
  PROVE  \E t \in Seq(T) : \E g \in Nat : IsTail(t, g, s)
<1>1. Tail(s) \in Seq(T) /\ Len(Tail(s)) = Len(s) - 1
      /\ \A j \in 1..Len(Tail(s)) : Tail(s)[j] = s[j + 1]
  BY HeadTailProperties
<1>2. PICK t \in Seq(T) : t = Tail(s)
  BY <1>1
<1>3. PICK g \in Nat : g = Len(t)
  BY <1>2
<1>4. Len(s) = g + 1
  BY <1>1, <1>2, <1>3
<1>5. \A j \in 1..g : t[j] = s[j + 1]
  BY <1>1, <1>2, <1>3
<1>6. QED
  BY <1>2, <1>3, <1>4, <1>5 DEF IsTail

LEMMA WholeDelivered ==
  ASSUME Typed, HistoryOK, NEW w \in Workers, Deliver(w), Ordinary(w)'
  PROVE  /\ flight[w] # <<>> /\ inbox'[w] = inbox[w] \o Head(flight[w])
         /\ flight'[w] = Tail(flight[w])
         /\ w \in Browsers \/ inbox[w] = <<>>
<1>1. PICK fl \in Seq(Seq(Bytes)) : fl = flight[w] /\ fl # <<>>
  BY DEF Typed, StreamsOK, Deliver
<1>2. PICK s \in Seq(Bytes) : s = Head(fl)
  BY <1>1, HeadTailProperties
<1>3. PICK n \in 1..Len(s) :
         /\ inbox' = [inbox EXCEPT ![w] = @ \o SubSeq(s, 1, n)]
         /\ flight' = [flight EXCEPT ![w] = (IF SubSeq(s, n + 1, Len(s)) = <<>> THEN <<>>
                                             ELSE <<SubSeq(s, n + 1, Len(s))>>) \o Tail(@)]
         /\ cuts' = [cuts EXCEPT ![w] = @ + (IF SubSeq(s, n + 1, Len(s)) = <<>> THEN 0 ELSE 1)]
  BY <1>1, <1>2 DEF Deliver
<1>4. SubSeq(s, n + 1, Len(s)) = <<>>
  <2>1. cuts[w] \in Nat /\ cuts'[w] = 0 /\ DOMAIN cuts = Workers
    BY DEF HistoryOK, Ordinary
  <2>2. cuts'[w] = cuts[w] + (IF SubSeq(s, n + 1, Len(s)) = <<>> THEN 0 ELSE 1)
    BY <1>3, <2>1
  <2>3. QED
    BY <2>1, <2>2
<1>5. SubSeq(s, 1, n) = s
  BY <1>4, WholeMessage
<1>6. DOMAIN inbox = Workers /\ DOMAIN flight = Workers
  BY DEF Typed, StreamsOK
<1>7. inbox'[w] = inbox[w] \o s
  BY <1>3, <1>5, <1>6
<1>8. flight'[w] = Tail(fl)
  <2>1. flight'[w] = <<>> \o Tail(fl)
    BY <1>1, <1>3, <1>4, <1>6
  <2>2. Tail(fl) \in Seq(Seq(Bytes))
    BY <1>1, HeadTailProperties
  <2>3. QED
    BY <2>1, <2>2, ConcatEmptySeq
<1>9. w \in Browsers \/ inbox[w] = <<>>
  BY DEF Deliver, HistoryOK, Ordinary
<1>10. QED
  BY <1>1, <1>2, <1>7, <1>8, <1>9

(* A message that arrives is the last link of the chain in the stream. *)
LEMMA DeliverKeeps ==
  ASSUME Typed, HistoryOK, NEW w \in Workers, WellHeard(w), Deliver(w)
  PROVE  WellHeard(w)'
<1>1. /\ said'[w] = said[w] /\ heard'[w] = heard[w] /\ step'[w] = step[w] /\ len'[w] = len[w]
      /\ key'[w] = key[w] /\ buffer'[w] = buffer[w] /\ is_websocket'[w] = is_websocket[w]
  BY DEF Deliver, parser
<1>2. SUFFICES ASSUME Ordinary(w)' PROVE Flow(w)'
  BY <1>1, LaterOrdinary, Otherwise
<1>3. Flow(w)
  BY <1>2, LaterOrdinary DEF WellHeard
<1>4. PICK fl \in Seq(Seq(Bytes)), f \in Nat : fl = flight[w] /\ f = Len(fl) /\ DOMAIN fl = 1..f
  BY DEF Typed, StreamsOK
<1>5. fl # <<>> /\ inbox'[w] = inbox[w] \o Head(fl) /\ flight'[w] = Tail(fl)
      /\ (w \in Browsers \/ inbox[w] = <<>>)
  BY <1>2, <1>4, WholeDelivered
<1>6. PICK gl \in Seq(Seq(Bytes)), g \in Nat :
         gl = Tail(fl) /\ g = Len(gl) /\ f = g + 1 /\ \A j \in 1..g : gl[j] = fl[j + 1]
  <2>1. PICK T : T = Seq(Bytes)
    OBVIOUS
  <2>2. fl \in Seq(T) /\ f \in Nat /\ f = Len(fl) /\ fl # <<>>
    BY <1>4, <1>5, <2>1
  <2>3. PICK gl \in Seq(T) : \E g \in Nat : IsTail(gl, g, fl)
    BY <2>2, RestOf
  <2>4. PICK g \in Nat : IsTail(gl, g, fl)
    BY <2>3
  <2>5. QED
    BY <2>1, <2>2, <2>3, <2>4 DEF IsTail
<1>7. CASE Greeting(w)
  <2>1. flight[w] = <<Request>> /\ inbox[w] = <<>> /\ step[w] = "peek"
    BY <1>4, <1>5, <1>7 DEF Greeting
  <2>2. PICK request : request = Request
    OBVIOUS
  <2>3. request \in Seq(Bytes)
    <3>1. \A i \in 1..4 : As("http", i) \in Bytes
      BY BytesOf
    <3>2. request \in [1..4 -> Bytes] /\ 4 \in Nat
      BY <2>2, <3>1 DEF Request
    <3>3. QED
      BY <3>2, SequenceOf
  <2>4. fl = <<request>>
    BY <1>4, <2>1, <2>2
  <2>5. Head(fl) = request /\ gl = <<>>
    BY <1>6, <2>4
  <2>6. inbox'[w] = request /\ flight'[w] = <<>>
    BY <1>5, <1>6, <2>1, <2>3, <2>5, ConcatEmptySeq
  <2>7. Greeting(w)'
    BY <1>1, <1>7, <2>1, <2>2, <2>6 DEF Greeting
  <2>8. QED
    BY <2>7 DEF Flow
<1>8. ASSUME NEW b \in Nat, NEW q \in Nat, NEW part \in Seq(Bytes), NEW rest \in Seq(Bytes),
             Flowing(w, b, q, part, rest)
      PROVE  Flow(w)'
  <2>1. PICK items \in Seq(Items) : items = said[w]
    BY DEF Typed, SaidOK
  <2>2. PICK n \in Nat : n = Len(items) /\ b + q + f = n
    <3>1. PICK n \in Nat : n = Len(items)
      BY <2>1
    <3>2. b + q + f = n
      BY <1>4, <1>8, <2>1, <3>1 DEF Flowing
    <3>3. QED
      BY <3>1, <3>2
  <2>3. b + q + 1 \in 1..n
    BY <1>6, <2>2
  <2>4. PICK s \in Seq(Bytes) : s = Head(fl) /\ s = Sent(w, items[b + q + 1])
    <3>1. 1 \in 1..f /\ Head(fl) = fl[1]
      BY <1>4, <1>5, <1>6, HeadTailProperties
    <3>2. fl[1] = Sent(w, items[b + q + 1])
      BY <1>4, <1>8, <2>1, <3>1 DEF Flowing, InFlight
    <3>3. items[b + q + 1] \in Items
      BY <2>2, <2>3
    <3>4. QED
      BY <3>1, <3>2, <3>3, SentTyped
  <2>5. PICK more \in Seq(Bytes) : more = rest \o s
    BY ConcatProperties
  <2>6. Chain(w, more, items, b, q + 1)
    <3>1. Chain(w, rest, items, b, q)
      BY <1>8, <2>1 DEF Flowing
    <3>2. b + q + 1 \in 1..Len(items)
      BY <2>2, <2>3
    <3>3. QED
      BY <2>4, <2>5, <3>1, <3>2, ChainContinues
  <2>7. inbox'[w] = part \o more
    <3>1. inbox[w] = part \o rest
      BY <1>8 DEF Flowing
    <3>2. (part \o rest) \o s = part \o (rest \o s)
      <4>1. part \in Seq(Bytes) /\ rest \in Seq(Bytes) /\ s \in Seq(Bytes)
        BY <2>4
      <4>2. QED
        BY <4>1, Regroup
    <3>3. QED
      BY <1>5, <2>4, <2>5, <3>1, <3>2
  <2>8. InFlight(w, b + (q + 1))'
    <3>1. ASSUME NEW j \in 1..g PROVE gl[j] = Sent(w, items[b + (q + 1) + j])
      <4>1. j + 1 \in 1..f /\ b + q + (j + 1) = b + (q + 1) + j
        BY <1>6
      <4>2. fl[j + 1] = Sent(w, items[b + q + (j + 1)])
        BY <1>4, <1>8, <2>1, <4>1 DEF Flowing, InFlight
      <4>3. QED
        BY <1>6, <4>1, <4>2
    <3>2. flight'[w] = gl /\ said'[w] = items
      BY <1>1, <1>5, <1>6, <2>1
    <3>3. QED
      BY <1>6, <3>1, <3>2 DEF InFlight
  <2>9. NoneEnds(w)'
    BY <1>1, <1>8 DEF Flowing, NoneEnds
  <2>10. AtHand(w, said[w][b], part)'
    BY <1>1, <1>8 DEF Flowing, AtHand, BetweenLines, InFrame
  <2>11. (b = Begun(w))'
    BY <1>1, <1>8 DEF Flowing, Begun
  <2>12. b + (q + 1) + Len(gl) = Len(items)
    <3>1. b + q + f = n /\ f = g + 1
      BY <1>6, <2>2
    <3>2. b \in Nat /\ q \in Nat /\ g \in Nat
      BY <1>6, <1>8
    <3>3. b + (q + 1) + g = n
      BY <3>1, <3>2
    <3>4. QED
      BY <1>6, <2>2, <3>3
  <2>13. w \in Browsers \/ q + 1 <= 1
    <3>1. CASE w \in Browsers
      BY <3>1
    <3>2. CASE inbox[w] = <<>>
      <4>1. rest = <<>>
        <5>1. part \o rest = <<>> /\ part \in Seq(Bytes) /\ rest \in Seq(Bytes)
          BY <1>8, <3>2 DEF Flowing
        <5>2. QED
          BY <5>1, ConcatEqualIffEmpty
      <4>2. Chain(w, rest, items, b, q)
        BY <1>8, <2>1 DEF Flowing
      <4>3. q = 0
        BY <4>1, <4>2, FirstOfChain
      <4>4. QED
        BY <4>3
    <3>3. QED
      BY <1>5, <3>1, <3>2
  <2>14. PICK r \in Nat : r = q + 1
    OBVIOUS
  <2>15. Flowing(w, b, r, part, more)'
    <3>1. said'[w] = items /\ flight'[w] = gl
      BY <1>1, <1>5, <1>6, <2>1
    <3>2. is_websocket'[w] <=> w \in Browsers
      BY <1>1, <1>8 DEF Flowing
    <3>3. QED
      BY <2>6, <2>7, <2>8, <2>9, <2>10, <2>11, <2>12, <2>13, <2>14, <3>1, <3>2 DEF Flowing
  <2>16. QED
    BY <2>15 DEF Flow
<1>9. QED
  BY <1>3, <1>7, <1>8 DEF Flow

LEMMA PrefixIs ==
  ASSUME NEW T, NEW s \in Seq(T), s # <<>>, NEW t \in Seq(T)
  PROVE  IsPrefix(s, t) => t[1] = s[1]
<1>1. ASSUME IsPrefix(s, t) PROVE t[1] = s[1]
  <2>1. PICK m \in Nat, n \in Nat : m = Len(s) /\ n = Len(t)
    OBVIOUS
  <2>2. 1 <= m /\ m <= n
    BY <1>1, <2>1 DEF IsPrefix
  <2>3. PICK x, y : x = SubSeq(s, 1, m) /\ y = SubSeq(t, 1, m)
    OBVIOUS
  <2>4. 1 \in 1..(m - 1 + 1) /\ 1 + 1 - 1 = 1 /\ 1 \in Nat \ {0} /\ 1 <= m + 1
    BY <2>2
  <2>5. \A i \in 1..(m - 1 + 1) : x[i] = s[1 + i - 1]
    BY <2>1, <2>3, <2>4, PartIs
  <2>6. \A i \in 1..(m - 1 + 1) : y[i] = t[1 + i - 1]
    BY <2>1, <2>2, <2>3, <2>4, PartIs
  <2>7. x[1] = s[1] /\ y[1] = t[1]
    BY <2>4, <2>5, <2>6
  <2>8. x = y
    BY <1>1, <2>1, <2>3 DEF IsPrefix
  <2>9. QED
    BY <2>7, <2>8
<1>2. QED
  BY <1>1

(* The upgrade request is told from a line by its first byte. *)
LEMMA RequestIs ==
  /\ Request \in Seq(Bytes) /\ Len(Request) = 4 /\ \A i \in 1..4 : Request[i] = As("http", i)
  /\ SubSeq(Request, 1, 2) \in Seq(Bytes) /\ SubSeq(Request, 1, 2) # <<>>
  /\ SubSeq(Request, 1, 2)[1] = As("http", 1)
<1>1. PICK r : r = Request
  OBVIOUS
<1>2. r \in [1..4 -> Bytes] /\ \A i \in 1..4 : r[i] = As("http", i)
  <2>1. \A i \in 1..4 : As("http", i) \in Bytes
    BY BytesOf
  <2>2. QED
    BY <1>1, <2>1 DEF Request
<1>3. r \in Seq(Bytes) /\ Len(r) = 4
  <2>1. 4 \in Nat
    OBVIOUS
  <2>2. QED
    BY <1>2, <2>1, SequenceOf
<1>4. PICK x : x = SubSeq(r, 1, 2)
  OBVIOUS
<1>5. x \in Seq(Bytes) /\ Len(x) = 2 /\ x # <<>> /\ x[1] = r[1]
  <2>1. PICK m \in Nat \ {0} : m = 1
    OBVIOUS
  <2>2. PICK n \in Nat : n = 2
    OBVIOUS
  <2>3. n <= Len(r) /\ m <= n + 1 /\ x = SubSeq(r, m, n) /\ r \in Seq(Bytes)
    BY <1>3, <1>4, <2>1, <2>2
  <2>4. x \in Seq(Bytes) /\ Len(x) = n - m + 1 /\ \A i \in 1..(n - m + 1) : x[i] = r[m + i - 1]
    BY <2>3, PartIs
  <2>5. n - m + 1 = 2 /\ 1 \in 1..(n - m + 1) /\ m + 1 - 1 = 1
    BY <2>1, <2>2
  <2>6. x[1] = r[m + 1 - 1]
    BY <2>4, <2>5
  <2>7. x[1] = r[1]
    BY <2>5, <2>6
  <2>8. Len(x) = 2
    BY <2>4, <2>5
  <2>9. x # <<>>
    BY <2>8
  <2>10. QED
    BY <2>4, <2>7, <2>8, <2>9
<1>6. r[1] = As("http", 1)
  BY <1>2
<1>7. QED
  BY <1>1, <1>2, <1>3, <1>4, <1>5, <1>6

LEMMA FirstByteIs ==
  ASSUME NEW w \in Workers, w \notin Browsers, NEW item \in Items, NEW rest \in Seq(Bytes),
         NEW bytes \in Seq(Bytes), bytes = Sent(w, item) \o rest
  PROVE  bytes # <<>> /\ bytes[1].as = "char"
<1>1. PICK t \in Seq(Chars) : t = Formatted(item.text)
  BY CharsAre, FormattedTyped
<1>2. PICK n \in Nat : n = Len(t)
  OBVIOUS
<1>3. PICK e \in 0..1 : /\ Len(Line(t)) = n + e /\ (t = <<>> => e = 1)
                       /\ \A i \in 1..(n + e) :
                             Line(t)[i] = IF i <= n THEN As("char", t[i]) ELSE As("char", NL)
  BY <1>2, LineIs
<1>4. PICK k \in Nat \ {0} : k = n + e
  BY <1>2, <1>3
<1>5. PICK v : v = IF 1 <= n THEN t[1] ELSE NL
  OBVIOUS
<1>6. PICK s \in Seq(Bytes) : s = Sent(w, item)
  BY SentTyped
<1>7. s = Line(t)
  BY <1>1, <1>6 DEF Sent
<1>8. Len(s) = k /\ s[1] = As("char", v)
  <2>1. 1 \in 1..(n + e)
    BY <1>4
  <2>2. QED
    BY <1>3, <1>4, <1>5, <1>7, <2>1
<1>9. s[1].as = "char"
  BY <1>8 DEF As
<1>10. bytes[1] = s[1] /\ bytes # <<>>
  <2>1. PICK r \in Nat : r = Len(rest)
    OBVIOUS
  <2>2. bytes = s \o rest
    BY <1>6
  <2>3. Len(bytes) = Len(s) + r
        /\ \A i \in 1..(Len(s) + r) : bytes[i] = IF i <= Len(s) THEN s[i] ELSE rest[i - Len(s)]
    BY <1>6, <2>1, <2>2, ConcatProperties
  <2>4. 1 \in 1..(k + r) /\ 1 <= k /\ k + r # 0
    BY <1>4
  <2>5. QED
    BY <1>8, <2>3, <2>4
<1>11. QED
  BY <1>9, <1>10

(* A browser is found by its upgrade request, a console by its first line. *)
LEMMA PeekKeeps ==
  ASSUME Typed, HistoryOK, NEW w \in Workers, WellHeard(w), Peek(w)
  PROVE  WellHeard(w)'
<1>1. /\ said'[w] = said[w] /\ heard'[w] = heard[w] /\ inbox'[w] = inbox[w] /\ len'[w] = len[w]
      /\ key'[w] = key[w] /\ buffer'[w] = buffer[w] /\ is_websocket'[w] = is_websocket[w]
      /\ flight'[w] = flight[w] /\ step[w] = "peek" /\ inbox[w] # <<>>
  BY DEF Peek, parser, history
<1>2. step'[w] = IF IsPrefix(SubSeq(Request, 1, 2), inbox[w]) THEN "handshake" ELSE "line"
  BY DEF Peek, At, Typed, StepOK
<1>3. SUFFICES ASSUME Ordinary(w)' PROVE Flow(w)'
  BY <1>1, LaterOrdinary, Otherwise DEF Serving
<1>4. Flow(w)
  BY <1>3, LaterOrdinary DEF WellHeard, Serving
<1>5. PICK bytes \in Seq(Bytes) : bytes = inbox[w]
  BY DEF Typed, StreamsOK
<1>6. PICK request \in Seq(Bytes) : request = SubSeq(Request, 1, 2) /\ request # <<>>
                                    /\ request[1] = As("http", 1)
  BY RequestIs
<1>7. CASE Greeting(w)
  <2>1. bytes = Request /\ flight[w] = <<>>
    BY <1>1, <1>5, <1>7 DEF Greeting
  <2>2. step'[w] \in {"handshake", "line"}
    BY <1>2
  <2>3. IsPrefix(request, bytes)
    <3>1. PICK r \in Seq(Bytes) : r = Request /\ Len(r) = 4
      BY RequestIs
    <3>2. PICK m \in Nat : m = 2
      OBVIOUS
    <3>3. PICK x : x = SubSeq(r, 1, m)
      OBVIOUS
    <3>4. x \in Seq(Bytes) /\ Len(x) = m
      BY <3>1, <3>2, <3>3, PartOf
    <3>5. SubSeq(x, 1, Len(x)) = x
      BY <3>4, SubSeqFull
    <3>6. IsPrefix(x, r)
      BY <3>1, <3>2, <3>3, <3>4, <3>5 DEF IsPrefix
    <3>7. QED
      BY <1>6, <2>1, <3>1, <3>2, <3>3, <3>6
  <2>4. step'[w] = "handshake"
    BY <1>2, <1>5, <1>6, <2>3
  <2>5. Greeting(w)'
    BY <1>1, <1>5, <1>7, <2>1, <2>4 DEF Greeting
  <2>6. QED
    BY <2>5 DEF Flow
<1>8. ASSUME NEW b \in Nat, NEW q \in Nat, NEW part \in Seq(Bytes), NEW rest \in Seq(Bytes),
             Flowing(w, b, q, part, rest)
      PROVE  Flow(w)'
  <2>1. BetweenLines(w, part)
    BY <1>1, <1>8 DEF Flowing, AtHand, InFrame
  <2>2. part = <<>> /\ w \notin Browsers
    BY <1>1, <2>1 DEF BetweenLines
  <2>3. rest = bytes
    BY <1>5, <1>8, <2>2, ConcatEmptySeq DEF Flowing
  <2>4. PICK items \in Seq(Items) : items = said[w]
    BY DEF Typed, SaidOK
  <2>5. Chain(w, bytes, items, b, q)
    BY <1>8, <2>3, <2>4 DEF Flowing
  <2>6. q # 0
    BY <1>1, <1>5, <1>8, <2>5, FirstOfChain
  <2>7. b + 1 \in 1..Len(items)
    BY <1>8, <2>5, <2>6, FirstOfChain
  <2>8. PICK more \in Seq(Bytes) : bytes = Sent(w, items[b + 1]) \o more
                                /\ Chain(w, more, items, b + 1, q - 1)
    BY <1>8, <2>5, <2>6, FirstOfChain
  <2>9. items[b + 1] \in Items
    BY <2>7, SMTT(20)
  <2>10. bytes[1].as = "char"
    BY <2>2, <2>8, <2>9, FirstByteIs, ZenonT(40)
  <2>11. ~IsPrefix(request, bytes)
    <3>1. request[1].as = "http"
      BY <1>6 DEF As
    <3>2. bytes[1] # request[1]
      BY <2>10, <3>1
    <3>3. QED
      BY <1>5, <1>6, <3>2, PrefixIs
  <2>12. step'[w] = "line"
    BY <1>2, <1>5, <1>6, <2>11
  <2>13. AtHand(w, said[w][b], part)'
    BY <2>2, <2>12 DEF AtHand, BetweenLines
  <2>14. (b = Begun(w))'
    BY <1>1, <1>8, <2>12 DEF Flowing, Begun, Busy
  <2>15. InFlight(w, b + q)' /\ NoneEnds(w)'
    BY <1>1, <1>8 DEF Flowing, InFlight, NoneEnds
  <2>16. Flowing(w, b, q, part, rest)'
    BY <1>1, <1>8, <2>13, <2>14, <2>15 DEF Flowing
  <2>17. QED
    BY <1>8, <2>16 DEF Flow
<1>9. QED
  BY <1>4, <1>7, <1>8 DEF Flow

(* The request is read whole, and nothing else. *)
LEMMA HandshakeKeeps ==
  ASSUME Typed, HistoryOK, NEW w \in Workers, WellHeard(w), Handshake(w)
  PROVE  WellHeard(w)'
<1>1. /\ said'[w] = said[w] /\ heard'[w] = heard[w] /\ len'[w] = len[w] /\ key'[w] = key[w]
      /\ buffer'[w] = buffer[w] /\ flight'[w] = flight[w] /\ step[w] = "handshake"
  BY DEF Handshake, parser, history
<1>2. SUFFICES ASSUME Ordinary(w)' PROVE Flow(w)'
  BY <1>1, LaterOrdinary, Otherwise DEF Serving
<1>3. Flow(w)
  BY <1>2, LaterOrdinary DEF WellHeard, Serving
<1>4. Greeting(w)
  BY <1>1, <1>3 DEF Flow, Flowing, AtHand, BetweenLines, InFrame
<1>5. /\ w \in Browsers /\ said[w] = <<>> /\ heard[w] = <<>> /\ flight[w] = <<>> /\ inbox[w] = Request
  BY <1>1, <1>4 DEF Greeting
<1>6. IsPrefix(Request, inbox[w])
  <2>1. PICK r \in Seq(Bytes) : r = Request /\ Len(r) = 4
    BY RequestIs
  <2>2. QED
    BY <1>5, <2>1 DEF IsPrefix
<1>7. inbox'[w] = <<>> /\ is_websocket'[w] /\ step'[w] = "header"
  BY <1>6 DEF Handshake, At, Typed, StepOK, StreamsOK, HistoryOK
<1>8. PICK none \in Seq(Bytes) : none = <<>>
  BY EmptySeq
<1>9. Flowing(w, 0, 0, none, none)'
  <2>1. (0 = Begun(w))'
    BY <1>1, <1>5, <1>7 DEF Begun, Busy
  <2>2. 0 + 0 + Len(<<>>) = Len(<<>>) /\ none \o none = none
    BY <1>8, ConcatEmptySeq
  <2>3. Chain(w, none, <<>>, 0, 0)
    BY <1>8, NoChain
  <2>4. InFlight(w, 0 + 0)'
    BY <1>1, <1>5 DEF InFlight
  <2>5. NoneEnds(w)'
    BY <1>1, <1>5 DEF NoneEnds
  <2>6. AtHand(w, said[w][0], none)'
    BY <1>5, <1>7, <1>8 DEF AtHand, BetweenLines
  <2>7. QED
    BY <1>1, <1>5, <1>7, <1>8, <2>1, <2>2, <2>3, <2>4, <2>5, <2>6 DEF Flowing
<1>10. QED
  BY <1>8, <1>9 DEF Flow

LEMMA WholeArrived ==
  ASSUME StreamsOK, NEW w \in Workers, NEW s \in Seq(Bytes), s = inbox[w], NEW n \in Nat, Len(s) <= n
  PROVE  Arrived(w, n) = s /\ (Recv(w, n) => inbox'[w] = <<>>)
<1>1. PICK l \in Nat : l = Len(s)
  OBVIOUS
<1>2. Min({n, l}) = l
  <2>1. Min({n, l}) = IF n <= l THEN n ELSE l
    BY LesserOf
  <2>2. QED
    BY <1>1, <2>1
<1>3. SubSeq(s, 1, l) = s
  BY <1>1, SubSeqFull
<1>4. Arrived(w, n) = s
  BY <1>1, <1>2, <1>3 DEF Arrived
<1>5. ASSUME Recv(w, n) PROVE inbox'[w] = <<>>
  <2>1. inbox'[w] = SubSeq(s, l + 1, l)
    BY <1>1, <1>2, <1>5 DEF Recv, StreamsOK
  <2>2. PICK p \in Nat \ {0} : p = l + 1
    OBVIOUS
  <2>3. PICK x : x = SubSeq(s, p, l)
    OBVIOUS
  <2>4. x \in Seq(Bytes) /\ Len(x) = IF p <= l THEN l - p + 1 ELSE 0
    BY <1>1, <2>3, PartOf
  <2>5. Len(x) = 0
    BY <2>2, <2>4
  <2>6. x = <<>>
    BY <2>4, <2>5
  <2>7. QED
    BY <2>1, <2>2, <2>3, <2>6
<1>6. QED
  BY <1>4, <1>5

(* A console has said a line that is not empty, and has sent it as one.     *)
LEMMA ConsoleLine ==
  ASSUME NEW w \in Workers, w \notin Browsers, NEW k \in 1..Len(Script[w]), NEW item \in Script[w][k],
         Len(item.text) < BufSize
  PROVE  LET t == Formatted(item.text)
         IN  /\ t # <<>> /\ Len(Line(t)) <= BufSize /\ Stripped(Text(Line(t))) = t
             /\ Sent(w, item) = Line(t)
<1>1. item \in Items /\ item.text # <<>> /\ NL \notin ToSet(item.text) /\ BAR # NL
  <2>1. item \in Items
    BY DEF Items
  <2>2. w \in Workers \ Browsers
    OBVIOUS
  <2>3. QED
    BY <2>1, <2>2, WireAssumption
<1>2. PICK text \in Seq(Chars) : text = item.text
  BY <1>1, CharsAre
<1>3. PICK n \in Nat : n = Len(text) /\ DOMAIN text = 1..n
  OBVIOUS
<1>4. PICK t \in Seq(Chars) : t = Formatted(text)
  BY FormattedTyped
<1>5. DOMAIN t = 1..n /\ \A i \in 1..n : t[i] \in {BAR, text[i]}
  BY <1>3, <1>4 DEF Formatted
<1>6. n = Len(t) /\ n # 0
  BY <1>1, <1>2, <1>3, <1>5
<1>7. t[n] # NL
  <2>1. n \in 1..n
    BY <1>6
  <2>2. text[n] \in ToSet(text)
    BY <1>3, <2>1 DEF ToSet
  <2>3. QED
    BY <1>1, <1>2, <1>5, <2>1, <2>2
<1>8. Line(t) \in Seq(Bytes) /\ Len(Line(t)) <= n + 1 /\ Stripped(Text(Line(t))) = t
  BY <1>6, <1>7, LineStripped
<1>9. Len(Line(t)) <= BufSize
  <2>1. n + 1 <= BufSize /\ Len(Line(t)) \in Nat
    BY <1>2, <1>3, <1>8, WireAssumption
  <2>2. QED
    BY <1>8, <2>1, WireAssumption
<1>10. t # <<>>
  BY <1>6
<1>11. QED
  BY <1>2, <1>4, <1>8, <1>9, <1>10 DEF Sent

(* A console's line is read whole, and nothing else. *)
LEMMA ReadLineKeeps ==
  ASSUME Typed, HistoryOK, NEW w \in Workers, WellHeard(w), ReadLine(w)
  PROVE  WellHeard(w)'
<1>1. /\ said'[w] = said[w] /\ heard'[w] = heard[w] /\ len'[w] = len[w] /\ key'[w] = key[w]
      /\ is_websocket'[w] = is_websocket[w] /\ flight'[w] = flight[w]
      /\ step[w] = "line" /\ inbox[w] # <<>>
  BY DEF ReadLine, history
<1>2. SUFFICES ASSUME Ordinary(w)' PROVE Flow(w)'
  BY <1>1, LaterOrdinary, Otherwise DEF Serving
<1>3. Ordinary(w) /\ Flow(w) /\ SaidFrom(w)
  BY <1>2, LaterOrdinary DEF WellHeard, Serving
<1>4. PICK b \in Nat, q \in Nat : \E part, rest \in Seq(Bytes) : Flowing(w, b, q, part, rest)
  BY <1>1, <1>3 DEF Flow, Greeting
<1>5. PICK part \in Seq(Bytes), rest \in Seq(Bytes) : Flowing(w, b, q, part, rest)
  BY <1>4
<1>6. part = <<>> /\ w \notin Browsers
  <2>1. BetweenLines(w, part)
    BY <1>1, <1>5 DEF Flowing, AtHand, InFrame
  <2>2. QED
    BY <1>1, <2>1 DEF BetweenLines
<1>7. PICK bytes \in Seq(Bytes) : bytes = inbox[w] /\ bytes = rest
  BY <1>5, <1>6, ConcatEmptySeq DEF Flowing
<1>8. PICK items \in Seq(Items) : items = said[w]
  BY DEF Typed, SaidOK
<1>9. Chain(w, bytes, items, b, q)
  BY <1>5, <1>7, <1>8 DEF Flowing
<1>10. q # 0
  BY <1>1, <1>4, <1>7, <1>9, FirstOfChain
<1>11. q = 1
  <2>1. q <= 1
    BY <1>5, <1>6 DEF Flowing
  <2>2. QED
    BY <1>4, <1>10, <2>1
<1>12. b + 1 \in 1..Len(items)
  BY <1>4, <1>9, <1>10, FirstOfChain
<1>13. PICK more \in Seq(Bytes) : bytes = Sent(w, items[b + 1]) \o more /\ Chain(w, more, items, b + 1, q - 1)
  BY <1>4, <1>9, <1>10, FirstOfChain
<1>14. PICK k \in Nat : k = b + 1
  BY <1>4
<1>15. more = <<>>
  <2>1. PICK z \in Nat : z = q - 1 /\ z = 0
    BY <1>11
  <2>2. Chain(w, more, items, k, z)
    BY <1>13, <1>14, <2>1
  <2>3. QED
    BY <2>1, <2>2, FirstOfChain
<1>16. PICK item \in Items : item = items[k]
  BY <1>12, <1>14
<1>17. k \in 1..Len(Script[w]) /\ item \in Script[w][k] /\ Len(item.text) < BufSize
  <2>1. k \in 1..Len(said[w]) /\ Len(said[w]) <= Len(Script[w]) /\ Len(Script[w]) \in Nat
    BY <1>8, <1>12, <1>14, WireAssumption DEF Typed, SaidOK
  <2>2. k \in 1..Len(Script[w])
    <3>1. Len(said[w]) \in Nat
      BY <1>8
    <3>2. QED
      BY <2>1, <3>1
  <2>3. item \in Script[w][k]
    BY <1>3, <1>8, <1>16, <2>1 DEF SaidFrom
  <2>4. Len(item.text) < BufSize
    <3>1. k \in DOMAIN said[w]
      BY <1>8, <2>1
    <3>2. QED
      BY <1>3, <1>8, <1>16, <3>1 DEF Ordinary
  <2>5. QED
    BY <2>2, <2>3, <2>4
<1>18. PICK t : t = Formatted(item.text)
  OBVIOUS
<1>19. t # <<>> /\ Len(Line(t)) <= BufSize /\ Stripped(Text(Line(t))) = t /\ Sent(w, item) = Line(t)
  BY <1>6, <1>17, <1>18, ConsoleLine
<1>20. bytes = Line(t)
  <2>1. PICK s \in Seq(Bytes) : s = Sent(w, item)
    BY SentTyped
  <2>2. bytes = s \o <<>>
    BY <1>13, <1>14, <1>15, <1>16, <2>1
  <2>3. QED
    BY <1>19, <2>1, <2>2, ConcatEmptySeq
<1>21. PICK size \in Nat : size = BufSize
  BY WireAssumption
<1>22. Arrived(w, size) = bytes /\ (Recv(w, size) => inbox'[w] = <<>>)
  BY <1>7, <1>19, <1>20, <1>21, WholeArrived DEF Typed
<1>23. Recv(w, size) /\ At(w, "parse") /\ BeginParse(w, t)
  <2>1. Stripped(Text(Arrived(w, BufSize))) = t
    BY <1>19, <1>20, <1>21, <1>22
  <2>2. QED
    BY <1>19, <1>21, <2>1 DEF ReadLine
<1>24. inbox'[w] = <<>> /\ step'[w] = "parse" /\ buffer'[w] = t
  BY <1>22, <1>23 DEF At, BeginParse, Typed, StepOK, ParserOK
<1>25. PICK none \in Seq(Bytes) : none = <<>>
  BY EmptySeq
<1>26. Flowing(w, k, 0, none, none)'
  <2>1. PICK h \in Nat : h = Len(heard[w])
    BY DEF HistoryOK
  <2>2. h = b
    <3>1. b = h + 0
      BY <1>1, <1>5, <2>1 DEF Flowing, Begun, Busy
    <3>2. QED
      BY <3>1
  <2>3. (k = Begun(w))'
    <3>1. Begun(w)' = h + 1
      BY <1>1, <1>24, <2>1 DEF Begun, Busy
    <3>2. QED
      BY <1>14, <2>2, <3>1
  <2>4. PICK f \in Nat : f = Len(flight[w])
    BY FlightIs
  <2>5. k + 0 + f = Len(items)
    <3>1. b + q + f = Len(items)
      BY <1>5, <1>8, <2>4 DEF Flowing
    <3>2. QED
      BY <1>4, <1>11, <1>14, <3>1
  <2>6. Chain(w, none, items, k, 0)
    BY <1>25, NoChain
  <2>7. InFlight(w, k + 0)'
    <3>1. b + q = k + 0
      BY <1>11, <1>14
    <3>2. InFlight(w, k + 0)
      BY <1>5, <3>1 DEF Flowing
    <3>3. QED
      BY <1>1, <3>2 DEF InFlight
  <2>8. NoneEnds(w)'
    BY <1>1, <1>5 DEF Flowing, NoneEnds
  <2>9. AtHand(w, said[w][k], none)'
    <3>1. ~Ends(w, item) /\ Taken(w, item.text) = t
      BY <1>6, <1>18 DEF Ends, Taken
    <3>2. said'[w][k] = item
      BY <1>1, <1>8, <1>16
    <3>3. QED
      BY <1>24, <1>25, <3>1, <3>2 DEF AtHand
  <2>10. none \o none = none
    BY <1>25, ConcatEmptySeq
  <2>11. is_websocket'[w] <=> w \in Browsers
    BY <1>1, <1>5 DEF Flowing
  <2>12. QED
    BY <1>1, <1>8, <1>24, <1>25, <2>3, <2>4, <2>5, <2>6, <2>7, <2>8, <2>9, <2>10, <2>11 DEF Flowing
<1>27. QED
  BY <1>14, <1>25, <1>26 DEF Flow

(* A browser's frame is read part by part.                                  *)
LEMMA FlowsOn ==
  ASSUME NEW w \in Workers, w \in Browsers, Typed,
         NEW b \in Nat, NEW q \in Nat, NEW part \in Seq(Bytes), NEW rest \in Seq(Bytes),
         Flowing(w, b, q, part, rest),
         said'[w] = said[w], heard'[w] = heard[w], flight'[w] = flight[w],
         is_websocket'[w] = is_websocket[w],
         NEW k \in Nat, NEW r \in Nat, NEW next \in Seq(Bytes), NEW more \in Seq(Bytes),
         b + q = k + r, inbox'[w] = next \o more, Chain(w, more, said[w], k, r),
         NEW item, item = said[w][k], AtHand(w, item, next)', (k = Begun(w))'
  PROVE  Flow(w)'
<1>1. PICK f \in Nat : f = Len(flight[w])
  BY FlightIs
<1>2. k + r + Len(flight[w]) = Len(said[w])
  <2>1. b + q + f = Len(said[w])
    BY <1>1 DEF Flowing
  <2>2. QED
    BY <1>1, <2>1
<1>3. InFlight(w, k + r)'
  <2>1. InFlight(w, k + r)
    BY DEF Flowing
  <2>2. QED
    BY <2>1 DEF InFlight
<1>4. NoneEnds(w)'
  BY DEF Flowing, NoneEnds
<1>5. AtHand(w, said[w][k], next)'
  OBVIOUS
<1>6. is_websocket'[w] <=> w \in Browsers
  BY DEF Flowing
<1>7. Flowing(w, k, r, next, more)'
  BY <1>2, <1>3, <1>4, <1>5, <1>6 DEF Flowing
<1>8. QED
  BY <1>7 DEF Flow

(* The message at hand is one of those said, and fits the buffer. *)
LEMMA InHand ==
  ASSUME Typed, HistoryOK, NEW w \in Workers, Ordinary(w), step[w] \in Busy,
         NEW b \in Nat, NEW q \in Nat, NEW part, NEW rest, Flowing(w, b, q, part, rest)
  PROVE  /\ b \in 1..Len(said[w]) /\ said[w][b] \in Items /\ b = Len(heard[w]) + 1
         /\ \E n \in Nat : n = Len(said[w][b].text) /\ n < BufSize /\ n < Place[8]
<1>1. PICK items \in Seq(Items) : items = said[w]
  BY DEF Typed, SaidOK
<1>2. PICK h \in Nat, f \in Nat, l \in Nat : h = Len(heard[w]) /\ f = Len(flight[w]) /\ l = Len(items)
  BY DEF Typed, StreamsOK, HistoryOK
<1>3. b = h + 1
  BY <1>2 DEF Flowing, Begun
<1>4. b + q + f = l
  BY <1>1, <1>2 DEF Flowing
<1>5. b \in 1..l
  BY <1>3, <1>4
<1>6. PICK item \in Items : item = items[b]
  BY <1>2, <1>5
<1>7. PICK n \in Nat : n = Len(item.text)
  BY CharsAre
<1>8. n < BufSize
  BY <1>1, <1>2, <1>5, <1>6, <1>7 DEF Ordinary
<1>9. n < Place[8]
  <2>1. PICK p \in Nat : p = Place[8]
    <3>1. PICK k \in 0..8 : k = 8
      OBVIOUS
    <3>2. Place[k] \in Nat
      BY <3>1, PlacesArePositive, WireAssumption
    <3>3. QED
      BY <3>1, <3>2
  <2>2. BufSize <= p /\ BufSize \in Nat
    BY <2>1, WireAssumption
  <2>3. QED
    BY <1>8, <2>1, <2>2
<1>10. QED
  BY <1>1, <1>2, <1>3, <1>5, <1>6, <1>7, <1>8, <1>9

(* A header is the first part of the next frame in the stream. *)
LEMMA HeaderKeeps ==
  ASSUME Typed, HistoryOK, NEW w \in Workers, Flow(w), ReadHeader(w), Ordinary(w),
         said'[w] = said[w], heard'[w] = heard[w], flight'[w] = flight[w],
         is_websocket'[w] = is_websocket[w]
  PROVE  Flow(w)'
<1>1. step[w] = "header" /\ inbox[w] # <<>>
  <2>1. PICK s \in Seq(Bytes) : s = inbox[w]
    BY DEF Typed, StreamsOK
  <2>2. ASSUME s = <<>> PROVE Arrived(w, 2) = <<>>
    <3>1. PICK m \in Nat : m = 2
      OBVIOUS
    <3>2. Len(s) <= m
      BY <2>2, <3>1
    <3>3. Arrived(w, m) = s
      BY <2>1, <3>2, WholeArrived DEF Typed
    <3>4. QED
      BY <2>2, <3>1, <3>3
  <2>3. QED
    BY <2>1, <2>2 DEF ReadHeader
<1>2. PICK b \in Nat, q \in Nat : \E part, rest \in Seq(Bytes) : Flowing(w, b, q, part, rest)
  BY <1>1 DEF Flow, Greeting
<1>3. PICK part \in Seq(Bytes), rest \in Seq(Bytes) : Flowing(w, b, q, part, rest)
  BY <1>2
<1>4. part = <<>> /\ w \in Browsers
  <2>1. BetweenLines(w, part)
    BY <1>1, <1>3 DEF Flowing, AtHand, InFrame
  <2>2. QED
    BY <1>1, <2>1 DEF BetweenLines
<1>5. PICK bytes \in Seq(Bytes) : bytes = inbox[w] /\ bytes = rest
  BY <1>3, <1>4, ConcatEmptySeq DEF Flowing
<1>6. PICK items \in Seq(Items) : items = said[w]
  BY DEF Typed, SaidOK
<1>7. Chain(w, bytes, items, b, q)
  BY <1>3, <1>5, <1>6 DEF Flowing
<1>8. q # 0
  BY <1>1, <1>2, <1>5, <1>7, FirstOfChain
<1>9. b + 1 \in 1..Len(items)
  BY <1>2, <1>7, <1>8, FirstOfChain
<1>10. PICK more \in Seq(Bytes) : bytes = Sent(w, items[b + 1]) \o more /\ Chain(w, more, items, b + 1, q - 1)
  BY <1>2, <1>7, <1>8, FirstOfChain
<1>11. PICK k \in Nat : k = b + 1
  BY <1>2
<1>12. PICK r \in Nat : r = q - 1
  BY <1>2, <1>8
<1>13. PICK item \in Items : item = items[k]
  BY <1>9, <1>11
<1>14. PICK n \in Nat : n = Len(item.text)
  BY CharsAre
<1>15. PICK first \in Seq(Bytes), t \in Seq(Bytes) :
          /\ first = Header(item.op, n) /\ Len(first) = 2 /\ t = Ext(n) \o (Keys \o Data(item.text))
  <2>1. Keys \o Data(item.text) \in Seq(Bytes)
    BY <1>14, PartsAre, ConcatProperties
  <2>2. Ext(n) \o (Keys \o Data(item.text)) \in Seq(Bytes)
    BY <1>14, <2>1, PartsAre, ConcatProperties
  <2>3. QED
    BY <1>14, <2>2, PartsAre
<1>16. PICK after \in Seq(Bytes) : after = t \o more
  BY ConcatProperties
<1>17. inbox[w] = first \o after
  <2>1. Sent(w, item) = first \o t
    BY <1>4, <1>14, <1>15, FrameIs DEF Sent
  <2>2. (first \o t) \o more = first \o (t \o more)
    <3>1. first \in Seq(Bytes) /\ t \in Seq(Bytes) /\ more \in Seq(Bytes)
      BY <1>10, <1>15
    <3>2. QED
      BY <3>1, Regroup, ZenonT(40)
  <2>3. QED
    BY <1>5, <1>10, <1>11, <1>13, <1>16, <2>1, <2>2
<1>18. PICK two \in Nat : two = 2
  OBVIOUS
<1>19. Arrived(w, two) = first /\ (Recv(w, two) => inbox'[w] = after)
  <2>1. StreamsOK /\ inbox[w] = first \o after /\ two = Len(first)
    BY <1>15, <1>17, <1>18 DEF Typed
  <2>2. QED
    BY <1>15, <1>17, <1>18, <2>1, Takes
<1>20. inbox'[w] = t \o more
  BY <1>16, <1>18, <1>19 DEF ReadHeader
<1>21. Are(first, <<"op", "len">>) /\ first[1].v = item.op /\ first[2].v = Code(n)
  BY <1>15, HeaderIs
<1>22. PICK h \in Nat : h = Len(heard[w]) /\ h = b
  <2>1. PICK h \in Nat : h = Len(heard[w])
    BY DEF HistoryOK
  <2>2. b = h + 0
    BY <1>1, <1>3, <2>1 DEF Flowing, Begun, Busy
  <2>3. QED
    BY <2>1, <2>2
<1>23. b + q = k + r /\ k = h + 1
  BY <1>2, <1>11, <1>12, <1>22
<1>24. Chain(w, more, said[w], k, r)
  BY <1>6, <1>10, <1>11, <1>12
<1>25. CASE item.op \in {"close", "ping"}
  <2>1. step'[w] = "closed"
    BY <1>18, <1>19, <1>21, <1>25 DEF ReadHeader, At, Typed, StepOK
  <2>2. AtHand(w, item, t)'
    BY <1>4, <1>25, <2>1 DEF AtHand, Ends
  <2>3. (k = Begun(w))'
    BY <1>22, <1>23, <2>1 DEF Begun, Busy
  <2>4. item = said[w][k]
    BY <1>6, <1>13
  <2>5. t \in Seq(Bytes) /\ more \in Seq(Bytes) /\ b + q = k + r
    BY <1>10, <1>15, <1>23
  <2>6. QED
    BY <1>2, <1>3, <1>4, <1>11, <1>12, <1>20, <1>24, <2>2, <2>3, <2>4, <2>5, FlowsOn
<1>26. CASE item.op \notin {"close", "ping"}
  <2>1. len'[w] = Code(n) /\ step'[w] = (IF ExtSize(Code(n)) = 0 THEN "mask" ELSE "ext")
    BY <1>18, <1>19, <1>21, <1>26 DEF ReadHeader, At, Typed, StepOK, FrameOK
  <2>2. InFrame(w, item, t)'
    <3>1. CASE ExtSize(Code(n)) = 0
      <4>1. Code(n) = n /\ Ext(n) = <<>>
        BY <3>1, NoExt
      <4>2. t = Keys \o Data(item.text)
        <5>1. Keys \o Data(item.text) \in Seq(Bytes)
          BY <1>14, PartsAre, ConcatProperties
        <5>2. QED
          BY <1>15, <4>1, <5>1, ConcatEmptySeq
      <4>3. QED
        BY <1>4, <1>14, <1>26, <2>1, <3>1, <4>1, <4>2 DEF InFrame, Talk
    <3>2. CASE ExtSize(Code(n)) # 0
      BY <1>4, <1>14, <1>15, <1>26, <2>1, <3>2 DEF InFrame, Talk
    <3>3. QED
      BY <3>1, <3>2
  <2>3. AtHand(w, item, t)'
    BY <2>2 DEF AtHand
  <2>4. (k = Begun(w))'
    BY <1>22, <1>23, <2>1 DEF Begun, Busy
  <2>5. item = said[w][k]
    BY <1>6, <1>13
  <2>6. t \in Seq(Bytes) /\ more \in Seq(Bytes) /\ b + q = k + r
    BY <1>10, <1>15, <1>23
  <2>7. QED
    BY <1>2, <1>3, <1>4, <1>11, <1>12, <1>20, <1>24, <2>3, <2>4, <2>5, <2>6, FlowsOn
<1>27. QED
  BY <1>25, <1>26

LEMMA FramesFlow ==
  ASSUME NEW w \in Workers, Flow(w), step[w] \in {"ext", "mask", "payload"}
  PROVE  \E b, q \in Nat : \E part, rest \in Seq(Bytes) :
            Flowing(w, b, q, part, rest) /\ InFrame(w, said[w][b], part)
<1>1. PICK b \in Nat, q \in Nat : \E part, rest \in Seq(Bytes) : Flowing(w, b, q, part, rest)
  BY DEF Flow, Greeting
<1>2. PICK part \in Seq(Bytes), rest \in Seq(Bytes) : Flowing(w, b, q, part, rest)
  BY <1>1
<1>3. InFrame(w, said[w][b], part)
  BY <1>2 DEF Flowing, AtHand, BetweenLines
<1>4. QED
  BY <1>1, <1>2, <1>3

(* The bytes of the length are those of the message at hand. *)
LEMMA ExtKeeps ==
  ASSUME Typed, HistoryOK, NEW w \in Workers, Flow(w), ReadExt(w), Ordinary(w),
         said'[w] = said[w], heard'[w] = heard[w], flight'[w] = flight[w],
         is_websocket'[w] = is_websocket[w]
  PROVE  Flow(w)'
<1>1. step[w] = "ext"
  BY DEF ReadExt
<1>2. PICK b \in Nat, q \in Nat : \E part, rest \in Seq(Bytes) :
         Flowing(w, b, q, part, rest) /\ InFrame(w, said[w][b], part)
  BY <1>1, FramesFlow
<1>3. PICK part \in Seq(Bytes), rest \in Seq(Bytes) :
         Flowing(w, b, q, part, rest) /\ InFrame(w, said[w][b], part)
  BY <1>2
<1>4. /\ said[w][b] \in Items /\ b = Len(heard[w]) + 1
      /\ \E n \in Nat : n = Len(said[w][b].text) /\ n < BufSize /\ n < Place[8]
  BY <1>1, <1>2, <1>3, InHand DEF Busy
<1>5. PICK item \in Items : item = said[w][b]
  BY <1>4
<1>6. PICK n \in Nat : n = Len(item.text) /\ n < Place[8]
  BY <1>4, <1>5
<1>7. /\ w \in Browsers /\ Talk(item) /\ len[w] = Code(n) /\ ExtSize(len[w]) # 0
      /\ part = Ext(n) \o (Keys \o Data(item.text))
  BY <1>1, <1>3, <1>5, <1>6 DEF InFrame
<1>8. PICK size \in Nat : size = ExtSize(Code(n)) /\ size # 0
  <2>1. PICK size \in 0..8 : size = ExtSize(Code(n))
    BY <1>6, CodeIs
  <2>2. size # 0
    BY <1>7, <2>1
  <2>3. QED
    BY <2>1, <2>2
<1>9. PICK first \in Seq(Bytes), t \in Seq(Bytes) :
         first = Ext(n) /\ Len(first) = size /\ t = Keys \o Data(item.text)
  <2>1. Keys \o Data(item.text) \in Seq(Bytes)
    BY <1>6, PartsAre, ConcatProperties
  <2>2. QED
    BY <1>6, <1>8, <2>1, PartsAre
<1>10. PICK after \in Seq(Bytes) : after = t \o rest
  BY <1>3, <1>9, ConcatProperties
<1>11. inbox[w] = first \o after
  <2>1. (first \o t) \o rest = first \o (t \o rest)
    <3>1. first \in Seq(Bytes) /\ t \in Seq(Bytes) /\ rest \in Seq(Bytes)
      BY <1>3, <1>9
    <3>2. QED
      BY <3>1, Regroup
  <2>2. inbox[w] = part \o rest
    BY <1>3 DEF Flowing
  <2>3. QED
    BY <1>7, <1>9, <1>10, <2>1, <2>2
<1>12. Arrived(w, size) = first /\ (Recv(w, size) => inbox'[w] = after)
  <2>1. StreamsOK
    BY DEF Typed
  <2>2. size = Len(first)
    BY <1>9
  <2>3. QED
    BY <1>8, <1>9, <1>10, <1>11, <2>1, <2>2, Takes
<1>13. inbox'[w] = t \o rest
  BY <1>7, <1>8, <1>10, <1>12 DEF ReadExt
<1>14. /\ Are(first, [i \in 1..size |-> "ext"])
       /\ ReadLength(Code(n), [i \in 1..size |-> first[i].v]) = n
  <2>1. n \in Nat /\ n < Place[8] /\ size = ExtSize(Code(n)) /\ size # 0 /\ first = Ext(n)
    BY <1>6, <1>8, <1>9
  <2>2. Are(first, AllExt(size)) /\ ReadLength(Code(n), Values(first, size)) = n
    BY <2>1, ExtIs
  <2>3. QED
    BY <2>2 DEF AllExt, Values
<1>15. step'[w] = "mask" /\ len'[w] = n
  <2>1. DOMAIN step = Workers /\ DOMAIN len = Workers
    BY DEF Typed, StepOK, FrameOK
  <2>2. /\ At(w, "mask")
        /\ len' = [len EXCEPT ![w] = ReadLength(@, [i \in 1..size |-> first[i].v])]
    BY <1>7, <1>8, <1>12, <1>14 DEF ReadExt
  <2>3. QED
    BY <1>7, <1>14, <2>1, <2>2 DEF At
<1>16. AtHand(w, item, t)'
  BY <1>6, <1>7, <1>9, <1>15 DEF AtHand, InFrame
<1>17. (b = Begun(w))'
  BY <1>4, <1>15 DEF Begun, Busy
<1>18. Chain(w, rest, said[w], b, q)
  BY <1>3 DEF Flowing
<1>19. QED
  BY <1>2, <1>3, <1>5, <1>7, <1>9, <1>13, <1>16, <1>17, <1>18, FlowsOn

(* So is the key. *)
LEMMA MaskKeeps ==
  ASSUME Typed, HistoryOK, NEW w \in Workers, Flow(w), ReadMask(w), Ordinary(w),
         said'[w] = said[w], heard'[w] = heard[w], flight'[w] = flight[w],
         is_websocket'[w] = is_websocket[w]
  PROVE  Flow(w)'
<1>1. step[w] = "mask"
  BY DEF ReadMask
<1>2. PICK b \in Nat, q \in Nat : \E part, rest \in Seq(Bytes) :
         Flowing(w, b, q, part, rest) /\ InFrame(w, said[w][b], part)
  BY <1>1, FramesFlow
<1>3. PICK part \in Seq(Bytes), rest \in Seq(Bytes) :
         Flowing(w, b, q, part, rest) /\ InFrame(w, said[w][b], part)
  BY <1>2
<1>4. /\ said[w][b] \in Items /\ b = Len(heard[w]) + 1
      /\ \E n \in Nat : n = Len(said[w][b].text) /\ n < BufSize /\ n < Place[8]
  BY <1>1, <1>2, <1>3, InHand DEF Busy
<1>5. PICK item \in Items : item = said[w][b]
  BY <1>4
<1>6. PICK n \in Nat : n = Len(item.text)
  BY <1>4, <1>5
<1>7. w \in Browsers /\ Talk(item) /\ len[w] = n /\ part = Keys \o Data(item.text)
  BY <1>1, <1>3, <1>5, <1>6 DEF InFrame
<1>8. PICK first \in Seq(Bytes), t \in Seq(Bytes) :
         first = Keys /\ Len(first) = 4 /\ t = Data(item.text)
  BY <1>6, PartsAre
<1>9. PICK after \in Seq(Bytes) : after = t \o rest
  BY <1>3, <1>8, ConcatProperties
<1>10. inbox[w] = first \o after
  <2>1. (first \o t) \o rest = first \o (t \o rest)
    <3>1. first \in Seq(Bytes) /\ t \in Seq(Bytes) /\ rest \in Seq(Bytes)
      BY <1>3, <1>8
    <3>2. QED
      BY <3>1, Regroup
  <2>2. inbox[w] = part \o rest
    BY <1>3 DEF Flowing
  <2>3. QED
    BY <1>7, <1>8, <1>9, <2>1, <2>2
<1>11. PICK size \in Nat : size = 4 /\ size = KeySize
  BY DEF KeySize
<1>12. Arrived(w, size) = first /\ (Recv(w, size) => inbox'[w] = after)
  <2>1. StreamsOK
    BY DEF Typed
  <2>2. size = Len(first)
    BY <1>8, <1>11
  <2>3. QED
    BY <1>8, <1>9, <1>10, <1>11, <2>1, <2>2, Takes
<1>13. inbox'[w] = t \o rest
  BY <1>9, <1>11, <1>12 DEF ReadMask
<1>14. /\ [i \in DOMAIN first |-> first[i].v] = [i \in 1..4 |-> i]
       /\ \A i \in DOMAIN first : first[i].as = "key"
  BY <1>8, KeysAre
<1>15. step'[w] = "payload" /\ len'[w] = n /\ key'[w] = [i \in 1..4 |-> i]
  <2>1. DOMAIN step = Workers /\ DOMAIN key = Workers
    BY DEF Typed, StepOK, FrameOK
  <2>2. step'[w] = "payload" /\ UNCHANGED len
    BY <1>11, <1>12, <1>14, <2>1 DEF ReadMask, At
  <2>3. key'[w] = [i \in DOMAIN first |-> first[i].v]
    BY <1>11, <1>12, <2>1 DEF ReadMask
  <2>4. QED
    BY <1>7, <1>14, <2>2, <2>3
<1>16. AtHand(w, item, t)'
  BY <1>6, <1>7, <1>8, <1>15 DEF AtHand, InFrame
<1>17. (b = Begun(w))'
  BY <1>4, <1>15 DEF Begun, Busy
<1>18. Chain(w, rest, said[w], b, q)
  BY <1>3 DEF Flowing
<1>19. QED
  BY <1>2, <1>3, <1>5, <1>7, <1>8, <1>13, <1>16, <1>17, <1>18, FlowsOn

(* So is the payload, unmasked with that key. *)
LEMMA PayloadFlow ==
  ASSUME Typed, HistoryOK, NEW w \in Workers, Flow(w), step[w] = "payload", Ordinary(w)
  PROVE  \E b, q \in Nat : \E part, rest \in Seq(Bytes) : \E item \in Items :
            /\ Flowing(w, b, q, part, rest) /\ item = said[w][b] /\ b = Len(heard[w]) + 1
            /\ w \in Browsers /\ Talk(item) /\ part = Data(item.text)
            /\ Payload(w) = Len(item.text) /\ TextOf(w) = item.text
            /\ (Recv(w, Payload(w)) => inbox'[w] = rest)
<1>1. PICK b \in Nat, q \in Nat : \E part, rest \in Seq(Bytes) :
         Flowing(w, b, q, part, rest) /\ InFrame(w, said[w][b], part)
  BY FramesFlow
<1>2. PICK part \in Seq(Bytes), rest \in Seq(Bytes) :
         Flowing(w, b, q, part, rest) /\ InFrame(w, said[w][b], part)
  BY <1>1
<1>3. /\ said[w][b] \in Items /\ b = Len(heard[w]) + 1
      /\ \E n \in Nat : n = Len(said[w][b].text) /\ n < BufSize /\ n < Place[8]
  BY <1>1, <1>2, InHand DEF Busy
<1>4. PICK item \in Items : item = said[w][b]
  BY <1>3
<1>5. PICK n \in Nat : n = Len(item.text) /\ n < BufSize
  BY <1>3, <1>4
<1>6. /\ w \in Browsers /\ Talk(item) /\ len[w] = n /\ key[w] = [i \in 1..4 |-> i]
      /\ part = Data(item.text)
  BY <1>2, <1>4, <1>5 DEF InFrame
<1>7. PICK text \in Seq(Chars) : text = item.text
  BY <1>4, CharsAre
<1>8. PICK first \in Seq(Bytes) : first = Data(text) /\ Len(first) = n
  BY <1>4, <1>5, <1>7, PartsAre
<1>9. inbox[w] = first \o rest
  BY <1>2, <1>6, <1>7, <1>8 DEF Flowing
<1>10. Payload(w) = n /\ TextOf(w) = text
  <2>1. /\ Data(text) \in Seq(Bytes) /\ Len(Data(text)) = n /\ inbox[w] = Data(text) \o rest
        /\ n = Len(text) /\ n < BufSize /\ StreamsOK /\ rest \in Seq(Bytes) /\ n \in Nat
    BY <1>2, <1>5, <1>7, <1>8, <1>9 DEF Typed
  <2>2. QED
    BY <1>6, <2>1, DataIs
<1>11. Recv(w, n) => inbox'[w] = rest
  <2>1. StreamsOK /\ inbox[w] = first \o rest /\ n = Len(first)
    BY <1>8, <1>9 DEF Typed
  <2>2. QED
    BY <1>2, <1>5, <1>8, <2>1, Takes
<1>12. Recv(w, Payload(w)) => inbox'[w] = rest
  BY <1>10, <1>11
<1>13. Payload(w) = Len(item.text) /\ TextOf(w) = item.text
  BY <1>5, <1>7, <1>10
<1>14. QED
  BY <1>1, <1>2, <1>3, <1>4, <1>6, <1>12, <1>13

(* The text that is parsed is the text that was said. *)
LEMMA TextKeeps ==
  ASSUME Typed, HistoryOK, NEW w \in Workers, Flow(w), Ordinary(w),
         ReadText(w), BeginParse(w, TextOf(w)),
         said'[w] = said[w], heard'[w] = heard[w], flight'[w] = flight[w],
         is_websocket'[w] = is_websocket[w]
  PROVE  Flow(w)'
<1>1. step[w] = "payload" /\ Payload(w) > 0
  BY DEF ReadText
<1>2. PICK b \in Nat, q \in Nat : \E part, rest \in Seq(Bytes) : \E item \in Items :
         /\ Flowing(w, b, q, part, rest) /\ item = said[w][b] /\ b = Len(heard[w]) + 1
         /\ w \in Browsers /\ Talk(item) /\ part = Data(item.text)
         /\ Payload(w) = Len(item.text) /\ TextOf(w) = item.text
         /\ (Recv(w, Payload(w)) => inbox'[w] = rest)
  BY <1>1, PayloadFlow
<1>3. PICK part \in Seq(Bytes), rest \in Seq(Bytes), item \in Items :
         /\ Flowing(w, b, q, part, rest) /\ item = said[w][b] /\ b = Len(heard[w]) + 1
         /\ w \in Browsers /\ Talk(item) /\ part = Data(item.text)
         /\ Payload(w) = Len(item.text) /\ TextOf(w) = item.text
         /\ (Recv(w, Payload(w)) => inbox'[w] = rest)
  BY <1>2
<1>4. inbox'[w] = rest
  BY <1>3 DEF ReadText
<1>5. step'[w] = "parse" /\ buffer'[w] = item.text
  BY <1>3 DEF ReadText, At, BeginParse, Typed, StepOK, ParserOK
<1>6. item.text # <<>>
  <2>1. item.text \in Seq(Chars)
    BY <1>3, CharsAre
  <2>2. Len(item.text) > 0
    BY <1>1, <1>3
  <2>3. QED
    BY <2>1, <2>2
<1>7. ~Ends(w, item) /\ Taken(w, item.text) = item.text
  BY <1>3, <1>6 DEF Ends, Taken, Talk
<1>8. PICK none \in Seq(Bytes) : none = <<>>
  BY EmptySeq
<1>9. inbox'[w] = none \o rest
  BY <1>3, <1>4, <1>8, ConcatEmptySeq
<1>10. AtHand(w, item, none)'
  BY <1>5, <1>7, <1>8 DEF AtHand
<1>11. (b = Begun(w))'
  BY <1>3, <1>5 DEF Begun, Busy
<1>12. Chain(w, rest, said[w], b, q)
  BY <1>3 DEF Flowing
<1>13. item = said[w][b] /\ w \in Browsers /\ Flowing(w, b, q, part, rest)
  BY <1>3
<1>14. QED
  BY <1>2, <1>3, <1>8, <1>9, <1>10, <1>11, <1>12, <1>13, FlowsOn

(* An empty text ends the loop, and only that. *)
LEMMA NothingKeeps ==
  ASSUME Typed, HistoryOK, NEW w \in Workers, Flow(w), Ordinary(w), ReadNothing(w),
         said'[w] = said[w], heard'[w] = heard[w], flight'[w] = flight[w],
         is_websocket'[w] = is_websocket[w]
  PROVE  Flow(w)'
<1>1. step[w] = "payload" /\ Payload(w) = 0 /\ inbox'[w] = inbox[w]
  BY DEF ReadNothing
<1>2. PICK b \in Nat, q \in Nat : \E part, rest \in Seq(Bytes) : \E item \in Items :
         /\ Flowing(w, b, q, part, rest) /\ item = said[w][b] /\ b = Len(heard[w]) + 1
         /\ w \in Browsers /\ Talk(item) /\ part = Data(item.text)
         /\ Payload(w) = Len(item.text) /\ TextOf(w) = item.text
         /\ (Recv(w, Payload(w)) => inbox'[w] = rest)
  BY <1>1, PayloadFlow
<1>3. PICK part \in Seq(Bytes), rest \in Seq(Bytes), item \in Items :
         /\ Flowing(w, b, q, part, rest) /\ item = said[w][b] /\ b = Len(heard[w]) + 1
         /\ w \in Browsers /\ Payload(w) = Len(item.text)
  BY <1>2
<1>4. step'[w] = "closed"
  BY DEF ReadNothing, At, Typed, StepOK
<1>5. Ends(w, item)
  <2>1. item.text \in Seq(Chars)
    BY <1>3, CharsAre
  <2>2. Len(item.text) = 0
    BY <1>1, <1>3
  <2>3. item.text = <<>>
    BY <2>1, <2>2
  <2>4. QED
    BY <1>3, <2>3 DEF Ends
<1>6. AtHand(w, item, part)'
  BY <1>4, <1>5 DEF AtHand
<1>7. (b = Begun(w))'
  BY <1>3, <1>4 DEF Begun, Busy
<1>8. inbox'[w] = part \o rest /\ Chain(w, rest, said[w], b, q)
  BY <1>1, <1>3 DEF Flowing
<1>9. item = said[w][b] /\ w \in Browsers /\ Flowing(w, b, q, part, rest)
  BY <1>3
<1>10. QED
  BY <1>2, <1>3, <1>6, <1>7, <1>8, <1>9, FlowsOn

LEMMA ReadFrameKeeps ==
  ASSUME Typed, HistoryOK, NEW w \in Workers, WellHeard(w), ReadFrame(w)
  PROVE  WellHeard(w)'
<1>1. /\ said'[w] = said[w] /\ heard'[w] = heard[w] /\ is_websocket'[w] = is_websocket[w]
      /\ flight'[w] = flight[w]
  BY DEF ReadFrame, history
<1>2. SUFFICES ASSUME Ordinary(w)' PROVE Flow(w)'
  BY <1>1, LaterOrdinary, Otherwise DEF Serving
<1>3. Ordinary(w) /\ Flow(w)
  BY <1>2, LaterOrdinary DEF WellHeard, Serving
<1>4. step[w] # "adrift"
  BY <1>3 DEF Flow, Greeting, Flowing, AtHand, BetweenLines, InFrame
<1>5. ~EndAdrift(w) /\ ~ReadAdrift(w)
  BY <1>4 DEF EndAdrift, ReadAdrift
<1>6. CASE ReadHeader(w)
  BY <1>1, <1>3, <1>6, HeaderKeeps
<1>7. CASE ReadExt(w)
  BY <1>1, <1>3, <1>7, ExtKeeps
<1>8. CASE ReadMask(w)
  BY <1>1, <1>3, <1>8, MaskKeeps
<1>9. CASE ReadNothing(w)
  BY <1>1, <1>3, <1>9, NothingKeeps
<1>10. CASE ReadText(w) /\ BeginParse(w, TextOf(w))
  BY <1>1, <1>3, <1>10, TextKeeps
<1>11. QED
  BY <1>5, <1>6, <1>7, <1>8, <1>9, <1>10 DEF ReadFrame

LEMMA ParseKeeps ==
  ASSUME Typed, HistoryOK, NEW w \in Workers, WellHeard(w), Parse(w)
  PROVE  WellHeard(w)'
<1>1. UNCHANGED buffer
  BY DEF Parse, Parsing, FirstToken, ReadSave, NextToken
<1>2. Still(w)
  BY <1>1 DEF Parse, Still, receiver, history
<1>3. QED
  BY <1>2, StillKept

(* What has been parsed is heard, and it is the line at hand. *)
LEMMA UnderstoodKeeps ==
  ASSUME ParserInv, HistoryOK, NEW w \in Workers, WellHeard(w), Understood(w)
  PROVE  WellHeard(w)'
<1>1. /\ said'[w] = said[w] /\ is_websocket'[w] = is_websocket[w] /\ flight'[w] = flight[w]
      /\ inbox'[w] = inbox[w] /\ parse[w] = "done" /\ Typed
  BY DEF Understood, EndParse, ParserInv
<1>2. SaidFrom(w)'
  BY <1>1 DEF WellHeard, SaidFrom
<1>3. SUFFICES ASSUME Ordinary(w)' PROVE Flow(w)' /\ HeardWell(w)'
  BY <1>2 DEF WellHeard
<1>4. Ordinary(w) /\ Flow(w) /\ HeardWell(w)
  BY <1>1, <1>3, LaterOrdinary DEF WellHeard, Serving
<1>5. step[w] = "parse"
  BY <1>1 DEF Typed, StepOK
<1>6. PICK b \in Nat, q \in Nat : \E part, rest \in Seq(Bytes) : Flowing(w, b, q, part, rest)
  BY <1>4, <1>5 DEF Flow, Greeting
<1>7. PICK part \in Seq(Bytes), rest \in Seq(Bytes) : Flowing(w, b, q, part, rest)
  BY <1>6
<1>8. /\ b \in 1..Len(said[w]) /\ said[w][b] \in Items /\ b = Len(heard[w]) + 1
  BY <1>1, <1>4, <1>5, <1>6, <1>7, InHand DEF Busy
<1>9. PICK item \in Items : item = said[w][b]
  BY <1>8
<1>10. part = <<>> /\ ~Ends(w, item) /\ buffer[w] = Taken(w, item.text)
  BY <1>5, <1>7, <1>9 DEF Flowing, AtHand, BetweenLines, InFrame
<1>11. PICK result : result = [msg |-> msg[w], alone |-> alone[w]]
  OBVIOUS
<1>12. result \in [msg : Messages, alone : BOOLEAN]
  BY <1>1, <1>11 DEF Typed, ParserOK
<1>13. PICK results : results \in Seq([msg : Messages, alone : BOOLEAN]) /\ results = heard[w]
  BY DEF HistoryOK
<1>14. PICK h \in Nat : h = Len(results) /\ b = h + 1
  BY <1>8, <1>13
<1>15. PICK new : new = heard'[w] /\ new = Append(results, result)
  <2>1. heard' = [heard EXCEPT ![w] = Append(@, result)]
    BY <1>4, <1>11 DEF Understood
  <2>2. QED
    BY <1>13, <2>1 DEF HistoryOK
<1>16. Len(new) = b /\ new[b] = result /\ \A j \in 1..h : new[j] = results[j]
  BY <1>12, <1>13, <1>14, <1>15, AppendProperties
<1>17. step'[w] = IF is_websocket[w] THEN "header" ELSE "line"
  BY <1>1 DEF Understood, At, Again, Typed, StepOK
<1>18. Right(item, w, result)
  <2>1. PICK fields : fields = Meant(w, item.text)
    OBVIOUS
  <2>2. Fields(buffer[w]) = fields
    <3>1. CASE w \in Browsers
      BY <1>10, <2>1, <3>1 DEF Taken, Meant
    <3>2. CASE w \notin Browsers
      <4>1. item.text \in Seq(Chars)
        BY <1>9, CharsAre
      <4>2. PICK text \in Seq(Chars) : text = item.text
        BY <4>1
      <4>3. Meant(w, text) = Fields(Formatted(text))
        BY <3>2, FormattedMeans
      <4>4. QED
        BY <1>10, <2>1, <3>2, <4>2, <4>3 DEF Taken
    <3>3. QED
      BY <3>1, <3>2
  <2>3. alone[w] /\ Modest(fields) => msg[w] = Meaning(fields)
    <3>1. ParseIs(w)
      BY DEF ParserInv
    <3>2. QED
      BY <1>1, <2>2, <3>1 DEF ParseIs, Finished
  <2>4. result.msg = msg[w] /\ result.alone = alone[w]
    BY <1>11
  <2>5. QED
    BY <2>1, <2>3, <2>4 DEF Right
<1>19. HeardWell(w)'
  <2>1. ASSUME NEW j \in 1..b PROVE Right(said[w][j], w, new[j])
    <3>1. CASE j \in 1..h
      BY <1>4, <1>13, <1>14, <1>16, <3>1 DEF HeardWell
    <3>2. CASE j = b
      BY <1>9, <1>16, <1>18, <3>2
    <3>3. QED
      BY <1>14, <3>1, <3>2
  <2>2. QED
    BY <1>1, <1>15, <1>16, <2>1 DEF HeardWell
<1>20. NoneEnds(w)'
  <2>1. ASSUME NEW j \in 1..b PROVE ~Ends(w, said[w][j])
    <3>1. CASE j \in 1..h
      BY <1>7, <1>13, <1>14, <3>1 DEF Flowing, NoneEnds
    <3>2. CASE j = b
      BY <1>9, <1>10, <3>2
    <3>3. QED
      BY <1>14, <3>1, <3>2
  <2>2. QED
    BY <1>1, <1>15, <1>16, <2>1 DEF NoneEnds
<1>21. (b = Begun(w))'
  BY <1>6, <1>15, <1>16, <1>17 DEF Begun, Busy
<1>22. AtHand(w, said[w][b], part)'
  <2>1. is_websocket[w] <=> w \in Browsers
    BY <1>7 DEF Flowing
  <2>2. QED
    BY <1>10, <1>17, <2>1 DEF AtHand, BetweenLines
<1>23. InFlight(w, b + q)'
  BY <1>1, <1>7 DEF Flowing, InFlight
<1>24. Flowing(w, b, q, part, rest)'
  BY <1>1, <1>7, <1>20, <1>21, <1>22, <1>23 DEF Flowing
<1>25. QED
  BY <1>6, <1>7, <1>19, <1>24 DEF Flow

(* The invariant holds at first, and every step keeps it. *)
LEMMA HeardInit ==
  ASSUME Init
  PROVE  HeardInv
<1>1. ParserInv /\ HistoryOK
  BY InvInit, HistoryInit
<1>2. SUFFICES ASSUME NEW w \in Workers PROVE WellHeard(w)
  BY <1>1 DEF HeardInv
<1>3. /\ said[w] = <<>> /\ heard[w] = <<>> /\ inbox[w] = <<>> /\ step[w] = "peek" /\ ~is_websocket[w]
      /\ flight[w] = IF w \in Browsers THEN <<Request>> ELSE <<>>
  BY DEF Init
<1>4. SaidFrom(w) /\ HeardWell(w)
  BY <1>3 DEF SaidFrom, HeardWell
<1>5. CASE w \in Browsers
  BY <1>3, <1>4, <1>5 DEF WellHeard, Flow, Greeting
<1>6. CASE w \notin Browsers
  <2>1. PICK none \in Seq(Bytes) : none = <<>>
    BY EmptySeq
  <2>2. 0 = Begun(w)
    BY <1>3 DEF Begun, Busy
  <2>3. 0 + 0 + Len(<<>>) = Len(<<>>) /\ none \o none = none
    BY <2>1, ConcatEmptySeq
  <2>4. Chain(w, none, <<>>, 0, 0)
    BY <2>1, NoChain
  <2>5. InFlight(w, 0 + 0) /\ NoneEnds(w)
    BY <1>3, <1>6 DEF InFlight, NoneEnds
  <2>6. AtHand(w, said[w][0], none)
    BY <1>3, <1>6, <2>1 DEF AtHand, BetweenLines
  <2>7. Flowing(w, 0, 0, none, none)
    BY <1>3, <1>6, <2>1, <2>2, <2>3, <2>4, <2>5, <2>6 DEF Flowing
  <2>8. QED
    BY <1>4, <2>1, <2>7 DEF WellHeard, Flow
<1>7. QED
  BY <1>5, <1>6

LEMMA HeardNext ==
  ASSUME HeardInv, [Next]_vars
  PROVE  HeardInv'
<1>1. ParserInv' /\ Typed
  BY InvNext DEF HeardInv, ParserInv
<1>2. HistoryOK /\ HistoryOK'
  BY <1>1, HistoryNext DEF HeardInv
<1>3. SUFFICES ASSUME NEW v \in Workers PROVE WellHeard(v)'
  BY <1>1, <1>2 DEF HeardInv
<1>4. WellHeard(v)
  BY DEF HeardInv
<1>5. CASE UNCHANGED vars
  <2>1. Still(v)
    BY <1>5 DEF vars, parser, receiver, history, Still
  <2>2. QED
    BY <1>4, <2>1, StillKept
<1>6. CASE Next
  <2>1. PICK w \in Workers : Say(w) \/ Deliver(w) \/ Serving(w)
    BY <1>6 DEF Next
  <2>2. CASE v # w
    <3>1. Still(v)
      BY <1>1, <1>2, <2>1, <2>2, OthersStill
    <3>2. QED
      BY <1>4, <3>1, StillKept
  <2>3. CASE v = w
    <3>1. CASE Say(w)
      BY <1>1, <1>2, <1>4, <2>3, <3>1, SayKeeps
    <3>2. CASE Deliver(w)
      BY <1>1, <1>2, <1>4, <2>3, <3>2, DeliverKeeps
    <3>3. CASE Peek(w)
      BY <1>1, <1>2, <1>4, <2>3, <3>3, PeekKeeps
    <3>4. CASE Handshake(w)
      BY <1>1, <1>2, <1>4, <2>3, <3>4, HandshakeKeeps
    <3>5. CASE ReadLine(w)
      BY <1>1, <1>2, <1>4, <2>3, <3>5, ReadLineKeeps
    <3>6. CASE ReadFrame(w)
      BY <1>1, <1>2, <1>4, <2>3, <3>6, ReadFrameKeeps
    <3>7. CASE Parse(w)
      BY <1>1, <1>2, <1>4, <2>3, <3>7, ParseKeeps
    <3>8. CASE Understood(w)
      <4>1. ParserInv
        BY DEF HeardInv
      <4>2. QED
        BY <1>2, <1>4, <2>3, <3>8, <4>1, UnderstoodKeeps
    <3>9. QED
      BY <2>1, <3>1, <3>2, <3>3, <3>4, <3>5, <3>6, <3>7, <3>8 DEF Serving
  <2>4. QED
    BY <2>2, <2>3
<1>7. QED
  BY <1>5, <1>6

LEMMA AlwaysHeard == Spec => []HeardInv
  BY HeardInit, HeardNext, PTL DEF Spec

(* How much has been said, and what of it is heard.                         *)
LEMMA HeardIsSaid ==
  ASSUME HistoryOK, Typed, NEW w \in Workers, Flow(w)
  PROVE  Len(heard[w]) <= Len(said[w])
<1>1. CASE Greeting(w)
  <2>1. said[w] = <<>> /\ heard[w] = <<>>
    BY <1>1 DEF Greeting
  <2>2. QED
    BY <2>1
<1>2. ASSUME NEW b \in Nat, NEW q \in Nat, NEW part \in Seq(Bytes), NEW rest \in Seq(Bytes),
             Flowing(w, b, q, part, rest)
      PROVE  Len(heard[w]) <= Len(said[w])
  <2>1. PICK h \in Nat : h = Len(heard[w])
    BY DEF HistoryOK
  <2>2. PICK f \in Nat : f = Len(flight[w])
    BY FlightIs
  <2>3. PICK n \in Nat : n = Len(said[w])
    BY DEF Typed, SaidOK
  <2>4. b = h + (IF step[w] \in Busy THEN 1 ELSE 0)
    BY <1>2, <2>1 DEF Flowing, Begun
  <2>5. b + q + f = n
    BY <1>2, <2>2, <2>3 DEF Flowing
  <2>6. h <= b
    BY <2>4
  <2>7. h <= n
    BY <1>2, <2>5, <2>6
  <2>8. QED
    BY <2>1, <2>3, <2>7
<1>3. QED
  BY <1>1, <1>2 DEF Flow

(* On an ordinary connection every line is understood as it was said, in    *)
(* order and once, whatever arrives on the others.                          *)
THEOREM HeardAsSaid == Spec => []HeardRight
<1>1. ASSUME HeardInv PROVE HeardRight
  <2>1. SUFFICES ASSUME NEW w \in Workers, Ordinary(w)
                 PROVE  /\ Len(heard[w]) <= Len(said[w])
                        /\ \A n \in DOMAIN heard[w] :
                              LET fields == Meant(w, said[w][n].text)
                              IN  heard[w][n].alone /\ Modest(fields) => heard[w][n].msg = Meaning(fields)
    BY DEF HeardRight
  <2>2. HistoryOK /\ Typed /\ Flow(w) /\ HeardWell(w)
    BY <1>1, <2>1 DEF HeardInv, ParserInv, WellHeard
  <2>3. Len(heard[w]) <= Len(said[w])
    BY <2>2, HeardIsSaid
  <2>4. DOMAIN heard[w] = 1..Len(heard[w])
    BY <2>2 DEF HistoryOK
  <2>5. QED
    BY <2>2, <2>3, <2>4 DEF HeardWell, Right
<1>2. QED
  BY <1>1, AlwaysHeard, PTL

(* The same of one connection, from what the invariant says of it.          *)
LEMMA AllHeard ==
  ASSUME HistoryOK, Typed, NEW w \in Workers, Flow(w), Ordinary(w), flight[w] = <<>>, inbox[w] = <<>>,
         Waiting(w), NEW ends, ends = {n \in DOMAIN said[w] : Ends(w, said[w][n])}
  PROVE  /\ Len(heard[w]) = Len(said[w]) - Cardinality(ends)
         /\ step[w] \in {"peek", "line", "header", "closed"}
         /\ step[w] = "closed" <=> ends # {}
<1>1. ~Greeting(w)
  <2>1. Len(Request) = 4
    BY RequestIs
  <2>2. Request # <<>> /\ <<Request>> # <<>>
    BY <2>1
  <2>3. QED
    BY <2>2 DEF Greeting
<1>2. PICK b \in Nat, q \in Nat : \E part, rest \in Seq(Bytes) : Flowing(w, b, q, part, rest)
  BY <1>1 DEF Flow
<1>3. PICK part \in Seq(Bytes), rest \in Seq(Bytes) : Flowing(w, b, q, part, rest)
  BY <1>2
<1>4. part = <<>> /\ rest = <<>>
  <2>1. part \o rest = <<>> /\ part \in Seq(Bytes) /\ rest \in Seq(Bytes)
    BY <1>3 DEF Flowing
  <2>2. QED
    BY <2>1, ConcatEqualIffEmpty
<1>5. PICK items \in Seq(Items), n \in Nat : items = said[w] /\ n = Len(items) /\ DOMAIN items = 1..n
  BY DEF Typed, SaidOK
<1>6. q = 0
  <2>1. Chain(w, rest, items, b, q)
    BY <1>3, <1>5 DEF Flowing
  <2>2. q # 0 => rest # <<>>
    BY <1>2, <1>5, <2>1, FirstOfChain
  <2>3. QED
    BY <1>4, <2>2
<1>7. b = n
  <2>1. b + q + 0 = n
    <3>1. Len(flight[w]) = 0
      OBVIOUS
    <3>2. QED
      BY <1>3, <1>5, <3>1 DEF Flowing
  <2>2. QED
    BY <1>2, <1>6, <2>1
<1>8. PICK h \in Nat : h = Len(heard[w]) /\ b = h + (IF step[w] \in Busy THEN 1 ELSE 0)
  <2>1. PICK h \in Nat : h = Len(heard[w])
    BY DEF HistoryOK
  <2>2. QED
    BY <1>3, <2>1 DEF Flowing, Begun
<1>9. step[w] \notin {"ext", "mask", "payload"}
  <2>1. SUFFICES ASSUME step[w] \in {"ext", "mask", "payload"} PROVE FALSE
    OBVIOUS
  <2>2. InFrame(w, said[w][b], part)
    BY <1>3, <2>1 DEF Flowing, AtHand, BetweenLines
  <2>3. /\ b \in 1..Len(said[w]) /\ said[w][b] \in Items
    BY <1>2, <1>3, <2>1, InHand DEF Busy
  <2>4. PICK item \in Items : item = said[w][b]
    BY <2>3
  <2>5. PICK l \in Nat : l = Len(item.text)
    BY CharsAre
  <2>6. PICK e \in Seq(Bytes), k \in Seq(Bytes), d \in Seq(Bytes) :
           e = Ext(l) /\ k = Keys /\ d = Data(item.text) /\ Len(k) = 4 /\ Len(d) = l
    <3>1. /\ Ext(l) \in Seq(Bytes) /\ Keys \in Seq(Bytes) /\ Len(Keys) = 4
          /\ Data(item.text) \in Seq(Bytes) /\ Len(Data(item.text)) = l
      BY <2>4, <2>5, PartsAre
    <3>2. QED
      BY <3>1
  <2>7. k # <<>>
    <3>1. Len(k) # 0
      BY <2>6
    <3>2. QED
      BY <3>1
  <2>8. k \o d # <<>>
    BY <2>6, <2>7, ConcatEqualIffEmpty
  <2>9. k \o d \in Seq(Bytes)
    BY <2>6, ConcatProperties
  <2>10. e \o (k \o d) # <<>>
    BY <2>6, <2>8, <2>9, ConcatEqualIffEmpty
  <2>11. step[w] = "payload" /\ len[w] = l /\ d = <<>>
    BY <1>4, <2>2, <2>4, <2>5, <2>6, <2>8, <2>10 DEF InFrame
  <2>12. l = 0
    BY <2>6, <2>11
  <2>13. Payload(w) = 0
    BY <2>11, <2>12, WireAssumption DEF Payload
  <2>14. QED
    BY <2>11, <2>13 DEF Waiting
<1>10. step[w] # "parse"
  BY DEF Waiting
<1>11. \A j \in 1..h : ~Ends(w, items[j])
  BY <1>3, <1>5, <1>8 DEF Flowing, NoneEnds
<1>12. CASE step[w] = "closed"
  <2>1. b = h + 1
    BY <1>8, <1>12 DEF Busy
  <2>2. Ends(w, items[b])
    BY <1>3, <1>5, <1>12 DEF Flowing, AtHand, BetweenLines, InFrame
  <2>3. b \in 1..n /\ \A j \in 1..n : j # b => j \in 1..h
    BY <1>7, <2>1
  <2>4. ends = {b}
    BY <1>5, <1>11, <2>2, <2>3
  <2>5. Cardinality(ends) = 1
    BY <2>4, FS_Singleton
  <2>6. h = n - 1
    BY <1>7, <2>1
  <2>7. QED
    BY <1>5, <1>8, <1>12, <2>4, <2>5, <2>6
<1>13. CASE step[w] # "closed"
  <2>1. step[w] \in {"peek", "line", "header"}
    <3>1. AtHand(w, said[w][b], part)
      BY <1>3 DEF Flowing
    <3>2. ~InFrame(w, said[w][b], part)
      BY <1>9 DEF InFrame
    <3>3. BetweenLines(w, part)
      BY <1>10, <1>13, <3>1, <3>2 DEF AtHand
    <3>4. QED
      BY <3>3 DEF BetweenLines
  <2>2. b = h
    <3>1. step[w] \notin Busy
      BY <2>1 DEF Busy
    <3>2. QED
      BY <1>8, <3>1
  <2>3. ends = {}
    BY <1>5, <1>7, <1>11, <2>2
  <2>4. Cardinality(ends) = 0
    BY <2>3, FS_EmptySet
  <2>5. h = n - 0
    BY <1>7, <2>2
  <2>6. QED
    BY <1>5, <1>8, <1>13, <2>1, <2>3, <2>4, <2>5
<1>14. QED
  BY <1>12, <1>13

(* When all that was sent on an ordinary connection has been read, nothing  *)
(* of it is lost, no worker waits in the middle of a frame, and the loop    *)
(* has ended if and only if the client has sent what ends it.               *)
THEOREM NothingIsLost == Spec => []NothingLost
<1>1. ASSUME HeardInv PROVE NothingLost
  <2>1. HistoryOK /\ Typed /\ \A w \in Workers : Ordinary(w) => Flow(w)
    BY <1>1 DEF HeardInv, ParserInv, WellHeard
  <2>2. QED
    BY <2>1, AllHeard DEF NothingLost
<1>2. QED
  BY <1>1, AlwaysHeard, PTL
================================================================================
