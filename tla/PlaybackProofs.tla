---------------------------- MODULE PlaybackProofs ----------------------------
(***************************************************************************)
(* Theorems about Speeds and Playback, for any descriptions, events, rates *)
(* asked for and bounds.                                                   *)
(***************************************************************************)
EXTENDS Playback, SequenceTheorems, NaturalsInduction, WellFoundedInduction,
        TLAPS

-----------------------------------------------------------------------------
(***************************************************************************)
(* Induction on sets of naturals, and functions defined by recursion.      *)
(***************************************************************************)

LEMMA Least ==
    ASSUME NEW T, T \subseteq Nat, T # {}
    PROVE  \E m \in T : \A k \in T : m <= k
<1> DEFINE Less == {ss \in Nat \X Nat : ss[1] < ss[2]}
<1>1. IsWellFoundedOn(Less, Nat)
    BY NatLessThanWellFounded, Zenon DEF OpToRel
<1> HIDE DEF Less
<1>2. PICK m \in T : \A k \in T : ~(<<k, m>> \in Less)
    BY <1>1, WFMin
<1>3. ASSUME NEW k \in T
      PROVE  m <= k
  <2>1. k < m => <<k, m>> \in Less
      BY DEF Less
  <2> QED
      BY <1>2, <2>1
<1> QED
    BY <1>3

LEMMA Induct ==
    ASSUME NEW T, 0 \in T, \A n \in Nat : n \in T => n + 1 \in T
    PROVE  \A n \in Nat : n \in T
<1> SUFFICES ASSUME Nat \ T # {} PROVE FALSE
    OBVIOUS
<1>1. PICK m \in Nat \ T : \A k \in Nat \ T : m <= k
    BY Least
<1>2. m # 0 /\ m - 1 \in Nat
    BY <1>1
<1>3. m - 1 \in T
    BY <1>1, <1>2
<1> QED
    BY <1>1, <1>2, <1>3

\* A function is defined by its first value and its steps.
Iterates(f, base, step, N) ==
    /\ f[0] = base
    /\ \A n \in 1 .. N : f[n] = step[n][f[n - 1]]

LEMMA RecursionExists ==
    ASSUME NEW S, NEW base \in S, NEW N \in Nat, NEW step \in [1 .. N -> [S -> S]]
    PROVE  \E f \in [0 .. N -> S] : Iterates(f, base, step, N)
<1> DEFINE Good(n, f) == /\ f[0] = base
                         /\ \A k \in 1 .. n : f[k] = step[k][f[k - 1]]
           T == {n \in Nat : n <= N => \E f \in [0 .. n -> S] : Good(n, f)}
<1>1. 0 \in T
  <2> DEFINE f == [n \in 0 .. 0 |-> base]
  <2>1. f \in [0 .. 0 -> S] /\ Good(0, f)
      OBVIOUS
  <2> QED
      BY <2>1
<1>2. ASSUME NEW n \in Nat, n \in T
      PROVE  n + 1 \in T
  <2> SUFFICES ASSUME n + 1 <= N
               PROVE  \E f \in [0 .. n + 1 -> S] : Good(n + 1, f)
      OBVIOUS
  <2>1. PICK f \in [0 .. n -> S] : Good(n, f)
      BY <1>2
  <2> DEFINE g == [k \in 0 .. n + 1 |->
                      IF k <= n THEN f[k] ELSE step[n + 1][f[n]]]
  <2>2. step[n + 1][f[n]] \in S
      OBVIOUS
  <2>3. g \in [0 .. n + 1 -> S]
      BY <2>2
  <2>4. Good(n + 1, g)
    <3>1. g[0] = base
        BY <2>1
    <3>2. ASSUME NEW k \in 1 .. n + 1
          PROVE  g[k] = step[k][g[k - 1]]
      <4>1. CASE k <= n
          BY <2>1, <4>1
      <4>2. CASE k = n + 1
          BY <4>2
      <4> QED
          BY <4>1, <4>2
    <3> QED
        BY <3>1, <3>2
  <2> QED
      BY <2>3, <2>4
<1> HIDE DEF T
<1>3. N \in T
    BY <1>1, <1>2, Induct
<1> QED
    BY <1>3 DEF T, Iterates

\* The least index that SelectInSeq looks for.
LEMMA MinIsLeast ==
    ASSUME NEW T, T \subseteq Nat, T # {}
    PROVE  Min(T) \in T /\ \A k \in T : Min(T) <= k
BY Least DEF Min

-----------------------------------------------------------------------------
(***************************************************************************)
(* Speeds.                                                                 *)
(***************************************************************************)

\* The order of the speeds is one of rationals, through those that are.
LEMMA CompareTransitive ==
    ASSUME NEW a \in Speed, NEW b \in Rational, NEW c \in Speed,
           CompareRationals(a, b) <= 0, CompareRationals(b, c) <= 0
    PROVE  CompareRationals(a, c) <= 0
<1>1. PICK an \in Int, ad \in Nat : an = a.num /\ ad = a.den
    BY DEF Speed
<1>2. PICK bn \in Int, bd \in Nat \ {0} : bn = b.num /\ bd = b.den
    BY DEF Rational
<1>3. PICK cn \in Int, cd \in Nat : cn = c.num /\ cd = c.den
    BY DEF Speed
<1>4. an * bd <= bn * ad /\ bn * cd <= cn * bd
    BY <1>1, <1>2, <1>3 DEF CompareRationals
<1>5. (an * bd) * cd <= (bn * ad) * cd
    BY <1>4
<1>6. (bn * cd) * ad <= (cn * bd) * ad
    BY <1>4
<1>7. (an * cd) * bd <= (cn * ad) * bd
    BY <1>5, <1>6
<1>8. an * cd <= cn * ad
    BY <1>7
<1> QED
    BY <1>1, <1>3, <1>8 DEF CompareRationals

LEMMA CompareTotal ==
    ASSUME NEW a \in Speed, NEW b \in Speed
    PROVE  /\ CompareRationals(a, b) \in Int
           /\ CompareRationals(a, a) = 0
           /\ CompareRationals(a, b) > 0 => CompareRationals(b, a) <= 0
<1>1. PICK an \in Int, ad \in Nat : an = a.num /\ ad = a.den
    BY DEF Speed
<1>2. PICK bn \in Int, bd \in Nat : bn = b.num /\ bd = b.den
    BY DEF Speed
<1>3. /\ CompareRationals(a, b) = an * bd - bn * ad
      /\ CompareRationals(b, a) = bn * ad - an * bd
      /\ CompareRationals(a, a) = an * ad - an * ad
    BY <1>1, <1>2 DEF CompareRationals
<1> QED
    BY <1>3

\* No denominator of a list is 0.
Rationals(l) == Range(l) \subseteq Rational

Ascending(l) ==
    \A i, j \in DOMAIN l : i <= j => CompareRationals(l[i], l[j]) <= 0

\* The elements of a concatenation, those of each part by themselves.
Joined(b, q, p) ==
    /\ Len(b) = Len(q) + Len(p)
    /\ \A i \in 1 .. Len(q) : b[i] = q[i]
    /\ \A i \in 1 .. Len(p) : b[Len(q) + i] = p[i]

LEMMA ConcatElements ==
    ASSUME NEW S, NEW q \in Seq(S), NEW p \in Seq(S)
    PROVE  q \o p \in Seq(S) /\ Joined(q \o p, q, p)
<1> PICK Q \in Nat : Q = Len(q)
    BY LenProperties
<1> PICK P \in Nat : P = Len(p)
    BY LenProperties
<1>1. PICK b : b = q \o p
    OBVIOUS
<1>2. b \in Seq(S) /\ Len(b) = Q + P
    BY <1>1, ConcatProperties
<1>3. \A i \in 1 .. Q + P : b[i] = IF i <= Q THEN q[i] ELSE p[i - Q]
    BY <1>1, ConcatProperties
<1>4. ASSUME NEW i \in 1 .. P
      PROVE  b[Q + i] = p[i]
  <2>1. Q + i \in 1 .. Q + P /\ ~(Q + i <= Q) /\ (Q + i) - Q = i
      OBVIOUS
  <2> QED
      BY <1>3, <2>1
<1>5. ASSUME NEW i \in 1 .. Q
      PROVE  b[i] = q[i]
  <2>1. i \in 1 .. Q + P /\ i <= Q
      OBVIOUS
  <2> QED
      BY <1>3, <2>1
<1> QED
    BY <1>1, <1>2, <1>4, <1>5 DEF Joined

\* A sequence with one element put in at index n.
WithAt(r, l, n, s) ==
    /\ Len(r) = Len(l) + 1
    /\ \A j \in 1 .. Len(l) : j < n => r[j] = l[j]
    /\ r[n] = s
    /\ \A j \in 1 .. Len(l) : j >= n => r[j + 1] = l[j]

LEMMA InsertAtProperties ==
    ASSUME NEW S, NEW l \in Seq(S), NEW n \in 1 .. Len(l), NEW s \in S
    PROVE  InsertAt(l, n, s) \in Seq(S) /\ WithAt(InsertAt(l, n, s), l, n, s)
<1> PICK N \in Nat : N = Len(l)
    BY LenProperties
<1>1. \A j \in 1 .. N : l[j] \in S
    BY LenProperties
<1>2. PICK before : before = SubSeq(l, 1, n - 1)
    OBVIOUS
<1>3. PICK after : after = SubSeq(l, n, N)
    OBVIOUS
<1>4. /\ before \in Seq(S) /\ Len(before) = n - 1
      /\ \A j \in 1 .. n - 1 : before[j] = l[j]
    BY <1>1, <1>2, SubSeqProperties
<1>5. /\ after \in Seq(S) /\ Len(after) = N - n + 1
      /\ \A j \in 1 .. N - n + 1 : after[j] = l[n + j - 1]
    BY <1>1, <1>3, SubSeqProperties
<1>6. PICK one : one = <<s>>
    OBVIOUS
<1>7. one \in Seq(S) /\ Len(one) = 1 /\ one[1] = s
    BY <1>6
<1>8. PICK front : front = before \o one
    OBVIOUS
<1>9. /\ front \in Seq(S) /\ Len(front) = n
      /\ \A j \in 1 .. n - 1 : front[j] = l[j]
      /\ front[n] = s
  <2>1. PICK m \in Nat : m = n - 1
      OBVIOUS
  <2>2. /\ front \in Seq(S) /\ Len(front) = m + 1
        /\ \A j \in 1 .. m : front[j] = before[j]
        /\ \A j \in 1 .. 1 : front[m + j] = one[j]
    <3>1. front \in Seq(S) /\ Joined(front, before, one)
        BY <1>4, <1>7, <1>8, ConcatElements
    <3>2. m = Len(before) /\ 1 = Len(one)
        BY <1>4, <1>7, <2>1
    <3> QED
        BY <3>1, <3>2 DEF Joined
  <2>3. front[m + 1] = one[1]
      BY <2>2
  <2> QED
      BY <1>4, <1>7, <2>1, <2>2, <2>3
<1>10. PICK r : r = InsertAt(l, n, s)
    OBVIOUS
<1>11. r = front \o after
    BY <1>2, <1>3, <1>6, <1>8, <1>10 DEF InsertAt
<1>12. PICK k \in Nat : k = N - n + 1
  <2>1. n \in 1 .. N /\ N - n + 1 \in Nat
      OBVIOUS
  <2> QED
      BY <2>1
<1>13. /\ r \in Seq(S) /\ Len(r) = n + k
       /\ \A j \in 1 .. n : r[j] = front[j]
       /\ \A j \in 1 .. k : r[n + j] = after[j]
  <2>1. r \in Seq(S) /\ Joined(r, front, after)
      BY <1>5, <1>9, <1>11, ConcatElements
  <2>2. Len(front) = n /\ Len(after) = k
      BY <1>5, <1>9, <1>12
  <2> QED
      BY <2>1, <2>2 DEF Joined
<1>14. ASSUME NEW j \in 1 .. N, j >= n
       PROVE  r[j + 1] = l[j]
  <2>1. PICK i \in 1 .. k : n + i = j + 1 /\ n + i - 1 = j
    <3>1. j + 1 - n \in 1 .. k /\ n + (j + 1 - n) = j + 1
        BY <1>12, <1>14
    <3> QED
        BY <3>1
  <2>2. r[n + i] = after[i] /\ after[i] = l[n + i - 1]
      BY <1>5, <1>12, <1>13
  <2> QED
      BY <2>1, <2>2
<1>15. ASSUME NEW j \in 1 .. N, j < n
       PROVE  r[j] = l[j]
    BY <1>9, <1>13, <1>15
<1>16. r \in Seq(S) /\ Len(r) = N + 1 /\ r[n] = s
    BY <1>9, <1>12, <1>13
<1> QED
    BY <1>10, <1>14, <1>15, <1>16 DEF WithAt

\* What compare_speeds puts into a list: one more speed, in its place.
LEMMA InsertedOK ==
    ASSUME NEW l \in Seq(Speed), NEW s \in Speed
    PROVE  /\ Inserted(l, s) \in Seq(Speed)
           /\ Len(Inserted(l, s)) = Len(l) + 1
           /\ Range(Inserted(l, s)) = Range(l) \cup {s}
           /\ Rationals(l) /\ s \in Rational /\ Ascending(l) =>
                 Rationals(Inserted(l, s)) /\ Ascending(Inserted(l, s))
<1> DEFINE G == {i \in 1 .. Len(l) : CompareRationals(l[i], s) > 0}
<1>1. PICK N \in Nat : /\ N = Len(l) /\ DOMAIN l = 1 .. N
                       /\ \A j \in 1 .. N : l[j] \in Speed
    BY LenProperties
<1>2. PICK r : r = Inserted(l, s)
    OBVIOUS
<1>3. CASE G = {}
  <2>1. r = Append(l, s)
      BY <1>2, <1>3 DEF Inserted, SelectInSeq
  <2>2. /\ r \in Seq(Speed) /\ Len(r) = N + 1 /\ DOMAIN r = 1 .. N + 1
        /\ \A j \in 1 .. N : r[j] = l[j]
        /\ r[N + 1] = s
      BY <1>1, <2>1, AppendProperties, LenProperties
  <2>3. Range(r) = Range(l) \cup {s}
      BY <1>1, <2>2 DEF Range
  <2>4. ASSUME Rationals(l), s \in Rational, Ascending(l)
        PROVE  Ascending(r)
    <3> SUFFICES ASSUME NEW i \in 1 .. N + 1, NEW j \in 1 .. N + 1, i <= j
                 PROVE  CompareRationals(r[i], r[j]) <= 0
        BY <2>2 DEF Ascending
    <3>1. CASE j <= N
        BY <1>1, <2>2, <2>4, <3>1 DEF Ascending
    <3>2. CASE j = N + 1 /\ i <= N
      <4>1. ~(CompareRationals(l[i], s) > 0)
          BY <1>1, <1>3, <3>2
      <4>2. PICK a \in Speed : a = l[i] /\ a = r[i]
          BY <1>1, <2>2, <3>2
      <4>3. CompareRationals(a, s) \in Int
          BY CompareTotal
      <4>4. r[j] = s
          BY <2>2, <3>2
      <4> QED
          BY <4>1, <4>2, <4>3, <4>4
    <3>3. CASE j = N + 1 /\ i = N + 1
        BY <2>2, <3>3, CompareTotal
    <3> QED
        BY <3>1, <3>2, <3>3
  <2> QED
      BY <1>1, <1>2, <2>2, <2>3, <2>4 DEF Rationals
<1>4. CASE G # {}
  <2>1. G \subseteq Nat /\ G \subseteq 1 .. N
      BY <1>1
  <2>2. PICK n : n = Min(G)
      OBVIOUS
  <2>3. n \in G /\ \A k \in G : n <= k
      BY <1>4, <2>1, <2>2, MinIsLeast
  <2>4. n \in 1 .. N
      BY <2>1, <2>3
  <2>5. r = InsertAt(l, n, s)
    <3>1. r = IF n = 0 THEN Append(l, s) ELSE InsertAt(l, n, s)
        BY <1>2, <1>4, <2>2 DEF Inserted, SelectInSeq
    <3> QED
        BY <2>4, <3>1
  <2> HIDE DEF G
  <2>6. /\ r \in Seq(Speed) /\ Len(r) = N + 1
        /\ \A j \in 1 .. N : j < n => r[j] = l[j]
        /\ r[n] = s
        /\ \A j \in 1 .. N : j >= n => r[j + 1] = l[j]
    <3>1. n \in 1 .. Len(l)
        BY <1>1, <2>4
    <3>2. r \in Seq(Speed) /\ WithAt(r, l, n, s)
        BY <2>5, <3>1, InsertAtProperties
    <3> QED
        BY <1>1, <3>2 DEF WithAt
  <2>7. DOMAIN r = 1 .. N + 1
      BY <2>6, LenProperties
  <2>8. ASSUME NEW j \in 1 .. N + 1
        PROVE  \/ j \in 1 .. N /\ j < n /\ r[j] = l[j]
               \/ j = n /\ r[j] = s
               \/ j > n /\ j - 1 \in 1 .. N /\ j - 1 >= n /\ r[j] = l[j - 1]
    <3>1. CASE j < n
        BY <2>4, <2>6, <3>1
    <3>2. CASE j = n
        BY <2>6, <3>2
    <3>3. CASE j > n
      <4>1. PICK i \in 1 .. N : i = j - 1 /\ j = i + 1 /\ i >= n
          BY <2>4, <3>3
      <4> QED
          BY <2>6, <3>3, <4>1
    <3> QED
        BY <2>4, <3>1, <3>2, <3>3
  <2>9. Range(r) = Range(l) \cup {s}
    <3>1. Range(l) = {l[j] : j \in 1 .. N}
        BY <1>1 DEF Range
    <3>2. Range(r) = {r[j] : j \in 1 .. N + 1}
        BY <2>7 DEF Range
    <3>3. ASSUME NEW j \in 1 .. N
          PROVE  l[j] \in Range(r)
      <4>1. CASE j < n
          BY <2>6, <3>2, <4>1
      <4>2. CASE j >= n
        <5>1. j + 1 \in 1 .. N + 1
            OBVIOUS
        <5> QED
            BY <2>6, <3>2, <4>2, <5>1
      <4> QED
          BY <2>4, <4>1, <4>2
    <3>4. ASSUME NEW j \in 1 .. N + 1
          PROVE  r[j] \in Range(l) \cup {s}
        BY <2>8, <3>1
    <3>5. n \in 1 .. N + 1
        BY <2>4
    <3> QED
      <4>1. s \in Range(r)
          BY <2>6, <3>2, <3>5
      <4>2. Range(l) \subseteq Range(r)
          BY <3>1, <3>3
      <4>3. Range(r) \subseteq Range(l) \cup {s}
          BY <3>2, <3>4
      <4> QED
          BY <4>1, <4>2, <4>3
  <2>10. ASSUME Rationals(l), s \in Rational, Ascending(l)
         PROVE  Ascending(r)
    <3>1. \A i \in 1 .. N : i < n => CompareRationals(l[i], s) <= 0
      <4> SUFFICES ASSUME NEW i \in 1 .. N, i < n
                   PROVE  CompareRationals(l[i], s) <= 0
          OBVIOUS
      <4>1. i \notin G
          BY <2>3, <2>4
      <4>2. ~(CompareRationals(l[i], s) > 0)
          BY <1>1, <4>1 DEF G
      <4>3. CompareRationals(l[i], s) \in Int
          BY <1>1, CompareTotal
      <4> QED
          BY <4>2, <4>3
    <3>2. CompareRationals(s, l[n]) <= 0
      <4>1. CompareRationals(l[n], s) > 0
          BY <2>3 DEF G
      <4> QED
          BY <1>1, <2>4, <4>1, CompareTotal
    <3>3. \A i, j \in 1 .. N : i <= j => CompareRationals(l[i], l[j]) <= 0
        BY <1>1, <2>10 DEF Ascending
    <3>4. \A i \in 1 .. N : i >= n => CompareRationals(s, l[i]) <= 0
      <4> SUFFICES ASSUME NEW i \in 1 .. N, i >= n
                   PROVE  CompareRationals(s, l[i]) <= 0
          OBVIOUS
      <4>1. CompareRationals(l[n], l[i]) <= 0
          BY <2>4, <3>3
      <4>2. l[n] \in Rational /\ l[i] \in Speed
          BY <1>1, <2>4, <2>10 DEF Rationals, Range
      <4> QED
          BY <3>2, <4>1, <4>2, CompareTransitive
    <3>5. CompareRationals(s, s) <= 0
        BY CompareTotal
    <3> SUFFICES ASSUME NEW i \in 1 .. N + 1, NEW j \in 1 .. N + 1, i <= j
                 PROVE  CompareRationals(r[i], r[j]) <= 0
        BY <2>7 DEF Ascending
    <3>6. \/ i \in 1 .. N /\ i < n /\ r[i] = l[i]
          \/ i = n /\ r[i] = s
          \/ i > n /\ i - 1 \in 1 .. N /\ i - 1 >= n /\ r[i] = l[i - 1]
        BY <2>8
    <3>7. \/ j \in 1 .. N /\ j < n /\ r[j] = l[j]
          \/ j = n /\ r[j] = s
          \/ j > n /\ j - 1 \in 1 .. N /\ j - 1 >= n /\ r[j] = l[j - 1]
        BY <2>8
    <3>8. CASE j < n
      <4>1. i < n
          BY <2>4, <3>8
      <4> QED
          BY <2>4, <3>3, <3>6, <3>7, <3>8, <4>1
    <3>9. CASE j = n
        BY <2>4, <3>1, <3>5, <3>6, <3>7, <3>9
    <3>10. CASE j > n
      <4>1. j - 1 \in 1 .. N /\ j - 1 >= n /\ r[j] = l[j - 1]
          BY <2>4, <3>7, <3>10
      <4>2. CASE i < n
        <5>1. i <= j - 1 /\ i \in 1 .. N /\ r[i] = l[i]
            BY <2>4, <3>6, <3>10, <4>2
        <5> QED
            BY <3>3, <4>1, <5>1
      <4>3. CASE i = n
          BY <3>4, <3>6, <4>1, <4>3, <2>4
      <4>4. CASE i > n
        <5>1. i - 1 <= j - 1 /\ i - 1 \in 1 .. N /\ r[i] = l[i - 1]
            BY <2>4, <3>6, <3>10, <4>4
        <5> QED
            BY <3>3, <4>1, <5>1
      <4> QED
          BY <2>4, <4>2, <4>3, <4>4
    <3> QED
        BY <2>4, <3>8, <3>9, <3>10
  <2> QED
      BY <1>1, <1>2, <2>6, <2>9, <2>10 DEF Rationals
<1> QED
    BY <1>3, <1>4

-----------------------------------------------------------------------------
(***************************************************************************)
(* Sorting, and the rates of a list.                                       *)
(***************************************************************************)

\* The list sorted in n turns of the loop, as a function of n.
LEMMA SortedExists ==
    ASSUME NEW list \in Seq(Speed)
    PROVE  \E f \in [0 .. Len(list) -> Seq(Speed)] :
              /\ f[0] = <<>>
              /\ \A n \in 1 .. Len(list) : f[n] = Inserted(f[n - 1], list[n])
              /\ SortSpeeds(list) = f[Len(list)]
<1>1. PICK N \in Nat : N = Len(list) /\ \A n \in 1 .. N : list[n] \in Speed
    BY LenProperties
<1>2. PICK step : step = [n \in 1 .. N |->
                             [l \in Seq(Speed) |-> Inserted(l, list[n])]]
    OBVIOUS
<1>3. step \in [1 .. N -> [Seq(Speed) -> Seq(Speed)]]
  <2>1. \A n \in 1 .. N : \A l \in Seq(Speed) :
            Inserted(l, list[n]) \in Seq(Speed)
      BY <1>1, InsertedOK
  <2> QED
      BY <1>2, <2>1
<1>4. <<>> \in Seq(Speed)
    OBVIOUS
<1>5. PICK f \in [0 .. N -> Seq(Speed)] :
          f[0] = <<>> /\ \A n \in 1 .. N : f[n] = step[n][f[n - 1]]
  <2>1. PICK f \in [0 .. N -> Seq(Speed)] : Iterates(f, <<>>, step, N)
      BY <1>3, <1>4, RecursionExists
  <2> QED
      BY <2>1 DEF Iterates
<1>6. \A n \in 1 .. N : f[n] = Inserted(f[n - 1], list[n])
  <2> TAKE n \in 1 .. N
  <2>1. n - 1 \in 0 .. N
      OBVIOUS
  <2>2. f[n - 1] \in Seq(Speed)
      BY <2>1
  <2> QED
      BY <1>2, <1>5, <2>2
<1> DEFINE Def(g) == g = [n \in 0 .. N |->
                             IF n = 0 THEN <<>> ELSE Inserted(g[n - 1], list[n])]
<1>7. Def(f)
  <2>1. \A n \in 0 .. N : f[n] = IF n = 0 THEN <<>>
                                 ELSE Inserted(f[n - 1], list[n])
      BY <1>5, <1>6
  <2> QED
      BY <2>1
<1>8. ASSUME NEW g, Def(g)
      PROVE  g = f
  <2>1. DOMAIN g = 0 .. N /\ g = [n \in 0 .. N |-> g[n]]
      BY <1>8
  <2> DEFINE T == {n \in Nat : n <= N => g[n] = f[n]}
  <2>2. 0 \in T
      BY <1>5, <1>8
  <2>3. ASSUME NEW n \in Nat, n \in T
        PROVE  n + 1 \in T
    <3> SUFFICES ASSUME n + 1 <= N PROVE g[n + 1] = f[n + 1]
        OBVIOUS
    <3>1. n + 1 \in 1 .. N /\ n + 1 \in 0 .. N /\ n + 1 # 0 /\ (n + 1) - 1 = n
        OBVIOUS
    <3>2. g[n] = f[n]
        BY <2>3, <3>1
    <3>3. g[n + 1] = Inserted(g[n], list[n + 1])
        BY <1>8, <3>1
    <3>4. f[n + 1] = Inserted(f[n], list[n + 1])
        BY <1>6, <3>1
    <3> QED
        BY <3>2, <3>3, <3>4
  <2> HIDE DEF T
  <2>4. \A n \in Nat : n \in T
      BY <2>2, <2>3, Induct
  <2>5. \A n \in 0 .. N : g[n] = f[n]
      BY <2>4 DEF T
  <2> QED
      BY <2>1, <2>5
<1>9. SortSpeeds(list) = (CHOOSE g : Def(g))[N]
    BY <1>1 DEF SortSpeeds
<1>10. (CHOOSE g : Def(g)) = f
    BY <1>7, <1>8
<1> QED
    BY <1>1, <1>5, <1>6, <1>9, <1>10

\* g_list_sort sorts: the list has the speeds it had, in ascending order if no
\* denominator is 0.
LEMMA SortedOK ==
    ASSUME NEW list \in Seq(Speed)
    PROVE  /\ SortSpeeds(list) \in Seq(Speed)
           /\ Len(SortSpeeds(list)) = Len(list)
           /\ Range(SortSpeeds(list)) = Range(list)
           /\ Rationals(list) => Ascending(SortSpeeds(list))
<1>1. PICK N \in Nat : /\ N = Len(list) /\ DOMAIN list = 1 .. N
                       /\ \A n \in 1 .. N : list[n] \in Speed
    BY LenProperties
<1>2. PICK f \in [0 .. N -> Seq(Speed)] :
          /\ f[0] = <<>>
          /\ \A n \in 1 .. N : f[n] = Inserted(f[n - 1], list[n])
          /\ SortSpeeds(list) = f[N]
    BY <1>1, SortedExists
<1> DEFINE Ok(n) == /\ Len(f[n]) = n
                    /\ Range(f[n]) = {list[i] : i \in 1 .. n}
                    /\ Rationals(list) => Rationals(f[n]) /\ Ascending(f[n])
           T == {n \in Nat : n <= N => Ok(n)}
<1>3. 0 \in T
  <2>1. /\ Len(<<>>) = 0 /\ Range(<<>>) = {}
        /\ Rationals(<<>>) /\ Ascending(<<>>)
      BY DEF Range, Rationals, Ascending
  <2>2. {list[i] : i \in 1 .. 0} = {}
      OBVIOUS
  <2> QED
      BY <1>2, <2>1, <2>2
<1> HIDE DEF Ok
<1>4. ASSUME NEW n \in Nat, n \in T
      PROVE  n + 1 \in T
  <2> SUFFICES ASSUME n + 1 <= N PROVE Ok(n + 1)
      OBVIOUS
  <2>1. n + 1 \in 1 .. N /\ n \in 0 .. N /\ (n + 1) - 1 = n /\ Ok(n)
      BY <1>4
  <2>2. PICK l \in Seq(Speed) : l = f[n]
      BY <2>1
  <2>3. PICK s \in Speed : s = list[n + 1]
      BY <1>1, <2>1
  <2>4. f[n + 1] = Inserted(l, s)
      BY <1>2, <2>1, <2>2, <2>3
  <2>5. /\ Len(f[n + 1]) = Len(l) + 1
        /\ Range(f[n + 1]) = Range(l) \cup {s}
        /\ Rationals(l) /\ s \in Rational /\ Ascending(l) =>
              Rationals(f[n + 1]) /\ Ascending(f[n + 1])
      BY <2>4, InsertedOK
  <2>6. {list[i] : i \in 1 .. n + 1} = {list[i] : i \in 1 .. n} \cup {s}
    <3>1. \A i : i \in 1 .. n + 1 <=> i \in 1 .. n \/ i = n + 1
        OBVIOUS
    <3> QED
        BY <2>3, <3>1, Zenon
  <2>7. Rationals(list) => s \in Rational
      BY <1>1, <2>1, <2>3 DEF Rationals, Range
  <2> QED
      BY <2>1, <2>2, <2>5, <2>6, <2>7 DEF Ok
<1> HIDE DEF T
<1>5. N \in T
    BY <1>3, <1>4, Induct
<1>6. Ok(N)
    BY <1>5 DEF T
<1>7. Range(list) = {list[i] : i \in 1 .. N}
    BY <1>1 DEF Range
<1> QED
    BY <1>1, <1>2, <1>6, <1>7 DEF Ok

\* Rounding to hundredths keeps the order.
LEMMA DivBounds ==
    ASSUME NEW a \in Nat, NEW b \in Nat \ {0}
    PROVE  /\ a \div b \in Nat
           /\ (a \div b) * b <= a
           /\ a < ((a \div b) + 1) * b
<1>1. PICK q \in Int, r \in 0 .. b - 1 : a = b * q + r /\ q = a \div b
    OBVIOUS
<1>2. q >= 0
  <2>1. ASSUME q <= -1 PROVE FALSE
    <3>1. b * q <= b * (-1)
        BY <2>1
    <3> QED
        BY <1>1, <3>1
  <2> QED
      BY <2>1
<1>3. (q + 1) * b = b * q + b /\ q * b = b * q
    OBVIOUS
<1> QED
    BY <1>1, <1>2, <1>3

LEMMA QuotientsOrdered ==
    ASSUME NEW a \in Nat, NEW b \in Nat \ {0},
           NEW c \in Nat, NEW d \in Nat \ {0}, a * d <= c * b
    PROVE  (200 * a + b) \div (2 * b) <= (200 * c + d) \div (2 * d)
<1>1. PICK m \in Nat : m = (200 * a + b) \div (2 * b) /\ m * (2 * b) <= 200 * a + b
    BY DivBounds
<1>2. PICK k \in Nat : /\ k = (200 * c + d) \div (2 * d)
                       /\ 200 * c + d < (k + 1) * (2 * d)
    BY DivBounds
<1> SUFFICES ASSUME m >= k + 1 PROVE FALSE
    BY <1>1, <1>2
<1>3. (m * (2 * b)) * d <= (200 * a + b) * d
    BY <1>1
<1>4. (200 * a + b) * d = 200 * (a * d) + b * d
    OBVIOUS
<1>5. (200 * c + d) * b = 200 * (c * b) + b * d
    OBVIOUS
<1>6. (200 * c + d) * b < ((k + 1) * (2 * d)) * b
    BY <1>2
<1>7. (k + 1) * (2 * d * b) <= m * (2 * d * b)
  <2>1. PICK e \in Nat : e = 2 * d * b
      OBVIOUS
  <2>2. (k + 1) * e <= m * e
      OBVIOUS
  <2> QED
      BY <2>1, <2>2
<1>8. /\ (m * (2 * b)) * d = m * (2 * d * b)
      /\ ((k + 1) * (2 * d)) * b = (k + 1) * (2 * d * b)
    OBVIOUS
<1> QED
    BY <1>3, <1>4, <1>5, <1>6, <1>7, <1>8

LEMMA ZeroRounds ==
    ASSUME NEW d \in Nat \ {0}
    PROVE  (200 * 0 + d) \div (2 * d) = 0
<1>1. PICK q \in Nat : q = (200 * 0 + d) \div (2 * d) /\ q * (2 * d) <= d
    BY DivBounds
<1>2. q >= 1 => q * (2 * d) >= 1 * (2 * d)
    OBVIOUS
<1> QED
    BY <1>1, <1>2

LEMMA HundredthsOrdered ==
    ASSUME NEW r \in Rational, NEW s \in Rational
    PROVE  /\ Hundredths(r) \in Int
           /\ CompareRationals(r, s) <= 0 => Hundredths(r) <= Hundredths(s)
<1>1. PICK a \in Int, b \in Nat \ {0} : a = r.num /\ b = r.den
    BY DEF Rational
<1>2. PICK c \in Int, d \in Nat \ {0} : c = s.num /\ d = s.den
    BY DEF Rational
<1>3. PICK x \in Nat : x = AbsValue(a) /\ x = IF a < 0 THEN -a ELSE a
    BY DEF AbsValue
<1>4. PICK y \in Nat : y = AbsValue(c) /\ y = IF c < 0 THEN -c ELSE c
    BY DEF AbsValue
<1>5. PICK m \in Nat : m = (200 * x + b) \div (2 * b)
    BY DivBounds
<1>6. PICK k \in Nat : k = (200 * y + d) \div (2 * d)
    BY DivBounds
<1>7. /\ Hundredths(r) = IF a < 0 THEN -m ELSE m
      /\ Hundredths(s) = IF c < 0 THEN -k ELSE k
  <2>1. (a = 0 => m = 0) /\ (c = 0 => k = 0)
      BY <1>3, <1>4, <1>5, <1>6, ZeroRounds
  <2> QED
      BY <1>1, <1>2, <1>3, <1>4, <1>5, <1>6, <2>1 DEF Hundredths, IsInvalid
<1>8. ASSUME CompareRationals(r, s) <= 0
      PROVE  Hundredths(r) <= Hundredths(s)
  <2>1. a * d <= c * b
    <3>1. CompareRationals(r, s) = a * d - c * b
        BY <1>1, <1>2 DEF CompareRationals
    <3> QED
        BY <1>8, <3>1
  <2>2. CASE a >= 0 /\ c >= 0
    <3>1. x * d <= y * b
        BY <1>3, <1>4, <2>1, <2>2
    <3>2. m <= k
        BY <1>5, <1>6, <3>1, QuotientsOrdered
    <3> QED
        BY <1>7, <2>2, <3>2
  <2>3. CASE a < 0 /\ c < 0
    <3>1. y * b <= x * d
      <4>1. y * b = -(c * b) /\ x * d = -(a * d)
          BY <1>3, <1>4, <2>3
      <4> QED
          BY <2>1, <4>1
    <3>2. k <= m
        BY <1>5, <1>6, <3>1, QuotientsOrdered
    <3> QED
        BY <1>7, <2>3, <3>2
  <2>4. CASE a < 0 /\ c >= 0
      BY <1>7, <2>4
  <2>5. CASE a >= 0 /\ c < 0
    <3>1. a * d >= 0 /\ c * b < 0
        BY <2>5
    <3> QED
        BY <2>1, <3>1
  <2> QED
      BY <2>2, <2>3, <2>4, <2>5
<1> QED
    BY <1>7, <1>8

\* A text has a value of 0, or is that of a number.
LEMMA HundredthsType ==
    ASSUME NEW s \in Speed
    PROVE  /\ Hundredths(s) \in Int
           /\ IsInvalid(s) => Hundredths(s) = 0
           /\ ~IsInvalid(s) => s \in Rational
<1>1. ~IsInvalid(s) => s \in Rational
    BY DEF IsInvalid, Speed, Rational
<1>2. IsInvalid(s) => Hundredths(s) = 0
    BY DEF Hundredths
<1> QED
    BY <1>1, <1>2, HundredthsOrdered

\* What the loop of prv_get_rates_values has taken from a list that begins
\* with the speed h: valid speeds only, a value for each, and speeds that none
\* of them is below or above.
Taken(t, h) ==
    /\ t.upnp \in Seq(Rational) /\ t.mpris \in Seq(Int)
    /\ t.lowest \in Speed /\ t.highest \in Speed
    /\ Len(t.mpris) = Len(t.upnp)
    /\ \A i \in 1 .. Len(t.upnp) :
          /\ t.mpris[i] = Hundredths(t.upnp[i])
          /\ ~IsInvalid(t.upnp[i])
          /\ CompareRationals(t.lowest, t.upnp[i]) <= 0
          /\ CompareRationals(t.upnp[i], t.highest) <= 0
    /\ t.upnp = <<>> => t.lowest = h /\ t.highest = h

LEMMA LowestHighest ==
    ASSUME NEW r \in Speed, NEW s \in Speed
    PROVE  /\ Lowest(r, s) \in Speed /\ Highest(r, s) \in Speed
           /\ CompareRationals(Lowest(r, s), r) <= 0
           /\ CompareRationals(Lowest(r, s), s) <= 0
           /\ CompareRationals(r, Highest(r, s)) <= 0
           /\ CompareRationals(s, Highest(r, s)) <= 0
<1>1. CompareRationals(r, s) < 0 => CompareRationals(s, r) > 0
  <2>1. PICK a \in Int, b \in Nat : a = r.num /\ b = r.den
      BY DEF Speed
  <2>2. PICK c \in Int, d \in Nat : c = s.num /\ d = s.den
      BY DEF Speed
  <2>3. /\ CompareRationals(r, s) = a * d - c * b
        /\ CompareRationals(s, r) = c * b - a * d
      BY <2>1, <2>2 DEF CompareRationals
  <2> QED
      BY <2>3
<1>2. /\ CompareRationals(r, s) \in Int /\ CompareRationals(s, r) \in Int
      /\ CompareRationals(r, r) = 0 /\ CompareRationals(s, s) = 0
      /\ CompareRationals(r, s) > 0 => CompareRationals(s, r) <= 0
      /\ CompareRationals(s, r) > 0 => CompareRationals(r, s) <= 0
    BY CompareTotal
<1>3. \/ CompareRationals(r, s) >= 0 => CompareRationals(s, r) <= 0
      \/ CompareRationals(r, s) < 0
  <2>1. PICK a \in Int, b \in Nat : a = r.num /\ b = r.den
      BY DEF Speed
  <2>2. PICK c \in Int, d \in Nat : c = s.num /\ d = s.den
      BY DEF Speed
  <2>3. /\ CompareRationals(r, s) = a * d - c * b
        /\ CompareRationals(s, r) = c * b - a * d
      BY <2>1, <2>2 DEF CompareRationals
  <2> QED
      BY <2>3
<1> QED
    BY <1>1, <1>2, <1>3 DEF Lowest, Highest

\* A limit with a denominator of 0 that some rational agrees with stays.
LEMMA NotFromZero ==
    ASSUME NEW r \in Speed, r \notin Rational,
           NEW u \in Rational, NEW s \in Rational
    PROVE  /\ CompareRationals(r, u) <= 0 => ~(CompareRationals(r, s) > 0)
           /\ CompareRationals(u, r) <= 0 => ~(CompareRationals(r, s) < 0)
<1>1. PICK a \in Int : a = r.num /\ r.den = 0
    BY DEF Speed, Rational
<1>2. PICK b \in Int, c \in Nat \ {0} : b = u.num /\ c = u.den
    BY DEF Rational
<1>3. PICK d \in Int, e \in Nat \ {0} : d = s.num /\ e = s.den
    BY DEF Rational
<1>4. /\ CompareRationals(r, u) = a * c /\ CompareRationals(u, r) = -(a * c)
      /\ CompareRationals(r, s) = a * e
  <2>1. b * 0 = 0 /\ d * 0 = 0
      OBVIOUS
  <2> QED
      BY <1>1, <1>2, <1>3, <2>1 DEF CompareRationals
<1>5. (a * c <= 0 => a <= 0) /\ (-(a * c) <= 0 => a >= 0)
    OBVIOUS
<1>6. (a <= 0 => a * e <= 0) /\ (a >= 0 => a * e >= 0)
    OBVIOUS
<1> QED
    BY <1>4, <1>5, <1>6

LEMMA TakeSpeedOK ==
    ASSUME NEW t, NEW h \in Speed, Taken(t, h), NEW s \in Speed
    PROVE  /\ Taken(TakeSpeed(t, s), h)
           /\ TakeSpeed(t, s).upnp = <<>> => IsInvalid(s) /\ t.upnp = <<>>
<1>1. CASE IsInvalid(s)
    BY <1>1 DEF TakeSpeed
<1>2. CASE ~IsInvalid(s)
  <2>1. PICK u \in Seq(Rational), m \in Seq(Int), lo \in Speed, hi \in Speed :
            u = t.upnp /\ m = t.mpris /\ lo = t.lowest /\ hi = t.highest
      BY DEF Taken
  <2>2. PICK n \in Nat : n = Len(u) /\ n = Len(m)
      BY <2>1, LenProperties DEF Taken
  <2>3. \A i \in 1 .. n : /\ m[i] = Hundredths(u[i]) /\ ~IsInvalid(u[i])
                          /\ CompareRationals(lo, u[i]) <= 0
                          /\ CompareRationals(u[i], hi) <= 0
                          /\ u[i] \in Rational
    <3>1. \A i \in 1 .. n : u[i] \in Rational
        BY <2>2, LenProperties
    <3> QED
        BY <2>1, <2>2, <3>1 DEF Taken
  <2>4. s \in Rational
      BY <1>2, HundredthsType
  <2> PICK v : v = Append(u, s)
      OBVIOUS
  <2>5. /\ v \in Seq(Rational) /\ Len(v) = n + 1 /\ v # <<>>
        /\ \A i \in 1 .. n : v[i] = u[i]
        /\ v[n + 1] = s
    <3>1. /\ v \in Seq(Rational) /\ Len(v) = Len(u) + 1
          /\ \A i \in 1 .. Len(u) : v[i] = u[i]
          /\ v[Len(u) + 1] = s
        BY <2>4, AppendProperties
    <3>2. v # <<>>
        BY <2>2, <3>1
    <3> QED
        BY <2>2, <3>1, <3>2
  <2>6. PICK w : w = Append(m, Hundredths(s))
      OBVIOUS
  <2>7. /\ w \in Seq(Int) /\ Len(w) = n + 1
        /\ \A i \in 1 .. n : w[i] = m[i]
        /\ w[n + 1] = Hundredths(s)
    <3>1. Hundredths(s) \in Int
        BY HundredthsType
    <3> QED
        BY <2>2, <2>6, <3>1, AppendProperties
  <2>8. PICK lo2 \in Speed, hi2 \in Speed :
            /\ lo2 = Lowest(lo, s) /\ hi2 = Highest(hi, s)
            /\ CompareRationals(lo2, lo) <= 0 /\ CompareRationals(lo2, s) <= 0
            /\ CompareRationals(hi, hi2) <= 0 /\ CompareRationals(s, hi2) <= 0
            /\ lo2 # lo => CompareRationals(lo, s) > 0
            /\ hi2 # hi => CompareRationals(hi, s) < 0
      BY LowestHighest DEF Lowest, Highest
  <2>9. ASSUME NEW i \in 1 .. n + 1
        PROVE  /\ w[i] = Hundredths(v[i]) /\ ~IsInvalid(v[i])
               /\ CompareRationals(lo2, v[i]) <= 0
               /\ CompareRationals(v[i], hi2) <= 0
    <3>1. CASE i = n + 1
        BY <1>2, <2>5, <2>7, <2>8, <3>1
    <3>2. CASE i \in 1 .. n
      <4>1. CompareRationals(lo2, u[i]) <= 0
        <5>1. lo \in Rational \/ lo2 = lo
            BY <2>3, <2>4, <2>8, <3>2, NotFromZero
        <5> QED
            BY <2>3, <2>8, <3>2, <5>1, CompareTransitive DEF Speed, Rational
      <4>2. CompareRationals(u[i], hi2) <= 0
        <5>1. hi \in Rational \/ hi2 = hi
            BY <2>3, <2>4, <2>8, <3>2, NotFromZero
        <5> QED
            BY <2>3, <2>8, <3>2, <5>1, CompareTransitive DEF Speed, Rational
      <4> QED
        <5>1. v[i] = u[i] /\ w[i] = m[i]
            BY <2>5, <2>7, <3>2
        <5> QED
            BY <2>3, <3>2, <4>1, <4>2, <5>1
    <3>3. i = n + 1 \/ i \in 1 .. n
        OBVIOUS
    <3> QED
        BY <3>1, <3>2, <3>3
  <2>10. PICK t2 : t2 = TakeSpeed(t, s)
      OBVIOUS
  <2>11. t2.upnp = v /\ t2.mpris = w /\ t2.lowest = lo2 /\ t2.highest = hi2
      BY <1>2, <2>1, <2>4, <2>6, <2>8, <2>10 DEF TakeSpeed
  <2>12. Taken(t2, h)
      BY <2>5, <2>7, <2>8, <2>9, <2>11 DEF Taken
  <2> QED
      BY <2>5, <2>10, <2>11, <2>12
<1> QED
    BY <1>1, <1>2

\* What is known of a list of speeds.  The texts are those that can be sent,
\* each with its value in between the limits, where they are known (not 0); with
\* none, nothing is known.
RatesOK(r) ==
    /\ r.upnp \in Seq(Rational) /\ r.mpris \in Seq(Int)
    /\ r.min \in Int /\ r.max \in Int
    /\ Len(r.mpris) = Len(r.upnp)
    /\ \A i \in 1 .. Len(r.upnp) :
          /\ r.mpris[i] = Hundredths(r.upnp[i])
          /\ ~IsInvalid(r.upnp[i])
          /\ r.min # 0 => r.min <= r.mpris[i]
          /\ r.max # 0 => r.mpris[i] <= r.max
    /\ r.upnp = <<>> => r = NoRates

\* The loop as a function of the turns made.
IsLoop(f, list, N) ==
    /\ f[0] = [upnp |-> <<>>, mpris |-> <<>>,
               lowest |-> Head(list), highest |-> Head(list)]
    /\ \A n \in 1 .. N : f[n] = TakeSpeed(f[n - 1], list[n])
    /\ RatesValues(list) =
          [upnp |-> f[N].upnp, mpris |-> f[N].mpris,
           min |-> Hundredths(f[N].lowest), max |-> Hundredths(f[N].highest)]

LEMMA TakenExists ==
    ASSUME NEW list \in Seq(Speed), NEW N \in Nat, N = Len(list), N > 0
    PROVE  \E f : IsLoop(f, list, N)
<1> DEFINE S == [upnp : Seq(Rational), mpris : Seq(Int), lowest : Speed, highest : Speed]
<1>1. \A n \in 1 .. N : list[n] \in Speed
    BY LenProperties
<1>2. Head(list) \in Speed
    BY HeadTailProperties, EmptySeq
<1>3. PICK base \in S : base = [upnp |-> <<>>, mpris |-> <<>>,
                                lowest |-> Head(list), highest |-> Head(list)]
  <2>1. PICK h \in Speed : h = Head(list)
      BY <1>2
  <2>2. [upnp |-> <<>>, mpris |-> <<>>, lowest |-> h, highest |-> h] \in S
    <3>1. <<>> \in Seq(Rational) /\ <<>> \in Seq(Int)
        OBVIOUS
    <3> QED
        BY <3>1
  <2> QED
      BY <2>1, <2>2
<1>4. \A t \in S, s \in Speed : TakeSpeed(t, s) \in S
  <2> TAKE t \in S, s \in Speed
  <2>1. Hundredths(s) \in Int
      BY HundredthsType
  <2>2. Lowest(t.lowest, s) \in Speed /\ Highest(t.highest, s) \in Speed
      BY DEF Lowest, Highest
  <2>3. ~IsInvalid(s) => Append(t.upnp, s) \in Seq(Rational)
      BY HundredthsType, AppendProperties
  <2>4. Append(t.mpris, Hundredths(s)) \in Seq(Int)
      BY <2>1, AppendProperties
  <2> QED
      BY <2>2, <2>3, <2>4 DEF TakeSpeed
<1> HIDE DEF S
<1>5. PICK step : step = [n \in 1 .. N |-> [t \in S |-> TakeSpeed(t, list[n])]]
    OBVIOUS
<1>6. step \in [1 .. N -> [S -> S]]
    BY <1>1, <1>4, <1>5
<1>7. PICK f \in [0 .. N -> S] : Iterates(f, base, step, N)
    BY <1>6, RecursionExists
<1>8. f[0] = base /\ \A n \in 1 .. N : f[n] = TakeSpeed(f[n - 1], list[n])
  <2>1. ASSUME NEW n \in 1 .. N
        PROVE  f[n] = TakeSpeed(f[n - 1], list[n])
    <3>1. n - 1 \in 0 .. N
        OBVIOUS
    <3>2. f[n - 1] \in S
        BY <3>1
    <3> QED
        BY <1>5, <1>7, <3>2 DEF Iterates
  <2> QED
      BY <1>7, <2>1 DEF Iterates
<1> DEFINE Def(g) == g = [n \in 0 .. N |->
                             IF n = 0 THEN base ELSE TakeSpeed(g[n - 1], list[n])]
<1>9. Def(f)
  <2>1. \A n \in 0 .. N : f[n] = IF n = 0 THEN base
                                 ELSE TakeSpeed(f[n - 1], list[n])
      BY <1>8
  <2> QED
      BY <2>1
<1>10. ASSUME NEW g, Def(g)
       PROVE  g = f
  <2>1. DOMAIN g = 0 .. N /\ g = [n \in 0 .. N |-> g[n]]
      BY <1>10
  <2> DEFINE T == {n \in Nat : n <= N => g[n] = f[n]}
  <2>2. 0 \in T
      BY <1>8, <1>10
  <2>3. ASSUME NEW n \in Nat, n \in T
        PROVE  n + 1 \in T
    <3> SUFFICES ASSUME n + 1 <= N PROVE g[n + 1] = f[n + 1]
        OBVIOUS
    <3>1. n + 1 \in 1 .. N /\ n + 1 \in 0 .. N /\ n + 1 # 0 /\ (n + 1) - 1 = n
        OBVIOUS
    <3>2. g[n] = f[n]
        BY <2>3, <3>1
    <3>3. g[n + 1] = TakeSpeed(g[n], list[n + 1])
        BY <1>10, <3>1
    <3>4. f[n + 1] = TakeSpeed(f[n], list[n + 1])
        BY <1>8, <3>1
    <3> QED
        BY <3>2, <3>3, <3>4
  <2> HIDE DEF T
  <2>4. \A n \in Nat : n \in T
      BY <2>2, <2>3, Induct
  <2>5. \A n \in 0 .. N : g[n] = f[n]
      BY <2>4 DEF T
  <2> QED
      BY <2>1, <2>5
<1>11. (CHOOSE g : Def(g)) = f
    BY <1>9, <1>10
<1>12. RatesValues(list) =
          [upnp |-> (CHOOSE g : Def(g))[N].upnp,
           mpris |-> (CHOOSE g : Def(g))[N].mpris,
           min |-> Hundredths((CHOOSE g : Def(g))[N].lowest),
           max |-> Hundredths((CHOOSE g : Def(g))[N].highest)]
    BY <1>3 DEF RatesValues
<1> HIDE DEF Def
<1> QED
    BY <1>3, <1>8, <1>11, <1>12 DEF IsLoop

\* prv_get_rates_values: texts and values go together and lie within the
\* limits.
LEMMA RatesValuesOK ==
    ASSUME NEW list \in Seq(Speed), list # <<>>
    PROVE  /\ RatesOK(RatesValues(list))
           /\ RatesValues(list).upnp = <<>> =>
                 \A s \in Range(list) : IsInvalid(s)
<1>1. PICK N \in Nat : N = Len(list) /\ N > 0 /\ \A n \in 1 .. N : list[n] \in Speed
    BY LenProperties, EmptySeq
<1>2. PICK h \in Speed : h = Head(list) /\ h = list[1]
  <2>1. Head(list) \in Speed /\ Head(list) = list[1]
      BY HeadTailProperties
  <2> QED
      BY <2>1
<1>3. PICK f : /\ f[0] = [upnp |-> <<>>, mpris |-> <<>>, lowest |-> h, highest |-> h]
               /\ \A n \in 1 .. N : f[n] = TakeSpeed(f[n - 1], list[n])
               /\ RatesValues(list) =
                     [upnp |-> f[N].upnp, mpris |-> f[N].mpris,
                      min |-> Hundredths(f[N].lowest),
                      max |-> Hundredths(f[N].highest)]
  <2>1. PICK f : IsLoop(f, list, N)
      BY <1>1, TakenExists
  <2> QED
      BY <1>2, <2>1 DEF IsLoop
<1> DEFINE Ok(n) == Taken(f[n], h) /\ (f[n].upnp = <<>> => \A i \in 1 .. n : IsInvalid(list[i]))
           T == {n \in Nat : n <= N => Ok(n)}
<1>4. 0 \in T
  <2>1. Taken(f[0], h)
    <3>1. <<>> \in Seq(Rational) /\ <<>> \in Seq(Int) /\ Len(<<>>) = 0
        OBVIOUS
    <3>2. /\ f[0].upnp = <<>> /\ f[0].mpris = <<>>
          /\ f[0].lowest = h /\ f[0].highest = h
        BY <1>3
    <3> QED
        BY <3>1, <3>2 DEF Taken
  <2> QED
      BY <2>1
<1>5. ASSUME NEW n \in Nat, n \in T
      PROVE  n + 1 \in T
  <2> SUFFICES ASSUME n + 1 <= N PROVE Ok(n + 1)
      OBVIOUS
  <2> HIDE DEF Ok
  <2>1. n + 1 \in 1 .. N /\ (n + 1) - 1 = n /\ Ok(n)
      BY <1>5
  <2>2. PICK t : t = f[n]
      OBVIOUS
  <2>3. PICK s \in Speed : s = list[n + 1]
      BY <1>1, <2>1
  <2>4. f[n + 1] = TakeSpeed(t, s)
      BY <1>3, <2>1, <2>2, <2>3
  <2>5. Taken(t, h)
      BY <2>1, <2>2 DEF Ok
  <2>6. /\ Taken(f[n + 1], h)
        /\ f[n + 1].upnp = <<>> => IsInvalid(s) /\ t.upnp = <<>>
      BY <2>4, <2>5, TakeSpeedOK
  <2>7. ASSUME f[n + 1].upnp = <<>>, NEW i \in 1 .. n + 1
        PROVE  IsInvalid(list[i])
    <3>1. CASE i = n + 1
        BY <2>3, <2>6, <2>7, <3>1
    <3>2. CASE i \in 1 .. n
        BY <2>1, <2>2, <2>6, <2>7, <3>2 DEF Ok
    <3> QED
        BY <3>1, <3>2
  <2> QED
      BY <2>6, <2>7 DEF Ok
<1> HIDE DEF T
<1>6. N \in T
    BY <1>4, <1>5, Induct
<1>7. PICK t : t = f[N]
    OBVIOUS
<1>8. /\ Taken(t, h)
      /\ t.upnp = <<>> => IsInvalid(h) /\ \A i \in 1 .. N : IsInvalid(list[i])
  <2>1. 1 \in 1 .. N
      BY <1>1
  <2> QED
      BY <1>2, <1>6, <1>7, <2>1 DEF T
<1>9. PICK lo \in Int : lo = Hundredths(t.lowest)
    BY <1>8, HundredthsType DEF Taken
<1>10. PICK hi \in Int : hi = Hundredths(t.highest)
    BY <1>8, HundredthsType DEF Taken
<1>11. PICK r : r = RatesValues(list)
    OBVIOUS
<1>12. r = [upnp |-> t.upnp, mpris |-> t.mpris, min |-> lo, max |-> hi]
    BY <1>3, <1>7, <1>9, <1>10, <1>11
<1>13. ASSUME NEW i \in 1 .. Len(t.upnp)
       PROVE  /\ t.mpris[i] = Hundredths(t.upnp[i]) /\ ~IsInvalid(t.upnp[i])
              /\ lo # 0 => lo <= t.mpris[i]
              /\ hi # 0 => t.mpris[i] <= hi
  <2>1. /\ t.mpris[i] = Hundredths(t.upnp[i]) /\ ~IsInvalid(t.upnp[i])
        /\ CompareRationals(t.lowest, t.upnp[i]) <= 0
        /\ CompareRationals(t.upnp[i], t.highest) <= 0
      BY <1>8 DEF Taken
  <2>2. PICK u \in Rational : u = t.upnp[i]
    <3>1. t.upnp \in Seq(Rational)
        BY <1>8 DEF Taken
    <3> QED
        BY <3>1, LenProperties
  <2>3. PICK l \in Speed, m \in Speed : l = t.lowest /\ m = t.highest
      BY <1>8 DEF Taken
  <2>4. lo # 0 => Hundredths(l) <= Hundredths(u)
      BY <1>9, <2>1, <2>2, <2>3, HundredthsType, HundredthsOrdered
  <2>5. hi # 0 => Hundredths(u) <= Hundredths(m)
      BY <1>10, <2>1, <2>2, <2>3, HundredthsType, HundredthsOrdered
  <2> QED
      BY <1>9, <1>10, <2>1, <2>2, <2>3, <2>4, <2>5
<1>14. ASSUME t.upnp = <<>>
       PROVE  r = NoRates
  <2>1. t.mpris = <<>>
    <3>1. Len(t.mpris) = Len(t.upnp) /\ t.mpris \in Seq(Int)
        BY <1>8 DEF Taken
    <3>2. Len(t.mpris) = 0
        BY <1>14, <3>1
    <3> QED
        BY <3>1, <3>2, EmptySeq
  <2>2. t.lowest = h /\ t.highest = h /\ IsInvalid(h)
      BY <1>8, <1>14 DEF Taken
  <2>3. Hundredths(h) = 0
      BY <2>2, HundredthsType
  <2> QED
      BY <1>9, <1>10, <1>12, <1>14, <2>1, <2>2, <2>3 DEF NoRates
<1>15. RatesOK(r)
  <2>1. r.upnp = t.upnp /\ r.mpris = t.mpris /\ r.min = lo /\ r.max = hi
      BY <1>12
  <2>2. t.upnp \in Seq(Rational) /\ t.mpris \in Seq(Int) /\ Len(t.mpris) = Len(t.upnp)
      BY <1>8 DEF Taken
  <2> QED
      BY <1>13, <1>14, <2>1, <2>2 DEF RatesOK
<1>16. \A s \in Range(list) : \E i \in 1 .. N : s = list[i]
  <2>1. DOMAIN list = 1 .. N
      BY <1>1, LenProperties
  <2> QED
      BY <2>1 DEF Range
<1>17. r.upnp = <<>> => \A s \in Range(list) : IsInvalid(s)
    BY <1>8, <1>12, <1>16
<1> QED
    BY <1>11, <1>15, <1>17

\* prv_add_dlna_speeds always finds a speed: 1 is in the list.
LEMMA DlnaRatesOK ==
    ASSUME NEW ps \in Seq(Speed)
    PROVE  RatesOK(DlnaRates(ps)) /\ DlnaRates(ps).upnp # <<>>
<1>1. PICK q \in Seq(Speed) : q = <<One>> \o ps /\ Len(q) > 0 /\ q[1] = One
  <2>1. PICK o \in Speed : o = One
    <3>1. One \in Speed
        BY DEF One, Speed
    <3> QED
        BY <3>1
  <2>2. PICK one : one = <<o>>
      OBVIOUS
  <2>3. one \in Seq(Speed) /\ Len(one) = 1 /\ one[1] = o
      BY <2>2
  <2>4. PICK q : q = one \o ps
      OBVIOUS
  <2>5. q \in Seq(Speed) /\ Joined(q, one, ps)
      BY <2>3, <2>4, ConcatElements
  <2>6. Len(q) = 1 + Len(ps) /\ \A i \in 1 .. 1 : q[i] = one[i]
      BY <2>3, <2>5 DEF Joined
  <2>7. Len(ps) \in Nat
      OBVIOUS
  <2> QED
      BY <2>1, <2>2, <2>3, <2>4, <2>5, <2>6, <2>7
<1>2. PICK N \in Nat : N = Len(q) /\ N > 0 /\ \A i \in 1 .. N : q[i] \in Speed
    BY <1>1, LenProperties
<1>3. PICK r : r = Reverse(q)
    OBVIOUS
<1>4. r = [i \in 1 .. N |-> q[(N - i) + 1]]
    BY <1>2, <1>3 DEF Reverse
<1>5. r \in Seq(Speed) /\ DOMAIN r = 1 .. N
  <2>1. \A i \in 1 .. N : q[(N - i) + 1] \in Speed
    <3>1. \A i \in 1 .. N : (N - i) + 1 \in 1 .. N
        OBVIOUS
    <3> QED
        BY <1>2, <3>1
  <2> QED
      BY <1>4, <2>1
<1>6. One \in Range(r)
  <2>1. N \in 1 .. N /\ (N - N) + 1 = 1
      BY <1>2
  <2>2. r[N] = One
      BY <1>1, <1>4, <2>1
  <2> QED
      BY <1>5, <2>1, <2>2 DEF Range
<1>7. PICK l \in Seq(Speed) : l = SortSpeeds(r) /\ One \in Range(l)
    BY <1>5, <1>6, SortedOK
<1>8. l # <<>>
    BY <1>7 DEF Range
<1>9. /\ RatesOK(RatesValues(l))
      /\ RatesValues(l).upnp = <<>> => \A s \in Range(l) : IsInvalid(s)
    BY <1>8, RatesValuesOK
<1>10. ~IsInvalid(One)
    BY DEF One, IsInvalid
<1>11. DlnaRates(ps) = RatesValues(l)
    BY <1>1, <1>3, <1>7 DEF DlnaRates
<1> QED
    BY <1>7, <1>9, <1>10, <1>11

\* The speeds of a service description.
LEMMA OwnRatesOK ==
    ASSUME NEW list \in Seq(Speed), list # <<>>
    PROVE  RatesOK(RatesValues(SortSpeeds(list)))
<1>1. PICK l \in Seq(Speed) : l = SortSpeeds(list) /\ Len(l) = Len(list)
    BY SortedOK
<1>2. l # <<>>
  <2>1. Len(list) # 0
      BY EmptySeq
  <2> QED
      BY <1>1, <2>1
<1> QED
    BY <1>1, <1>2, RatesValuesOK

LEMMA NoRatesOK ==
    RatesOK(NoRates)
<1>1. /\ NoRates.upnp = <<>> /\ NoRates.mpris = <<>>
      /\ NoRates.min = 0 /\ NoRates.max = 0
    BY DEF NoRates
<1>2. <<>> \in Seq(Rational) /\ <<>> \in Seq(Int) /\ Len(<<>>) = 0
    OBVIOUS
<1> QED
    BY <1>1, <1>2 DEF RatesOK

\* Without values, no texts.
LEMMA RatesKnown ==
    ASSUME NEW r, RatesOK(r)
    PROVE  /\ r.mpris = <<>> <=> r.upnp = <<>>
           /\ r.mpris = <<>> => r = NoRates
           /\ r.mpris = [i \in DOMAIN r.upnp |-> Hundredths(r.upnp[i])]
<1>1. PICK u \in Seq(Rational), m \in Seq(Int) :
          u = r.upnp /\ m = r.mpris /\ Len(m) = Len(u)
    BY DEF RatesOK
<1>2. m = <<>> <=> u = <<>>
    BY <1>1, EmptySeq
<1>3. PICK N \in Nat : /\ N = Len(u) /\ N = Len(m)
                       /\ DOMAIN u = 1 .. N /\ DOMAIN m = 1 .. N
                       /\ m \in [1 .. N -> Int]
    BY <1>1, LenProperties
<1>4. \A i \in 1 .. N : m[i] = Hundredths(u[i])
    BY <1>1, <1>3 DEF RatesOK
<1>5. m = [i \in 1 .. N |-> Hundredths(u[i])]
    BY <1>3, <1>4
<1> QED
    BY <1>1, <1>2, <1>3, <1>5 DEF RatesOK

-----------------------------------------------------------------------------
(***************************************************************************)
(* The invariant: the types, with the shape of the records, and that the   *)
(* values known of a list are those of its texts.                          *)
(***************************************************************************)

PropsOK(p) ==
    /\ p = [speeds |-> p.speeds, min |-> p.min, max |-> p.max, rate |-> p.rate,
            status |-> p.status, can |-> p.can, volume |-> p.volume]
    /\ p.speeds \in Seq(Int) /\ p.min \in Int /\ p.max \in Int
    /\ p.rate \in Rational \cup {None}
    /\ p.volume \in 0 .. MaxEvents

ValuesInv ==
    /\ description \in Descriptions
    /\ RatesOK(own)
    /\ dlna \in Seq(Rational)
    /\ rate \in Speed
    /\ max_volume \in Nat
    /\ synced \in BOOLEAN
    /\ PropsOK(props)

WorkInv ==
    /\ frames \in Seq(Frame) /\ Len(frames) <= MaxFrames
    /\ pending \in Seq(Event)
    /\ arrived \in 0 .. MaxEvents
    /\ call \in [Caller -> Call \cup {None}]

\* What is done to the properties exposed leaves them properties.
LEMMA AddPlayerSpeedPropsOK ==
    ASSUME NEW p, PropsOK(p), NEW r, RatesOK(r)
    PROVE  LET q == AddPlayerSpeedProps(p, r)
           IN  /\ PropsOK(q)
               /\ q.speeds = IF r.mpris # <<>> THEN r.mpris ELSE p.speeds
               /\ q.min = IF r.min # 0 THEN r.min ELSE p.min
               /\ q.max = IF r.max # 0 THEN r.max ELSE p.max
               /\ q.rate = p.rate /\ q.status = p.status
               /\ q.can = p.can /\ q.volume = p.volume
<1>1. PICK q : q = AddPlayerSpeedProps(p, r)
    OBVIOUS
<1>2. q = [speeds |-> IF r.mpris # <<>> THEN r.mpris ELSE p.speeds,
           min    |-> IF r.min # 0 THEN r.min ELSE p.min,
           max    |-> IF r.max # 0 THEN r.max ELSE p.max,
           rate   |-> p.rate, status |-> p.status, can |-> p.can,
           volume |-> p.volume]
    BY <1>1 DEF AddPlayerSpeedProps, PropsOK
<1>3. r.mpris \in Seq(Int) /\ r.min \in Int /\ r.max \in Int
    BY DEF RatesOK
<1> QED
    BY <1>1, <1>2, <1>3 DEF PropsOK

-----------------------------------------------------------------------------
(***************************************************************************)
(* What each step does to the properties exposed, field by field.          *)
(***************************************************************************)

LEMMA ShowVolumeOK ==
    ASSUME NEW p, PropsOK(p), NEW n \in 0 .. MaxEvents, NEW max
    PROVE  LET q == ShowVolume(p, n, max)
           IN  /\ PropsOK(q)
               /\ q.speeds = p.speeds /\ q.min = p.min /\ q.max = p.max
               /\ q.rate = p.rate /\ q.status = p.status /\ q.can = p.can
               /\ q.volume = IF max = 0 THEN p.volume ELSE n
<1>1. CASE max = 0
    BY <1>1 DEF ShowVolume
<1>2. CASE max # 0
  <2>1. PICK q : q = ShowVolume(p, n, max)
      OBVIOUS
  <2>2. q = [speeds |-> p.speeds, min |-> p.min, max |-> p.max,
             rate |-> p.rate, status |-> p.status, can |-> p.can, volume |-> n]
      BY <1>2, <2>1 DEF ShowVolume, PropsOK
  <2> QED
      BY <1>2, <2>1, <2>2 DEF PropsOK
<1> QED
    BY <1>1, <1>2

\* Putting one field in.
LEMMA CanSet ==
    ASSUME NEW p, PropsOK(p), NEW x
    PROVE  LET q == [p EXCEPT !.can = x]
           IN  /\ PropsOK(q) /\ q.speeds = p.speeds /\ q.volume = p.volume
               /\ q.min = p.min /\ q.max = p.max
               /\ q.rate = p.rate /\ q.can = x
<1>1. PICK q : q = [p EXCEPT !.can = x]
    OBVIOUS
<1>2. q = [speeds |-> p.speeds, min |-> p.min, max |-> p.max,
           rate |-> p.rate, status |-> p.status, can |-> x, volume |-> p.volume]
    BY <1>1 DEF PropsOK
<1> QED
    BY <1>1, <1>2 DEF PropsOK

LEMMA StatusSet ==
    ASSUME NEW p, PropsOK(p), NEW x
    PROVE  LET q == [p EXCEPT !.status = x]
           IN  /\ PropsOK(q) /\ q.speeds = p.speeds /\ q.volume = p.volume
               /\ q.min = p.min /\ q.max = p.max
               /\ q.rate = p.rate /\ q.can = p.can
<1>1. PICK q : q = [p EXCEPT !.status = x]
    OBVIOUS
<1>2. q = [speeds |-> p.speeds, min |-> p.min, max |-> p.max,
           rate |-> p.rate, status |-> x, can |-> p.can, volume |-> p.volume]
    BY <1>1 DEF PropsOK
<1> QED
    BY <1>1, <1>2 DEF PropsOK

LEMMA RateSet ==
    ASSUME NEW p, PropsOK(p), NEW x \in Rational \cup {None}
    PROVE  LET q == [p EXCEPT !.rate = x]
           IN  /\ PropsOK(q) /\ q.speeds = p.speeds /\ q.volume = p.volume
               /\ q.min = p.min /\ q.max = p.max
               /\ q.rate = x /\ q.can = p.can
<1>1. PICK q : q = [p EXCEPT !.rate = x]
    OBVIOUS
<1>2. q = [speeds |-> p.speeds, min |-> p.min, max |-> p.max,
           rate |-> x, status |-> p.status, can |-> p.can, volume |-> p.volume]
    BY <1>1 DEF PropsOK
<1> QED
    BY <1>1, <1>2 DEF PropsOK

LEMMA MapTransportSpeedOK ==
    ASSUME NEW s \in Speed
    PROVE  MapTransportSpeed(s) \in Rational
BY DEF MapTransportSpeed, One, Speed, Rational

\* An event of AVTransport.
LEMMA LastChangeFields ==
    ASSUME ValuesInv, NEW e \in AvEvents, LastChange(e)
    PROVE  /\ PropsOK(props') /\ props'.volume = props.volume
           /\ props'.can = IF e.actions = None THEN props.can
                           ELSE CanDo(e.actions.can)
           /\ props'.rate = IF e.speed = None THEN props.rate
                            ELSE MapTransportSpeed(e.speed)
           /\ \/ /\ e.actions = None \/ e.actions.ps = None
                 /\ dlna' = dlna /\ props'.speeds = props.speeds
                 /\ props'.min = props.min /\ props'.max = props.max
              \/ /\ e.actions # None /\ e.actions.ps # None
                 /\ RatesOK(DlnaRates(e.actions.ps)) /\ dlna' # <<>>
                 /\ dlna' = DlnaRates(e.actions.ps).upnp
                 /\ props'.speeds = DlnaRates(e.actions.ps).mpris
                 /\ LET r == DlnaRates(e.actions.ps)
                    IN  /\ props'.min = IF r.min # 0 THEN r.min ELSE props.min
                        /\ props'.max = IF r.max # 0 THEN r.max ELSE props.max
<1>1. /\ e.speed = None \/ e.speed \in Speed
      /\ e.actions = None \/ e.actions.ps = None \/ e.actions.ps \in Seq(Speed)
    BY PlaybackAssumption
<1>2. PropsOK(props)
    BY DEF ValuesInv
<1>3. PICK p : p = IF e.actions = None THEN props ELSE AddActions(props, e.actions)
    OBVIOUS
<1>4. PICK q : q = IF e.speed = None THEN p
                   ELSE [p EXCEPT !.rate = MapTransportSpeed(e.speed)]
    OBVIOUS
<1>5. /\ props' = IF e.state = None THEN q ELSE [q EXCEPT !.status = e.state]
      /\ dlna' = IF e.actions # None /\ e.actions.ps # None
                 THEN DlnaRates(e.actions.ps).upnp ELSE dlna
    BY <1>3, <1>4 DEF LastChange
<1>6. /\ PropsOK(p) /\ p.volume = props.volume /\ p.rate = props.rate
      /\ p.can = IF e.actions = None THEN props.can ELSE CanDo(e.actions.can)
      /\ \/ /\ e.actions = None \/ e.actions.ps = None
            /\ dlna' = dlna /\ p.speeds = props.speeds
            /\ p.min = props.min /\ p.max = props.max
         \/ /\ e.actions # None /\ e.actions.ps # None
            /\ RatesOK(DlnaRates(e.actions.ps)) /\ dlna' # <<>>
            /\ dlna' = DlnaRates(e.actions.ps).upnp
            /\ p.speeds = DlnaRates(e.actions.ps).mpris
            /\ LET r == DlnaRates(e.actions.ps)
               IN  /\ p.min = IF r.min # 0 THEN r.min ELSE props.min
                   /\ p.max = IF r.max # 0 THEN r.max ELSE props.max
  <2>1. CASE e.actions = None
      BY <1>2, <1>3, <1>5, <2>1
  <2>2. CASE e.actions # None
    <3>1. PICK f : f = [props EXCEPT !.can = CanDo(e.actions.can)]
        OBVIOUS
    <3>2. /\ PropsOK(f) /\ f.can = CanDo(e.actions.can)
          /\ f.speeds = props.speeds /\ f.min = props.min /\ f.max = props.max
          /\ f.rate = props.rate /\ f.volume = props.volume
        BY <1>2, <3>1, CanSet
    <3>3. p = IF e.actions.ps = None THEN f
              ELSE AddPlayerSpeedProps(f, DlnaRates(e.actions.ps))
        BY <1>3, <2>2, <3>1 DEF AddActions
    <3>4. CASE e.actions.ps = None
        BY <1>5, <2>2, <3>2, <3>3, <3>4
    <3>5. CASE e.actions.ps # None
      <4>1. PICK r : r = DlnaRates(e.actions.ps)
          OBVIOUS
      <4>2. RatesOK(r) /\ r.upnp # <<>>
          BY <1>1, <2>2, <3>5, <4>1, DlnaRatesOK
      <4>3. r.mpris # <<>>
          BY <4>2, RatesKnown
      <4>4. p = AddPlayerSpeedProps(f, r)
          BY <3>3, <3>5, <4>1
      <4>5. /\ PropsOK(p) /\ p.speeds = r.mpris
            /\ p.min = IF r.min # 0 THEN r.min ELSE f.min
            /\ p.max = IF r.max # 0 THEN r.max ELSE f.max
            /\ p.rate = f.rate /\ p.can = f.can /\ p.volume = f.volume
          BY <3>2, <4>2, <4>3, <4>4, AddPlayerSpeedPropsOK
      <4>6. dlna' = r.upnp
          BY <1>5, <2>2, <3>5, <4>1
      <4> QED
          BY <2>2, <3>2, <3>5, <4>1, <4>2, <4>5, <4>6
    <3> QED
        BY <3>4, <3>5
  <2> QED
      BY <2>1, <2>2
<1>7. /\ PropsOK(q) /\ q.volume = p.volume /\ q.can = p.can
      /\ q.speeds = p.speeds /\ q.min = p.min /\ q.max = p.max
      /\ q.rate = IF e.speed = None THEN p.rate ELSE MapTransportSpeed(e.speed)
  <2>1. CASE e.speed = None
      BY <1>4, <1>6, <2>1
  <2>2. CASE e.speed # None
    <3>1. PICK x \in Rational : x = MapTransportSpeed(e.speed)
        BY <1>1, <2>2, MapTransportSpeedOK
    <3>2. q = [p EXCEPT !.rate = x]
        BY <1>4, <2>2, <3>1
    <3> QED
      <4>1. /\ PropsOK(q) /\ q.speeds = p.speeds /\ q.volume = p.volume
            /\ q.min = p.min /\ q.max = p.max /\ q.rate = x /\ q.can = p.can
          BY <1>6, <3>2, RateSet
      <4> QED
          BY <2>2, <3>1, <4>1
  <2> QED
      BY <2>1, <2>2
<1>8. /\ PropsOK(props') /\ props'.volume = q.volume /\ props'.can = q.can
      /\ props'.speeds = q.speeds /\ props'.min = q.min /\ props'.max = q.max
      /\ props'.rate = q.rate
  <2>1. PICK x : x = props'
      OBVIOUS
  <2>2. x = q \/ x = [q EXCEPT !.status = e.state]
      BY <1>5, <2>1
  <2>3. /\ PropsOK(x) /\ x.volume = q.volume /\ x.can = q.can
        /\ x.speeds = q.speeds /\ x.min = q.min /\ x.max = q.max
        /\ x.rate = q.rate
    <3>1. CASE x = q
        BY <1>7, <3>1
    <3>2. CASE x = [q EXCEPT !.status = e.state]
        BY <1>7, <3>2, StatusSet
    <3> QED
        BY <2>2, <3>1, <3>2
  <2> QED
      BY <2>1, <2>3
<1> QED
    BY <1>6, <1>7, <1>8

\* A new uri.
LEMMA ResetFields ==
    ASSUME ValuesInv, ResetTransportSpeedProps
    PROVE  /\ dlna' = <<>> /\ rate' = One
           /\ PropsOK(props') /\ props'.volume = props.volume
           /\ props'.can = props.can
           /\ props'.rate = IF rate = One THEN props.rate ELSE One
           /\ \/ /\ props.speeds = own.mpris /\ props'.speeds = props.speeds
                 /\ props'.min = props.min /\ props'.max = props.max
              \/ /\ props'.speeds = IF own.mpris # <<>> THEN own.mpris
                                    ELSE props.speeds
                 /\ props'.min = IF own.min # 0 THEN own.min ELSE props.min
                 /\ props'.max = IF own.max # 0 THEN own.max ELSE props.max
<1>1. PropsOK(props) /\ RatesOK(own)
    BY DEF ValuesInv
<1>2. PICK p : p = IF props.speeds = own.mpris THEN props
                   ELSE AddPlayerSpeedProps(props, own)
    OBVIOUS
<1>3. /\ dlna' = <<>> /\ rate' = One
      /\ props' = IF rate = One THEN p ELSE [p EXCEPT !.rate = One]
    BY <1>2 DEF ResetTransportSpeedProps
<1>4. PICK a : a = AddPlayerSpeedProps(props, own)
    OBVIOUS
<1>5. /\ PropsOK(a)
      /\ a.speeds = IF own.mpris # <<>> THEN own.mpris ELSE props.speeds
      /\ a.min = IF own.min # 0 THEN own.min ELSE props.min
      /\ a.max = IF own.max # 0 THEN own.max ELSE props.max
      /\ a.rate = props.rate /\ a.can = props.can /\ a.volume = props.volume
    BY <1>1, <1>4, AddPlayerSpeedPropsOK
<1>6. PICK x : x = props'
    OBVIOUS
<1>7. One \in Rational \cup {None}
    BY DEF One, Rational
<1>8. PropsOK(p)
    BY <1>1, <1>2, <1>4, <1>5
<1>9. /\ PropsOK(x) /\ x.volume = p.volume /\ x.can = p.can
      /\ x.speeds = p.speeds /\ x.min = p.min /\ x.max = p.max
      /\ x.rate = IF rate = One THEN p.rate ELSE One
  <2>1. CASE rate = One
      BY <1>3, <1>6, <1>8, <2>1
  <2>2. CASE rate # One
    <3>1. x = [p EXCEPT !.rate = One]
        BY <1>3, <1>6, <2>2
    <3>2. /\ PropsOK(x) /\ x.speeds = p.speeds /\ x.volume = p.volume
          /\ x.min = p.min /\ x.max = p.max /\ x.rate = One /\ x.can = p.can
        BY <1>7, <1>8, <3>1, RateSet
    <3> QED
        BY <2>2, <3>2
  <2> QED
      BY <2>1, <2>2
<1>10. CASE props.speeds = own.mpris
    BY <1>2, <1>3, <1>6, <1>9, <1>10
<1>11. CASE props.speeds # own.mpris
  <2>1. p = a
      BY <1>2, <1>4, <1>11
  <2> QED
      BY <1>3, <1>5, <1>6, <1>9, <2>1
<1> QED
    BY <1>10, <1>11

\* The texts and values Set(Rate) looks at: while the lists agree, each value
\* is exposed and is that of its text.
LEMMA RateListTypes ==
    ASSUME ValuesInv
    PROVE  /\ RateList.upnp \in Seq(Rational) /\ RateList.mpris \in Seq(Int)
           /\ SpeedsAgree =>
                 /\ props.speeds = RateList.mpris
                 /\ RateList.mpris =
                       [i \in DOMAIN RateList.upnp |-> Hundredths(RateList.upnp[i])]
<1>1. /\ dlna \in Seq(Rational) /\ props.speeds \in Seq(Int)
      /\ own.upnp \in Seq(Rational) /\ own.mpris \in Seq(Int)
      /\ own.mpris = [i \in DOMAIN own.upnp |-> Hundredths(own.upnp[i])]
  <2>1. RatesOK(own) /\ PropsOK(props) /\ dlna \in Seq(Rational)
      BY DEF ValuesInv
  <2> QED
      BY <2>1, RatesKnown DEF RatesOK, PropsOK
<1>2. CASE dlna # <<>>
  <2>1. RateList.mpris = props.speeds /\ RateList.upnp = dlna
      BY <1>2 DEF RateList
  <2>2. SpeedsAgree => props.speeds = [i \in DOMAIN dlna |-> Hundredths(dlna[i])]
      BY <1>2 DEF SpeedsAgree
  <2> QED
      BY <1>1, <2>1, <2>2
<1>3. CASE dlna = <<>>
  <2>1. RateList.mpris = own.mpris /\ RateList.upnp = own.upnp
      BY <1>3 DEF RateList
  <2>2. SpeedsAgree => props.speeds = own.mpris
      BY <1>3 DEF SpeedsAgree
  <2> QED
      BY <1>1, <2>1, <2>2
<1> QED
    BY <1>2, <1>3

LEMMA SetRateFields ==
    ASSUME ValuesInv, NEW i \in DOMAIN RateList.upnp, i \in DOMAIN RateList.mpris,
           SetRate(i)
    PROVE  /\ PropsOK(props') /\ props'.volume = props.volume
           /\ props'.can = props.can /\ props'.speeds = props.speeds
           /\ props'.min = props.min /\ props'.max = props.max
           /\ \/ rate' = rate /\ props'.rate = props.rate
              \/ /\ rate' = RateList.upnp[i]
                 /\ props'.rate = [num |-> RateList.mpris[i], den |-> 100]
           /\ rate' \in Speed
<1>1. PropsOK(props) /\ rate \in Speed
    BY DEF ValuesInv
<1>2. RateList.upnp \in Seq(Rational) /\ RateList.mpris \in Seq(Int)
    BY RateListTypes
<1>3. PICK u \in Rational : u = RateList.upnp[i]
    BY <1>2, ElementOfSeq, LenProperties
<1>4. PICK m \in Int : m = RateList.mpris[i]
    BY <1>2, ElementOfSeq, LenProperties
<1>5. CASE u = rate
  <2>1. rate' = rate /\ props' = props
      BY <1>3, <1>5 DEF SetRate
  <2> QED
      BY <1>1, <2>1
<1>6. CASE u # rate
  <2>1. PICK x : x = [num |-> m, den |-> 100]
      OBVIOUS
  <2>2. x \in Rational \cup {None}
    <3>1. x \in Rational
        BY <2>1 DEF Rational
    <3> QED
        BY <3>1
  <2>3. rate' = u /\ props' = [props EXCEPT !.rate = x]
      BY <1>3, <1>4, <1>6, <2>1 DEF SetRate
  <2>4. PICK y : y = props'
      OBVIOUS
  <2>5. /\ PropsOK(y) /\ y.speeds = props.speeds /\ y.volume = props.volume
        /\ y.min = props.min /\ y.max = props.max /\ y.rate = x
        /\ y.can = props.can
      BY <1>1, <2>2, <2>3, <2>4, RateSet
  <2>6. u \in Speed
      BY DEF Rational, Speed
  <2> QED
      BY <1>3, <1>4, <2>1, <2>3, <2>4, <2>5, <2>6
<1> QED
    BY <1>5, <1>6

\* The value Set(Rate) finds: the first within a hundredth of the one asked
\* for.
LEMMA IndexOfValueOK ==
    ASSUME NEW l \in Seq(Int), NEW v \in Int
    PROVE  \/ /\ IndexOfValue(l, v) = 0
              /\ \A i \in DOMAIN l : ~(AbsValue(v - l[i]) <= 1)
           \/ /\ IndexOfValue(l, v) \in DOMAIN l
              /\ IndexOfValue(l, v) # 0
              /\ AbsValue(v - l[IndexOfValue(l, v)]) <= 1
<1>1. PICK N \in Nat : N = Len(l) /\ DOMAIN l = 1 .. N
    BY LenProperties
<1>2. PICK I : I = {i \in 1 .. N : AbsValue(v - l[i]) <= 1}
    OBVIOUS
<1>3. IndexOfValue(l, v) = IF I # {} THEN Min(I) ELSE 0
    BY <1>1, <1>2 DEF IndexOfValue, SelectInSeq
<1>4. CASE I = {}
    BY <1>1, <1>2, <1>3, <1>4
<1>5. CASE I # {}
  <2>1. I \subseteq Nat
      BY <1>2
  <2>2. PICK m : m = Min(I) /\ m \in I
      BY <1>5, <2>1, MinIsLeast
  <2>3. m \in 1 .. N /\ AbsValue(v - l[m]) <= 1
      BY <1>2, <2>2
  <2> QED
      BY <1>1, <1>3, <1>5, <2>2, <2>3
<1> QED
    BY <1>4, <1>5

\* An event is handled before those that came after it: the work that waits
\* is in the order of the events, after all that is shown or being synced.
OrderInv ==
    /\ props.volume <= arrived
    /\ \A i \in DOMAIN pending : pending[i] <= arrived /\ pending[i] > props.volume
    /\ \A i, j \in DOMAIN pending : i < j => pending[i] < pending[j]
    /\ \A k \in DOMAIN frames : frames[k].for \in Event =>
          /\ frames[k].for <= arrived
          /\ \A i \in DOMAIN pending : pending[i] > frames[k].for

IInv == ValuesInv /\ WorkInv /\ OrderInv

-----------------------------------------------------------------------------
(***************************************************************************)
(* Synchronisations.                                                       *)
(***************************************************************************)

LEMMA TopFrame ==
    ASSUME WorkInv, frames # <<>>
    PROVE  /\ Len(frames) \in Nat \ {0} /\ DOMAIN frames = 1 .. Len(frames)
           /\ Last(frames) = frames[Len(frames)] /\ Last(frames) \in Frame
           /\ Last(frames).for \in Event \cup Caller
           /\ Front(frames) \in Seq(Frame)
           /\ Len(Front(frames)) = Len(frames) - 1
           /\ DOMAIN Front(frames) = 1 .. Len(frames) - 1
           /\ \A k \in 1 .. Len(frames) - 1 : Front(frames)[k] = frames[k]
<1>1. frames \in Seq(Frame)
    BY DEF WorkInv
<1>2. PICK N \in Nat : /\ N = Len(frames) /\ N # 0 /\ DOMAIN frames = 1 .. N
                       /\ \A k \in 1 .. N : frames[k] \in Frame
    BY <1>1, LenProperties, EmptySeq
<1>3. Last(frames) = frames[N] /\ N \in 1 .. N
    BY <1>2 DEF Last
<1>4. PICK f : f = Front(frames)
    OBVIOUS
<1>5. f = SubSeq(frames, 1, N - 1)
    BY <1>2, <1>4 DEF Front
<1>6. \A k \in 1 .. N - 1 : frames[k] \in Frame
    BY <1>2
<1>7. /\ f \in Seq(Frame) /\ Len(f) = N - 1
      /\ \A k \in 1 .. N - 1 : f[k] = frames[k]
  <2>1. /\ f \in Seq(Frame)
        /\ Len(f) = IF 1 <= N - 1 THEN (N - 1) - 1 + 1 ELSE 0
        /\ \A k \in 1 .. (N - 1) - 1 + 1 : f[k] = frames[1 + k - 1]
      BY <1>2, <1>5, <1>6, SubSeqProperties
  <2> QED
      BY <1>2, <2>1
<1>8. DOMAIN f = 1 .. N - 1
    BY <1>7, LenProperties
<1>9. Last(frames).for \in Event \cup Caller
    BY <1>2, <1>3 DEF Frame
<1> QED
    BY <1>2, <1>3, <1>4, <1>7, <1>8, <1>9

LEMMA PendingHead ==
    ASSUME WorkInv, pending # <<>>
    PROVE  /\ Head(pending) \in Event /\ Head(pending) = pending[1]
           /\ 1 \in DOMAIN pending
           /\ Tail(pending) \in Seq(Event)
           /\ \A i \in DOMAIN Tail(pending) :
                 i + 1 \in DOMAIN pending /\ Tail(pending)[i] = pending[i + 1]
<1>1. pending \in Seq(Event)
    BY DEF WorkInv
<1>2. PICK N \in Nat : /\ N = Len(pending) /\ N # 0 /\ DOMAIN pending = 1 .. N
                       /\ \A i \in 1 .. N : pending[i] \in Event
    BY <1>1, LenProperties, EmptySeq
<1>3. /\ Head(pending) \in Event /\ Head(pending) = pending[1]
      /\ Tail(pending) \in Seq(Event) /\ Len(Tail(pending)) = N - 1
      /\ \A i \in 1 .. N - 1 : Tail(pending)[i] = pending[i + 1]
  <2>1. Head(pending) = pending[1] /\ 1 \in 1 .. N
      BY <1>1, <1>2
  <2>2. /\ Tail(pending) \in Seq(Event) /\ Len(Tail(pending)) = Len(pending) - 1
        /\ \A i \in 1 .. Len(pending) - 1 : Tail(pending)[i] = pending[i + 1]
      BY <1>1, <1>2, HeadTailProperties
  <2> QED
      BY <1>2, <2>1, <2>2
<1>4. DOMAIN Tail(pending) = 1 .. N - 1
    BY <1>3, LenProperties
<1>5. \A i \in 1 .. N - 1 : i + 1 \in 1 .. N
    BY <1>2
<1> QED
    BY <1>2, <1>3, <1>4, <1>5

\* The idle callback of an event.
LEMMA ProcessFields ==
    ASSUME ValuesInv, WorkInv, ProcessRcLastChange
    PROVE  /\ PropsOK(props') /\ props'.speeds = props.speeds
           /\ props'.min = props.min /\ props'.max = props.max
           /\ props'.rate = props.rate /\ props'.can = props.can
           /\ \/ /\ frames' = frames
                 /\ props'.volume \in {props.volume, Head(pending)}
              \/ /\ props'.volume = props.volume /\ Len(frames) < MaxFrames
                 /\ frames' = Append(frames, [for |-> Head(pending),
                                              service |-> "av", lost |-> FALSE])
<1>1. pending # <<>>
    BY DEF ProcessRcLastChange
<1>2. PICK n \in Event : n = Head(pending)
    BY <1>1, PendingHead
<1>3. n \in 0 .. MaxEvents
    BY DEF Event
<1>4. PropsOK(props)
    BY DEF ValuesInv
<1>5. CASE synced
  <2>1. props' = ShowVolume(props, n, max_volume) /\ frames' = frames
      BY <1>2, <1>5 DEF ProcessRcLastChange
  <2>2. PICK q : q = props'
      OBVIOUS
  <2>3. PICK m : m = max_volume
      OBVIOUS
  <2>4. /\ PropsOK(q)
        /\ q.speeds = props.speeds /\ q.min = props.min /\ q.max = props.max
        /\ q.rate = props.rate /\ q.status = props.status /\ q.can = props.can
        /\ q.volume = IF m = 0 THEN props.volume ELSE n
      BY <1>3, <1>4, <2>1, <2>2, <2>3, ShowVolumeOK
  <2> QED
      BY <1>2, <2>1, <2>2, <2>4
<1>6. CASE ~synced
  <2>1. StartFrame(n) /\ props' = props
      BY <1>2, <1>6 DEF ProcessRcLastChange
  <2> QED
      BY <1>2, <1>4, <2>1 DEF StartFrame
<1> QED
    BY <1>5, <1>6

\* The end of a synchronisation.
LEMMA RcFetchedFields ==
    ASSUME ValuesInv, WorkInv, NEW ok \in BOOLEAN, RcFetched(ok)
    PROVE  /\ PropsOK(props') /\ max_volume' \in Nat
           /\ props'.speeds = IF own.mpris # <<>> THEN own.mpris
                              ELSE props.speeds
           /\ props'.min = IF own.min # 0 THEN own.min ELSE props.min
           /\ props'.max = IF own.max # 0 THEN own.max ELSE props.max
           /\ props'.rate = props.rate
           /\ \/ props'.volume = props.volume
              \/ Last(frames).for \in Event /\ props'.volume = Last(frames).for
           /\ call' \in [Caller -> Call \cup {None}]
           /\ \A c \in Caller : call'[c] \in {call[c], None}
<1>1. /\ PropsOK(props) /\ RatesOK(own) /\ description \in Descriptions
      /\ max_volume \in Nat /\ call \in [Caller -> Call \cup {None}]
    BY DEF ValuesInv, WorkInv
<1>2. frames # <<>>
    BY DEF RcFetched
<1>3. PICK w \in Event \cup Caller : w = Last(frames).for
    BY <1>2, TopFrame
<1>4. PICK a : a = AddPlayerSpeedProps(props, own)
    OBVIOUS
<1>5. PICK p : p = [a EXCEPT !.can = AllActions \cup (@ \cap {"ByteSeek"})]
    OBVIOUS
<1>6. EndFrame(w, p)
    BY <1>3, <1>4, <1>5 DEF RcFetched
<1>7. /\ PropsOK(a)
      /\ a.speeds = IF own.mpris # <<>> THEN own.mpris ELSE props.speeds
      /\ a.min = IF own.min # 0 THEN own.min ELSE props.min
      /\ a.max = IF own.max # 0 THEN own.max ELSE props.max
      /\ a.rate = props.rate /\ a.volume = props.volume
    BY <1>1, <1>4, AddPlayerSpeedPropsOK
<1>8. /\ PropsOK(p) /\ p.speeds = a.speeds /\ p.volume = a.volume
      /\ p.min = a.min /\ p.max = a.max /\ p.rate = a.rate
  <2>1. PICK x : x = AllActions \cup (a.can \cap {"ByteSeek"})
      OBVIOUS
  <2>2. p = [a EXCEPT !.can = x]
      BY <1>5, <2>1
  <2> QED
      BY <1>7, <2>2, CanSet
<1>9. max_volume' \in Nat
  <2>1. description.volume \in Nat
      BY <1>1, PlaybackAssumption
  <2> QED
      BY <1>1, <2>1 DEF RcFetched, FetchedVolume
<1>10. CASE w \in Caller
  <2>1. props' = p /\ call' = [call EXCEPT ![w] = None]
      BY <1>6, <1>10 DEF EndFrame
  <2> QED
      BY <1>1, <1>7, <1>8, <1>9, <2>1
<1>11. CASE w \notin Caller
  <2>1. w \in 0 .. MaxEvents
      BY <1>11 DEF Event
  <2>2. PICK q, m : q = props' /\ m = max_volume'
      OBVIOUS
  <2>3. q = ShowVolume(p, w, m) /\ call' = call
      BY <1>6, <1>11, <2>2 DEF EndFrame
  <2>4. /\ PropsOK(q)
        /\ q.speeds = p.speeds /\ q.min = p.min /\ q.max = p.max
        /\ q.rate = p.rate /\ q.status = p.status /\ q.can = p.can
        /\ q.volume = IF m = 0 THEN p.volume ELSE w
      BY <1>8, <2>1, <2>3, ShowVolumeOK
  <2> QED
      BY <1>1, <1>3, <1>7, <1>8, <1>9, <1>11, <2>2, <2>3, <2>4
<1> QED
    BY <1>10, <1>11

-----------------------------------------------------------------------------
(***************************************************************************)
(* The invariant holds.                                                    *)
(***************************************************************************)

LEMMA InitInv ==
    Init => IInv
<1> SUFFICES ASSUME Init PROVE IInv
    OBVIOUS
<1> USE PlaybackAssumption
<1>1. /\ <<>> \in Seq(Int) /\ <<>> \in Seq(Rational) /\ <<>> \in Seq(Frame)
      /\ <<>> \in Seq(Event) /\ Len(<<>>) = 0 /\ DOMAIN <<>> = {}
    OBVIOUS
<1>2. PropsOK(props)
  <2>1. props = [speeds |-> <<>>, min |-> 0, max |-> 0, rate |-> None,
                 status |-> None, can |-> {}, volume |-> 0]
      BY DEF Init
  <2>2. 0 \in 0 .. MaxEvents
      OBVIOUS
  <2> QED
      BY <1>1, <2>1, <2>2 DEF PropsOK
<1>3. ValuesInv
  <2>1. rate \in Speed
      BY DEF Init, One, Speed
  <2> QED
      BY <1>1, <1>2, <2>1, NoRatesOK DEF Init, ValuesInv
<1>4. WorkInv
    BY <1>1 DEF Init, WorkInv
<1>5. OrderInv
  <2>1. props.volume = 0 /\ arrived = 0
      BY DEF Init
  <2> QED
      BY <1>1, <2>1 DEF Init, OrderInv
<1> QED
    BY <1>3, <1>4, <1>5 DEF IInv

\* Set(Rate): the value found is one of the list.
LEMMA SetRateToFields ==
    ASSUME ValuesInv, NEW v \in Int, IndexOfRate(v) \in DOMAIN RateList.upnp,
           SetRate(IndexOfRate(v))
    PROVE  \E i \in DOMAIN RateList.upnp :
              /\ i \in DOMAIN RateList.mpris /\ SetRate(i)
              /\ PropsOK(props') /\ props'.volume = props.volume
              /\ props'.can = props.can /\ props'.speeds = props.speeds
              /\ props'.min = props.min /\ props'.max = props.max
              /\ \/ rate' = rate /\ props'.rate = props.rate
                 \/ /\ rate' = RateList.upnp[i]
                    /\ props'.rate = [num |-> RateList.mpris[i], den |-> 100]
              /\ rate' \in Speed
<1>1. RateList.upnp \in Seq(Rational) /\ RateList.mpris \in Seq(Int)
    BY RateListTypes
<1>2. PICK i : i = IndexOfRate(v) /\ i \in DOMAIN RateList.upnp
    OBVIOUS
<1>3. i # 0
    BY <1>1, <1>2, LenProperties
<1>4. i \in DOMAIN RateList.mpris
    BY <1>1, <1>2, <1>3, IndexOfValueOK DEF IndexOfRate
<1>5. SetRate(i)
    BY <1>2
<1> QED
    BY <1>2, <1>4, <1>5, SetRateFields

LEMMA ValuesStep ==
    ASSUME ValuesInv, WorkInv, [Next]_vars
    PROVE  ValuesInv'
<1> USE DEF ValuesInv
<1>1. CASE UNCHANGED vars
    BY <1>1 DEF vars, PropsOK, RatesOK
<1>2. ASSUME NEW e \in AvEvents, LastChange(e)
      PROVE  ValuesInv'
  <2>1. PropsOK(props')
      BY <1>2, LastChangeFields
  <2>2. dlna' \in Seq(Rational)
      BY <1>2, LastChangeFields DEF RatesOK
  <2>3. rate' \in Speed
      BY <1>2, PlaybackAssumption DEF LastChange
  <2>4. UNCHANGED <<description, own, max_volume, synced>>
      BY <1>2 DEF LastChange
  <2> QED
      BY <2>1, <2>2, <2>3, <2>4
<1>3. CASE RcLastChange
    BY <1>3 DEF RcLastChange
<1>4. CASE ProcessRcLastChange
  <2>1. PropsOK(props')
      BY <1>4, ProcessFields
  <2>2. UNCHANGED <<description, own, dlna, rate, max_volume, synced>>
      BY <1>4 DEF ProcessRcLastChange
  <2> QED
      BY <2>1, <2>2
<1>5. ASSUME NEW ok \in BOOLEAN, AvFetched(ok)
      PROVE  ValuesInv'
  <2>1. description.speeds \in Seq(Speed)
      BY PlaybackAssumption DEF ValuesInv
  <2>2. RatesOK(own')
    <3>1. CASE ok /\ description.speeds # <<>>
      <4>1. own' = RatesValues(SortSpeeds(description.speeds))
          BY <1>5, <3>1 DEF AvFetched
      <4> QED
          BY <2>1, <3>1, <4>1, OwnRatesOK
    <3>2. CASE ~(ok /\ description.speeds # <<>>)
        BY <1>5, <3>2 DEF AvFetched
    <3> QED
        BY <3>1, <3>2
  <2>3. UNCHANGED <<description, dlna, rate, max_volume, synced, props>>
      BY <1>5 DEF AvFetched
  <2> QED
      BY <2>2, <2>3
<1>6. ASSUME NEW ok \in BOOLEAN, RcFetched(ok)
      PROVE  ValuesInv'
  <2>1. PropsOK(props') /\ max_volume' \in Nat
      BY <1>6, RcFetchedFields
  <2>2. synced' = TRUE /\ UNCHANGED <<description, own, dlna, rate>>
      BY <1>6 DEF RcFetched
  <2> QED
      BY <2>1, <2>2
<1>7. CASE LostDevice
    BY <1>7 DEF LostDevice
<1>8. ASSUME NEW S \in SUBSET (DOMAIN frames) \ {{}}, ContextLost(S)
      PROVE  ValuesInv'
    BY <1>8 DEF ContextLost
<1>9. ASSUME NEW c \in Caller, Get(c)
      PROVE  ValuesInv'
    BY <1>9 DEF Get
<1>10. ASSUME NEW c \in Caller, NEW v \in Asked, SetRateTo(c, v)
       PROVE  ValuesInv'
  <2>1. PropsOK(props') /\ rate' \in Speed
      BY <1>10, SetRateToFields, PlaybackAssumption DEF SetRateTo
  <2>2. UNCHANGED <<description, own, dlna, max_volume, synced>>
      BY <1>10 DEF SetRateTo
  <2> QED
      BY <2>1, <2>2
<1>11. ASSUME NEW c \in Caller, NEW v \in Asked, SetRateRefused(c, v)
       PROVE  ValuesInv'
    BY <1>11 DEF SetRateRefused
<1>12. ASSUME NEW c \in Caller, NEW op, Begin(c, op)
       PROVE  ValuesInv'
    BY <1>12 DEF Begin
<1>13. ASSUME NEW c \in Caller, UriSet(c)
       PROVE  ValuesInv'
  <2>1. /\ dlna' = <<>> /\ rate' = One /\ PropsOK(props')
      BY <1>13, ResetFields DEF UriSet
  <2>2. UNCHANGED <<description, own, max_volume, synced>>
      BY <1>13 DEF UriSet
  <2>3. <<>> \in Seq(Rational) /\ One \in Speed
      BY DEF One, Speed
  <2> QED
      BY <2>1, <2>2, <2>3
<1>14. ASSUME NEW c \in Caller, UriRefused(c)
       PROVE  ValuesInv'
    BY <1>14 DEF UriRefused
<1>15. ASSUME NEW c \in Caller, NEW ok, Played(c, ok)
       PROVE  ValuesInv'
    BY <1>15 DEF Played
<1>16. ASSUME NEW c \in Caller, Complete(c)
       PROVE  ValuesInv'
    BY <1>16 DEF Complete
<1> QED
    BY <1>1, <1>2, <1>3, <1>4, <1>5, <1>6, <1>7, <1>8, <1>9, <1>10, <1>11,
       <1>12, <1>13, <1>14, <1>15, <1>16 DEF Next

\* Synchronisations are begun with one push, and keep whom they are for.
LEMMA FramesPushed ==
    ASSUME WorkInv, Len(frames) < MaxFrames, NEW w \in Event \cup Caller,
           frames' = Append(frames, [for |-> w, service |-> "av", lost |-> FALSE])
    PROVE  /\ frames' \in Seq(Frame) /\ Len(frames') <= MaxFrames
           /\ \A k \in DOMAIN frames' :
                 \/ frames'[k].for = w
                 \/ k \in DOMAIN frames /\ frames'[k].for = frames[k].for
<1>1. frames \in Seq(Frame) /\ MaxFrames \in Nat
    BY PlaybackAssumption DEF WorkInv
<1>2. PICK N \in Nat : N = Len(frames) /\ DOMAIN frames = 1 .. N
    BY <1>1, LenProperties
<1>3. PICK x \in Frame : x = [for |-> w, service |-> "av", lost |-> FALSE]
  <2>1. [for |-> w, service |-> "av", lost |-> FALSE] \in Frame
      BY DEF Frame
  <2> QED
      BY <2>1
<1>4. PICK f : f = frames'
    OBVIOUS
<1>5. /\ f \in Seq(Frame) /\ Len(f) = N + 1
      /\ \A k \in 1 .. N : f[k] = frames[k]
      /\ f[N + 1] = x
    BY <1>1, <1>2, <1>3, <1>4, AppendProperties
<1>6. DOMAIN f = 1 .. N + 1
    BY <1>5, LenProperties
<1> QED
    BY <1>1, <1>2, <1>3, <1>4, <1>5, <1>6

LEMMA FramesKept ==
    ASSUME WorkInv, NEW f, DOMAIN f = DOMAIN frames,
           \A k \in DOMAIN frames :
              \/ f[k] = frames[k]
              \/ f[k] = [frames[k] EXCEPT !.service = "rc"]
              \/ f[k] = [frames[k] EXCEPT !.lost = TRUE],
           f = [k \in DOMAIN f |-> f[k]]
    PROVE  /\ f \in Seq(Frame) /\ Len(f) <= MaxFrames
           /\ \A k \in DOMAIN frames : f[k].for = frames[k].for
<1>1. frames \in Seq(Frame) /\ Len(frames) <= MaxFrames
    BY DEF WorkInv
<1>2. PICK N \in Nat : N = Len(frames) /\ DOMAIN frames = 1 .. N
    BY <1>1, LenProperties
<1>3. ASSUME NEW k \in 1 .. N
      PROVE  f[k] \in Frame /\ f[k].for = frames[k].for
  <2>1. PICK x \in Frame : x = frames[k]
      BY <1>1, <1>2, LenProperties
  <2>2. PICK y : y = f[k]
      OBVIOUS
  <2>3. \/ y = x
        \/ y = [x EXCEPT !.service = "rc"]
        \/ y = [x EXCEPT !.lost = TRUE]
      BY <1>2, <2>1, <2>2
  <2>4. y \in Frame /\ y.for = x.for
      BY <2>3 DEF Frame
  <2> QED
      BY <2>1, <2>2, <2>4
<1>4. f \in [1 .. N -> Frame]
    BY <1>2, <1>3
<1>5. f \in Seq(Frame) /\ Len(f) = N
    BY <1>4
<1> QED
    BY <1>1, <1>2, <1>3, <1>5

LEMMA AvFetchedFrames ==
    ASSUME WorkInv, NEW ok, AvFetched(ok)
    PROVE  /\ frames' \in Seq(Frame) /\ Len(frames') <= MaxFrames
           /\ DOMAIN frames' = DOMAIN frames
           /\ \A k \in DOMAIN frames : frames'[k].for = frames[k].for
<1>1. PICK f : f = frames'
    OBVIOUS
<1>2. PICK N : N = Len(frames)
    OBVIOUS
<1>3. f = [frames EXCEPT ![N].service = "rc"]
    BY <1>1, <1>2 DEF AvFetched
<1>4. /\ DOMAIN f = DOMAIN frames /\ f = [k \in DOMAIN f |-> f[k]]
      /\ \A k \in DOMAIN frames :
            \/ f[k] = frames[k]
            \/ f[k] = [frames[k] EXCEPT !.service = "rc"]
  <2>1. frames \in Seq(Frame)
      BY DEF WorkInv
  <2>2. frames \in [DOMAIN frames -> Frame]
      BY <2>1, LenProperties
  <2> QED
      BY <1>3, <2>2
<1> QED
    BY <1>1, <1>4, FramesKept

LEMMA ContextLostFrames ==
    ASSUME WorkInv, NEW S, ContextLost(S)
    PROVE  /\ frames' \in Seq(Frame) /\ Len(frames') <= MaxFrames
           /\ DOMAIN frames' = DOMAIN frames
           /\ \A k \in DOMAIN frames : frames'[k].for = frames[k].for
<1>1. PICK f : f = frames'
    OBVIOUS
<1>2. f = [k \in DOMAIN frames |-> [frames[k] EXCEPT !.lost = @ \/ k \in S]]
    BY <1>1 DEF ContextLost
<1>3. DOMAIN f = DOMAIN frames /\ f = [k \in DOMAIN f |-> f[k]]
    BY <1>2
<1>4. ASSUME NEW k \in DOMAIN frames
      PROVE  f[k] = frames[k] \/ f[k] = [frames[k] EXCEPT !.lost = TRUE]
  <2>1. PICK x \in Frame : x = frames[k]
    <3>1. frames \in Seq(Frame)
        BY DEF WorkInv
    <3> QED
        BY <3>1, LenProperties
  <2>2. f[k] = [x EXCEPT !.lost = x.lost \/ k \in S]
      BY <1>2, <2>1
  <2>3. x.lost \in BOOLEAN
      BY DEF Frame
  <2>4. CASE x.lost \/ k \in S
      BY <2>1, <2>2, <2>4
  <2>5. CASE ~x.lost /\ k \notin S
    <3>1. [x EXCEPT !.lost = FALSE] = x
        BY <2>3, <2>5 DEF Frame
    <3> QED
        BY <2>1, <2>2, <2>3, <2>5, <3>1
  <2> QED
      BY <2>4, <2>5
<1> QED
    BY <1>1, <1>3, <1>4, FramesKept

LEMMA FrontFrames ==
    ASSUME WorkInv, frames # <<>>, frames' = Front(frames)
    PROVE  /\ frames' \in Seq(Frame) /\ Len(frames') <= MaxFrames
           /\ \A k \in DOMAIN frames' :
                 k \in DOMAIN frames /\ frames'[k].for = frames[k].for
<1>1. Len(frames) <= MaxFrames /\ MaxFrames \in Nat
    BY PlaybackAssumption DEF WorkInv
<1>2. PICK N \in Nat : N = Len(frames) /\ N # 0 /\ DOMAIN frames = 1 .. N
    BY TopFrame
<1>3. /\ frames' \in Seq(Frame) /\ Len(frames') = N - 1
      /\ DOMAIN frames' = 1 .. N - 1
      /\ \A k \in 1 .. N - 1 : frames'[k] = frames[k]
    BY <1>2, TopFrame
<1> QED
    BY <1>1, <1>2, <1>3

LEMMA CallsOf ==
    ASSUME WorkInv, NEW c \in Caller
    PROVE  /\ call[c] # None => call[c] \in Call
           /\ \A x \in Call \cup {None} :
                 [call EXCEPT ![c] = x] \in [Caller -> Call \cup {None}]
BY DEF WorkInv

LEMMA CallToIsCall ==
    ASSUME NEW op \in {"get", "uri", "open", "play", "done"}
    PROVE  CallTo(op) \in Call
BY DEF CallTo, Call

LEMMA PendingAppended ==
    ASSUME WorkInv, RcLastChange
    PROVE  /\ arrived' = arrived + 1 /\ arrived' \in Event
           /\ pending' \in Seq(Event)
           /\ \E N \in Nat : /\ DOMAIN pending = 1 .. N
                             /\ DOMAIN pending' = 1 .. N + 1
                             /\ \A i \in 1 .. N : pending'[i] = pending[i]
                             /\ pending'[N + 1] = arrived'
<1>1. pending \in Seq(Event) /\ arrived \in 0 .. MaxEvents /\ MaxEvents \in Nat
    BY PlaybackAssumption DEF WorkInv
<1>2. PICK n \in Event : n = arrived' /\ n = arrived + 1
    BY <1>1 DEF RcLastChange, Event
<1>3. PICK N \in Nat : N = Len(pending) /\ DOMAIN pending = 1 .. N
    BY <1>1, LenProperties
<1>4. PICK p : p = pending'
    OBVIOUS
<1>5. p = Append(pending, n)
    BY <1>2, <1>4 DEF RcLastChange
<1>6. /\ p \in Seq(Event) /\ Len(p) = N + 1
      /\ \A i \in 1 .. N : p[i] = pending[i]
      /\ p[N + 1] = n
    BY <1>1, <1>3, <1>5, AppendProperties
<1>7. DOMAIN p = 1 .. N + 1
    BY <1>6, LenProperties
<1> QED
    BY <1>2, <1>3, <1>4, <1>6, <1>7

LEMMA WorkStep ==
    ASSUME ValuesInv, WorkInv, [Next]_vars
    PROVE  WorkInv'
<1>1. CASE UNCHANGED vars
    BY <1>1 DEF vars, WorkInv
<1>2. ASSUME NEW e \in AvEvents, LastChange(e)
      PROVE  WorkInv'
    BY <1>2 DEF LastChange, WorkInv
<1>3. CASE RcLastChange
  <2>1. arrived' \in 0 .. MaxEvents /\ pending' \in Seq(Event)
      BY <1>3, PendingAppended DEF Event
  <2>2. UNCHANGED <<frames, call>>
      BY <1>3 DEF RcLastChange
  <2> QED
      BY <2>1, <2>2 DEF WorkInv
<1>4. CASE ProcessRcLastChange
  <2>1. pending # <<>> /\ pending' = Tail(pending) /\ UNCHANGED <<arrived, call>>
      BY <1>4 DEF ProcessRcLastChange
  <2>2. pending' \in Seq(Event) /\ Head(pending) \in Event
      BY <2>1, PendingHead
  <2>3. frames' \in Seq(Frame) /\ Len(frames') <= MaxFrames
    <3>1. CASE frames' = frames
        BY <3>1 DEF WorkInv
    <3>2. CASE frames' # frames
      <4>1. /\ Len(frames) < MaxFrames
            /\ frames' = Append(frames, [for |-> Head(pending),
                                         service |-> "av", lost |-> FALSE])
          BY <1>4, <3>2, ProcessFields
      <4> QED
          BY <2>2, <4>1, FramesPushed
    <3> QED
        BY <3>1, <3>2
  <2> QED
      BY <2>1, <2>2, <2>3 DEF WorkInv
<1>5. ASSUME NEW ok \in BOOLEAN, AvFetched(ok)
      PROVE  WorkInv'
  <2>1. frames' \in Seq(Frame) /\ Len(frames') <= MaxFrames
      BY <1>5, AvFetchedFrames
  <2>2. UNCHANGED <<pending, arrived, call>>
      BY <1>5 DEF AvFetched
  <2> QED
      BY <2>1, <2>2 DEF WorkInv
<1>6. ASSUME NEW ok \in BOOLEAN, RcFetched(ok)
      PROVE  WorkInv'
  <2>1. frames # <<>> /\ frames' = Front(frames) /\ UNCHANGED <<pending, arrived>>
      BY <1>6 DEF RcFetched, EndFrame
  <2>2. frames' \in Seq(Frame) /\ Len(frames') <= MaxFrames
      BY <2>1, FrontFrames
  <2>3. call' \in [Caller -> Call \cup {None}]
      BY <1>6, RcFetchedFields
  <2> QED
      BY <2>1, <2>2, <2>3 DEF WorkInv
<1>7. CASE LostDevice
  <2>1. frames # <<>> /\ frames' = Front(frames) /\ UNCHANGED <<pending, arrived>>
      BY <1>7 DEF LostDevice
  <2>2. frames' \in Seq(Frame) /\ Len(frames') <= MaxFrames
      BY <2>1, FrontFrames
  <2>3. call' \in [Caller -> Call \cup {None}]
      BY <1>7 DEF LostDevice, WorkInv
  <2> QED
      BY <2>1, <2>2, <2>3 DEF WorkInv
<1>8. ASSUME NEW S \in SUBSET (DOMAIN frames) \ {{}}, ContextLost(S)
      PROVE  WorkInv'
  <2>1. frames' \in Seq(Frame) /\ Len(frames') <= MaxFrames
      BY <1>8, ContextLostFrames
  <2>2. UNCHANGED <<pending, arrived, call>>
      BY <1>8 DEF ContextLost
  <2> QED
      BY <2>1, <2>2 DEF WorkInv
<1>9. ASSUME NEW c \in Caller, Get(c)
      PROVE  WorkInv'
  <2>1. /\ Len(frames) < MaxFrames
        /\ frames' = Append(frames, [for |-> c, service |-> "av", lost |-> FALSE])
      BY <1>9 DEF Get, StartFrame
  <2>2. frames' \in Seq(Frame) /\ Len(frames') <= MaxFrames
      BY <2>1, FramesPushed
  <2>3. call' \in [Caller -> Call \cup {None}] /\ UNCHANGED <<pending, arrived>>
      BY <1>9, CallsOf, CallToIsCall DEF Get
  <2> QED
      BY <2>2, <2>3 DEF WorkInv
<1>10. ASSUME NEW c \in Caller, NEW x \in Call \cup {None},
              call' = [call EXCEPT ![c] = x], UNCHANGED <<frames, pending, arrived>>
       PROVE  WorkInv'
    BY <1>10, CallsOf DEF WorkInv
<1>11. ASSUME NEW c \in Caller, NEW refused \in BOOLEAN, PlayIfPlaying(c, refused),
              UNCHANGED <<frames, pending, arrived>>
       PROVE  WorkInv'
  <2>1. PICK x : x = IF props.status = "Playing"
                     THEN [op |-> "play", error |-> refused, refused |-> refused]
                     ELSE None
      OBVIOUS
  <2>2. x \in Call \cup {None}
      BY <2>1 DEF Call
  <2>3. call' = [call EXCEPT ![c] = x]
      BY <1>11, <2>1 DEF PlayIfPlaying
  <2> QED
      BY <1>10, <1>11, <2>2, <2>3
<1>12. ASSUME NEW c \in Caller, NEW v \in Asked, SetRateTo(c, v)
       PROVE  WorkInv'
    BY <1>11, <1>12 DEF SetRateTo
<1>13. ASSUME NEW c \in Caller, NEW v \in Asked, SetRateRefused(c, v)
       PROVE  WorkInv'
    BY <1>11, <1>13 DEF SetRateRefused
<1>14. ASSUME NEW c \in Caller, NEW op \in {"play", "uri", "open"}, Begin(c, op)
       PROVE  WorkInv'
    BY <1>10, <1>14, CallToIsCall DEF Begin
<1>15. ASSUME NEW c \in Caller, UriSet(c)
       PROVE  WorkInv'
  <2>1. PICK x : x = IF call[c].op = "open" THEN CallTo("play") ELSE None
      OBVIOUS
  <2>2. x \in Call \cup {None}
      BY <2>1, CallToIsCall
  <2>3. call' = [call EXCEPT ![c] = x] /\ UNCHANGED <<frames, pending, arrived>>
      BY <1>15, <2>1 DEF UriSet
  <2> QED
      BY <1>10, <2>2, <2>3
<1>16. ASSUME NEW c \in Caller, UriRefused(c)
       PROVE  WorkInv'
  <2>1. PICK y \in Call : y = call[c]
      BY <1>16, CallsOf DEF UriRefused
  <2>2. PICK x : x = [y EXCEPT !.op = "done", !.error = TRUE]
      OBVIOUS
  <2>3. x \in Call
      BY <2>2 DEF Call
  <2>4. call' = [call EXCEPT ![c] = x] /\ UNCHANGED <<frames, pending, arrived>>
      BY <1>16, <2>1, <2>2 DEF UriRefused
  <2> QED
      BY <1>10, <2>3, <2>4
<1>17. ASSUME NEW c \in Caller, NEW ok \in BOOLEAN, Played(c, ok)
       PROVE  WorkInv'
  <2>1. PICK y \in Call : y = call[c]
      BY <1>17, CallsOf DEF Played
  <2>2. PICK x : x = [y EXCEPT !.op = "done", !.error = y.error \/ ~ok]
      OBVIOUS
  <2>3. x \in Call
      BY <2>2 DEF Call
  <2>4. call' = [call EXCEPT ![c] = x] /\ UNCHANGED <<frames, pending, arrived>>
      BY <1>17, <2>1, <2>2 DEF Played
  <2> QED
      BY <1>10, <2>3, <2>4
<1>18. ASSUME NEW c \in Caller, Complete(c)
       PROVE  WorkInv'
    BY <1>10, <1>18 DEF Complete
<1> QED
    BY <1>1, <1>2, <1>3, <1>4, <1>5, <1>6, <1>7, <1>8, <1>9, <1>12, <1>13,
       <1>14, <1>15, <1>16, <1>17, <1>18 DEF Next

\* The order depends on the volume shown, the events, and whom the
\* synchronisations are for.
LEMMA OrderKept ==
    ASSUME OrderInv, props'.volume = props.volume,
           UNCHANGED <<pending, arrived>>,
           \A k \in DOMAIN frames' :
              \E j \in DOMAIN frames : frames'[k].for = frames[j].for
    PROVE  OrderInv'
BY DEF OrderInv

LEMMA OrderStep ==
    ASSUME ValuesInv, WorkInv, OrderInv, [Next]_vars
    PROVE  OrderInv'
<1>a. Caller \cap Event = {} /\ Event \subseteq Nat
    BY PlaybackAssumption DEF Event
<1>b. /\ arrived \in Nat
      /\ \A i \in DOMAIN pending : pending[i] \in Event
  <2>1. arrived \in 0 .. MaxEvents /\ pending \in Seq(Event)
      BY DEF WorkInv
  <2> QED
      BY <2>1, LenProperties
<1>c. props.volume \in Nat
    BY DEF ValuesInv, PropsOK
<1>1. CASE UNCHANGED vars
    BY <1>1, OrderKept DEF vars
<1>2. ASSUME NEW e \in AvEvents, LastChange(e)
      PROVE  OrderInv'
  <2>1. UNCHANGED <<pending, arrived, frames>>
      BY <1>2 DEF LastChange
  <2>2. props'.volume = props.volume
      BY <1>2, LastChangeFields
  <2> QED
      BY <2>1, <2>2, OrderKept
<1>3. CASE RcLastChange
  <2>1. UNCHANGED <<frames, props>>
      BY <1>3 DEF RcLastChange
  <2>2. PICK N \in Nat : /\ DOMAIN pending = 1 .. N
                         /\ DOMAIN pending' = 1 .. N + 1
                         /\ \A i \in 1 .. N : pending'[i] = pending[i]
                         /\ pending'[N + 1] = arrived'
      BY <1>3, PendingAppended
  <2>3. arrived' = arrived + 1
      BY <1>3, PendingAppended
  <2>4. ASSUME NEW i \in 1 .. N + 1
        PROVE  /\ pending'[i] <= arrived' /\ pending'[i] > props.volume
               /\ \A k \in DOMAIN frames : frames[k].for \in Event =>
                     pending'[i] > frames[k].for
    <3>1. CASE i \in 1 .. N
      <4>1. /\ pending'[i] = pending[i] /\ pending[i] <= arrived
            /\ pending[i] > props.volume /\ pending[i] \in Nat
            /\ \A k \in DOMAIN frames : frames[k].for \in Event =>
                  pending[i] > frames[k].for
          BY <1>a, <1>b, <2>2, <3>1 DEF OrderInv
      <4> QED
          BY <1>b, <2>3, <4>1
    <3>2. CASE i = N + 1
      <4>1. pending'[i] = arrived + 1
          BY <2>2, <2>3, <3>2
      <4>2. /\ props.volume <= arrived
            /\ \A k \in DOMAIN frames : frames[k].for \in Event =>
                  frames[k].for <= arrived
          BY DEF OrderInv
      <4>3. pending'[i] <= arrived' /\ pending'[i] > props.volume
          BY <1>b, <1>c, <2>3, <4>1, <4>2
      <4>4. ASSUME NEW k \in DOMAIN frames, frames[k].for \in Event
            PROVE  pending'[i] > frames[k].for
        <5>1. PICK n \in Nat : n = frames[k].for /\ n <= arrived
            BY <1>a, <4>2, <4>4
        <5> QED
            BY <1>b, <4>1, <5>1
      <4> QED
          BY <4>3, <4>4
    <3> QED
        BY <3>1, <3>2
  <2>5. ASSUME NEW i \in 1 .. N + 1, NEW j \in 1 .. N + 1, i < j
        PROVE  pending'[i] < pending'[j]
    <3>1. i \in 1 .. N
        BY <2>5
    <3>2. pending'[i] = pending[i] /\ pending[i] <= arrived /\ pending[i] \in Nat
        BY <1>a, <1>b, <2>2, <3>1 DEF OrderInv
    <3>3. CASE j \in 1 .. N
        BY <2>2, <2>5, <3>1, <3>3 DEF OrderInv
    <3>4. CASE j = N + 1
        BY <1>b, <2>2, <2>3, <3>2, <3>4
    <3> QED
        BY <3>3, <3>4
  <2>6. props.volume <= arrived'
      BY <1>b, <1>c, <2>3 DEF OrderInv
  <2>7. \A k \in DOMAIN frames : frames[k].for \in Event => frames[k].for <= arrived'
    <3> SUFFICES ASSUME NEW k \in DOMAIN frames, frames[k].for \in Event
                 PROVE  frames[k].for <= arrived'
        OBVIOUS
    <3>1. PICK n \in Nat : n = frames[k].for /\ n <= arrived
        BY <1>a DEF OrderInv
    <3> QED
        BY <1>b, <2>3, <3>1
  <2> QED
      BY <2>1, <2>2, <2>4, <2>5, <2>6, <2>7 DEF OrderInv
<1>4. CASE ProcessRcLastChange
  <2>1. pending # <<>> /\ pending' = Tail(pending) /\ UNCHANGED arrived
      BY <1>4 DEF ProcessRcLastChange
  <2>2. PICK h \in Event : h = Head(pending) /\ h = pending[1] /\ 1 \in DOMAIN pending
      BY <2>1, PendingHead
  <2>3. \A i \in DOMAIN pending' :
            i + 1 \in DOMAIN pending /\ pending'[i] = pending[i + 1]
      BY <2>1, PendingHead
  <2>4. DOMAIN pending \subseteq Nat \ {0} /\ DOMAIN pending' \subseteq Nat \ {0}
    <3>1. pending \in Seq(Event) /\ pending' \in Seq(Event)
        BY <2>1, PendingHead DEF WorkInv
    <3> QED
        BY <3>1, LenProperties
  <2>5. \A i \in DOMAIN pending' :
            /\ pending'[i] <= arrived /\ pending'[i] > props.volume
            /\ pending'[i] > h
    <3> TAKE i \in DOMAIN pending'
    <3>1. 1 < i + 1
        BY <2>4
    <3> QED
        BY <2>2, <2>3, <3>1 DEF OrderInv
  <2>6. \A i, j \in DOMAIN pending' : i < j => pending'[i] < pending'[j]
    <3> TAKE i, j \in DOMAIN pending'
    <3>1. i < j => i + 1 < j + 1
        BY <2>4
    <3> QED
        BY <2>3, <3>1 DEF OrderInv
  <2>7. h <= arrived
      BY <2>2 DEF OrderInv
  <2>8. props'.volume \in {props.volume, h}
      BY <1>4, <2>2, ProcessFields
  <2>9. \A k \in DOMAIN frames' :
            \/ frames'[k].for = h
            \/ k \in DOMAIN frames /\ frames'[k].for = frames[k].for
    <3>1. CASE frames' = frames
        BY <3>1
    <3>2. CASE frames' # frames
      <4>1. /\ Len(frames) < MaxFrames
            /\ frames' = Append(frames, [for |-> h,
                                         service |-> "av", lost |-> FALSE])
          BY <1>4, <2>2, <3>2, ProcessFields
      <4> QED
          BY <4>1, FramesPushed
    <3> QED
        BY <3>1, <3>2
  <2>10. \A k \in DOMAIN frames : frames[k].for \in Event =>
            /\ frames[k].for <= arrived
            /\ \A i \in DOMAIN pending' : pending'[i] > frames[k].for
      BY <2>3 DEF OrderInv
  <2>11. /\ props'.volume <= arrived
         /\ \A i \in DOMAIN pending' : pending'[i] > props'.volume
      BY <2>5, <2>7, <2>8 DEF OrderInv
  <2>12. \A k \in DOMAIN frames' : frames'[k].for \in Event =>
            /\ frames'[k].for <= arrived
            /\ \A i \in DOMAIN pending' : pending'[i] > frames'[k].for
      BY <2>5, <2>7, <2>9, <2>10
  <2> QED
      BY <2>1, <2>5, <2>6, <2>11, <2>12 DEF OrderInv
<1>5. ASSUME NEW ok \in BOOLEAN, AvFetched(ok)
      PROVE  OrderInv'
  <2>1. UNCHANGED <<pending, arrived, props>>
      BY <1>5 DEF AvFetched
  <2> QED
      BY <1>5, <2>1, AvFetchedFrames, OrderKept
<1>6. ASSUME NEW ok \in BOOLEAN, RcFetched(ok)
      PROVE  OrderInv'
  <2>1. frames # <<>> /\ frames' = Front(frames) /\ UNCHANGED <<pending, arrived>>
      BY <1>6 DEF RcFetched, EndFrame
  <2>2. \A k \in DOMAIN frames' :
            k \in DOMAIN frames /\ frames'[k].for = frames[k].for
      BY <2>1, FrontFrames
  <2>3. CASE props'.volume = props.volume
      BY <2>1, <2>2, <2>3, OrderKept
  <2>4. CASE props'.volume # props.volume
    <3>1. Last(frames).for \in Event /\ props'.volume = Last(frames).for
        BY <1>6, <2>4, RcFetchedFields
    <3>2. PICK n : /\ n \in DOMAIN frames /\ frames[n].for \in Event
                   /\ props'.volume = frames[n].for
        BY <2>1, <3>1, TopFrame
    <3>3. /\ props'.volume <= arrived
          /\ \A i \in DOMAIN pending : pending[i] > props'.volume
        BY <3>2 DEF OrderInv
    <3> QED
        BY <2>1, <2>2, <3>3 DEF OrderInv
  <2> QED
      BY <2>3, <2>4
<1>7. CASE LostDevice
  <2>1. frames # <<>> /\ frames' = Front(frames) /\ UNCHANGED <<pending, arrived, props>>
      BY <1>7 DEF LostDevice
  <2> QED
      BY <2>1, FrontFrames, OrderKept
<1>8. ASSUME NEW S \in SUBSET (DOMAIN frames) \ {{}}, ContextLost(S)
      PROVE  OrderInv'
  <2>1. UNCHANGED <<pending, arrived, props>>
      BY <1>8 DEF ContextLost
  <2> QED
      BY <1>8, <2>1, ContextLostFrames, OrderKept
<1>9. ASSUME NEW c \in Caller, Get(c)
      PROVE  OrderInv'
  <2>1. /\ Len(frames) < MaxFrames
        /\ frames' = Append(frames, [for |-> c, service |-> "av", lost |-> FALSE])
        /\ UNCHANGED <<pending, arrived, props>>
      BY <1>9 DEF Get, StartFrame
  <2>2. \A k \in DOMAIN frames' :
            \/ frames'[k].for = c
            \/ k \in DOMAIN frames /\ frames'[k].for = frames[k].for
      BY <2>1, FramesPushed
  <2>3. c \notin Event
      BY <1>a
  <2> QED
      BY <2>1, <2>2, <2>3 DEF OrderInv
<1>10. ASSUME NEW c \in Caller, NEW v \in Asked, SetRateTo(c, v)
       PROVE  OrderInv'
  <2>1. UNCHANGED <<pending, arrived, frames>>
      BY <1>10 DEF SetRateTo
  <2>2. props'.volume = props.volume
      BY <1>10, SetRateToFields, PlaybackAssumption DEF SetRateTo
  <2> QED
      BY <2>1, <2>2, OrderKept
<1>11. ASSUME NEW c \in Caller, NEW v \in Asked, SetRateRefused(c, v)
       PROVE  OrderInv'
    BY <1>11, OrderKept DEF SetRateRefused
<1>12. ASSUME NEW c \in Caller, NEW op, Begin(c, op)
       PROVE  OrderInv'
    BY <1>12, OrderKept DEF Begin
<1>13. ASSUME NEW c \in Caller, UriSet(c)
       PROVE  OrderInv'
  <2>1. UNCHANGED <<pending, arrived, frames>> /\ ResetTransportSpeedProps
      BY <1>13 DEF UriSet
  <2>2. props'.volume = props.volume
      BY <2>1, ResetFields
  <2> QED
      BY <2>1, <2>2, OrderKept
<1>14. ASSUME NEW c \in Caller, UriRefused(c)
       PROVE  OrderInv'
    BY <1>14, OrderKept DEF UriRefused
<1>15. ASSUME NEW c \in Caller, NEW ok, Played(c, ok)
       PROVE  OrderInv'
    BY <1>15, OrderKept DEF Played
<1>16. ASSUME NEW c \in Caller, Complete(c)
       PROVE  OrderInv'
    BY <1>16, OrderKept DEF Complete
<1> QED
    BY <1>1, <1>2, <1>3, <1>4, <1>5, <1>6, <1>7, <1>8, <1>9, <1>10, <1>11,
       <1>12, <1>13, <1>14, <1>15, <1>16 DEF Next

LEMMA StepInv ==
    IInv /\ [Next]_vars => IInv'
BY ValuesStep, WorkStep, OrderStep DEF IInv

LEMMA Invariant ==
    Spec => []IInv
<1>1. Init => IInv
    BY InitInv
<1>2. IInv /\ [Next]_vars => IInv'
    BY StepInv
<1> QED
    BY <1>1, <1>2, PTL DEF Spec

-----------------------------------------------------------------------------
(***************************************************************************)
(* Theorems.                                                               *)
(***************************************************************************)

\* Every variable keeps its type, whatever is described, listed and asked for.
THEOREM TypeCorrect ==
    Spec => []TypeOK
<1>1. IInv => TypeOK
    BY DEF IInv, ValuesInv, WorkInv, RatesOK, PropsOK, TypeOK
<1> QED
    BY <1>1, Invariant, PTL

\* A Set(Rate) that the code refuses fails: success of the Play that is sent
\* all the same, or of nothing else, never clears its error.
LEMMA RefusedStep ==
    ASSUME WorkInv, RefusedSetFails, [Next]_vars
    PROVE  RefusedSetFails'
<1> USE DEF RefusedSetFails
<1>1. CASE UNCHANGED call
    BY <1>1
<1>2. ASSUME NEW c \in Caller, NEW x, call' = [call EXCEPT ![c] = x],
             x # None /\ x.refused => x.error
      PROVE  RefusedSetFails'
    BY <1>2 DEF WorkInv
<1>3. ASSUME NEW op
      PROVE  CallTo(op).refused = FALSE
    BY DEF CallTo
<1>4. ASSUME NEW c \in Caller, NEW refused \in BOOLEAN, PlayIfPlaying(c, refused)
      PROVE  RefusedSetFails'
  <2>1. PICK x : x = IF props.status = "Playing"
                     THEN [op |-> "play", error |-> refused, refused |-> refused]
                     ELSE None
      OBVIOUS
  <2>2. call' = [call EXCEPT ![c] = x]
      BY <1>4, <2>1 DEF PlayIfPlaying
  <2> QED
      BY <1>2, <2>1, <2>2
<1>5. ASSUME NEW e \in AvEvents, LastChange(e)
      PROVE  RefusedSetFails'
    BY <1>1, <1>5 DEF LastChange
<1>6. CASE RcLastChange
    BY <1>1, <1>6 DEF RcLastChange
<1>7. CASE ProcessRcLastChange
    BY <1>1, <1>7 DEF ProcessRcLastChange
<1>8. ASSUME NEW ok \in BOOLEAN, AvFetched(ok)
      PROVE  RefusedSetFails'
    BY <1>1, <1>8 DEF AvFetched
<1>9. ASSUME NEW ok \in BOOLEAN, RcFetched(ok)
      PROVE  RefusedSetFails'
  <2>1. CASE Last(frames).for \in Caller
    <3>1. call' = [call EXCEPT ![Last(frames).for] = None]
        BY <1>9, <2>1 DEF RcFetched, EndFrame
    <3> QED
        BY <1>2, <2>1, <3>1
  <2>2. CASE Last(frames).for \notin Caller
    <3>1. UNCHANGED call
        BY <1>9, <2>2 DEF RcFetched, EndFrame
    <3> QED
        BY <1>1, <3>1
  <2> QED
      BY <2>1, <2>2
<1>10. CASE LostDevice
    BY <1>10 DEF LostDevice
<1>11. ASSUME NEW S \in SUBSET (DOMAIN frames) \ {{}}, ContextLost(S)
       PROVE  RefusedSetFails'
    BY <1>1, <1>11 DEF ContextLost
<1>12. ASSUME NEW c \in Caller, Get(c)
       PROVE  RefusedSetFails'
    BY <1>2, <1>3, <1>12 DEF Get
<1>13. ASSUME NEW c \in Caller, NEW v \in Asked, SetRateTo(c, v)
       PROVE  RefusedSetFails'
    BY <1>4, <1>13 DEF SetRateTo
<1>14. ASSUME NEW c \in Caller, NEW v \in Asked, SetRateRefused(c, v)
       PROVE  RefusedSetFails'
    BY <1>4, <1>14 DEF SetRateRefused
<1>15. ASSUME NEW c \in Caller, NEW op, Begin(c, op)
       PROVE  RefusedSetFails'
    BY <1>2, <1>3, <1>15 DEF Begin
<1>16. ASSUME NEW c \in Caller, UriSet(c)
       PROVE  RefusedSetFails'
  <2>1. PICK x : x = IF call[c].op = "open" THEN CallTo("play") ELSE None
      OBVIOUS
  <2>2. call' = [call EXCEPT ![c] = x]
      BY <1>16, <2>1 DEF UriSet
  <2> QED
      BY <1>2, <1>3, <2>1, <2>2
<1>17. ASSUME NEW c \in Caller, UriRefused(c)
       PROVE  RefusedSetFails'
  <2>1. PICK y \in Call : y = call[c]
      BY <1>17, CallsOf DEF UriRefused
  <2>2. PICK x : x = [y EXCEPT !.op = "done", !.error = TRUE]
      OBVIOUS
  <2>3. x.error = TRUE
      BY <2>2 DEF Call
  <2>4. call' = [call EXCEPT ![c] = x]
      BY <1>17, <2>1, <2>2 DEF UriRefused
  <2> QED
      BY <1>2, <2>3, <2>4
<1>18. ASSUME NEW c \in Caller, NEW ok \in BOOLEAN, Played(c, ok)
       PROVE  RefusedSetFails'
  <2>1. PICK y \in Call : y = call[c] /\ y # None
      BY <1>18, CallsOf DEF Played
  <2>2. PICK x : x = [y EXCEPT !.op = "done", !.error = y.error \/ ~ok]
      OBVIOUS
  <2>3. x.refused => x.error
    <3>1. y.refused => y.error
        BY <2>1
    <3>2. x.refused <=> y.refused
        BY <2>2 DEF Call
    <3>3. x.error <=> y.error \/ ~ok
        BY <2>2 DEF Call
    <3> QED
        BY <3>1, <3>2, <3>3
  <2>4. call' = [call EXCEPT ![c] = x]
      BY <1>18, <2>1, <2>2 DEF Played
  <2> QED
      BY <1>2, <2>3, <2>4
<1>19. ASSUME NEW c \in Caller, Complete(c)
       PROVE  RefusedSetFails'
    BY <1>2, <1>19 DEF Complete
<1> QED
    BY <1>1, <1>5, <1>6, <1>7, <1>8, <1>9, <1>10, <1>11, <1>12, <1>13, <1>14,
       <1>15, <1>16, <1>17, <1>18, <1>19 DEF Next, vars

THEOREM RefusedRatesFail ==
    Spec => []RefusedSetFails
<1>1. Init => RefusedSetFails
    BY DEF Init, RefusedSetFails
<1>2. IInv /\ RefusedSetFails /\ [Next]_vars => RefusedSetFails'
    BY RefusedStep DEF IInv
<1> QED
    BY <1>1, <1>2, Invariant, PTL DEF Spec

\* The volume goes back to that of an earlier event only where a
\* synchronisation begun for that event ends.
THEOREM VolumesAdvance ==
    Spec => VolumeGoesBackInFramesOnly
<1> DEFINE Back == props'.volume < props.volume =>
                      \E i \in DOMAIN frames : frames[i].for = props'.volume
<1>1. ASSUME IInv, [Next]_vars
      PROVE  Back
  <2>1. props.volume \in Nat /\ ValuesInv /\ WorkInv
      BY <1>1 DEF IInv, ValuesInv, PropsOK
  <2>2. CASE props'.volume = props.volume
      BY <2>1, <2>2
  <2>3. CASE ProcessRcLastChange
    <3>1. pending # <<>>
        BY <2>3 DEF ProcessRcLastChange
    <3>2. PICK h \in Event : h = Head(pending) /\ h > props.volume
        BY <1>1, <2>1, <3>1, PendingHead DEF IInv, OrderInv
    <3>3. props'.volume \in {props.volume, h}
        BY <2>1, <2>3, <3>2, ProcessFields
    <3> QED
        BY <2>1, <3>2, <3>3 DEF Event
  <2>4. ASSUME NEW ok \in BOOLEAN, RcFetched(ok)
        PROVE  Back
    <3>1. \/ props'.volume = props.volume
          \/ Last(frames).for \in Event /\ props'.volume = Last(frames).for
        BY <2>1, <2>4, RcFetchedFields
    <3>2. frames # <<>>
        BY <2>4 DEF RcFetched
    <3>3. \E i \in DOMAIN frames : frames[i].for = Last(frames).for
        BY <2>1, <3>2, TopFrame
    <3> QED
        BY <2>2, <3>1, <3>3
  <2> HIDE DEF Back
  <2>5. ASSUME NEW e \in AvEvents, LastChange(e)
        PROVE  Back
      BY <2>1, <2>2, <2>5, LastChangeFields
  <2>6. ASSUME NEW c \in Caller, NEW v \in Asked, SetRateTo(c, v)
        PROVE  Back
      BY <2>1, <2>2, <2>6, SetRateToFields, PlaybackAssumption DEF SetRateTo
  <2>7. ASSUME NEW c \in Caller, UriSet(c)
        PROVE  Back
      BY <2>1, <2>2, <2>7, ResetFields DEF UriSet
  <2>8. CASE UNCHANGED props
      BY <2>2, <2>8
  <2>9. UNCHANGED vars => Back
      BY <2>8 DEF vars
  <2>10. /\ RcLastChange => Back
         /\ \A ok : AvFetched(ok) => Back
         /\ LostDevice => Back
         /\ \A S : ContextLost(S) => Back
      BY <2>8 DEF RcLastChange, AvFetched, LostDevice, ContextLost
  <2>11. \A c \in Caller :
            /\ Get(c) => Back
            /\ \A v : SetRateRefused(c, v) => Back
            /\ \A op : Begin(c, op) => Back
            /\ UriRefused(c) => Back
            /\ \A ok : Played(c, ok) => Back
            /\ Complete(c) => Back
      BY <2>8 DEF Get, SetRateRefused, Begin, UriRefused, Played, Complete
  <2> QED
      BY <1>1, <2>3, <2>4, <2>5, <2>6, <2>7, <2>9, <2>10, <2>11 DEF Next
<1>2. IInv /\ [Next]_vars => [Back]_vars
    BY <1>1
<1> QED
    BY <1>2, Invariant, PTL DEF Spec, VolumeGoesBackInFramesOnly

\* As long as the list exposed is the one Set(Rate) looks into, each value
\* exposed is accepted, and what is accepted is sent as a speed of that value.
THEOREM AgreedRates ==
    Spec => []AgreedRatesAreAccepted
<1>1. ASSUME IInv
      PROVE  AgreedRatesAreAccepted
  <2> SUFFICES ASSUME SpeedsAgree
               PROVE  /\ ExposedRatesAreAccepted
                      /\ \A v \in Asked : IndexOfRate(v) # 0 =>
                            /\ IndexOfRate(v) \in DOMAIN RateList.upnp
                            /\ MeansValue(RateList.upnp[IndexOfRate(v)], v)
      BY DEF AgreedRatesAreAccepted
  <2>1. PICK u \in Seq(Rational), m \in Seq(Int) :
            /\ u = RateList.upnp /\ m = RateList.mpris /\ props.speeds = m
            /\ m = [i \in DOMAIN u |-> Hundredths(u[i])]
      BY <1>1, RateListTypes DEF IInv
  <2>2. DOMAIN m = DOMAIN u
      BY <2>1
  <2>3. ASSUME NEW v \in Int, IndexOfRate(v) # 0
        PROVE  /\ IndexOfRate(v) \in DOMAIN u
               /\ MeansValue(u[IndexOfRate(v)], v)
    <3>1. PICK i : i = IndexOfRate(v) /\ i \in DOMAIN m /\ AbsValue(v - m[i]) <= 1
        BY <2>1, <2>3, IndexOfValueOK DEF IndexOfRate
    <3>2. m[i] = Hundredths(u[i])
        BY <2>1, <2>2, <3>1
    <3>3. PICK h \in Int : h = m[i]
        BY <2>1, <3>1, LenProperties
    <3>4. AbsValue(h - v) <= 1
        BY <3>1, <3>3 DEF AbsValue
    <3> QED
        BY <2>2, <3>1, <3>2, <3>3, <3>4 DEF MeansValue
  <2>4. ASSUME NEW v \in Range(props.speeds)
        PROVE  v \in Int /\ IndexOfRate(v) # 0
    <3>1. PICK i \in DOMAIN m : v = m[i]
        BY <2>1, <2>4 DEF Range
    <3>2. v \in Int
        BY <2>1, <3>1, LenProperties
    <3>3. AbsValue(v - m[i]) <= 1
        BY <3>1, <3>2 DEF AbsValue
    <3> QED
        BY <2>1, <3>1, <3>2, <3>3, IndexOfValueOK DEF IndexOfRate
  <2> QED
      BY <2>1, <2>3, <2>4, PlaybackAssumption DEF ExposedRatesAreAccepted
<1> QED
    BY <1>1, Invariant, PTL

\* The lists part only where a synchronisation asks the renderer, or where a
\* new uri comes with the renderer's own speeds unknown; the Can... properties
\* leave what the renderer listed only in a synchronisation.
THEOREM OverriddenBySync ==
    Spec => OnlySyncOverrides
<1> DEFINE Sync == \E ok \in BOOLEAN : AvFetched(ok) \/ RcFetched(ok)
           NewUri == \E c \in Caller : UriSet(c)
           Kept == /\ SpeedsAgree \/ NewUri =>
                        SpeedsAgree' \/ Sync \/ (NewUri /\ own = NoRates)
                   /\ ActionsAgree => ActionsAgree' \/ Sync
<1>1. ASSUME IInv, [Next]_vars
      PROVE  Kept
  <2> USE <1>1 DEF IInv
  <2>1. ASSUME NEW e \in AvEvents, LastChange(e)
        PROVE  (SpeedsAgree => SpeedsAgree') /\ (ActionsAgree => ActionsAgree')
    <3>1. UNCHANGED <<own, description>>
        BY <2>1 DEF LastChange
    <3>2. SpeedsAgree => SpeedsAgree'
      <4>1. CASE e.actions = None \/ e.actions.ps = None
        <5>1. dlna' = dlna /\ props'.speeds = props.speeds
            BY <2>1, <4>1, LastChangeFields
        <5> QED
            BY <3>1, <5>1 DEF SpeedsAgree
      <4>2. CASE e.actions # None /\ e.actions.ps # None
        <5>1. PICK r : /\ RatesOK(r) /\ dlna' # <<>> /\ dlna' = r.upnp
                       /\ props'.speeds = r.mpris
            BY <2>1, <4>2, LastChangeFields
        <5>2. r.mpris = [i \in DOMAIN r.upnp |-> Hundredths(r.upnp[i])]
            BY <5>1, RatesKnown
        <5> QED
            BY <5>1, <5>2 DEF SpeedsAgree
      <4> QED
          BY <4>1, <4>2
    <3>3. ActionsAgree => ActionsAgree'
      <4>1. /\ props'.can = IF e.actions = None THEN props.can
                            ELSE CanDo(e.actions.can)
            /\ listed' = IF e.actions = None THEN listed ELSE e.actions.can
          BY <2>1, LastChangeFields DEF LastChange
      <4> QED
          BY <3>1, <4>1 DEF ActionsAgree, CanDo
    <3> QED
        BY <3>2, <3>3
  <2>2. ASSUME ProcessRcLastChange
        PROVE  (SpeedsAgree => SpeedsAgree') /\ (ActionsAgree => ActionsAgree')
    <3>1. UNCHANGED <<own, dlna, listed, description>>
        BY <2>2 DEF ProcessRcLastChange
    <3>2. props'.speeds = props.speeds /\ props'.can = props.can
        BY <2>2, ProcessFields
    <3> QED
        BY <3>1, <3>2 DEF SpeedsAgree, ActionsAgree, CanDo
  <2>3. ASSUME NEW c \in Caller, NEW v \in Asked, SetRateTo(c, v)
        PROVE  (SpeedsAgree => SpeedsAgree') /\ (ActionsAgree => ActionsAgree')
    <3>1. UNCHANGED <<own, dlna, listed, description>>
        BY <2>3 DEF SetRateTo
    <3>2. props'.speeds = props.speeds /\ props'.can = props.can
        BY <2>3, SetRateToFields, PlaybackAssumption DEF SetRateTo
    <3> QED
        BY <3>1, <3>2 DEF SpeedsAgree, ActionsAgree, CanDo
  <2>4. ASSUME NEW c \in Caller, UriSet(c)
        PROVE  (SpeedsAgree' \/ own = NoRates) /\ (ActionsAgree => ActionsAgree')
    <3>1. UNCHANGED <<own, listed, description>> /\ ResetTransportSpeedProps
        BY <2>4 DEF UriSet
    <3>2. /\ dlna' = <<>> /\ props'.can = props.can
          /\ \/ props.speeds = own.mpris /\ props'.speeds = props.speeds
             \/ props'.speeds = IF own.mpris # <<>> THEN own.mpris
                                ELSE props.speeds
        BY <3>1, ResetFields
    <3>3. own.mpris = <<>> => own = NoRates
        BY RatesKnown DEF ValuesInv
    <3> QED
        BY <3>1, <3>2, <3>3 DEF SpeedsAgree, ActionsAgree, CanDo
  <2>5. ASSUME UNCHANGED <<own, dlna, props, listed, description>>
        PROVE  (SpeedsAgree => SpeedsAgree') /\ (ActionsAgree => ActionsAgree')
      BY <2>5 DEF SpeedsAgree, ActionsAgree, CanDo
  <2> HIDE DEF Sync, NewUri
  <2>6. ASSUME UNCHANGED <<own, dlna, props, listed, description>>, ~NewUri
        PROVE  Kept
      BY <2>5, <2>6
  <2>7. CASE Sync
      BY <2>7
  <2>8. CASE NewUri
      BY <2>4, <2>8 DEF NewUri
  <2>9. ASSUME ~NewUri,
               (SpeedsAgree => SpeedsAgree') /\ (ActionsAgree => ActionsAgree')
        PROVE  Kept
      BY <2>9
  <2> HIDE DEF Kept
  <2> SUFFICES ASSUME ~NewUri, ~Sync
               PROVE  Kept
      BY <2>7, <2>8
  <2>10. UNCHANGED vars => Kept
      BY <2>6 DEF vars
  <2>11. /\ RcLastChange => Kept
         /\ LostDevice => Kept
         /\ \A S : ContextLost(S) => Kept
      BY <2>6 DEF RcLastChange, LostDevice, ContextLost
  <2>12. \A c \in Caller :
            /\ Get(c) => Kept
            /\ \A v : SetRateRefused(c, v) => Kept
            /\ \A op : Begin(c, op) => Kept
            /\ UriRefused(c) => Kept
            /\ \A ok : Played(c, ok) => Kept
            /\ Complete(c) => Kept
      BY <2>6 DEF Get, SetRateRefused, Begin, UriRefused, Played, Complete
  <2>13. /\ \A e \in AvEvents : LastChange(e) => Kept
         /\ ProcessRcLastChange => Kept
         /\ \A c \in Caller, v \in Asked : SetRateTo(c, v) => Kept
      BY <2>1, <2>2, <2>3, <2>9
  <2>14. /\ \A c \in Caller : UriSet(c) => NewUri
         /\ \A ok \in BOOLEAN : AvFetched(ok) \/ RcFetched(ok) => Sync
      BY DEF NewUri, Sync
  <2> QED
      BY <2>10, <2>11, <2>12, <2>13, <2>14 DEF Next
<1>2. IInv /\ [Next]_vars => [Kept]_vars
    BY <1>1
<1> QED
    BY <1>2, Invariant, PTL DEF Spec, OnlySyncOverrides

\* Whether the speed s and the value t stand for are within a hundredth.
Close(s, t) ==
    AbsValue(100 * s.num * t.den - 100 * t.num * s.den) <= t.den * s.den

Shown == props.rate # None => Close(MapTransportSpeed(rate), props.rate)

LEMMA CloseToItself ==
    ASSUME NEW s \in Rational
    PROVE  Close(s, s)
<1>1. PICK n \in Int, d \in Nat \ {0} : n = s.num /\ d = s.den
    BY DEF Rational
<1>2. PICK x \in Int : x = 100 * n * d
    OBVIOUS
<1>3. d * d >= 0 /\ d * d \in Int
    OBVIOUS
<1>4. AbsValue(x - x) = 0
    BY DEF AbsValue
<1> QED
    BY <1>1, <1>2, <1>3, <1>4 DEF Close

\* Rounding moves a speed by half a hundredth at most.
LEMMA CloseToHundredths ==
    ASSUME NEW s \in Rational
    PROVE  Close(s, [num |-> Hundredths(s), den |-> 100])
<1>1. PICK n \in Int, d \in Nat \ {0} : n = s.num /\ d = s.den
    BY DEF Rational
<1>2. PICK x \in Nat : x = AbsValue(n) /\ x = IF n < 0 THEN -n ELSE n
    BY DEF AbsValue
<1>3. PICK m \in Nat : /\ m = (200 * x + d) \div (2 * d)
                       /\ m * (2 * d) <= 200 * x + d
                       /\ 200 * x + d < (m + 1) * (2 * d)
    BY DivBounds
<1>4. PICK p \in Nat : p = m * d
    OBVIOUS
<1>5. 2 * p <= 200 * x + d /\ 200 * x < 2 * p + d
  <2>1. m * (2 * d) = 2 * p /\ (m + 1) * (2 * d) = 2 * p + 2 * d
      BY <1>4
  <2> QED
      BY <1>3, <2>1
<1>6. PICK h \in Int : h = Hundredths(s) /\ h = IF n < 0 THEN -m ELSE m
  <2>1. n = 0 => m = 0
      BY <1>2, <1>3, ZeroRounds
  <2> QED
      BY <1>1, <1>2, <1>3, <2>1 DEF Hundredths, IsInvalid
<1>7. PICK t : t = [num |-> h, den |-> 100]
    OBVIOUS
<1>8. PICK y \in Int : y = 100 * n * 100 - 100 * h * d
  <2>1. PICK q \in Int : q = 100 * h * d
      OBVIOUS
  <2>2. PICK r \in Int : r = 100 * n * 100
      OBVIOUS
  <2>3. r - q \in Int
      OBVIOUS
  <2> QED
      BY <2>1, <2>2, <2>3
<1>9. y <= 100 * d /\ -y <= 100 * d
  <2>1. CASE n < 0
    <3>1. h * d = -p /\ n = -x
        BY <1>2, <1>4, <1>6, <2>1
    <3>2. y = 100 * p - 10000 * x
        BY <1>8, <3>1
    <3> QED
        BY <1>5, <3>2
  <2>2. CASE n >= 0
    <3>1. h * d = p /\ n = x
        BY <1>2, <1>4, <1>6, <2>2
    <3>2. y = 10000 * x - 100 * p
        BY <1>8, <3>1
    <3> QED
        BY <1>5, <3>2
  <2> QED
      BY <2>1, <2>2
<1>10. AbsValue(y) <= 100 * d
    BY <1>9 DEF AbsValue
<1>11. Close(s, t)
    BY <1>1, <1>7, <1>8, <1>10 DEF Close
<1> QED
    BY <1>6, <1>7, <1>11

\* The Rate a client sees is, to a hundredth, the speed that Play is sent with
\* next, unless Set(Rate) finds the lists parted.
THEOREM RateIsKept ==
    Spec => RateIsTheSpeedSent
<1>1. ASSUME IInv, [Next]_vars, SpeedsAgree, Shown
      PROVE  Shown'
  <2> USE <1>1 DEF IInv
  <2>1. CASE rate' = rate /\ props'.rate = props.rate
      BY <2>1 DEF Shown, Close, MapTransportSpeed
  <2>2. ASSUME NEW e \in AvEvents, LastChange(e)
        PROVE  Shown'
    <3>1. props'.rate = IF e.speed = None THEN props.rate
                        ELSE MapTransportSpeed(e.speed)
        BY <2>2, LastChangeFields
    <3>2. rate' = IF e.speed = None THEN rate ELSE e.speed
        BY <2>2 DEF LastChange
    <3>3. CASE e.speed = None
        BY <2>1, <3>1, <3>2, <3>3
    <3>4. CASE e.speed # None
      <4>1. PICK s \in Rational : s = MapTransportSpeed(e.speed)
          BY <3>4, MapTransportSpeedOK, PlaybackAssumption
      <4>2. MapTransportSpeed(rate') = s /\ props'.rate = s
          BY <3>1, <3>2, <3>4, <4>1
      <4>3. Close(s, s)
          BY CloseToItself
      <4> QED
          BY <4>2, <4>3 DEF Shown, Close, MapTransportSpeed
    <3> QED
        BY <3>3, <3>4
  <2>3. ASSUME NEW c \in Caller, NEW v \in Asked, SetRateTo(c, v)
        PROVE  Shown'
    <3>1. /\ IndexOfRate(v) \in DOMAIN RateList.upnp /\ SetRate(IndexOfRate(v))
          /\ v \in Int
        BY <2>3, PlaybackAssumption DEF SetRateTo
    <3>2. PICK i \in DOMAIN RateList.upnp :
              \/ rate' = rate /\ props'.rate = props.rate
              \/ /\ rate' = RateList.upnp[i]
                 /\ props'.rate = [num |-> RateList.mpris[i], den |-> 100]
        BY <3>1, SetRateToFields
    <3>3. CASE /\ rate' = RateList.upnp[i]
               /\ props'.rate = [num |-> RateList.mpris[i], den |-> 100]
      <4>1. PICK u \in Seq(Rational) :
                /\ u = RateList.upnp
                /\ RateList.mpris = [k \in DOMAIN u |-> Hundredths(u[k])]
          BY RateListTypes
      <4>2. PICK s \in Rational : s = u[i]
          BY <4>1, LenProperties
      <4>3. PICK t : t = [num |-> Hundredths(s), den |-> 100]
          OBVIOUS
      <4>4. rate' = s /\ props'.rate = t
          BY <3>3, <4>1, <4>2, <4>3
      <4>5. Close(s, t)
          BY <4>3, CloseToHundredths
      <4>6. MapTransportSpeed(s) = s
          BY DEF MapTransportSpeed, Rational
      <4> QED
          BY <4>4, <4>5, <4>6 DEF Shown, Close, MapTransportSpeed
    <3> QED
        BY <2>1, <3>2, <3>3
  <2>4. ASSUME NEW c \in Caller, UriSet(c)
        PROVE  Shown'
    <3>1. rate' = One /\ props'.rate = IF rate = One THEN props.rate ELSE One
        BY <2>4, ResetFields DEF UriSet
    <3>2. CASE rate = One
        BY <2>1, <3>1, <3>2
    <3>3. CASE rate # One
      <4>1. One \in Rational /\ MapTransportSpeed(One) = One
          BY DEF One, Rational, MapTransportSpeed
      <4>2. Close(One, One)
          BY <4>1, CloseToItself
      <4> QED
          BY <3>1, <3>3, <4>1, <4>2 DEF Shown, Close, MapTransportSpeed
    <3> QED
        BY <3>2, <3>3
  <2>5. CASE ProcessRcLastChange
      BY <2>1, <2>5, ProcessFields DEF ProcessRcLastChange
  <2>6. ASSUME NEW ok \in BOOLEAN, RcFetched(ok)
        PROVE  Shown'
      BY <2>1, <2>6, RcFetchedFields DEF RcFetched
  <2>7. CASE UNCHANGED <<rate, props>>
      BY <2>1, <2>7
  <2> HIDE DEF Shown
  <2>8. UNCHANGED vars => Shown'
      BY <2>7 DEF vars
  <2>9. /\ RcLastChange => Shown'
        /\ \A ok : AvFetched(ok) => Shown'
        /\ LostDevice => Shown'
        /\ \A S : ContextLost(S) => Shown'
      BY <2>7 DEF RcLastChange, AvFetched, LostDevice, ContextLost
  <2>10. \A c \in Caller :
            /\ Get(c) => Shown'
            /\ \A v : SetRateRefused(c, v) => Shown'
            /\ \A op : Begin(c, op) => Shown'
            /\ UriRefused(c) => Shown'
            /\ \A ok : Played(c, ok) => Shown'
            /\ Complete(c) => Shown'
      BY <2>7 DEF Get, SetRateRefused, Begin, UriRefused, Played, Complete
  <2> QED
      BY <2>2, <2>3, <2>4, <2>5, <2>6, <2>8, <2>9, <2>10 DEF Next
<1>2. IInv /\ [Next]_vars => [SpeedsAgree /\ Shown => Shown']_vars
    BY <1>1
<1>3. Spec => [][SpeedsAgree /\ Shown => Shown']_vars
    BY <1>2, Invariant, PTL DEF Spec
<1> QED
    BY <1>3 DEF RateIsTheSpeedSent, Shown, Close

-----------------------------------------------------------------------------
(***************************************************************************)
(* The limits of the rates.  prv_add_player_speed_props takes a limit of 0 *)
(* for one that is not known and leaves the property as it was: the limits *)
(* exposed are those of the list exposed only if no list has such a limit. *)
(***************************************************************************)

LimitsKnown(r) == r = NoRates \/ (r.min # 0 /\ r.max # 0)

NoZeroLimits ==
    /\ \A d \in Descriptions :
          d.speeds # <<>> => LimitsKnown(RatesValues(SortSpeeds(d.speeds)))
    /\ \A e \in AvEvents :
          e.actions # None /\ e.actions.ps # None =>
              LimitsKnown(DlnaRates(e.actions.ps))

LimitsInv == RatesWithinRange /\ LimitsKnown(own)

LEMMA WithinOwnLimits ==
    ASSUME NEW r, RatesOK(r), r.min # 0, r.max # 0, NEW p, p.speeds = r.mpris,
           p.min = r.min, p.max = r.max
    PROVE  \A v \in Range(p.speeds) : p.min <= v /\ v <= p.max
<1>1. PICK m \in Seq(Int) : m = r.mpris /\ m = p.speeds
    BY DEF RatesOK
<1>2. DOMAIN m = 1 .. Len(r.upnp)
    BY <1>1, LenProperties DEF RatesOK
<1> QED
    BY <1>1, <1>2 DEF RatesOK, Range

\* What a list does to the properties exposed leaves them in order.
LEMMA AddedWithinLimits ==
    ASSUME RatesWithinRange, NEW r, RatesOK(r), LimitsKnown(r),
           props'.speeds = IF r.mpris # <<>> THEN r.mpris ELSE props.speeds,
           props'.min = IF r.min # 0 THEN r.min ELSE props.min,
           props'.max = IF r.max # 0 THEN r.max ELSE props.max
    PROVE  RatesWithinRange'
<1>1. CASE r = NoRates
  <2>1. r.mpris = <<>> /\ r.min = 0 /\ r.max = 0
      BY <1>1 DEF NoRates
  <2> QED
      BY <2>1 DEF RatesWithinRange
<1>2. CASE r # NoRates
  <2>1. r.min # 0 /\ r.max # 0 /\ r.mpris # <<>>
      BY <1>2, RatesKnown DEF LimitsKnown
  <2>2. PICK p : p = props' /\ p.speeds = r.mpris /\ p.min = r.min /\ p.max = r.max
      BY <2>1
  <2>3. \A v \in Range(p.speeds) : p.min <= v /\ v <= p.max
      BY <2>1, <2>2, WithinOwnLimits
  <2> QED
      BY <2>2, <2>3 DEF RatesWithinRange
<1> QED
    BY <1>1, <1>2

\* Every rate exposed lies between MinimumRate and MaximumRate, if no list has
\* a limit of 0.
THEOREM RatesLieWithinLimits ==
    ASSUME NoZeroLimits
    PROVE  Spec => []RatesWithinRange
<1>1. Init => LimitsInv
    BY DEF Init, LimitsInv, RatesWithinRange, LimitsKnown, Range
<1>2. ASSUME IInv, LimitsInv, [Next]_vars
      PROVE  LimitsInv'
  <2> USE <1>2 DEF IInv, LimitsInv
  <2>1. ASSUME UNCHANGED own, props'.speeds = props.speeds,
               props'.min = props.min, props'.max = props.max
        PROVE  LimitsInv'
      BY <2>1 DEF RatesWithinRange, LimitsKnown
  <2>2. ASSUME NEW e \in AvEvents, LastChange(e)
        PROVE  LimitsInv'
    <3>1. own' = own
        BY <2>2 DEF LastChange
    <3>2. CASE e.actions = None \/ e.actions.ps = None
        BY <2>1, <2>2, <3>1, <3>2, LastChangeFields
    <3>3. CASE e.actions # None /\ e.actions.ps # None
      <4>1. PICK r : r = DlnaRates(e.actions.ps)
          OBVIOUS
      <4>2. /\ RatesOK(r) /\ r.upnp # <<>> /\ props'.speeds = r.mpris
            /\ props'.min = IF r.min # 0 THEN r.min ELSE props.min
            /\ props'.max = IF r.max # 0 THEN r.max ELSE props.max
          BY <2>2, <3>3, <4>1, LastChangeFields
      <4>3. LimitsKnown(r) /\ r.mpris # <<>>
          BY <3>3, <4>1, <4>2, RatesKnown DEF NoZeroLimits
      <4>4. RatesWithinRange'
          BY <4>2, <4>3, AddedWithinLimits
      <4> QED
          BY <3>1, <4>4 DEF LimitsKnown
    <3> QED
        BY <3>2, <3>3
  <2>3. CASE ProcessRcLastChange
      BY <2>1, <2>3, ProcessFields DEF ProcessRcLastChange
  <2>4. ASSUME NEW ok \in BOOLEAN, AvFetched(ok)
        PROVE  LimitsInv'
    <3>1. LimitsKnown(own')
      <4>1. CASE ok /\ description.speeds # <<>>
        <5>1. own' = RatesValues(SortSpeeds(description.speeds))
            BY <2>4, <4>1 DEF AvFetched
        <5>2. description \in Descriptions
            BY DEF ValuesInv
        <5> QED
            BY <4>1, <5>1, <5>2 DEF NoZeroLimits
      <4>2. CASE ~(ok /\ description.speeds # <<>>)
        <5>1. own' = own
            BY <2>4, <4>2 DEF AvFetched
        <5> QED
            BY <5>1
      <4> QED
          BY <4>1, <4>2
    <3>2. UNCHANGED props
        BY <2>4 DEF AvFetched
    <3> QED
        BY <3>1, <3>2 DEF RatesWithinRange, LimitsKnown
  <2>5. ASSUME NEW ok \in BOOLEAN, RcFetched(ok)
        PROVE  LimitsInv'
    <3>1. RatesOK(own)
        BY DEF ValuesInv
    <3>2. RatesWithinRange'
        BY <2>5, <3>1, RcFetchedFields, AddedWithinLimits
    <3>3. own' = own
        BY <2>5 DEF RcFetched
    <3> QED
        BY <3>2, <3>3 DEF LimitsKnown
  <2>6. ASSUME NEW c \in Caller, NEW v \in Asked, SetRateTo(c, v)
        PROVE  LimitsInv'
      BY <2>1, <2>6, SetRateToFields, PlaybackAssumption DEF SetRateTo
  <2>7. ASSUME NEW c \in Caller, UriSet(c)
        PROVE  LimitsInv'
    <3>1. UNCHANGED own /\ ResetTransportSpeedProps /\ RatesOK(own)
        BY <2>7 DEF UriSet, ValuesInv
    <3>2. \/ /\ props.speeds = own.mpris /\ props'.speeds = props.speeds
             /\ props'.min = props.min /\ props'.max = props.max
          \/ /\ props'.speeds = IF own.mpris # <<>> THEN own.mpris
                                ELSE props.speeds
             /\ props'.min = IF own.min # 0 THEN own.min ELSE props.min
             /\ props'.max = IF own.max # 0 THEN own.max ELSE props.max
        BY <3>1, ResetFields
    <3>3. CASE /\ props'.speeds = props.speeds
               /\ props'.min = props.min /\ props'.max = props.max
        BY <2>1, <3>1, <3>3
    <3>4. CASE /\ props'.speeds = IF own.mpris # <<>> THEN own.mpris
                                  ELSE props.speeds
               /\ props'.min = IF own.min # 0 THEN own.min ELSE props.min
               /\ props'.max = IF own.max # 0 THEN own.max ELSE props.max
      <4>1. RatesWithinRange'
          BY <3>1, <3>4, AddedWithinLimits
      <4> QED
          BY <3>1, <4>1 DEF LimitsKnown
    <3> QED
        BY <3>2, <3>3, <3>4
  <2>8. CASE UNCHANGED <<own, props>>
      BY <2>1, <2>8
  <2> HIDE DEF LimitsInv
  <2>9. UNCHANGED vars => LimitsInv'
      BY <2>8 DEF vars
  <2>10. /\ RcLastChange => LimitsInv'
         /\ LostDevice => LimitsInv'
         /\ \A S : ContextLost(S) => LimitsInv'
      BY <2>8 DEF RcLastChange, LostDevice, ContextLost
  <2>11. \A c \in Caller :
            /\ Get(c) => LimitsInv'
            /\ \A v : SetRateRefused(c, v) => LimitsInv'
            /\ \A op : Begin(c, op) => LimitsInv'
            /\ UriRefused(c) => LimitsInv'
            /\ \A ok : Played(c, ok) => LimitsInv'
            /\ Complete(c) => LimitsInv'
      BY <2>8 DEF Get, SetRateRefused, Begin, UriRefused, Played, Complete
  <2> QED
      BY <2>2, <2>3, <2>4, <2>5, <2>6, <2>7, <2>9, <2>10, <2>11 DEF Next
<1>3. LimitsInv => RatesWithinRange
    BY DEF LimitsInv
<1> QED
    BY <1>1, <1>2, <1>3, Invariant, PTL DEF Spec
=============================================================================
