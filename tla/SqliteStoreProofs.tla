------------------------- MODULE SqliteStoreProofs -------------------------
(***************************************************************************)
(* The connections of SqliteStore, with their locks and their two-step     *)
(* reads, do what Registry promises, for any devices, any writers and      *)
(* requests, and any pages.                                                *)
(***************************************************************************)
EXTENDS SqliteStore, SequenceTheorems, FiniteSetTheorems, WellFoundedInduction, TLAPS

-----------------------------------------------------------------------------
(* Chosen, which all that is ordered in a list is made of. *)

LEMMA Induction ==
  ASSUME NEW P \in SUBSET Nat, 0 \in P, \A n \in P : n + 1 \in P
  PROVE  P = Nat
<1> SUFFICES ASSUME Nat \ P # {} PROVE FALSE
  OBVIOUS
<1> DEFINE R == {ss \in Nat \X Nat : ss[1] < ss[2]}
<1>1. IsWellFoundedOn(R, Nat)
  BY NatLessThanWellFounded DEF OpToRel
<1>2. PICK n \in Nat \ P : \A k \in Nat \ P : <<k, n>> \notin R
  BY <1>1, WFMin
<1>3. n - 1 \in Nat /\ <<n - 1, n>> \in R
  BY <1>2
<1>4. n - 1 \in P
  BY <1>2, <1>3
<1>5. (n - 1) + 1 \in P
  BY <1>4
<1> QED
  BY <1>2, <1>5

\* The function that ChosenUpTo(s, S) is, if there is one.
Chooses(f, s, S, k) ==
  f = [n \in 0..k |-> IF n = 0 THEN <<>>
                      ELSE IF s[n] \in S THEN Append(f[n - 1], s[n])
                      ELSE f[n - 1]]

LEMMA ChosenExists ==
  ASSUME NEW s \in Seq(MAC), NEW S
  PROVE  \A k \in Nat : k <= Len(s) => \E f : Chooses(f, s, S, k)
<1> DEFINE P == {k \in Nat : k <= Len(s) => \E f : Chooses(f, s, S, k)}
<1>1. 0 \in P
  <2> DEFINE f == [n \in 0..0 |-> <<>>]
  <2>1. Chooses(f, s, S, 0)
    BY DEF Chooses
  <2> QED
    BY <2>1
<1>2. ASSUME NEW k \in P, k + 1 <= Len(s)
      PROVE  \E f : Chooses(f, s, S, k + 1)
  <2>1. PICK f : Chooses(f, s, S, k)
    BY <1>2
  <2> DEFINE last == IF s[k + 1] \in S THEN Append(f[k], s[k + 1]) ELSE f[k]
             g    == [n \in 0..(k + 1) |-> IF n = k + 1 THEN last ELSE f[n]]
  <2>2. \A n \in 0..k : g[n] = f[n]
    OBVIOUS
  <2>3. \A n \in 0..k : f[n] = IF n = 0 THEN <<>>
                               ELSE IF s[n] \in S THEN Append(f[n - 1], s[n])
                               ELSE f[n - 1]
    BY <2>1 DEF Chooses
  <2>4. ASSUME NEW n \in 0..(k + 1)
        PROVE  g[n] = IF n = 0 THEN <<>>
                      ELSE IF s[n] \in S THEN Append(g[n - 1], s[n])
                      ELSE g[n - 1]
    <3>1. CASE n = k + 1
      <4>1. n # 0 /\ n - 1 = k /\ k \in 0..k
        BY <3>1
      <4>2. g[n - 1] = f[k]
        BY <2>2, <4>1
      <4>3. g[n] = last
        BY <3>1
      <4> QED
        BY <3>1, <4>1, <4>2, <4>3
    <3>2. CASE n = 0
      <4>1. n \in 0..k
        BY <3>2
      <4> QED
        BY <2>2, <2>3, <3>2, <4>1
    <3>3. CASE n # 0 /\ n # k + 1
      <4>1. n \in 0..k /\ n - 1 \in 0..k
        BY <3>3
      <4> QED
        BY <2>2, <2>3, <3>3, <4>1
    <3> QED
      BY <3>1, <3>2, <3>3
  <2>5. Chooses(g, s, S, k + 1)
    BY <2>4 DEF Chooses
  <2> QED
    BY <2>5
<1>3. \A k \in P : k + 1 \in P
  BY <1>2
<1>4. P = Nat
  BY <1>1, <1>3, Induction
<1> QED
  BY <1>4

LEMMA ChosenStep ==
  ASSUME NEW s \in Seq(MAC), NEW S
  PROVE  /\ ChosenUpTo(s, S)[0] = <<>>
         /\ \A n \in 1..Len(s) :
              ChosenUpTo(s, S)[n] = IF s[n] \in S
                                    THEN Append(ChosenUpTo(s, S)[n - 1], s[n])
                                    ELSE ChosenUpTo(s, S)[n - 1]
<1>1. ChosenUpTo(s, S) = CHOOSE f : Chooses(f, s, S, Len(s))
  BY DEF ChosenUpTo, Chooses
<1>2. Len(s) \in Nat
  OBVIOUS
<1>3. \E f : Chooses(f, s, S, Len(s))
  <2> DEFINE k == Len(s)
  <2>1. k \in Nat /\ k <= Len(s)
    BY <1>2
  <2> HIDE DEF k
  <2>2. \E f : Chooses(f, s, S, k)
    BY <2>1, ChosenExists
  <2> QED
    BY <2>2 DEF k
<1>4. Chooses(ChosenUpTo(s, S), s, S, Len(s))
  BY <1>1, <1>3
<1> HIDE DEF ChosenUpTo
<1> DEFINE f == ChosenUpTo(s, S)
<1>5. \A n \in 0..Len(s) : f[n] = IF n = 0 THEN <<>>
                                  ELSE IF s[n] \in S THEN Append(f[n - 1], s[n])
                                  ELSE f[n - 1]
  <2> HIDE DEF f
  <2>1. Chooses(f, s, S, Len(s))
    BY <1>4 DEF f
  <2> QED
    BY <2>1 DEF Chooses
<1> QED
  BY <1>2, <1>5

\* How many of the first n elements are chosen.
Rank(s, S, n) == Len(ChosenUpTo(s, S)[n])

\* An element that is chosen comes at its rank, and every place is someone's rank.
LEMMA ChosenPrefix ==
  ASSUME NEW s \in Seq(MAC), NEW S
  PROVE  \A n \in 0..Len(s) :
           /\ ChosenUpTo(s, S)[n] \in Seq(MAC)
           /\ \A j \in 1..n : s[j] \in S =>
                /\ Rank(s, S, j) \in 1..Rank(s, S, n)
                /\ ChosenUpTo(s, S)[n][Rank(s, S, j)] = s[j]
           /\ \A i \in 1..Rank(s, S, n) : \E j \in 1..n : s[j] \in S /\ Rank(s, S, j) = i
<1> DEFINE C(n) == ChosenUpTo(s, S)[n]
           Good(n) ==
             /\ C(n) \in Seq(MAC)
             /\ \A j \in 1..n : s[j] \in S => /\ Len(C(j)) \in 1..Len(C(n))
                                             /\ C(n)[Len(C(j))] = s[j]
             /\ \A i \in 1..Len(C(n)) : \E j \in 1..n : s[j] \in S /\ Len(C(j)) = i
           P == {n \in Nat : n <= Len(s) => Good(n)}
<1>0. /\ C(0) = <<>>
      /\ \A n \in 1..Len(s) : C(n) = IF s[n] \in S THEN Append(C(n - 1), s[n]) ELSE C(n - 1)
  BY ChosenStep
<1> HIDE DEF C
<1>1. 0 \in P
  <2>1. C(0) \in Seq(MAC) /\ Len(C(0)) = 0
    <3>1. C(0) = <<>>
      BY <1>0
    <3>2. <<>> \in Seq(MAC) /\ Len(<<>>) = 0
      OBVIOUS
    <3> QED
      BY <3>1, <3>2, Zenon
  <2>2. Good(0)
    BY <2>1
  <2> QED
    BY <2>2
<1>2. ASSUME NEW n \in P, n + 1 <= Len(s)
      PROVE  Good(n + 1)
  <2>1. Good(n) /\ n \in Nat /\ n + 1 \in 1..Len(s) /\ s[n + 1] \in MAC
    BY <1>2
  <2>2. CASE s[n + 1] \in S
    <3>1. C(n + 1) = Append(C(n), s[n + 1])
      BY <1>0, <2>1, <2>2
    <3>2. /\ C(n + 1) \in Seq(MAC) /\ Len(C(n + 1)) = Len(C(n)) + 1
          /\ C(n + 1)[Len(C(n)) + 1] = s[n + 1]
          /\ \A i \in 1..Len(C(n)) : C(n + 1)[i] = C(n)[i]
      <4> DEFINE p == C(n)
                 e == s[n + 1]
      <4>1. p \in Seq(MAC) /\ e \in MAC /\ C(n + 1) = Append(p, e)
        BY <2>1, <3>1
      <4> HIDE DEF p, e
      <4>2. /\ Append(p, e) \in Seq(MAC) /\ Len(Append(p, e)) = Len(p) + 1
            /\ Append(p, e)[Len(p) + 1] = e
            /\ \A i \in 1..Len(p) : Append(p, e)[i] = p[i]
        BY <4>1, AppendProperties
      <4> QED
        BY <4>1, <4>2 DEF p, e
    <3>3. ASSUME NEW j \in 1..(n + 1), s[j] \in S
          PROVE  Len(C(j)) \in 1..Len(C(n + 1)) /\ C(n + 1)[Len(C(j))] = s[j]
      <4>1. CASE j = n + 1
        BY <2>1, <3>2, <4>1
      <4>2. CASE j \in 1..n
        <5>1. Len(C(j)) \in 1..Len(C(n)) /\ C(n)[Len(C(j))] = s[j]
          BY <2>1, <3>3, <4>2
        <5>2. Len(C(n)) \in Nat
          BY <2>1
        <5> QED
          BY <3>2, <5>1, <5>2
      <4> QED
        BY <2>1, <4>1, <4>2
    <3>4. ASSUME NEW i \in 1..Len(C(n + 1))
          PROVE  \E j \in 1..(n + 1) : s[j] \in S /\ Len(C(j)) = i
      <4>1. CASE i = Len(C(n)) + 1
        BY <2>1, <2>2, <3>2, <4>1
      <4>2. CASE i \in 1..Len(C(n))
        <5>1. PICK j \in 1..n : s[j] \in S /\ Len(C(j)) = i
          BY <2>1, <4>2
        <5>2. j \in 1..(n + 1)
          BY <2>1
        <5> QED
          BY <5>1, <5>2
      <4>3. Len(C(n)) \in Nat
        BY <2>1
      <4> QED
        BY <3>2, <4>1, <4>2, <4>3
    <3> QED
      BY <3>2, <3>3, <3>4
  <2>3. CASE s[n + 1] \notin S
    <3>1. C(n + 1) = C(n)
      BY <1>0, <2>1, <2>3
    <3>2. \A j \in 1..(n + 1) : s[j] \in S => j \in 1..n
      BY <2>1, <2>3
    <3>3. \A j \in 1..n : j \in 1..(n + 1)
      BY <2>1
    <3> QED
      BY <2>1, <3>1, <3>2, <3>3
  <2> QED
    BY <2>2, <2>3
<1>3. \A n \in P : n + 1 \in P
  BY <1>2
<1>4. P = Nat
  <2> HIDE DEF Good
  <2> QED
    BY <1>1, <1>3, Induction
<1> QED
  BY <1>4 DEF Rank, C

LEMMA ChosenPlaces ==
  ASSUME NEW s \in Seq(MAC), NEW S
  PROVE  /\ Chosen(s, S) \in Seq(MAC)
         /\ \A j \in DOMAIN s : s[j] \in S =>
              /\ Rank(s, S, j) \in DOMAIN Chosen(s, S)
              /\ Chosen(s, S)[Rank(s, S, j)] = s[j]
         /\ \A i \in DOMAIN Chosen(s, S) : \E j \in DOMAIN s : s[j] \in S /\ Rank(s, S, j) = i
         /\ \A j, k \in DOMAIN s :
              j < k /\ s[j] \in S /\ s[k] \in S => Rank(s, S, j) < Rank(s, S, k)
<1> DEFINE C(n) == ChosenUpTo(s, S)[n]
<1>1. /\ \A n \in 1..Len(s) : C(n) = IF s[n] \in S THEN Append(C(n - 1), s[n]) ELSE C(n - 1)
      /\ \A n \in 0..Len(s) :
           /\ C(n) \in Seq(MAC)
           /\ \A j \in 1..n : s[j] \in S => /\ Len(C(j)) \in 1..Len(C(n))
                                           /\ C(n)[Len(C(j))] = s[j]
           /\ \A i \in 1..Len(C(n)) : \E j \in 1..n : s[j] \in S /\ Len(C(j)) = i
  BY ChosenStep, ChosenPrefix DEF Rank
<1>2. /\ Chosen(s, S) = C(Len(s))
      /\ \A n : Rank(s, S, n) = Len(C(n))
  BY DEF Chosen, Rank
<1> HIDE DEF C
<1>3. Len(s) \in Nat /\ DOMAIN s = 1..Len(s)
  OBVIOUS
<1>4. C(Len(s)) \in Seq(MAC) /\ DOMAIN C(Len(s)) = 1..Len(C(Len(s)))
  BY <1>1, <1>3
<1>5. ASSUME NEW j \in DOMAIN s, NEW k \in DOMAIN s, j < k, s[j] \in S, s[k] \in S
      PROVE  Len(C(j)) < Len(C(k))
  <2>1. j \in 1..(k - 1) /\ k - 1 \in 0..Len(s) /\ k \in 1..Len(s)
    BY <1>3, <1>5
  <2>2. C(k - 1) \in Seq(MAC) /\ Len(C(j)) \in 1..Len(C(k - 1))
    BY <1>1, <1>5, <2>1
  <2>3. C(k) = Append(C(k - 1), s[k])
    BY <1>1, <1>5, <2>1, Zenon
  <2> s[k] \in MAC
    BY <1>3
  <2>4. Len(C(k)) = Len(C(k - 1)) + 1
    BY <2>2, <2>3, AppendProperties
  <2> QED
    BY <2>2, <2>4
<1>6. /\ \A j \in DOMAIN s : s[j] \in S => /\ Len(C(j)) \in DOMAIN C(Len(s))
                                           /\ C(Len(s))[Len(C(j))] = s[j]
      /\ \A i \in DOMAIN C(Len(s)) : \E j \in DOMAIN s : s[j] \in S /\ Len(C(j)) = i
  <2>1. Len(s) \in 0..Len(s)
    BY <1>3
  <2> QED
    BY <1>1, <1>3, <1>4, <2>1, Zenon
<1> QED
  BY <1>2, <1>4, <1>5, <1>6, Zenon

\* a comes before b in s.
Before(s, a, b) == \E i, j \in DOMAIN s : i < j /\ s[i] = a /\ s[j] = b

Distinct(s) == \A i, j \in DOMAIN s : s[i] = s[j] => i = j

\* Chosen keeps the elements that are in S, in their order.
LEMMA ChosenElements ==
  ASSUME NEW s \in Seq(MAC), NEW S
  PROVE  /\ Chosen(s, S) \in Seq(MAC)
         /\ Members(Chosen(s, S)) = Members(s) \cap S
         /\ Distinct(s) => Distinct(Chosen(s, S))
         /\ \A a \in S, b \in S : Before(s, a, b) => Before(Chosen(s, S), a, b)
         /\ \A a, b : Before(Chosen(s, S), a, b) => a \in S /\ b \in S /\ Before(s, a, b)
<1> DEFINE c    == Chosen(s, S)
           r(j) == Rank(s, S, j)
<1>1. /\ c \in Seq(MAC)
      /\ \A j \in DOMAIN s : s[j] \in S => r(j) \in DOMAIN c /\ c[r(j)] = s[j]
      /\ \A i \in DOMAIN c : \E j \in DOMAIN s : s[j] \in S /\ r(j) = i
      /\ \A j, k \in DOMAIN s : j < k /\ s[j] \in S /\ s[k] \in S => r(j) < r(k)
  BY ChosenPlaces
<1>2. DOMAIN s = 1..Len(s) /\ DOMAIN c = 1..Len(c) /\ Len(s) \in Nat /\ Len(c) \in Nat
  BY <1>1
<1> HIDE DEF c, r
<1>3. Members(c) = Members(s) \cap S
  BY <1>1 DEF Members
<1>4. ASSUME Distinct(s)
      PROVE  Distinct(c)
  <2> SUFFICES ASSUME NEW i \in DOMAIN c, NEW j \in DOMAIN c, c[i] = c[j]
               PROVE  i = j
    BY DEF Distinct
  <2>1. PICK k \in DOMAIN s : s[k] \in S /\ r(k) = i
    BY <1>1
  <2>2. PICK l \in DOMAIN s : s[l] \in S /\ r(l) = j
    BY <1>1
  <2>3. s[k] = s[l]
    BY <1>1, <2>1, <2>2
  <2>4. k = l
    BY <1>4, <2>3 DEF Distinct
  <2> QED
    BY <2>1, <2>2, <2>4
<1>5. ASSUME NEW a \in S, NEW b \in S, Before(s, a, b)
      PROVE  Before(c, a, b)
  <2>1. PICK i \in DOMAIN s, j \in DOMAIN s : i < j /\ s[i] = a /\ s[j] = b
    BY <1>5 DEF Before
  <2>2. r(i) \in DOMAIN c /\ r(j) \in DOMAIN c /\ r(i) < r(j) /\ c[r(i)] = a /\ c[r(j)] = b
    BY <1>1, <2>1
  <2> QED
    BY <2>2 DEF Before
<1>6. ASSUME NEW a, NEW b, Before(c, a, b)
      PROVE  a \in S /\ b \in S /\ Before(s, a, b)
  <2>1. PICK i \in DOMAIN c, j \in DOMAIN c : i < j /\ c[i] = a /\ c[j] = b
    BY <1>6 DEF Before
  <2>2. PICK k \in DOMAIN s : s[k] \in S /\ r(k) = i
    BY <1>1
  <2>3. PICK l \in DOMAIN s : s[l] \in S /\ r(l) = j
    BY <1>1
  <2>4. s[k] = a /\ s[l] = b
    BY <1>1, <2>1, <2>2, <2>3
  <2>5. k < l
    <3>1. ~(l < k) /\ l # k
      BY <1>1, <1>2, <2>1, <2>2, <2>3
    <3> QED
      BY <1>2, <3>1
  <2> QED
    BY <2>2, <2>3, <2>4, <2>5 DEF Before
<1> QED
  BY <1>1, <1>3, <1>4, <1>5, <1>6 DEF c

\* Who has at least as many before it comes at least as late.
LEMMA ComesNoEarlier ==
  ASSUME NEW s \in Seq(MAC), NEW u \in Seq(MAC), Distinct(s), Distinct(u),
         NEW i \in DOMAIN s, s[i] \in Members(u),
         \A a : Before(s, a, s[i]) => Before(u, a, s[i])
  PROVE  \E j \in DOMAIN u : j >= i /\ u[j] = s[i]
<1>1. PICK j \in DOMAIN u : u[j] = s[i]
  BY DEF Members
<1>2. DOMAIN s = 1..Len(s) /\ DOMAIN u = 1..Len(u) /\ Len(s) \in Nat /\ Len(u) \in Nat
  OBVIOUS
<1>3. SUFFICES ASSUME j < i PROVE FALSE
  BY <1>1, <1>2
<1>4. \A x \in 1..(i - 1) : \E y \in 1..(j - 1) : u[y] = s[x]
  <2> SUFFICES ASSUME NEW x \in 1..(i - 1)
               PROVE  \E y \in 1..(j - 1) : u[y] = s[x]
    OBVIOUS
  <2>1. x \in DOMAIN s /\ x < i
    BY <1>2
  <2>2. Before(s, s[x], s[i])
    BY <2>1 DEF Before
  <2>3. PICK y \in DOMAIN u, k \in DOMAIN u : y < k /\ u[y] = s[x] /\ u[k] = s[i]
    BY <2>2 DEF Before
  <2>4. k = j
    BY <1>1, <2>3 DEF Distinct
  <2>5. y \in 1..(j - 1)
    BY <1>2, <2>3, <2>4
  <2> QED
    BY <2>3, <2>5
<1> DEFINE f == [x \in 1..(i - 1) |-> CHOOSE y \in 1..(j - 1) : u[y] = s[x]]
<1>5. f \in [1..(i - 1) -> 1..(j - 1)] /\ \A x \in 1..(i - 1) : u[f[x]] = s[x]
  BY <1>4
<1>6. /\ IsFiniteSet(1..(i - 1)) /\ IsFiniteSet(1..(j - 1))
      /\ Cardinality(1..(j - 1)) < Cardinality(1..(i - 1))
  <2>1. i - 1 \in Int /\ j - 1 \in Int /\ 1 \in Int /\ ~(1 > i - 1) /\ j - 1 < i - 1 /\ i - 1 >= 1
        /\ j >= 1
    BY <1>2, <1>3
  <2>2. /\ IsFiniteSet(1..(i - 1)) /\ Cardinality(1..(i - 1)) = i - 1
        /\ IsFiniteSet(1..(j - 1)) /\ Cardinality(1..(j - 1)) = IF 1 > j - 1 THEN 0 ELSE j - 1
    <3>1. /\ IsFiniteSet(1..(i - 1))
          /\ Cardinality(1..(i - 1)) = IF 1 > i - 1 THEN 0 ELSE (i - 1) - 1 + 1
      BY <2>1, FS_Interval
    <3>2. /\ IsFiniteSet(1..(j - 1))
          /\ Cardinality(1..(j - 1)) = IF 1 > j - 1 THEN 0 ELSE (j - 1) - 1 + 1
      BY <2>1, FS_Interval
    <3> QED
      BY <2>1, <3>1, <3>2
  <2> QED
    BY <2>1, <2>2
<1> HIDE DEF f
<1>7. PICK x \in 1..(i - 1), y \in 1..(i - 1) : x # y /\ f[x] = f[y]
  <2> DEFINE S == 1..(i - 1)
             T == 1..(j - 1)
  <2>1. IsFiniteSet(S) /\ IsFiniteSet(T) /\ Cardinality(T) < Cardinality(S) /\ f \in [S -> T]
    BY <1>5, <1>6
  <2> HIDE DEF S, T
  <2>2. \E x, y \in S : x # y /\ f[x] = f[y]
    BY <2>1, FS_PigeonHole
  <2> QED
    BY <2>2 DEF S
<1>8. x \in DOMAIN s /\ y \in DOMAIN s /\ s[x] = s[y]
  BY <1>2, <1>5, <1>7
<1> QED
  BY <1>7, <1>8 DEF Distinct

-----------------------------------------------------------------------------
(* The table and its lists. *)

LEMMA TableParts ==
  /\ \A t \in Table :
       /\ t.order \in Seq(MAC) /\ Distinct(t.order)
       /\ t.detected \in [MAC -> Type \cup {NULL}] /\ t.custom \in [MAC -> Type \cup {NULL}]
       /\ t = [order |-> t.order, detected |-> t.detected, custom |-> t.custom]
  /\ \A o \in Seq(MAC), d, e \in [MAC -> Type \cup {NULL}] :
       Distinct(o) => [order |-> o, detected |-> d, custom |-> e] \in Table
BY DEF Table, Distinct

LEMMA AppliedTable ==
  ASSUME NEW t \in Table, NEW m \in MAC, NEW type \in Type \cup {NULL}
  PROVE  /\ Upserted(t, m, type) \in Table
         /\ Members(Upserted(t, m, type).order) = Members(t.order) \cup {m}
         /\ \A a, b : Before(t.order, a, b) /\ a # m /\ b # m => Before(Upserted(t, m, type).order, a, b)
         /\ \A b \in Members(t.order) : b # m => Before(Upserted(t, m, type).order, m, b)
         /\ Retyped(t, m, type) \in Table
         /\ Retyped(t, m, type).order = t.order
<1> DEFINE S == MAC \ {m}
           c == Chosen(t.order, S)
           n == <<m>> \o c
<1>1. /\ t.order \in Seq(MAC) /\ Distinct(t.order)
      /\ t.detected \in [MAC -> Type \cup {NULL}] /\ t.custom \in [MAC -> Type \cup {NULL}]
      /\ t = [order |-> t.order, detected |-> t.detected, custom |-> t.custom]
  BY TableParts
<1>2. /\ c \in Seq(MAC) /\ Members(c) = Members(t.order) \cap S /\ Distinct(c)
      /\ \A a \in S, b \in S : Before(t.order, a, b) => Before(c, a, b)
  BY <1>1, ChosenElements
<1>3. Upserted(t, m, type) =
        [order |-> n, detected |-> [t.detected EXCEPT ![m] = type], custom |-> t.custom]
  <2>1. Upserted(t, m, type) = [t EXCEPT !.order = n, !.detected[m] = type]
    BY DEF Upserted
  <2> HIDE DEF n
  <2>2. [t EXCEPT !.order = n, !.detected[m] = type] =
          [order |-> n, detected |-> [t.detected EXCEPT ![m] = type], custom |-> t.custom]
    <3> DEFINE u == [t EXCEPT !.order = n]
    <3>1. [t EXCEPT !.order = n, !.detected[m] = type] = [u EXCEPT !.detected[m] = type]
      OBVIOUS
    <3>2. u = [order |-> n, detected |-> t.detected, custom |-> t.custom]
      BY <1>1
    <3> HIDE DEF u
    <3>3. [u EXCEPT !.detected[m] = type] =
            [order |-> n, detected |-> [t.detected EXCEPT ![m] = type], custom |-> t.custom]
      BY <3>2
    <3> QED
      BY <3>1, <3>3
  <2> QED
    BY <2>1, <2>2
<1> HIDE DEF c
<1>4. /\ n \in Seq(MAC) /\ Len(n) = Len(c) + 1 /\ n[1] = m
      /\ \A i \in DOMAIN c : i + 1 \in DOMAIN n /\ n[i + 1] = c[i]
      /\ \A i \in DOMAIN n : i = 1 \/ (i - 1 \in DOMAIN c /\ n[i] = c[i - 1])
      /\ DOMAIN n = 1..(Len(c) + 1) /\ Len(c) \in Nat /\ DOMAIN c = 1..Len(c)
  BY <1>2
<1> HIDE DEF n
<1>5. Members(n) = Members(t.order) \cup {m}
  <2>1. Members(t.order) \subseteq MAC
    BY <1>1 DEF Members
  <2>2. Members(n) = Members(c) \cup {m}
    BY <1>4 DEF Members
  <2> QED
    BY <1>2, <2>1, <2>2
<1>6. Distinct(n)
  <2> SUFFICES ASSUME NEW i \in DOMAIN n, NEW j \in DOMAIN n, n[i] = n[j]
               PROVE  i = j
    BY DEF Distinct
  <2>1. \A k \in DOMAIN c : c[k] # m
    BY <1>2 DEF Members
  <2>2. CASE i = 1 \/ j = 1
    BY <1>4, <2>1, <2>2
  <2>3. CASE i # 1 /\ j # 1
    <3>1. /\ i - 1 \in DOMAIN c /\ n[i] = c[i - 1]
          /\ j - 1 \in DOMAIN c /\ n[j] = c[j - 1]
      BY <1>4, <2>3
    <3>2. i - 1 = j - 1
      BY <1>2, <3>1 DEF Distinct
    <3> QED
      BY <1>4, <3>2
  <2> QED
    BY <2>2, <2>3
<1>7. ASSUME NEW a, NEW b, Before(t.order, a, b), a # m, b # m
      PROVE  Before(n, a, b)
  <2>1. a \in S /\ b \in S
    BY <1>1, <1>7 DEF Before
  <2>2. PICK i \in DOMAIN c, j \in DOMAIN c : i < j /\ c[i] = a /\ c[j] = b
    BY <1>2, <1>7, <2>1 DEF Before
  <2>3. i + 1 \in DOMAIN n /\ j + 1 \in DOMAIN n /\ i + 1 < j + 1 /\ n[i + 1] = a /\ n[j + 1] = b
    BY <1>4, <2>2
  <2> QED
    BY <2>3 DEF Before
<1>8. ASSUME NEW b \in Members(t.order), b # m
      PROVE  Before(n, m, b)
  <2>1. b \in Members(c)
    BY <1>1, <1>2, <1>8 DEF Members
  <2>2. PICK j \in DOMAIN c : c[j] = b
    BY <2>1 DEF Members
  <2>3. 1 \in DOMAIN n /\ j + 1 \in DOMAIN n /\ 1 < j + 1 /\ n[1] = m /\ n[j + 1] = b
    BY <1>4, <2>2
  <2> QED
    BY <2>3 DEF Before
<1>9. Upserted(t, m, type) \in Table /\ Upserted(t, m, type).order = n
  <2>1. [t.detected EXCEPT ![m] = type] \in [MAC -> Type \cup {NULL}]
    BY <1>1
  <2> QED
    <3> DEFINE d == [t.detected EXCEPT ![m] = type]
    <3>1. t.custom \in [MAC -> Type \cup {NULL}] /\ d \in [MAC -> Type \cup {NULL}]
      BY <1>1, <2>1
    <3>2. Upserted(t, m, type) = [order |-> n, detected |-> d, custom |-> t.custom]
      BY <1>3
    <3>3. n \in Seq(MAC) /\ Distinct(n)
      BY <1>4, <1>6
    <3> HIDE DEF d
    <3>4. [order |-> n, detected |-> d, custom |-> t.custom] \in Table
      BY <3>1, <3>3, TableParts
    <3> QED
      BY <3>2, <3>4
<1>10. Retyped(t, m, type) \in Table /\ Retyped(t, m, type).order = t.order
  <2> DEFINE u == [order |-> t.order, detected |-> t.detected,
                   custom |-> [t.custom EXCEPT ![m] = type]]
  <2>1. [t EXCEPT !.custom[m] = type] = u
    BY <1>1
  <2>2. u \in Table
    BY <1>1, TableParts
  <2>3. Retyped(t, m, type) = u \/ Retyped(t, m, type) = t
    BY <2>1 DEF Retyped
  <2> QED
    BY <2>2, <2>3
<1> QED
  BY <1>5, <1>7, <1>8, <1>9, <1>10

\* Every request but the list is about a device.
Writes == {r \in Request : r.op # "list" /\ r.mac # NULL}

LEMMA AppliedInTable ==
  ASSUME NEW t \in Table, NEW r \in Writes \cup {List}
  PROVE  Applied(t, r) \in Table
<1>1. CASE r \in Writes
  <2>1. r.mac \in MAC /\ r.type \in Type \cup {NULL} /\ r.op \in {"upsert", "retype", "merge"}
    BY <1>1 DEF Writes, Request
  <2>2. Upserted(t, r.mac, r.type) \in Table /\ Retyped(t, r.mac, r.type) \in Table
    BY <2>1, AppliedTable
  <2> QED
    BY <2>1, <2>2 DEF Applied
<1>2. CASE r = List
  BY <1>2 DEF Applied, List
<1> QED
  BY <1>1, <1>2

LEMMA SelectedElements ==
  ASSUME NEW t \in Table, NEW f
  PROVE  /\ Selected(t, f) \in Seq(MAC) /\ Distinct(Selected(t, f))
         /\ Members(Selected(t, f)) = Members(t.order) \cap Matching(t, f)
         /\ \A a \in Matching(t, f), b \in Matching(t, f) :
              Before(t.order, a, b) => Before(Selected(t, f), a, b)
         /\ \A a, b : Before(Selected(t, f), a, b) =>
              a \in Matching(t, f) /\ b \in Matching(t, f) /\ Before(t.order, a, b)
BY TableParts, ChosenElements DEF Selected

\* A write that hides nobody brings nobody forward but whom it is about.
LEMMA WritesBringNobodyForward ==
  ASSUME NEW t \in Table, NEW r \in Writes, NEW f,
         Members(Selected(t, f)) \subseteq Members(Selected(Applied(t, r), f)),
         NEW i \in DOMAIN Selected(t, f), r.op = "upsert" => Selected(t, f)[i] # r.mac
  PROVE  \E j \in DOMAIN Selected(Applied(t, r), f) :
           j >= i /\ Selected(Applied(t, r), f)[j] = Selected(t, f)[i]
<1> DEFINE u == Applied(t, r)
           s == Selected(t, f)
           v == Selected(u, f)
           m == s[i]
<1>1. u \in Table
  BY AppliedInTable
<1>2. /\ s \in Seq(MAC) /\ Distinct(s) /\ Members(s) = Members(t.order) \cap Matching(t, f)
      /\ \A a, b : Before(s, a, b) =>
           a \in Matching(t, f) /\ b \in Matching(t, f) /\ Before(t.order, a, b)
  BY SelectedElements
<1>3. /\ v \in Seq(MAC) /\ Distinct(v) /\ Members(v) = Members(u.order) \cap Matching(u, f)
      /\ \A a \in Matching(u, f), b \in Matching(u, f) : Before(u.order, a, b) => Before(v, a, b)
  BY <1>1, SelectedElements
<1>4. r.mac \in MAC /\ r.type \in Type \cup {NULL} /\ r.op \in {"upsert", "retype", "merge"}
  BY DEF Writes, Request
<1>5. \A a : Before(t.order, a, m) => Before(u.order, a, m)
  <2> SUFFICES ASSUME NEW a, Before(t.order, a, m)
               PROVE  Before(u.order, a, m)
    OBVIOUS
  <2>1. m \in Members(t.order)
    BY DEF Before, Members
  <2>2. CASE r.op = "upsert"
    <3>1. u = Upserted(t, r.mac, r.type) /\ m # r.mac
      BY <2>2 DEF Applied
    <3> HIDE DEF u, m
    <3>2. CASE a = r.mac
      BY <1>4, <2>1, <3>1, <3>2, AppliedTable
    <3>3. CASE a # r.mac
      BY <1>4, <3>1, <3>3, AppliedTable
    <3> QED
      BY <3>2, <3>3
  <2>3. CASE r.op = "retype"
    <3>1. u = Retyped(t, r.mac, r.type)
      BY <2>3 DEF Applied
    <3> HIDE DEF u, m
    <3>2. u.order = t.order
      BY <1>4, <3>1, AppliedTable
    <3> QED
      BY <3>2
  <2>4. CASE r.op = "merge"
    <3>1. u = t
      BY <2>4 DEF Applied
    <3> QED
      BY <3>1
  <2> QED
    BY <1>4, <2>2, <2>3, <2>4
<1> HIDE DEF u, s, v
<1>6. m \in Members(v)
  BY DEF Members, u, s, v
<1>7. \A a : Before(s, a, m) => Before(v, a, m)
  <2> SUFFICES ASSUME NEW a, Before(s, a, m)
               PROVE  Before(v, a, m)
    OBVIOUS
  <2>1. Before(u.order, a, m)
    BY <1>2, <1>5
  <2>2. a \in Members(s)
    BY DEF Before, Members
  <2>3. a \in Members(v)
    BY <2>2 DEF u, s, v
  <2> QED
    BY <1>3, <1>6, <2>1, <2>3
<1>8. i \in DOMAIN s
  BY DEF s
<1>9. \E j \in DOMAIN v : j >= i /\ v[j] = s[i]
  BY <1>2, <1>3, <1>6, <1>7, <1>8, ComesNoEarlier
<1> QED
  BY <1>9 DEF u, s, v

-----------------------------------------------------------------------------
(* The client's walk. *)

\* What the walk has to show for the pages it has been given: who stayed is on
\* one of them or still ahead, and while nothing changes they are a prefix of
\* the list.
OnTheWay(t, w) ==
  LET rows == Selected(t, w.filter)
  IN  /\ w.limit = NULL => w.offset = 0
      /\ ~w.left => \A m \in w.steady : \/ m \in Members(w.got)
                                        \/ \E i \in DOMAIN rows : i > w.offset /\ rows[i] = m
      /\ w.list # NULL => /\ w.list = rows
                          /\ w.offset <= Len(rows)
                          /\ w.got = SubSeq(rows, 1, w.offset)

Arrived(w) ==
  /\ ~w.left => w.steady \subseteq Members(w.got)
  /\ w.list \in {NULL, w.got}

WalkInv(t, w) ==
  /\ w \in Walk
  /\ w.status = "walking" => OnTheWay(t, w)
  /\ w.status = "done" => Arrived(w)

LEMMA NoWalkInv ==
  ASSUME NEW t
  PROVE  NoWalk \in Walk /\ WalkInv(t, NoWalk)
<1>1. NoWalk \in Walk
  BY DEF NoWalk, Walk
<1> QED
  BY <1>1 DEF WalkInv, NoWalk

LEMMA SetOutInv ==
  ASSUME NEW t \in Table, NEW filter \in Filters, NEW limit \in Limits
  PROVE  WalkInv(t, SetOut(t, filter, limit))
<1> DEFINE rows == Selected(t, filter)
           w    == SetOut(t, filter, limit)
<1>1. rows \in Seq(MAC) /\ Members(rows) \subseteq MAC
  BY SelectedElements DEF Members
<1>2. w = [NoWalk EXCEPT !.status = "walking", !.filter = filter, !.limit = limit,
                         !.steady = Members(rows), !.list = rows]
  BY DEF SetOut
<1> HIDE DEF rows
<1>3. /\ w.status = "walking" /\ w.filter = filter /\ w.limit = limit /\ w.offset = 0
      /\ w.got = <<>> /\ w.steady = Members(rows) /\ w.left = FALSE /\ w.list = rows
      /\ w \in Walk
  <2> HIDE DEF w
  <2>1. w.status = "walking" /\ w.filter = filter /\ w.limit = limit /\ w.offset = 0
    BY <1>2 DEF NoWalk
  <2>2. w.got = <<>> /\ w.steady = Members(rows) /\ w.left = FALSE /\ w.list = rows
    BY <1>2 DEF NoWalk
  <2>3. w \in Walk
    BY <1>1, <1>2, NoWalkInv DEF Walk
  <2> QED
    BY <2>1, <2>2, <2>3
<1>4. SubSeq(rows, 1, 0) = <<>>
  BY SubSeqEmpty
<1>5. \A m \in Members(rows) : \E i \in DOMAIN rows : i > 0 /\ rows[i] = m
  BY <1>1 DEF Members
<1>6. Len(rows) \in Nat
  BY <1>1
<1> HIDE DEF w
<1>7. OnTheWay(t, w)
  <2>1. Selected(t, w.filter) = rows
    BY <1>3 DEF rows
  <2> QED
    BY <1>3, <1>4, <1>5, <1>6, <2>1 DEF OnTheWay
<1> QED
  BY <1>3, <1>7 DEF WalkInv, w

LEMMA PageArithmetic ==
  ASSUME NEW o \in Nat, NEW l \in Nat \ {0}, NEW k \in Nat, NEW n \in Nat,
         n <= k, n <= o + l, n = o + l \/ n = k
  PROVE  LET p == IF o + 1 <= n THEN n - (o + 1) + 1 ELSE 0
         IN  /\ p < l => k < o + l
             /\ ~(p < l) => o + l <= k
             /\ o <= k => 1 \in 1..(k + 1) /\ o \in (1 - 1)..k /\ n \in o..k
             /\ \A i \in 1..k : i > o /\ i <= o + l =>
                  i - o \in 1..p /\ p = n - (o + 1) + 1 /\ o + 1 + (i - o) - 1 = i
OBVIOUS

\* The page after the first o rows: shorter than l only if it ends the list.
LEMMA PageElements ==
  ASSUME NEW rows \in Seq(MAC), NEW o \in Nat, NEW l \in Nat \ {0}
  PROVE  LET page == SubSeq(rows, o + 1, Least(o + l, Len(rows)))
         IN  /\ page \in Seq(MAC)
             /\ \A i \in DOMAIN rows : i > o /\ i <= o + l => rows[i] \in Members(page)
             /\ Len(page) < l => Len(rows) < o + l
             /\ ~(Len(page) < l) => o + l <= Len(rows)
             /\ o <= Len(rows) =>
                  SubSeq(rows, 1, o) \o page = SubSeq(rows, 1, Least(o + l, Len(rows)))
<1> DEFINE k    == Len(rows)
           n    == Least(o + l, k)
           page == SubSeq(rows, o + 1, n)
<1>1. /\ k \in Nat /\ DOMAIN rows = 1..k /\ \A i \in 1..k : rows[i] \in MAC
  OBVIOUS
<1> HIDE DEF k
<1>2. n \in Nat /\ n <= k /\ n <= o + l /\ (n = o + l \/ n = k)
  BY <1>1 DEF Least
<1> HIDE DEF n
<1> DEFINE p == IF o + 1 <= n THEN n - (o + 1) + 1 ELSE 0
<1>3. /\ p < l => k < o + l
      /\ ~(p < l) => o + l <= k
      /\ o <= k => 1 \in 1..(k + 1) /\ o \in (1 - 1)..k /\ n \in o..k
      /\ \A i \in 1..k : i > o /\ i <= o + l =>
           i - o \in 1..p /\ p = n - (o + 1) + 1 /\ o + 1 + (i - o) - 1 = i
  BY <1>1, <1>2, PageArithmetic
<1>4. /\ page \in Seq(MAC) /\ Len(page) = p
      /\ \A i \in 1..(n - (o + 1) + 1) : page[i] = rows[o + 1 + i - 1]
  <2>1. o + 1 \in Int /\ n \in Int /\ \A i \in (o + 1)..n : rows[i] \in MAC
    BY <1>1, <1>2
  <2> QED
    BY <2>1, SubSeqProperties
<1> HIDE DEF page, p
<1>5. ASSUME NEW i \in DOMAIN rows, i > o, i <= o + l
      PROVE  rows[i] \in Members(page)
  <2>1. i - o \in 1..p /\ p = n - (o + 1) + 1 /\ o + 1 + (i - o) - 1 = i
    BY <1>1, <1>3, <1>5
  <2>2. page[i - o] = rows[i]
    BY <1>4, <2>1
  <2>3. i - o \in DOMAIN page
    BY <1>4, <2>1
  <2> QED
    BY <2>2, <2>3 DEF Members
<1>6. ASSUME o <= k
      PROVE  SubSeq(rows, 1, o) \o page = SubSeq(rows, 1, n)
  <2>1. 1 \in 1..(Len(rows) + 1) /\ o \in (1 - 1)..Len(rows) /\ n \in o..Len(rows)
    BY <1>3, <1>6 DEF k
  <2> QED
    BY <2>1, ConcatAdjacentSubSeq DEF page
<1> QED
  BY <1>3, <1>4, <1>5, <1>6 DEF page, n, k

LEMMA LeastOf ==
  \A m, n \in Nat : /\ n < m => Least(m, n) = n
                    /\ m <= n => Least(m, n) = m
BY DEF Least

LEMMA AdvancedInv ==
  ASSUME NEW t \in Table, NEW w, WalkInv(t, w), w.status = "walking"
  PROVE  WalkInv(t, Advanced(w, Page(t, w.filter, w.limit, w.offset)))
<1> DEFINE rows == Selected(t, w.filter)
           page == Page(t, w.filter, w.limit, w.offset)
           last == w.limit = NULL \/ Len(page) < w.limit
           o    == w.offset
           l    == w.limit
           v    == Advanced(w, page)
<1> SUFFICES WalkInv(t, v)
  OBVIOUS
<1>1. rows \in Seq(MAC) /\ Len(rows) \in Nat /\ DOMAIN rows = 1..Len(rows)
  BY SelectedElements
<1>2. w \in Walk /\ OnTheWay(t, w)
  BY DEF WalkInv
<1>3. /\ l = NULL => o = 0
      /\ ~w.left => \A m \in w.steady : \/ m \in Members(w.got)
                                        \/ \E i \in DOMAIN rows : i > o /\ rows[i] = m
      /\ w.list # NULL => w.list = rows /\ o <= Len(rows) /\ w.got = SubSeq(rows, 1, o)
      /\ o \in Nat /\ l \in Limits \cup {NULL} /\ w.got \in Seq(MAC)
      /\ l # NULL => l \in Nat \ {0}
  <2>1. o \in Nat /\ l \in Limits \cup {NULL} /\ w.got \in Seq(MAC)
    BY <1>2 DEF Walk
  <2> QED
    BY <1>2, <2>1, RegistryConstants DEF OnTheWay
<1>4. page = IF l = NULL THEN rows ELSE SubSeq(rows, o + 1, Least(o + l, Len(rows)))
  BY DEF Page
<1> HIDE DEF rows, page
\* What the page has of the rows.
<1>5. /\ page \in Seq(MAC)
      /\ last => /\ \A i \in DOMAIN rows : i > o => rows[i] \in Members(page)
                 /\ w.list # NULL => w.got \o page = rows
      /\ ~last => /\ l # NULL /\ o + l <= Len(rows)
                  /\ \A i \in DOMAIN rows : i > o /\ i <= o + l => rows[i] \in Members(page)
                  /\ w.list # NULL => w.got \o page = SubSeq(rows, 1, o + l)
  <2>1. CASE l = NULL
    <3>1. last /\ page = rows /\ o = 0
      BY <1>3, <1>4, <2>1
    <3>2. SubSeq(rows, 1, 0) = <<>>
      BY SubSeqEmpty
    <3>3. w.list # NULL => w.got \o page = rows
      <4>1. <<>> \o rows = rows
        BY <1>1, ConcatEmptySeq
      <4> QED
        BY <1>3, <3>1, <3>2, <4>1
    <3>4. \A i \in DOMAIN rows : rows[i] \in Members(rows)
      BY DEF Members
    <3> QED
      BY <1>1, <3>1, <3>3, <3>4
  <2>2. CASE l # NULL
    <3>1. l \in Nat \ {0} /\ page = SubSeq(rows, o + 1, Least(o + l, Len(rows)))
      BY <1>3, <1>4, <2>2
    <3>2. /\ page \in Seq(MAC)
          /\ \A i \in DOMAIN rows : i > o /\ i <= o + l => rows[i] \in Members(page)
          /\ Len(page) < l => Len(rows) < o + l
          /\ ~(Len(page) < l) => o + l <= Len(rows)
          /\ o <= Len(rows) =>
               SubSeq(rows, 1, o) \o page = SubSeq(rows, 1, Least(o + l, Len(rows)))
      BY <1>1, <1>3, <3>1, PageElements
    <3>3. last <=> Len(page) < l
      BY <2>2
    <3>4. w.list # NULL => w.got \o page = SubSeq(rows, 1, Least(o + l, Len(rows)))
      BY <1>3, <3>2
    <3> HIDE DEF last, o, l
    <3>5. CASE last
      <4>1. Least(o + l, Len(rows)) = Len(rows)
        <5>1. o + l \in Nat /\ Len(rows) < o + l
          BY <1>3, <3>1, <3>2, <3>3, <3>5
        <5> QED
          BY <1>1, <5>1, LeastOf
      <4>2. SubSeq(rows, 1, Len(rows)) = rows
        BY <1>1, SubSeqFull
      <4>3. \A i \in DOMAIN rows : i > o => rows[i] \in Members(page)
        <5>1. \A i \in DOMAIN rows : i <= o + l
          BY <1>1, <1>3, <3>1, <3>2, <3>3, <3>5
        <5> QED
          BY <3>2, <5>1
      <4> QED
        BY <3>2, <3>4, <3>5, <4>1, <4>2, <4>3
    <3>6. CASE ~last
      <4>1. Least(o + l, Len(rows)) = o + l
        <5>1. o + l \in Nat /\ o + l <= Len(rows)
          BY <1>3, <3>1, <3>2, <3>3, <3>6
        <5> QED
          BY <1>1, <5>1, LeastOf
      <4> QED
        BY <2>2, <3>2, <3>3, <3>4, <3>6, <4>1
    <3> QED
      BY <3>5, <3>6
  <2> QED
    BY <2>1, <2>2
<1>6. /\ v.filter = w.filter /\ v.limit = l /\ v.steady = w.steady /\ v.left = w.left
      /\ v.list = w.list /\ v.got = w.got \o page
      /\ v.status = IF last THEN "done" ELSE "walking"
      /\ v.offset = IF last THEN 0 ELSE o + l
  BY <1>2 DEF Advanced, Walk
<1>7. Members(w.got \o page) = Members(w.got) \cup Members(page) /\ w.got \o page \in Seq(MAC)
  <2> DEFINE a == w.got
  <2>1. a \in Seq(MAC) /\ page \in Seq(MAC)
    BY <1>3, <1>5
  <2> HIDE DEF a
  <2>2. Members(a \o page) = Members(a) \cup Members(page)
    <3>1. /\ DOMAIN (a \o page) = 1..(Len(a) + Len(page)) /\ Len(a) \in Nat /\ Len(page) \in Nat
          /\ \A i \in 1..(Len(a) + Len(page)) :
               (a \o page)[i] = IF i <= Len(a) THEN a[i] ELSE page[i - Len(a)]
          /\ DOMAIN a = 1..Len(a) /\ DOMAIN page = 1..Len(page)
      BY <2>1
    <3>2. ASSUME NEW i \in DOMAIN (a \o page)
          PROVE  (a \o page)[i] \in Members(a) \cup Members(page)
      <4>1. CASE i <= Len(a)
        BY <3>1, <4>1 DEF Members
      <4>2. CASE ~(i <= Len(a))
        <5>1. i - Len(a) \in DOMAIN page
          BY <3>1, <4>2
        <5> QED
          BY <3>1, <4>2, <5>1 DEF Members
      <4> QED
        BY <4>1, <4>2
    <3>3. ASSUME NEW i \in DOMAIN a
          PROVE  a[i] \in Members(a \o page)
      <4>1. i \in DOMAIN (a \o page) /\ (a \o page)[i] = a[i]
        BY <3>1
      <4> QED
        BY <4>1 DEF Members
    <3>4. ASSUME NEW i \in DOMAIN page
          PROVE  page[i] \in Members(a \o page)
      <4>1. i + Len(a) \in DOMAIN (a \o page) /\ (a \o page)[i + Len(a)] = page[i]
        BY <3>1
      <4> QED
        BY <4>1 DEF Members
    <3> QED
      BY <3>2, <3>3, <3>4 DEF Members
  <2> QED
    BY <2>1, <2>2 DEF a
<1>8. v \in Walk
  <2> DEFINE status == IF last THEN "done" ELSE "walking"
             offset == IF last THEN 0 ELSE o + l
             got    == w.got \o page
  <2>1. status \in {"none", "walking", "done"} /\ offset \in Nat /\ got \in Seq(MAC)
    BY <1>3, <1>5, <1>7
  <2>2. v = [w EXCEPT !.got = got, !.status = status, !.offset = offset]
    BY DEF Advanced
  <2> HIDE DEF v, status, offset, got
  <2> QED
    BY <1>2, <2>1, <2>2 DEF Walk
<1> HIDE DEF v, last
<1>9. CASE last
  <2>1. ASSUME ~v.left, NEW m \in v.steady
        PROVE  m \in Members(v.got)
    BY <1>3, <1>5, <1>6, <1>7, <1>9, <2>1
  <2>2. v.list \in {NULL, v.got}
    BY <1>3, <1>5, <1>6, <1>9
  <2>3. v.status = "done"
    BY <1>6, <1>9
  <2> QED
    BY <1>8, <2>1, <2>2, <2>3 DEF WalkInv, Arrived
<1>10. CASE ~last
  <2>1. l \in Nat \ {0} /\ v.offset = o + l /\ v.status = "walking"
    BY <1>3, <1>5, <1>6, <1>10
  <2>2. Selected(t, v.filter) = rows
    BY <1>6 DEF rows
  <2>3. ASSUME ~v.left, NEW m \in v.steady
        PROVE  m \in Members(v.got) \/ \E i \in DOMAIN rows : i > v.offset /\ rows[i] = m
    <3>1. CASE m \in Members(w.got)
      BY <1>6, <1>7, <3>1
    <3>2. CASE m \notin Members(w.got)
      <4>1. PICK i \in DOMAIN rows : i > o /\ rows[i] = m
        BY <1>3, <1>6, <2>3, <3>2
      <4>2. CASE i <= o + l
        BY <1>5, <1>6, <1>7, <1>10, <4>1, <4>2
      <4>3. CASE ~(i <= o + l)
        <5>1. i > v.offset
          BY <1>1, <1>3, <2>1, <4>3
        <5> QED
          BY <4>1, <5>1
      <4> QED
        BY <4>2, <4>3
    <3> QED
      BY <3>1, <3>2
  <2>4. v.list # NULL => /\ v.list = rows /\ v.offset <= Len(rows)
                         /\ v.got = SubSeq(rows, 1, v.offset)
    BY <1>3, <1>5, <1>6, <1>10, <2>1
  <2>5. OnTheWay(t, v)
    BY <1>5, <1>6, <1>10, <2>2, <2>3, <2>4 DEF OnTheWay
  <2> QED
    BY <1>8, <2>1, <2>5 DEF WalkInv
<1> QED
  BY <1>9, <1>10

LEMMA WitnessedInv ==
  ASSUME NEW t \in Table, NEW w, WalkInv(t, w), NEW r \in Writes
  PROVE  WalkInv(Applied(t, r), Witnessed(w, t, Applied(t, r), r))
<1> DEFINE u      == Applied(t, r)
           before == Members(Selected(t, w.filter))
           after  == Members(Selected(u, w.filter))
           v      == Witnessed(w, t, u, r)
<1> SUFFICES WalkInv(u, v)
  OBVIOUS
<1>1. w \in Walk
  BY DEF WalkInv
<1>2. CASE w.status # "walking"
  <2>1. v = w
    BY <1>2 DEF Witnessed
  <2> QED
    BY <1>2, <2>1 DEF WalkInv
<1>3. CASE w.status = "walking"
  <2> DEFINE rows   == Selected(t, w.filter)
             now    == Selected(u, w.filter)
             steady == IF r.op = "upsert" THEN w.steady \ {r.mac} ELSE w.steady \cap after
             left   == w.left \/ ~(before \subseteq after)
             list   == IF t = u THEN w.list ELSE NULL
  <2>1. v = [w EXCEPT !.steady = steady, !.left = left, !.list = list]
    BY <1>3 DEF Witnessed
  <2>2. /\ steady \subseteq w.steady /\ (r.op = "upsert" => r.mac \notin steady)
        /\ ~left => ~w.left /\ Members(rows) \subseteq Members(now)
        /\ list # NULL => t = u /\ list = w.list
        /\ steady \in SUBSET MAC /\ left \in BOOLEAN /\ list \in Seq(MAC) \cup {NULL}
    BY <1>1 DEF Walk
  <2> HIDE DEF v, steady, left, list
  <2>3. v \in Walk
    BY <1>1, <2>1, <2>2 DEF Walk
  <2>4. /\ v.filter = w.filter /\ v.limit = w.limit /\ v.status = "walking" /\ v.offset = w.offset
        /\ v.got = w.got /\ v.steady = steady /\ v.left = left /\ v.list = list
    BY <1>1, <1>3, <2>1 DEF Walk
  <2>5. OnTheWay(t, w)
    BY <1>3 DEF WalkInv
  <2>6. ASSUME ~left, NEW m \in steady, m \notin Members(w.got)
        PROVE  \E j \in DOMAIN now : j > w.offset /\ now[j] = m
    <3>1. m \in w.steady /\ ~w.left
      BY <2>2, <2>6
    <3>2. PICK i \in DOMAIN rows : i > w.offset /\ rows[i] = m
      BY <2>5, <2>6, <3>1 DEF OnTheWay
    <3>3. PICK j \in DOMAIN now : j >= i /\ now[j] = m
      <4>1. r.op = "upsert" => rows[i] # r.mac
        BY <2>2, <3>2
      <4> QED
        BY <2>2, <2>6, <3>2, <4>1, WritesBringNobodyForward
    <3>4. j > w.offset
      <4>1. i \in Nat /\ j \in Nat
        <5>1. u \in Table
          BY AppliedInTable
        <5>2. rows \in Seq(MAC) /\ now \in Seq(MAC)
          BY <5>1, SelectedElements
        <5> HIDE DEF rows, now
        <5> QED
          BY <5>2
      <4>2. w.offset \in Nat
        BY <1>1 DEF Walk
      <4> QED
        BY <3>2, <3>3, <4>1, <4>2
    <3> QED
      BY <3>3, <3>4
  <2>7. list # NULL => /\ list = now
                       /\ w.offset <= Len(now)
                       /\ w.got = SubSeq(now, 1, w.offset)
    BY <2>2, <2>5 DEF OnTheWay
  <2>8. OnTheWay(u, v)
    <3>1. Selected(u, v.filter) = now
      BY <2>4
    <3>2. w.limit = NULL => w.offset = 0
      BY <2>5 DEF OnTheWay
    <3> HIDE DEF now
    <3> QED
      BY <2>4, <2>6, <2>7, <3>1, <3>2 DEF OnTheWay
  <2> QED
    BY <2>3, <2>4, <2>8 DEF WalkInv
<1> QED
  BY <1>2, <1>3

-----------------------------------------------------------------------------
(* The connections. *)

\* The definitions that Registry and SqliteStore share are the same.
LEMMA SharedDefinitions ==
  /\ Atomic!Call = Call /\ Atomic!List = List /\ Atomic!NoWalk = NoWalk
  /\ \A t, r : Atomic!Applied(t, r) = Applied(t, r)
  /\ \A t, f, l, o : Atomic!Page(t, f, l, o) = Page(t, f, l, o)
  /\ \A w, p : Atomic!Advanced(w, p) = Advanced(w, p)
  /\ \A t, f, l : Atomic!SetOut(t, f, l) = SetOut(t, f, l)
  /\ \A w, t, u, r : Atomic!Witnessed(w, t, u, r) = Witnessed(w, t, u, r)
<1>1. Atomic!Call = Call /\ Atomic!List = List /\ Atomic!NoWalk = NoWalk
  BY DEF Atomic!Call, Call, Atomic!List, List, Atomic!NoWalk, NoWalk
<1>2. \A s, S : Atomic!Chosen(s, S) = Chosen(s, S)
  BY Zenon DEF Atomic!Chosen, Chosen, Atomic!ChosenUpTo, ChosenUpTo
<1>3. \A s : Atomic!Members(s) = Members(s)
  BY DEF Atomic!Members, Members
<1>4. \A t, f : Atomic!Selected(t, f) = Selected(t, f)
  BY <1>2, Zenon DEF Atomic!Selected, Selected, Atomic!Matching, Matching,
                     Atomic!EffectiveType, EffectiveType
<1>5. \A t, r : Atomic!Applied(t, r) = Applied(t, r)
  BY <1>2, <1>3, Zenon DEF Atomic!Applied, Applied, Atomic!Upserted, Upserted,
                           Atomic!Retyped, Retyped
<1>6. \A t, f, l, o : Atomic!Page(t, f, l, o) = Page(t, f, l, o)
  BY <1>4, Zenon DEF Atomic!Page, Page, Atomic!Least, Least
<1>7. \A w, p : Atomic!Advanced(w, p) = Advanced(w, p)
  BY Zenon DEF Atomic!Advanced, Advanced
<1>8. \A t, f, l : Atomic!SetOut(t, f, l) = SetOut(t, f, l)
  BY <1>1, <1>3, <1>4, Zenon DEF Atomic!SetOut, SetOut
<1>9. \A w, t, u, r : Atomic!Witnessed(w, t, u, r) = Witnessed(w, t, u, r)
  <2> SUFFICES ASSUME NEW w, NEW t, NEW u, NEW r
               PROVE  Atomic!Witnessed(w, t, u, r) = Witnessed(w, t, u, r)
    OBVIOUS
  <2>1. /\ Atomic!Members(Atomic!Selected(t, w.filter)) = Members(Selected(t, w.filter))
        /\ Atomic!Members(Atomic!Selected(u, w.filter)) = Members(Selected(u, w.filter))
    BY <1>3, <1>4, Zenon
  <2> QED
    BY <2>1 DEF Atomic!Witnessed, Witnessed
<1> QED
  BY <1>1, <1>5, <1>6, <1>7, <1>8, <1>9, Zenon

CallsInv ==
  /\ stage[Client] \in {"idle", "called", "reading"} /\ request[Client] \in {NULL, List}
  /\ \A c \in Writer : request[c] \in Writes \cup {NULL}

\* One call writes at a time, to the table as it is committed.
WriterInv ==
  /\ \A c, d \in Reserved : c = d
  /\ \A c \in Reserved : draft = Applied(disk, request[c])

CursorInv ==
  stage[Client] = "reading" => cursor = SubSeq(CurrentPage, 1, Least(1, Len(CurrentPage)))

WalkingInv == request[Client] # NULL => walk.status = "walking"

StoreInv ==
  /\ TypeOK
  /\ CallsInv
  /\ WriterInv
  /\ CursorInv
  /\ WalkingInv
  /\ WalkInv(disk, walk)

LEMMA RequestedWrites ==
  ASSUME NEW c \in Writer, NEW r \in Requests[c]
  PROVE  r \in Writes /\ r \in Request /\ r # NULL
BY RegistryConstants DEF Writes

LEMMA ListRequest == List \in Request /\ List # NULL
<1>1. List \in Request
  BY DEF List, Request
<1> QED
  BY <1>1, RegistryConstants

LEMMA PageInSeq ==
  ASSUME NEW t \in Table, NEW w \in Walk
  PROVE  Page(t, w.filter, w.limit, w.offset) \in Seq(MAC)
<1>1. Selected(t, w.filter) \in Seq(MAC)
  BY SelectedElements
<1>2. CASE w.limit = NULL
  BY <1>1, <1>2 DEF Page
<1>3. CASE w.limit # NULL
  <2>1. w.offset \in Nat /\ w.limit \in Nat \ {0}
    BY <1>3, RegistryConstants DEF Walk
  <2>2. SubSeq(Selected(t, w.filter), w.offset + 1,
               Least(w.offset + w.limit, Len(Selected(t, w.filter)))) \in Seq(MAC)
    BY <1>1, <2>1, PageElements
  <2> QED
    BY <1>3, <2>2 DEF Page
<1> QED
  BY <1>2, <1>3

\* The first row and the others are all the rows.
LEMMA FirstAndOthers ==
  ASSUME NEW s \in Seq(MAC)
  PROVE  /\ SubSeq(s, 1, Least(1, Len(s))) \in Seq(MAC)
         /\ SubSeq(s, 1, Least(1, Len(s))) \o SubSeq(s, 2, Len(s)) = s
<1>1. CASE s = <<>>
  <2>1. Len(s) = 0 /\ Least(1, 0) = 0
    BY <1>1 DEF Least
  <2>2. SubSeq(s, 1, 0) = <<>> /\ SubSeq(s, 2, 0) = <<>>
    BY SubSeqEmpty
  <2>3. <<>> \o <<>> = <<>> /\ <<>> \in Seq(MAC)
    OBVIOUS
  <2> QED
    BY <1>1, <2>1, <2>2, <2>3, Zenon
<1>2. CASE s # <<>>
  <2>1. Len(s) \in Nat \ {0}
    BY <1>2, EmptySeq
  <2>2. Least(1, Len(s)) = 1
    BY <2>1, LeastOf
  <2>3. SubSeq(s, 1, 1) \o SubSeq(s, 1 + 1, Len(s)) = SubSeq(s, 1, Len(s))
    <3>1. 1 \in 1..(Len(s) + 1) /\ 1 \in (1 - 1)..Len(s) /\ Len(s) \in 1..Len(s)
      BY <2>1
    <3> QED
      BY <3>1, ConcatAdjacentSubSeq
  <2>4. SubSeq(s, 1, Len(s)) = s
    BY SubSeqFull
  <2>5. SubSeq(s, 1, 1) \in Seq(MAC)
    <3>1. \A i \in 1..1 : s[i] \in MAC
      BY <2>1, ElementOfSeq
    <3> QED
      BY <3>1, SubSeqProperties
  <2>6. 1 + 1 = 2
    OBVIOUS
  <2> QED
    BY <2>2, <2>3, <2>4, <2>5, <2>6
<1> QED
  BY <1>1, <1>2

LEMMA StoreInitial == Init => StoreInv
<1> SUFFICES ASSUME Init PROVE StoreInv
  OBVIOUS
<1>1. /\ disk \in Table /\ walk = NoWalk /\ draft = NULL /\ cursor = <<>>
      /\ stage = [c \in Call |-> "idle"] /\ request = [c \in Call |-> NULL]
  BY SharedDefinitions, RegistryConstants DEF Init, Atomic!Init
<1>2. walk \in Walk /\ WalkInv(disk, walk)
  BY <1>1, NoWalkInv
<1>3. TypeOK
  BY <1>1, <1>2 DEF TypeOK, Stage
<1>4. CallsInv
  BY <1>1 DEF CallsInv, Call
<1>5. WriterInv /\ CursorInv /\ WalkingInv
  BY <1>1 DEF WriterInv, CursorInv, WalkingInv, Reserved, Call
<1> QED
  BY <1>2, <1>3, <1>4, <1>5 DEF StoreInv

\* What is left when a call has ended: the others as they were.
LEMMA Closing ==
  ASSUME StoreInv, NEW c \in Call, Close(c)
  PROVE  /\ stage' \in [Call -> Stage] /\ request' \in [Call -> Request \cup {NULL}]
         /\ \A d \in Call : stage'[d] = "idle" <=> request'[d] = NULL
         /\ cursor' \in Seq(MAC) /\ (stage'[Client] = "reading" => cursor' = cursor)
         /\ CallsInv'
         /\ draft' # NULL <=> \E d \in Call : stage'[d] \in {"reserved", "committing"}
         /\ \A d \in Reserved' : d \in Reserved /\ request'[d] = request[d] /\ draft' = draft
         /\ c \in Reserved => Reserved' = {}
<1>1. /\ stage \in [Call -> Stage] /\ request \in [Call -> Request \cup {NULL}]
      /\ \A d \in Call : stage[d] = "idle" <=> request[d] = NULL
      /\ cursor \in Seq(MAC)
      /\ draft # NULL <=> \E d \in Call : stage[d] \in {"reserved", "committing"}
  BY DEF StoreInv, TypeOK
<1>2. /\ stage' = [stage EXCEPT ![c] = "idle"] /\ request' = [request EXCEPT ![c] = NULL]
      /\ cursor' = IF c = Client THEN <<>> ELSE cursor
      /\ draft' = IF c \in Reserved THEN NULL ELSE draft
  BY DEF Close, Enter
<1>3. \A d \in Call : /\ stage'[d] = IF d = c THEN "idle" ELSE stage[d]
                      /\ request'[d] = IF d = c THEN NULL ELSE request[d]
  BY <1>1, <1>2
<1>4. \A d, e \in Reserved : d = e
  BY DEF StoreInv, WriterInv
<1>5. Client \in Call /\ Writer \subseteq Call
  BY DEF Call
<1>6. stage' \in [Call -> Stage] /\ request' \in [Call -> Request \cup {NULL}]
  BY <1>1, <1>2 DEF Stage
<1>7. \A d \in Call : stage'[d] = "idle" <=> request'[d] = NULL
  BY <1>1, <1>3
<1>8. cursor' \in Seq(MAC) /\ (stage'[Client] = "reading" => cursor' = cursor)
  BY <1>1, <1>2, <1>3, <1>5
<1>9. CallsInv'
  BY <1>3, <1>5 DEF StoreInv, CallsInv
<1>10. \A d \in Reserved' : d \in Reserved /\ d # c /\ request'[d] = request[d]
  BY <1>3 DEF Reserved
<1>11. c \in Reserved => Reserved' = {}
  BY <1>4, <1>10
<1>12. draft' # NULL <=> \E d \in Call : stage'[d] \in {"reserved", "committing"}
  <2>1. CASE c \in Reserved
    <3>1. draft' = NULL /\ Reserved' = {}
      BY <1>2, <1>11, <2>1
    <3> QED
      BY <3>1 DEF Reserved
  <2>2. CASE c \notin Reserved
    <3>1. draft' = draft
      BY <1>2, <2>2
    <3>2. \A d \in Call : stage'[d] \in {"reserved", "committing"}
                            <=> stage[d] \in {"reserved", "committing"}
      BY <1>3, <2>2 DEF Reserved
    <3> QED
      BY <1>1, <3>1, <3>2
  <2> QED
    BY <2>1, <2>2
<1>13. \A d \in Reserved' : draft' = draft
  BY <1>2, <1>11
<1> QED
  BY <1>6, <1>7, <1>8, <1>9, <1>10, <1>11, <1>12, <1>13

LEMMA ClosingKeepsInv ==
  ASSUME StoreInv, NEW c \in Call, Close(c),
         disk' \in Table, WalkInv(disk, walk)',
         disk' = disk \/ c \in Reserved,
         stage'[Client] = "reading" => disk' = disk /\ walk' = walk, WalkingInv'
  PROVE  StoreInv'
<1>1. /\ stage' \in [Call -> Stage] /\ request' \in [Call -> Request \cup {NULL}]
      /\ \A d \in Call : stage'[d] = "idle" <=> request'[d] = NULL
      /\ cursor' \in Seq(MAC) /\ (stage'[Client] = "reading" => cursor' = cursor)
      /\ CallsInv'
      /\ draft' # NULL <=> \E d \in Call : stage'[d] \in {"reserved", "committing"}
      /\ \A d \in Reserved' : d \in Reserved /\ request'[d] = request[d] /\ draft' = draft
      /\ c \in Reserved => Reserved' = {}
  BY Closing
<1>2. TypeOK'
  BY <1>1 DEF TypeOK, WalkInv
<1>3. WriterInv'
  BY <1>1 DEF StoreInv, WriterInv
<1>4. CursorInv'
  <2> SUFFICES ASSUME stage'[Client] = "reading"
               PROVE  cursor' = SubSeq(CurrentPage', 1, Least(1, Len(CurrentPage')))
    BY DEF CursorInv
  <2>1. stage[Client] = "reading"
    <3>1. stage' = [stage EXCEPT ![c] = "idle"]
      BY DEF Close, Enter
    <3>2. Client \in Call /\ stage \in [Call -> Stage]
      BY DEF Call, StoreInv, TypeOK
    <3> QED
      BY <3>1, <3>2
  <2>2. cursor' = cursor /\ CurrentPage' = CurrentPage
    BY <1>1 DEF CurrentPage
  <2> QED
    BY <2>1, <2>2 DEF StoreInv, CursorInv
<1> QED
  BY <1>1, <1>2, <1>3, <1>4 DEF StoreInv

LEMMA StorePreserved == StoreInv /\ [Next]_vars => StoreInv'
<1> SUFFICES ASSUME StoreInv, [Next]_vars PROVE StoreInv'
  OBVIOUS
<1>1. /\ disk \in Table /\ walk \in Walk /\ cursor \in Seq(MAC)
      /\ stage \in [Call -> Stage] /\ request \in [Call -> Request \cup {NULL}]
      /\ draft # NULL <=> \E d \in Call : stage[d] \in {"reserved", "committing"}
      /\ \A d \in Call : stage[d] = "idle" <=> request[d] = NULL
      /\ CallsInv /\ WriterInv /\ CursorInv /\ WalkingInv /\ WalkInv(disk, walk)
  BY DEF StoreInv, TypeOK
<1>2. Client \in Call /\ Writer \subseteq Call /\ Client \notin Writer
  BY RegistryConstants DEF Call
<1>3. ASSUME NEW c \in Writer, NEW r \in Requests[c], Submit(c, r)
      PROVE  StoreInv'
  <2>1. /\ request[c] = NULL /\ request' = [request EXCEPT ![c] = r]
        /\ stage' = [stage EXCEPT ![c] = "called"]
        /\ UNCHANGED <<disk, walk, draft, cursor>>
    BY <1>3 DEF Submit, Atomic!Submit, Enter
  <2>2. r \in Writes /\ r \in Request /\ r # NULL
    BY RequestedWrites
  <2>3. c \in Call /\ c # Client /\ stage[c] = "idle"
    BY <1>1, <1>2, <2>1
  <2>4. Reserved' = Reserved /\ c \notin Reserved
    BY <1>1, <2>1, <2>3 DEF Reserved
  <2>5. TypeOK'
    BY <1>1, <2>1, <2>2, <2>3 DEF TypeOK, Stage
  <2>6. CallsInv'
    BY <1>1, <1>2, <2>1, <2>2, <2>3 DEF CallsInv
  <2>7. WriterInv'
    BY <1>1, <2>1, <2>4 DEF WriterInv, Reserved
  <2>8. CursorInv'
    BY <1>1, <1>2, <2>1, <2>3 DEF CursorInv, CurrentPage
  <2>9. WalkingInv'
    BY <1>1, <1>2, <2>1, <2>3 DEF WalkingInv
  <2> QED
    BY <1>1, <2>1, <2>5, <2>6, <2>7, <2>8, <2>9 DEF StoreInv
<1>4. ASSUME Ask
      PROVE  StoreInv'
  <2>1. /\ request[Client] = NULL /\ request' = [request EXCEPT ![Client] = List]
        /\ stage' = [stage EXCEPT ![Client] = "called"]
        /\ UNCHANGED <<disk, draft, cursor>>
    BY <1>4, SharedDefinitions DEF Ask, Atomic!StartWalk, Atomic!NextPage, Enter
  <2>2. \/ walk' = walk /\ walk.status = "walking"
        \/ \E filter \in Filters, limit \in Limits : walk' = SetOut(disk, filter, limit)
    BY <1>4, SharedDefinitions DEF Ask, Atomic!StartWalk, Atomic!NextPage
  <2>3. WalkInv(disk, walk)'
    <3>1. CASE walk' = walk
      BY <1>1, <2>1, <3>1
    <3>2. ASSUME NEW filter \in Filters, NEW limit \in Limits, walk' = SetOut(disk, filter, limit)
          PROVE  WalkInv(disk, walk)'
      <4>1. WalkInv(disk, SetOut(disk, filter, limit))
        BY <1>1, SetOutInv
      <4> QED
        BY <2>1, <3>2, <4>1
    <3> QED
      BY <2>2, <3>1, <3>2
  <2>4. List \in Request /\ List # NULL
    BY ListRequest
  <2>5. stage[Client] = "idle"
    BY <1>1, <1>2, <2>1
  <2>6. TypeOK'
    <3>1. walk' \in Walk
      BY <2>3 DEF WalkInv
    <3> QED
      BY <1>1, <1>2, <2>1, <2>4, <2>5, <3>1 DEF TypeOK, Stage
  <2>7. CallsInv'
    BY <1>1, <1>2, <2>1 DEF CallsInv
  <2>8. WriterInv'
    <3>1. Reserved' = Reserved /\ Client \notin Reserved
      BY <1>1, <1>2, <2>1, <2>5 DEF Reserved
    <3> QED
      BY <1>1, <2>1, <3>1 DEF WriterInv, Reserved
  <2>9. CursorInv'
    BY <1>1, <1>2, <2>1 DEF CursorInv
  <2>10. WalkingInv'
    BY <1>1, <2>2 DEF WalkingInv, SetOut, NoWalk
  <2> QED
    BY <2>3, <2>6, <2>7, <2>8, <2>9, <2>10 DEF StoreInv
<1>5. ASSUME NEW c \in Call, Select(c)
      PROVE  StoreInv'
  <2>1. /\ stage[c] = "called" /\ stage' = [stage EXCEPT ![c] = "reading"]
        /\ cursor' = IF c = Client THEN SubSeq(CurrentPage, 1, Least(1, Len(CurrentPage)))
                     ELSE cursor
        /\ UNCHANGED <<disk, draft, request, walk>>
    BY <1>5 DEF Select, Enter
  <2>2. SubSeq(CurrentPage, 1, Least(1, Len(CurrentPage))) \in Seq(MAC)
    BY <1>1, PageInSeq, FirstAndOthers DEF CurrentPage
  <2>3. Reserved' = Reserved
    BY <1>1, <2>1 DEF Reserved
  <2>4. TypeOK'
    <3>1. cursor' \in Seq(MAC)
      BY <1>1, <2>1, <2>2
    <3> HIDE DEF CurrentPage
    <3> QED
      BY <1>1, <2>1, <3>1 DEF TypeOK, Stage
  <2>5. CallsInv'
    BY <1>1, <1>2, <2>1 DEF CallsInv
  <2>6. WriterInv'
    BY <1>1, <2>1, <2>3 DEF WriterInv
  <2>7. CursorInv'
    <3>1. CurrentPage' = CurrentPage
      BY <2>1 DEF CurrentPage
    <3> QED
      BY <1>1, <1>2, <2>1, <3>1 DEF CursorInv
  <2>8. WalkingInv'
    BY <1>1, <2>1 DEF WalkingInv
  <2> QED
    BY <1>1, <2>1, <2>4, <2>5, <2>6, <2>7, <2>8 DEF StoreInv
<1>6. ASSUME FetchAll
      PROVE  StoreInv'
  <2>1. /\ stage[Client] = "reading" /\ Close(Client) /\ disk' = disk
        /\ walk' = Advanced(walk, cursor \o SubSeq(CurrentPage, 2, Len(CurrentPage)))
    BY <1>6 DEF FetchAll
  <2>2. cursor \o SubSeq(CurrentPage, 2, Len(CurrentPage)) = CurrentPage
    BY <1>1, <2>1, PageInSeq, FirstAndOthers DEF CursorInv, CurrentPage
  <2>3. walk.status = "walking"
    BY <1>1, <1>2, <2>1 DEF WalkingInv
  <2>4. WalkInv(disk, walk)'
    <3>1. WalkInv(disk, Advanced(walk, Page(disk, walk.filter, walk.limit, walk.offset)))
      BY <1>1, <2>3, AdvancedInv
    <3> QED
      BY <2>1, <2>2, <3>1 DEF CurrentPage
  <2>5. stage'[Client] = "idle" /\ request'[Client] = NULL
    BY <1>1, <1>2, <2>1 DEF Close, Enter
  <2>6. WalkingInv'
    BY <2>5 DEF WalkingInv
  <2> QED
    BY <1>1, <1>2, <2>1, <2>4, <2>5, <2>6, ClosingKeepsInv
<1>7. ASSUME NEW c \in Call, FetchMetadata(c)
      PROVE  StoreInv'
  <2>1. c \in Writer /\ stage[c] = "reading" /\ UNCHANGED <<disk, walk>>
    BY <1>7 DEF FetchMetadata
  <2>2. CASE stage' = [stage EXCEPT ![c] = "read"] /\ UNCHANGED <<draft, cursor, request>>
    <3>1. TypeOK'
      BY <1>1, <2>1, <2>2 DEF TypeOK, Stage
    <3>2. CallsInv'
      BY <1>1, <1>2, <2>1, <2>2 DEF CallsInv
    <3>3. WriterInv'
      <4>1. Reserved' = Reserved
        BY <1>1, <2>1, <2>2 DEF Reserved
      <4> QED
        BY <1>1, <2>1, <2>2, <4>1 DEF WriterInv
    <3>4. CursorInv'
      BY <1>1, <1>2, <2>1, <2>2 DEF CursorInv, CurrentPage
    <3>5. WalkingInv'
      BY <1>1, <2>1, <2>2 DEF WalkingInv
    <3> QED
      BY <1>1, <2>1, <3>1, <3>2, <3>3, <3>4, <3>5 DEF StoreInv
  <2>3. CASE Close(c)
    <3>1. request'[Client] = request[Client]
      BY <1>1, <1>2, <2>1, <2>3 DEF Close
    <3>2. WalkingInv' /\ WalkInv(disk, walk)'
      BY <1>1, <2>1, <3>1 DEF WalkingInv
    <3> QED
      BY <1>1, <2>1, <2>3, <3>2, ClosingKeepsInv
  <2> QED
    BY <1>7, <2>2, <2>3 DEF FetchMetadata, Enter
<1>8. ASSUME NEW c \in Call, Execute(c)
      PROVE  StoreInv'
  <2>1. /\ WantsToWrite(c) /\ Reserved = {} /\ stage' = [stage EXCEPT ![c] = "reserved"]
        /\ draft' = Applied(disk, request[c]) /\ UNCHANGED <<disk, cursor, request, walk>>
    BY <1>8 DEF Execute, Enter
  <2>2. c \in Writer /\ request[c] \in Writes /\ stage[c] # "idle"
    <3>1. stage[c] \in {"called", "read"} /\ request[c] # NULL
      BY <1>1, <2>1 DEF WantsToWrite
    <3>2. c # Client
      BY <1>1, <2>1, <3>1 DEF WantsToWrite, ReadsFirst, CallsInv, List
    <3> QED
      BY <1>1, <3>1, <3>2 DEF CallsInv, Call
  <2>3. Applied(disk, request[c]) # NULL
    BY <1>1, <2>2, AppliedInTable, RegistryConstants
  <2>4. Reserved' = {c}
    BY <1>1, <2>1 DEF Reserved
  <2>5. TypeOK'
    <3>1. stage' \in [Call -> Stage] /\ \A d \in Call : stage'[d] = "idle" <=> request'[d] = NULL
      BY <1>1, <2>1, <2>2 DEF Stage
    <3>2. draft' # NULL /\ \E d \in Call : stage'[d] \in {"reserved", "committing"}
      BY <1>1, <2>1, <2>3
    <3> QED
      BY <1>1, <2>1, <3>1, <3>2 DEF TypeOK
  <2>6. CallsInv'
    BY <1>1, <1>2, <2>1, <2>2 DEF CallsInv
  <2>7. WriterInv'
    BY <2>1, <2>4 DEF WriterInv
  <2>8. CursorInv'
    BY <1>1, <1>2, <2>1, <2>2 DEF CursorInv, CurrentPage
  <2>9. WalkingInv'
    BY <1>1, <2>1 DEF WalkingInv
  <2> QED
    BY <1>1, <2>1, <2>5, <2>6, <2>7, <2>8, <2>9 DEF StoreInv
<1>9. ASSUME NEW c \in Call, Commit(c)
      PROVE  StoreInv'
  <2>1. /\ stage[c] = "reserved" /\ stage' = [stage EXCEPT ![c] = "committing"]
        /\ UNCHANGED <<disk, draft, cursor, request, walk>>
    BY <1>9 DEF Commit, Enter
  <2>2. c # Client
    BY <1>1, <2>1 DEF CallsInv
  <2>3. Reserved' = Reserved
    BY <1>1, <2>1 DEF Reserved
  <2>4. TypeOK'
    <3>1. stage' \in [Call -> Stage] /\ \A d \in Call : stage'[d] = "idle" <=> request'[d] = NULL
      BY <1>1, <2>1 DEF Stage
    <3>2. draft' # NULL <=> \E d \in Call : stage'[d] \in {"reserved", "committing"}
      BY <1>1, <2>1
    <3> QED
      BY <1>1, <2>1, <3>1, <3>2 DEF TypeOK
  <2>5. CallsInv'
    BY <1>1, <1>2, <2>1, <2>2 DEF CallsInv
  <2>6. WriterInv'
    BY <1>1, <2>1, <2>3 DEF WriterInv
  <2>7. CursorInv'
    BY <1>1, <1>2, <2>1, <2>2 DEF CursorInv, CurrentPage
  <2>8. WalkingInv'
    BY <1>1, <2>1 DEF WalkingInv
  <2> QED
    BY <1>1, <2>1, <2>4, <2>5, <2>6, <2>7, <2>8 DEF StoreInv
<1>10. ASSUME NEW c \in Call, Publish(c)
       PROVE  StoreInv'
  <2>1. /\ stage[c] = "committing" /\ Readers \subseteq {c} /\ disk' = draft /\ Close(c)
        /\ walk' = Witnessed(walk, disk, draft, request[c])
    BY <1>10 DEF Publish
  <2>2. c \in Reserved /\ c # Client /\ c \in Writer
    BY <1>1, <2>1 DEF Reserved, CallsInv, Call
  <2>3. draft = Applied(disk, request[c]) /\ request[c] \in Writes
    BY <1>1, <2>1, <2>2 DEF WriterInv, CallsInv
  <2>4. disk' \in Table /\ WalkInv(disk, walk)'
    BY <1>1, <2>1, <2>3, AppliedInTable, WitnessedInv
  <2>5. stage'[Client] # "reading" /\ request'[Client] = request[Client]
    BY <1>1, <1>2, <2>1, <2>2 DEF Readers, Close, Enter
  <2>6. walk'.status = walk.status
    BY <1>1, <2>1 DEF Witnessed, Walk
  <2>7. WalkingInv'
    BY <1>1, <2>5, <2>6 DEF WalkingInv
  <2> QED
    BY <2>1, <2>2, <2>4, <2>5, <2>7, ClosingKeepsInv
<1>11. ASSUME NEW c \in Call, TimeOut(c)
       PROVE  StoreInv'
  <2>1. Close(c) /\ disk' = disk /\ walk' = IF c = Client THEN NoWalk ELSE walk
    BY <1>11 DEF TimeOut
  <2>2. CASE c = Client
    <3>1. stage'[Client] = "idle" /\ request'[Client] = NULL
      BY <1>1, <1>2, <2>1, <2>2 DEF Close, Enter
    <3>2. WalkInv(disk, walk)' /\ WalkingInv'
      BY <2>1, <2>2, <3>1, NoWalkInv DEF WalkingInv
    <3> QED
      BY <1>1, <2>1, <3>1, <3>2, ClosingKeepsInv
  <2>3. CASE c # Client
    <3>1. request'[Client] = request[Client]
      BY <1>1, <1>2, <2>1, <2>3 DEF Close
    <3>2. WalkInv(disk, walk)' /\ WalkingInv'
      BY <1>1, <2>1, <2>3, <3>1 DEF WalkingInv
    <3> QED
      BY <1>1, <2>1, <2>3, <3>2, ClosingKeepsInv
  <2> QED
    BY <2>2, <2>3
<1>12. ASSUME Kill
       PROVE  StoreInv'
  <2>1. /\ disk' = disk /\ walk' = NoWalk /\ request' = [c \in Call |-> NULL]
        /\ stage' = [c \in Call |-> "idle"] /\ cursor' = <<>> /\ draft' = NULL
    BY <1>12, SharedDefinitions DEF Kill, Atomic!Die
  <2>2. WalkInv(disk, walk)' /\ walk' \in Walk
    BY <2>1, NoWalkInv
  <2>3. TypeOK'
    BY <1>1, <2>1, <2>2 DEF TypeOK, Stage
  <2>4. CallsInv'
    BY <2>1 DEF CallsInv, Call
  <2>5. WriterInv' /\ CursorInv' /\ WalkingInv'
    BY <1>2, <2>1 DEF WriterInv, CursorInv, WalkingInv, Reserved
  <2> QED
    BY <2>2, <2>3, <2>4, <2>5 DEF StoreInv
<1>13. CASE UNCHANGED vars
  <2>1. UNCHANGED <<disk, draft, stage, cursor, request, walk>>
    BY <1>13 DEF vars
  <2>2. TypeOK' /\ CallsInv' /\ WalkingInv'
    BY <1>1, <2>1 DEF StoreInv, TypeOK, CallsInv, WalkingInv
  <2>3. WriterInv' /\ CursorInv'
    BY <1>1, <2>1 DEF WriterInv, CursorInv, CurrentPage, Reserved
  <2> QED
    BY <1>1, <2>1, <2>2, <2>3 DEF StoreInv
<1> QED
  BY <1>3, <1>4, <1>5, <1>6, <1>7, <1>8, <1>9, <1>10, <1>11, <1>12, <1>13 DEF Next, Proceed

LEMMA StoreInvariant == Spec => []StoreInv
<1> QED
  BY StoreInitial, StorePreserved, PTL DEF Spec

-----------------------------------------------------------------------------
(* Theorems. *)

\* What each call holds, reads and writes is always of its type, and what the
\* journal would roll back is there exactly while a writer holds RESERVED.
THEOREM StoreIsTyped == Spec => []TypeOK
<1>1. StoreInv => TypeOK
  BY DEF StoreInv
<1> QED
  BY <1>1, StoreInvariant, PTL

\* While calls wait for a lock some other call can go on: a reader that waits is
\* kept out by a commit, a commit by a reader that has its lock, and a writer by
\* one that holds RESERVED.
THEOREM NoCircleOfLocks == Spec => []SomeCallProceeds
<1>1. SomeCallProceeds
  <2> SUFFICES ASSUME NEW c \in Call, Blocked(c)
               PROVE  \E d \in Call : stage[d] # "idle" /\ ~Blocked(d)
    BY DEF SomeCallProceeds
  <2>1. ASSUME NEW d \in Call, stage[d] = "reading"
        PROVE  stage[d] # "idle" /\ ~Blocked(d)
    BY <2>1 DEF Blocked, WantsToWrite
  <2>2. ASSUME NEW d \in Call, stage[d] = "committing"
        PROVE  \E e \in Call : stage[e] # "idle" /\ ~Blocked(e)
    <3>1. CASE Readers \subseteq {d}
      BY <2>2, <3>1 DEF Blocked, WantsToWrite
    <3>2. CASE ~(Readers \subseteq {d})
      BY <2>1, <3>2 DEF Readers
    <3> QED
      BY <3>1, <3>2
  <2>3. ASSUME NEW d \in Call, stage[d] = "reserved"
        PROVE  stage[d] # "idle" /\ ~Blocked(d)
    BY <2>3 DEF Blocked, WantsToWrite
  <2>4. \E d \in Call : stage[d] \in {"reserved", "committing"}
    BY DEF Blocked, Pending, Reserved
  <2> QED
    BY <2>2, <2>3, <2>4
<1> QED
  BY <1>1, PTL

\* Whoever walks the pages has met every device that matched all along and was
\* not seen again, if none ceased to match; and if nothing changed, the pages are
\* the list.  For any devices, any page sizes and any writes in between.
THEOREM WalksAreComplete == Spec => []WalkComplete
<1>1. StoreInv => WalkComplete
  BY DEF StoreInv, WalkInv, Arrived, WalkComplete
<1> QED
  BY <1>1, StoreInvariant, PTL

LEMMA CallsInitial == Init => Atomic!Init
BY DEF Init

\* Only the fetch of a list and the end of a commit, of a timeout or of a process
\* show; a row that merge_host_containers does not find is a call that did nothing.
LEMMA CallsStep == StoreInv /\ [Next]_vars => [Atomic!Next]_(Atomic!vars)
<1> SUFFICES ASSUME StoreInv, [Next]_vars PROVE [Atomic!Next]_(Atomic!vars)
  OBVIOUS
<1>1. /\ disk \in Table /\ walk \in Walk
      /\ stage \in [Call -> Stage] /\ request \in [Call -> Request \cup {NULL}]
      /\ \A d \in Call : stage[d] = "idle" <=> request[d] = NULL
      /\ CallsInv /\ WriterInv /\ CursorInv
  BY DEF StoreInv, TypeOK
<1>2. Client \in Call /\ Writer \subseteq Call /\ Client \notin Writer
  BY RegistryConstants DEF Call
<1>3. ASSUME NEW c \in Writer, NEW r \in Requests[c], Submit(c, r)
      PROVE  Atomic!Next
  BY <1>3 DEF Submit, Atomic!Next
<1>4. ASSUME Ask
      PROVE  Atomic!Next
  BY <1>4 DEF Ask, Atomic!Next
<1>5. ASSUME NEW c \in Call, Select(c) \/ Execute(c) \/ Commit(c)
      PROVE  UNCHANGED Atomic!vars
  BY <1>5 DEF Select, Execute, Commit, Atomic!vars
<1>6. ASSUME FetchAll
      PROVE  Atomic!Read
  <2>1. /\ stage[Client] = "reading" /\ disk' = disk
        /\ request' = [request EXCEPT ![Client] = NULL]
        /\ walk' = Advanced(walk, cursor \o SubSeq(CurrentPage, 2, Len(CurrentPage)))
    BY <1>6 DEF FetchAll, Close
  <2>2. cursor \o SubSeq(CurrentPage, 2, Len(CurrentPage)) = CurrentPage
    BY <1>1, <2>1, PageInSeq, FirstAndOthers DEF CursorInv, CurrentPage
  <2>3. walk' = Atomic!Advanced(walk, Atomic!Page(disk, walk.filter, walk.limit, walk.offset))
    BY <2>1, <2>2, SharedDefinitions DEF CurrentPage
  <2>4. request[Client] # NULL
    BY <1>1, <1>2, <2>1
  <2> QED
    BY <2>1, <2>3, <2>4 DEF Atomic!Read
<1>7. ASSUME NEW c \in Call, FetchMetadata(c)
      PROVE  Atomic!Raise(c) \/ UNCHANGED Atomic!vars
  <2>1. c \in Writer /\ stage[c] = "reading" /\ disk' = disk /\ walk' = walk
    BY <1>7 DEF FetchMetadata
  <2>2. CASE request' = request
    BY <2>1, <2>2 DEF Atomic!vars
  <2>3. CASE Close(c)
    BY <1>1, <1>2, <2>1, <2>3 DEF Close, Atomic!Raise
  <2> QED
    BY <1>7, <2>2, <2>3 DEF FetchMetadata
<1>8. ASSUME NEW c \in Call, Publish(c)
      PROVE  c \in Writer /\ Atomic!Write(c)
  <2>1. /\ stage[c] = "committing" /\ disk' = draft
        /\ request' = [request EXCEPT ![c] = NULL]
        /\ walk' = Witnessed(walk, disk, draft, request[c])
    BY <1>8 DEF Publish, Close
  <2>2. c \in Writer /\ request[c] # NULL
    BY <1>1, <2>1 DEF CallsInv, Call
  <2>3. draft = Applied(disk, request[c])
    BY <1>1, <2>1 DEF WriterInv, Reserved
  <2>4. /\ disk' = Atomic!Applied(disk, request[c])
        /\ walk' = Atomic!Witnessed(walk, disk, disk', request[c])
    BY <2>1, <2>3, SharedDefinitions
  <2> QED
    BY <2>1, <2>2, <2>4 DEF Atomic!Write
<1>9. ASSUME NEW c \in Call, TimeOut(c)
      PROVE  Atomic!Raise(c)
  <2>1. /\ Blocked(c) /\ disk' = disk /\ walk' = IF c = Client THEN NoWalk ELSE walk
        /\ request' = [request EXCEPT ![c] = NULL]
    BY <1>9 DEF TimeOut, Close
  <2>2. request[c] # NULL
    BY <1>1, <2>1 DEF Blocked, WantsToWrite
  <2> QED
    BY <2>1, <2>2, SharedDefinitions DEF Atomic!Raise
<1>10. ASSUME Kill
       PROVE  Atomic!Next
  BY <1>10 DEF Kill, Atomic!Next
<1>11. CASE UNCHANGED vars
  BY <1>11 DEF vars, Atomic!vars
<1>12. Atomic!Call = Call
  BY SharedDefinitions
<1> QED
  BY <1>3, <1>4, <1>5, <1>6, <1>7, <1>8, <1>9, <1>10, <1>11, <1>12
     DEF Next, Proceed, Atomic!Next

\* Through the locks and the two-step reads every call keeps what Registry
\* promises, for any devices, writers, requests and pages.
THEOREM CallsImplementRegistry == Spec => CallsAreAtomic
<1> QED
  BY CallsInitial, CallsStep, StoreInvariant, PTL DEF Spec, Atomic!Spec, CallsAreAtomic
=============================================================================
