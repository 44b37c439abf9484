---------------------------- MODULE CandidateProofs ----------------------------
(***************************************************************************)
(* Proofs about steps 2 to 4b of updater_run, for any radix, word, block   *)
(* and chunk, any manifest, image and leftover of the buffer: what the     *)
(* parser takes, that the hash does not depend on the chunks, and that the *)
(* verdict is about the bytes that were served.                            *)
(***************************************************************************)
EXTENDS Candidate, SequenceTheorems, WellFoundedInduction, TLAPS

-----------------------------------------------------------------------------
(* Numbers.                                                                *)

\* The least element principle, from which the inductions below follow.
LEMMA LeastMember ==
  ASSUME NEW T, T \subseteq Nat, T # {}
  PROVE  \E x \in T : \A y \in T : x <= y
<1> DEFINE R == OpToRel(<, Nat)
<1>1. IsWellFoundedOn(R, Nat)
  BY NatLessThanWellFounded
<1>2. R = {p \in Nat \X Nat : p[1] < p[2]}
  BY DEF OpToRel
<1> HIDE DEF R
<1>3. PICK x \in T : \A y \in T : ~ (<<y, x>> \in R)
  BY <1>1, WFMin
<1>4. \A y \in T : y \in Nat /\ x \in Nat /\ <<y, x>> \in Nat \X Nat /\ ~(y < x)
  BY <1>2, <1>3
<1>5. \A y \in T : x <= y
  <2> TAKE y \in T
  <2>1. y \in Nat /\ x \in Nat /\ ~(y < x)
    BY <1>4
  <2> QED
    BY <2>1
<1> QED
  BY <1>5

LEMMA Induction ==
  ASSUME NEW N \in Nat, NEW S, 0 \in S, \A n \in 0 .. N : n \in S /\ n # N => n + 1 \in S
  PROVE  0 .. N \subseteq S
<1> SUFFICES ASSUME (0 .. N) \ S # {} PROVE FALSE
  OBVIOUS
<1> DEFINE T == (0 .. N) \ S
<1>1. T \subseteq Nat /\ T # {}
  OBVIOUS
<1>2. PICK x \in T : \A y \in T : x <= y
  <2> HIDE DEF T
  <2> QED
    BY <1>1, LeastMember
<1>3. x # 0 /\ x \in 0 .. N
  OBVIOUS
<1>4. x - 1 \in 0 .. N /\ x - 1 # N /\ x - 1 + 1 = x /\ ~(x <= x - 1)
  BY <1>3
<1>5. x - 1 \in S
  BY <1>2, <1>4
<1> QED
  BY <1>4, <1>5

Recurs(v, N, first, next) ==
  /\ v[0] = first
  /\ \A i \in 1 .. N : v[i] = next[<<v[i - 1], i>>]

\* A recursive function over the numbers up to N exists.
LEMMA Recursion ==
  ASSUME NEW N \in Nat, NEW S, NEW first \in S, NEW next \in [S \X (1 .. N) -> S]
  PROVE  \E v \in [0 .. N -> S] : Recurs(v, N, first, next)
<1> DEFINE Upto(n, v) ==
      /\ v \in [0 .. n -> S] /\ v[0] = first
      /\ \A i \in 1 .. n : v[i] = next[<<v[i - 1], i>>]
<1> DEFINE T == {n \in 0 .. N : \E v : Upto(n, v)}
<1>1. 0 \in T
  <2>1. Upto(0, [i \in 0 .. 0 |-> first])
    OBVIOUS
  <2>2. 0 \in 0 .. N
    OBVIOUS
  <2> HIDE DEF Upto
  <2> QED
    BY <2>1, <2>2
<1>2. ASSUME NEW n \in 0 .. N, n \in T, n # N PROVE n + 1 \in T
  <2>1. PICK v : Upto(n, v)
    BY <1>2
  <2> DEFINE w == [i \in 0 .. n + 1 |-> IF i = n + 1 THEN next[<<v[n], n + 1>>] ELSE v[i]]
  <2>2. n \in Nat /\ n + 1 \in 1 .. N /\ n + 1 \in 0 .. N
    BY <1>2
  <2>3. next[<<v[n], n + 1>>] \in S
    BY <2>1, <2>2
  <2>4. w \in [0 .. n + 1 -> S] /\ w[0] = first
    BY <2>1, <2>2, <2>3
  <2>5. \A i \in 1 .. n + 1 : w[i] = next[<<w[i - 1], i>>]
    <3> TAKE i \in 1 .. n + 1
    <3>1. i - 1 \in 0 .. n /\ w[i - 1] = v[i - 1]
      BY <2>2
    <3>2. CASE i = n + 1
      BY <2>2, <3>1, <3>2
    <3>3. CASE i \in 1 .. n
      BY <2>1, <2>2, <3>1, <3>3
    <3> QED
      BY <2>2, <3>2, <3>3
  <2>6. Upto(n + 1, w)
    BY <2>4, <2>5
  <2> QED
    BY <2>2, <2>6
<1>3. N \in T
  <2> HIDE DEF T
  <2> QED
    BY <1>1, <1>2, Induction
<1> QED
  BY <1>3 DEF Recurs

LEMMA Division ==
  ASSUME NEW a \in Nat, NEW m \in Nat \ {0}
  PROVE  a \div m \in Nat /\ a % m \in 0 .. m - 1 /\ a = (a \div m) * m + (a % m)
  OBVIOUS

LEMMA Remainder ==
  ASSUME NEW q \in Nat, NEW m \in Nat \ {0}, NEW r \in 0 .. m - 1
  PROVE  (q * m + r) % m = r
  OBVIOUS

LEMMA SumOfRemainder ==
  ASSUME NEW m \in Nat \ {0}, NEW a \in Nat, NEW b \in Nat
  PROVE  ((a % m) + b) % m = (a + b) % m
<1> DEFINE q == a \div m
<1> DEFINE r == a % m
<1> DEFINE k == (r + b) \div m
<1> DEFINE l == (r + b) % m
<1>1. q \in Nat /\ r \in 0 .. m - 1 /\ a = q * m + r
  BY Division
<1>2. r + b \in Nat
  BY <1>1
<1> HIDE DEF q, r
<1>3. k \in Nat /\ l \in 0 .. m - 1 /\ r + b = k * m + l
  BY <1>2, Division
<1> HIDE DEF k, l
<1>4. (q + k) * m = q * m + k * m /\ q + k \in Nat
  BY <1>1, <1>3
<1>5. a + b = (q + k) * m + l
  BY <1>1, <1>3, <1>4
<1>6. (a + b) % m = l
  BY <1>3, <1>4, <1>5, Remainder
<1> QED
  BY <1>6 DEF l, r

-----------------------------------------------------------------------------
(* Decimal values.                                                         *)

Values == Nat \cup {Bad}

LEMMA DecStepType ==
  ASSUME NEW v \in Values, NEW c \in Nat
  PROVE  DecStep(v, c) \in Values
<1>1. CASE v # Bad
  <2>1. v \in Nat /\ v * Radix + c \in Nat
    BY <1>1, RadixAssumption DEF Values
  <2>2. Word \in Nat \ {0}
    BY RadixAssumption
  <2>3. (v * Radix + c) % Word \in Nat
    BY <2>1, <2>2, Division
  <2> QED
    BY <2>3 DEF DecStep, Values
<1> QED
  BY <1>1 DEF DecStep, Values

\* What man_parse_dec and Number are folds of.
LEMMA ParseFold ==
  ASSUME NEW chars \in Seq(Nat)
  PROVE  \E v \in [0 .. Len(chars) -> Values] :
           /\ v[0] = 0
           /\ \A i \in 1 .. Len(chars) : v[i] = DecStep(v[i - 1], chars[i])
           /\ man_parse_dec(chars) = IF chars = <<>> THEN Bad ELSE v[Len(chars)]
<1> DEFINE N == Len(chars)
<1> DEFINE F(v) == v = [i \in 0 .. N |-> IF i = 0 THEN 0 ELSE DecStep(v[i - 1], chars[i])]
<1> DEFINE next == [p \in Values \X (1 .. N) |-> DecStep(p[1], chars[p[2]])]
<1> DEFINE w == CHOOSE v : F(v)
<1>1. N \in Nat /\ \A i \in 1 .. N : chars[i] \in Nat
  BY LenProperties, ElementOfSeq
<1>2. next \in [Values \X (1 .. N) -> Values]
  BY <1>1, DecStepType
<1>3. 0 \in Values
  BY DEF Values
<1>4. PICK u \in [0 .. N -> Values] : Recurs(u, N, 0, next)
  <2> HIDE DEF N, next
  <2> QED
    BY <1>1, <1>2, <1>3, Recursion
<1>5. ASSUME NEW i \in 1 .. N, NEW x \in Values
      PROVE  next[<<x, i>>] = DecStep(x, chars[i])
  OBVIOUS
<1>6. \A i \in 0 .. N : u[i] = IF i = 0 THEN 0 ELSE DecStep(u[i - 1], chars[i])
  <2> HIDE DEF N, next
  <2> TAKE i \in 0 .. N
  <2>1. i # 0 => i \in 1 .. N /\ u[i - 1] \in Values
    BY <1>1
  <2> QED
    BY <1>4, <1>5, <2>1 DEF Recurs
<1>7. F(u)
  <2>1. u = [i \in 0 .. N |-> u[i]]
    BY <1>4
  <2> QED
    BY <1>6, <2>1
<1>8. F(w)
  BY <1>7
<1>9. \A i \in 0 .. N : w[i] = IF i = 0 THEN 0 ELSE DecStep(w[i - 1], chars[i])
  <2> HIDE DEF N, w
  <2> QED
    BY <1>8
<1>10. man_parse_dec(chars) = IF chars = <<>> THEN Bad ELSE w[Len(chars)]
  BY DEF man_parse_dec
<1>11. w \in [0 .. N -> Values]
  <2> DEFINE T == {n \in 0 .. N : w[n] \in Values}
  <2>1. w[0] = 0 /\ 0 \in T
    BY <1>1, <1>3, <1>9
  <2>2. ASSUME NEW n \in 0 .. N, n \in T, n # N PROVE n + 1 \in T
    <3>1. n + 1 \in 1 .. N /\ n + 1 - 1 = n
      BY <1>1, <2>2
    <3>2. w[n + 1] = DecStep(w[n], chars[n + 1])
      <4>1. n + 1 # 0 /\ n + 1 \in 0 .. N
        BY <1>1, <3>1
      <4> HIDE DEF w, N
      <4> QED
        BY <1>9, <3>1, <4>1
    <3> QED
      BY <1>1, <2>2, <3>1, <3>2, DecStepType
  <2>3. 0 .. N \subseteq T
    <3> HIDE DEF T, N
    <3> QED
      BY <1>1, <2>1, <2>2, Induction
  <2>4. w = [i \in 0 .. N |-> w[i]]
    <3> HIDE DEF w
    <3> QED
      BY <1>8
  <2> HIDE DEF w
  <2> QED
    BY <2>3, <2>4
<1>12. \A i \in 1 .. N : w[i] = DecStep(w[i - 1], chars[i])
  <2> HIDE DEF w
  <2> QED
    BY <1>9
<1>13. w[0] = 0
  <2> HIDE DEF w
  <2> QED
    BY <1>1, <1>9
<1> HIDE DEF w
<1> QED
  BY <1>10, <1>11, <1>12, <1>13

LEMMA Steps ==
  /\ \A x, c \in Nat : x * Radix + c \in Nat
  /\ \A x \in Nat : x < Word => x % Word = x
<1>1. Radix \in Nat \ {0} /\ Word \in Nat
  BY RadixAssumption
<1>2. ASSUME NEW x \in Nat, NEW c \in Nat PROVE x * Radix + c \in Nat
  BY <1>1
<1>3. ASSUME NEW x \in Nat, x < Word PROVE x % Word = x
  BY <1>1, <1>3
<1> QED
  BY <1>2, <1>3

LEMMA NumberFold ==
  ASSUME NEW chars \in Seq(Nat)
  PROVE  \E v \in [0 .. Len(chars) -> Nat] :
           /\ v[0] = 0
           /\ \A i \in 1 .. Len(chars) : v[i] = v[i - 1] * Radix + chars[i]
           /\ Number(chars) = v[Len(chars)]
<1> DEFINE N == Len(chars)
<1> DEFINE F(v) == v = [i \in 0 .. N |-> IF i = 0 THEN 0 ELSE v[i - 1] * Radix + chars[i]]
<1> DEFINE next == [p \in Nat \X (1 .. N) |-> p[1] * Radix + chars[p[2]]]
<1> DEFINE w == CHOOSE v : F(v)
<1>1. N \in Nat /\ \A i \in 1 .. N : chars[i] \in Nat
  BY LenProperties, ElementOfSeq
<1>2. next \in [Nat \X (1 .. N) -> Nat]
  <2>1. ASSUME NEW p \in Nat \X (1 .. N) PROVE p[1] * Radix + chars[p[2]] \in Nat
    <3>1. p[1] \in Nat /\ p[2] \in 1 .. N
      OBVIOUS
    <3>2. chars[p[2]] \in Nat
      BY <1>1, <3>1
    <3>3. PICK a, c, q \in Nat : a = p[1] /\ c = chars[p[2]] /\ q = a * Radix
      BY <3>1, <3>2, RadixAssumption
    <3>4. q + c \in Nat
      OBVIOUS
    <3> QED
      BY <3>3, <3>4
  <2> QED
    BY <2>1
<1>3. PICK u \in [0 .. N -> Nat] : Recurs(u, N, 0, next)
  <2> HIDE DEF N, next
  <2> QED
    BY <1>1, <1>2, Recursion
<1>4. ASSUME NEW i \in 1 .. N, NEW x \in Nat
      PROVE  next[<<x, i>>] = x * Radix + chars[i]
  OBVIOUS
<1>5. \A i \in 0 .. N : u[i] = IF i = 0 THEN 0 ELSE u[i - 1] * Radix + chars[i]
  <2> HIDE DEF N, next
  <2> TAKE i \in 0 .. N
  <2>1. i # 0 => i \in 1 .. N /\ u[i - 1] \in Nat
    BY <1>1
  <2> QED
    BY <1>3, <1>4, <2>1 DEF Recurs
<1>6. F(u)
  <2>1. u = [i \in 0 .. N |-> u[i]]
    BY <1>3
  <2> QED
    BY <1>5, <2>1
<1>7. F(w)
  BY <1>6
<1>8. Number(chars) = w[Len(chars)]
  BY DEF Number
<1>9. \A i \in 0 .. N : w[i] = IF i = 0 THEN 0 ELSE w[i - 1] * Radix + chars[i]
  <2> HIDE DEF N, w
  <2> QED
    BY <1>7
<1>10. w = [i \in 0 .. N |-> w[i]]
  <2> HIDE DEF w
  <2> QED
    BY <1>7
<1> HIDE DEF w, N, next
<1>11. w \in [0 .. N -> Nat]
  <2> DEFINE T == {n \in 0 .. N : w[n] \in Nat}
  <2>1. 0 \in T
    BY <1>1, <1>9
  <2>2. ASSUME NEW n \in 0 .. N, n \in T, n # N PROVE n + 1 \in T
    <3>1. n + 1 \in 1 .. N /\ n + 1 - 1 = n /\ n + 1 # 0 /\ n + 1 \in 0 .. N
      BY <1>1, <2>2
    <3>2. w[n + 1] = w[n] * Radix + chars[n + 1]
      BY <1>9, <3>1
    <3>3. w[n] \in Nat /\ chars[n + 1] \in Nat
      BY <1>1, <2>2, <3>1
    <3>4. w[n] * Radix + chars[n + 1] \in Nat
      BY <3>3, Steps
    <3> QED
      BY <3>1, <3>2, <3>4
  <2> HIDE DEF T
  <2>3. 0 .. N \subseteq T
    BY <1>1, <2>1, <2>2, Induction
  <2> QED
    BY <1>10, <2>3 DEF T
<1>12. w[0] = 0 /\ \A i \in 1 .. N : w[i] = w[i - 1] * Radix + chars[i]
  BY <1>1, <1>9
<1> QED
  BY <1>8, <1>11, <1>12 DEF N

LEMMA Products ==
  ASSUME NEW u \in Nat, NEW r \in Nat \ {0}
  PROVE  u * r \in Nat /\ u <= u * r
<1>1. PICK k \in Nat : r = k + 1
  <2>1. r - 1 \in Nat /\ r = r - 1 + 1
    OBVIOUS
  <2> QED
    BY <2>1
<1>2. u * r = u * k + u /\ u * k \in Nat
  BY <1>1
<1> QED
  BY <1>2

\* The test before the multiplication is the one that matters after it.
LEMMA DigitFitsMeans ==
  ASSUME NEW u \in Nat, NEW c \in Nat, c < Radix
  PROVE  DigitFits(u, c) <=> u * Radix + c < Word
<1> DEFINE room == Word - 1 - c
<1> DEFINE q == room \div Radix
<1> DEFINE r == room % Radix
<1>1. Radix \in Nat \ {0} /\ Word \in Nat /\ room \in Nat
  BY RadixAssumption
<1>2. q \in Nat /\ r \in 0 .. Radix - 1 /\ room = q * Radix + r
  <2> HIDE DEF room
  <2> QED
    BY <1>1, Division
<1>3. u * Radix \in Nat /\ q * Radix \in Nat
  BY <1>1, <1>2
<1>4. DigitFits(u, c) <=> u <= q
  BY DEF DigitFits
<1>5. u * Radix + c < Word <=> u * Radix <= room
  BY <1>1, <1>3
<1> HIDE DEF room, q, r
<1>6. CASE u <= q
  <2>1. q - u \in Nat /\ (q - u) * Radix \in Nat
    BY <1>1, <1>2, <1>6
  <2>2. q * Radix = u * Radix + (q - u) * Radix
    BY <1>1, <1>2
  <2> QED
    BY <1>1, <1>2, <1>3, <1>4, <1>5, <1>6, <2>1, <2>2
<1>7. CASE u > q
  <2>1. PICK d \in Nat : u = q + 1 + d
    <3>1. u - q - 1 \in Nat /\ u = q + 1 + (u - q - 1)
      BY <1>2, <1>7
    <3> QED
      BY <3>1
  <2>2. u * Radix = q * Radix + Radix + d * Radix /\ d * Radix \in Nat
    BY <1>1, <1>2, <2>1
  <2> QED
    BY <1>1, <1>2, <1>3, <1>4, <1>5, <1>7, <2>2
<1> QED
  BY <1>2, <1>6, <1>7

\* man_parse_dec answers the number, or that it is none of a word.
LEMMA ParsesNumbers ==
  ASSUME NEW chars \in Seq(Nat), chars \notin {Bad, NoValue}
  PROVE  /\ Number(chars) \in Nat
         /\ man_parse_dec(chars) = IF IsDecimal(chars) THEN Number(chars) ELSE Bad
<1> DEFINE N == Len(chars)
<1>1. N \in Nat /\ DOMAIN chars = 1 .. N /\ \A i \in 1 .. N : chars[i] \in Nat
  BY LenProperties, ElementOfSeq
<1>2. PICK u \in [0 .. N -> Nat] :
        /\ u[0] = 0
        /\ \A i \in 1 .. N : u[i] = u[i - 1] * Radix + chars[i]
        /\ Number(chars) = u[N]
  BY NumberFold
<1>3. PICK v \in [0 .. N -> Values] :
        /\ v[0] = 0
        /\ \A i \in 1 .. N : v[i] = DecStep(v[i - 1], chars[i])
        /\ man_parse_dec(chars) = IF chars = <<>> THEN Bad ELSE v[N]
  BY ParseFold
<1>4. Radix \in Nat \ {0} /\ Word \in Nat \ {0} /\ Radix < Word /\ Bad \notin Nat
  BY RadixAssumption
<1> DEFINE Good(n) == u[n] < Word /\ \A i \in 1 .. n : chars[i] < Radix
<1> DEFINE T == {n \in 0 .. N : v[n] = IF Good(n) THEN u[n] ELSE Bad}
<1> HIDE DEF N
<1>5. 0 \in T
  BY <1>1, <1>2, <1>3, <1>4
<1>6. ASSUME NEW n \in 0 .. N, n \in T, n # N PROVE n + 1 \in T
  <2> DEFINE c == chars[n + 1]
  <2>1. n + 1 \in 1 .. N /\ n + 1 \in 0 .. N /\ n + 1 - 1 = n /\ n \in Nat
    BY <1>1, <1>6
  <2>2. c \in Nat /\ u[n] \in Nat /\ u[n + 1] \in Nat
    BY <1>1, <2>1
  <2>3. u[n + 1] = u[n] * Radix + c /\ v[n + 1] = DecStep(v[n], c)
    BY <1>2, <1>3, <2>1
  <2>4. v[n] = IF Good(n) THEN u[n] ELSE Bad
    BY <1>6
  <2>5. Good(n + 1) <=> u[n + 1] < Word /\ c < Radix /\ \A i \in 1 .. n : chars[i] < Radix
    <3>1. \A i \in 1 .. n + 1 : i \in 1 .. n \/ i = n + 1
      BY <2>1
    <3>2. 1 .. n \subseteq 1 .. n + 1 /\ n + 1 \in 1 .. n + 1
      BY <2>1
    <3> QED
      BY <3>1, <3>2
  <2>6. u[n] <= u[n] * Radix /\ u[n] * Radix \in Nat
    BY <1>4, <2>2, Products
  <2> HIDE DEF c, T
  <2>7. v[n + 1] = IF Good(n + 1) THEN u[n + 1] ELSE Bad
    <3>1. CASE ~Good(n)
      <4>1. ~Good(n + 1)
        BY <1>4, <2>2, <2>3, <2>5, <2>6, <3>1
      <4>2. v[n + 1] = Bad
        BY <2>3, <2>4, <3>1 DEF DecStep
      <4> HIDE DEF Good
      <4> QED
        BY <4>1, <4>2
    <3>2. CASE Good(n) /\ c >= Radix
      <4>1. ~Good(n + 1)
        BY <1>4, <2>2, <2>5, <3>2
      <4>2. v[n + 1] = Bad
        BY <2>3, <3>2 DEF DecStep
      <4> HIDE DEF Good
      <4> QED
        BY <4>1, <4>2
    <3>3. CASE Good(n) /\ c < Radix
      <4>1. Good(n + 1) <=> u[n + 1] < Word
        BY <2>5, <3>3
      <4>2. v[n] = u[n] /\ v[n] # Bad /\ ~(c >= Radix)
        BY <1>4, <2>2, <2>4, <3>3
      <4> HIDE DEF Good
      <4>3. DigitFits(u[n], c) <=> u[n] * Radix + c < Word
        BY <2>2, <3>3, DigitFitsMeans
      <4>4. u[n + 1] < Word => (u[n] * Radix + c) % Word = u[n + 1]
        BY <2>2, <2>3, Steps
      <4> QED
        BY <2>3, <4>1, <4>2, <4>3, <4>4 DEF DecStep
    <3> QED
      BY <1>4, <2>2, <3>1, <3>2, <3>3
  <2> QED
    BY <2>1, <2>7 DEF T
<1>7. N \in T
  <2> HIDE DEF T
  <2>1. 0 .. N \subseteq T
    BY <1>1, <1>5, <1>6, Induction
  <2> QED
    BY <1>1, <2>1
<1>8. chars = <<>> \/ IsDecimal(chars) <=> Good(N)
  <2>1. chars = <<>> => N = 0
    BY EmptySeq DEF N
  <2>2. CASE chars = <<>>
    BY <1>2, <1>4, <2>1, <2>2
  <2>3. CASE chars # <<>>
    <3>1. IsDecimal(chars) <=> (\A i \in 1 .. N : chars[i] < Radix) /\ Number(chars) < Word
      BY <1>1, <2>3 DEF IsDecimal
    <3> QED
      BY <1>2, <2>3, <3>1
  <2> QED
    BY <2>2, <2>3
<1>9. u[N] \in Nat
  BY <1>1
<1> HIDE DEF Good
<1>10. chars = <<>> => ~IsDecimal(chars)
  BY DEF IsDecimal
<1> QED
  BY <1>2, <1>3, <1>7, <1>8, <1>9, <1>10

-----------------------------------------------------------------------------
(* The parser.                                                             *)

FirstIsOne(f) ==
  /\ f # <<>> /\ f[1].key = "manifest" /\ f[1].value # NoValue
  /\ IsDecimal(f[1].value) /\ Number(f[1].value) = Format

\* Line i is a pair that was taken for what it means.
Taken(i) ==
  /\ file[i].key \in Required /\ WellFormed(file[i])
  /\ man[file[i].key] = Meaning(file[i])

Before == {i \in Pairs(file) : i < pos}

LinesInv ==
  pc = "lines" =>
    /\ mr = "OK" /\ FirstIsOne(file)
    /\ pos \in 2 .. Len(file) + 1
    /\ \A i \in Before : Taken(i)
    /\ seen = {file[i].key : i \in Before}
    /\ \A i, j \in Before : file[i].key = file[j].key => i = j

ParsedInv ==
  pc \notin {"first", "lines"} =>
    /\ mr = "OK" <=> IsFormat1(file)
    /\ mr = "OK" => \A i \in Pairs(file) : man[file[i].key] = Meaning(file[i])

ParserInv ==
  /\ file \in Manifests
  /\ man = [key \in Required |-> man[key]]
  /\ pc = "first" => pos = 1 /\ seen = {} /\ mr = "OK"
  /\ LinesInv /\ ParsedInv

LEMMA FileShape ==
  ASSUME NEW f \in Manifests
  PROVE  /\ Len(f) \in Nat /\ (f # <<>> => Len(f) # 0)
         /\ \A i \in 1 .. Len(f) : IsLine(f[i])
<1>1. f \in Seq({f[i] : i \in DOMAIN f}) /\ \A i \in DOMAIN f : IsLine(f[i])
  BY LinesAssumption
<1>2. Len(f) \in Nat /\ DOMAIN f = 1 .. Len(f)
  BY <1>1, LenProperties
<1>3. f # <<>> => Len(f) # 0
  BY <1>1, EmptySeq
<1> QED
  BY <1>1, <1>2, <1>3

\* The first line declares format 1 or it does not.
LEMMA DeclaredMeans ==
  ASSUME file \in Manifests, pos = 1
  PROVE  Declared = Format <=> FirstIsOne(file)
<1>1. Format # Bad
  BY RadixAssumption
<1>2. CASE file # <<>> /\ file[1].key = "manifest" /\ file[1].value # NoValue
  <2>1. 1 \in 1 .. Len(file)
    BY <1>2, FileShape
  <2>2. IsLine(file[1])
    BY <2>1, FileShape
  <2>3. file[1].value \in Seq(Nat) /\ file[1].value \notin {Bad, NoValue}
    BY <1>2, <2>2 DEF IsLine
  <2>4. Declared = man_parse_dec(file[1].value)
    BY <1>2 DEF Declared, Line
  <2>5. Declared = IF IsDecimal(file[1].value) THEN Number(file[1].value) ELSE Bad
    BY <2>3, <2>4, ParsesNumbers
  <2> QED
    BY <1>1, <1>2, <2>5 DEF FirstIsOne
<1>3. CASE ~(file # <<>> /\ file[1].key = "manifest" /\ file[1].value # NoValue)
  BY <1>1, <1>3 DEF Declared, Line, FirstIsOne
<1> QED
  BY <1>2, <1>3

\* A value is taken for what it means, or refused.
LEMMA ParseMeans ==
  ASSUME NEW line, IsLine(line), line.key \in Required, line.value # NoValue
  PROVE  /\ Parse(line.key, line.value) # Bad <=> WellFormed(line)
         /\ WellFormed(line) => Parse(line.key, line.value) = Meaning(line)
<1>1. CASE line.key = "length" /\ line.value # Bad
  <2>1. line.value \in Seq(Nat)
    BY <1>1 DEF IsLine
  <2>2. /\ Number(line.value) \in Nat
        /\ man_parse_dec(line.value) =
             IF IsDecimal(line.value) THEN Number(line.value) ELSE Bad
    BY <1>1, <2>1, ParsesNumbers
  <2>3. Bad \notin Nat
    BY RadixAssumption
  <2> QED
    BY <1>1, <2>2, <2>3 DEF Parse, WellFormed, Meaning
<1>2. CASE line.value = Bad
  BY <1>2 DEF Parse, WellFormed, IsDecimal
<1>3. CASE line.key # "length"
  BY <1>3 DEF Parse, WellFormed, Meaning
<1> QED
  BY <1>1, <1>2, <1>3

\* The parser stops at something format 1 does not have.
LEMMA Refused ==
  ASSUME ParserInv, NEW r, r # "OK", Stop(r), ~IsFormat1(file)
  PROVE  ParserInv'
<1>1. pc' = "parsed" /\ mr' = r /\ UNCHANGED <<file, pos, seen, man>>
  BY DEF Stop
<1>2. IsFormat1(file') = IsFormat1(file)
  BY <1>1
<1>3. ParsedInv'
  BY <1>1, <1>2 DEF ParsedInv
<1> QED
  BY <1>1, <1>3 DEF ParserInv, LinesInv

LEMMA LineRead ==
  ASSUME ParserInv, More
  PROVE  /\ pos \in 2 .. Len(file) /\ Len(file) \in Nat /\ pos \in Nat
         /\ IsLine(Line)
         /\ Line # BlankLine <=> pos \in Pairs(file)
<1>1. Len(file) \in Nat /\ \A i \in 1 .. Len(file) : IsLine(file[i])
  BY FileShape DEF ParserInv
<1>2. pos \in 2 .. Len(file)
  BY <1>1 DEF ParserInv, LinesInv, More
<1>3. pos \in 1 .. Len(file)
  BY <1>1, <1>2
<1> QED
  BY <1>1, <1>2, <1>3 DEF Line, Pairs

LEMMA ParserStep ==
  ASSUME ParserInv, Parser
  PROVE  ParserInv'
<1> USE DEF ParserInv
<1>1. CASE FirstLine
  <2>1. pc = "first" /\ pos = 1 /\ seen = {} /\ mr = "OK"
    BY <1>1 DEF FirstLine
  <2>2. Declared = Format <=> FirstIsOne(file)
    BY <2>1, DeclaredMeans
  <2>3. ~FirstIsOne(file) => ~IsFormat1(file)
    BY DEF FirstIsOne, IsFormat1
  <2>4. CASE Declared = Bad /\ Stop("FORMAT")
    <3>1. Declared # Format
      BY <2>4, RadixAssumption
    <3> QED
      BY <2>2, <2>3, <2>4, <3>1, Refused
  <2>5. CASE Declared \notin {Bad, Format} /\ Stop("FORMAT_VER")
    BY <2>2, <2>3, <2>5, Refused
  <2>6. CASE Declared = Format /\ pc' = "lines" /\ GoOn /\ UNCHANGED <<seen, man>>
    <3>1. pos' = 2 /\ file' = file /\ mr' = "OK" /\ seen' = {} /\ man' = man
      BY <2>1, <2>6 DEF GoOn
    <3>2. FirstIsOne(file) /\ FirstIsOne(file')
      BY <2>2, <2>6, <3>1
    <3>3. 2 \in 2 .. Len(file) + 1
      BY <3>2, FileShape DEF FirstIsOne
    <3>4. Before' = {}
      BY <3>1, FileShape DEF Before, Pairs
    <3>5. LinesInv'
      BY <3>1, <3>2, <3>3, <3>4 DEF LinesInv
    <3> QED
      BY <2>6, <3>1, <3>5 DEF ParsedInv
  <2> QED
    BY <1>1, <2>4, <2>5, <2>6 DEF FirstLine
<1>2. CASE SkipBlank
  <2>1. /\ pos \in 2 .. Len(file) /\ Len(file) \in Nat /\ pos \in Nat
        /\ pos \notin Pairs(file) /\ pc = "lines"
    BY <1>2, LineRead DEF SkipBlank, More
  <2>2. pos' = pos + 1 /\ UNCHANGED <<pc, file, seen, man, mr>>
    BY <1>2 DEF SkipBlank, GoOn
  <2>3. Before' = Before
    BY <2>1, <2>2 DEF Before, Pairs
  <2>4. LinesInv'
    BY <2>1, <2>2, <2>3 DEF LinesInv, Taken
  <2> QED
    BY <2>1, <2>2, <2>4 DEF ParsedInv
<1>3. CASE NotAPair
  <2>1. pos \in Pairs(file)
    BY <1>3, LineRead DEF NotAPair
  <2>2. ~(Line.key \in Required /\ WellFormed(Line))
    BY <1>3 DEF NotAPair, Required, WellFormed, IsDecimal
  <2>3. ~IsFormat1(file)
    BY <2>1, <2>2 DEF IsFormat1, Line
  <2> QED
    BY <1>3, <2>3, Refused DEF NotAPair
<1>4. CASE KnownKey
  <2>1. /\ pos \in 2 .. Len(file) /\ Len(file) \in Nat /\ pos \in Nat /\ pc = "lines"
        /\ IsLine(Line) /\ pos \in Pairs(file)
        /\ Line.key \in Required /\ Line.value # NoValue
    <3>1. Line # BlankLine
      BY <1>4 DEF KnownKey, Pair, BlankLine
    <3> QED
      BY <1>4, <3>1, LineRead DEF KnownKey, Pair, More
  <2>2. /\ Parse(Line.key, Line.value) # Bad <=> WellFormed(Line)
        /\ WellFormed(Line) => Parse(Line.key, Line.value) = Meaning(Line)
    BY <2>1, ParseMeans
  <2>3. /\ mr = "OK" /\ FirstIsOne(file) /\ \A i \in Before : Taken(i)
        /\ seen = {file[i].key : i \in Before}
        /\ \A i, j \in Before : file[i].key = file[j].key => i = j
    BY <2>1 DEF LinesInv
  <2>4. CASE Duplicate /\ Stop("DUPLICATE")
    <3>1. PICK i \in Before : Line.key = file[i].key
      BY <2>3, <2>4 DEF Duplicate
    <3>2. i \in Pairs(file) /\ i # pos
      BY <2>1 DEF Before
    <3>3. ~IsFormat1(file)
      BY <2>1, <3>1, <3>2 DEF IsFormat1, Line
    <3> QED
      BY <2>4, <3>3, Refused
  <2>5. CASE ~Duplicate /\ Parse(Line.key, Line.value) = Bad /\ Stop("VALUE")
    <3>1. ~IsFormat1(file)
      BY <2>1, <2>2, <2>5 DEF IsFormat1, Line
    <3> QED
      BY <2>5, <3>1, Refused
  <2>6. CASE /\ ~Duplicate /\ Parse(Line.key, Line.value) # Bad
             /\ seen' = seen \cup {Line.key}
             /\ man' = [man EXCEPT ![Line.key] = Parse(Line.key, Line.value)]
             /\ GoOn /\ UNCHANGED pc
    <3>1. pos' = pos + 1 /\ UNCHANGED <<pc, file, mr>>
      BY <2>6 DEF GoOn
    <3>2. Before' = Before \cup {pos}
      BY <2>1, <3>1 DEF Before, Pairs
    <3>3. /\ man' = [key \in Required |-> man'[key]]
          /\ man'[Line.key] = Meaning(Line)
          /\ \A key \in Required \ {Line.key} : man'[key] = man[key]
      BY <2>1, <2>2, <2>6
    <3>4. \A i \in Before : file[i].key # Line.key
      BY <2>3, <2>6 DEF Duplicate
    <3>5. \A i \in Before' : Taken(i)'
      <4> SUFFICES ASSUME NEW i \in Before'
                   PROVE  /\ file[i].key \in Required /\ WellFormed(file[i])
                          /\ man'[file[i].key] = Meaning(file[i])
        BY <3>1 DEF Taken
      <4>1. CASE i \in Before
        BY <2>3, <3>3, <3>4, <4>1 DEF Taken
      <4>2. CASE i = pos
        BY <2>1, <2>2, <2>6, <3>3, <4>2 DEF Line
      <4> QED
        BY <3>2, <4>1, <4>2
    <3>6. seen' = {file'[i].key : i \in Before'}
      BY <2>3, <2>6, <3>1, <3>2 DEF Line
    <3>7. \A i, j \in Before' : file'[i].key = file'[j].key => i = j
      BY <2>3, <3>1, <3>2, <3>4 DEF Line
    <3>8. LinesInv'
      <4>1. pos' \in 2 .. Len(file) + 1
        BY <2>1, <3>1
      <4>2. FirstIsOne(file') /\ mr' = "OK"
        BY <2>3, <3>1
      <4> QED
        BY <3>1, <3>5, <3>6, <3>7, <4>1, <4>2 DEF LinesInv
    <3> QED
      BY <2>1, <3>1, <3>3, <3>8 DEF ParsedInv
  <2> QED
    BY <1>4, <2>4, <2>5, <2>6 DEF KnownKey
<1>5. CASE UnknownKey
  <2>1. pos \in Pairs(file)
    <3>1. Line # BlankLine
      BY <1>5 DEF UnknownKey, Pair, BlankLine
    <3> QED
      BY <1>5, <3>1, LineRead DEF UnknownKey, Pair
  <2>2. ~IsFormat1(file)
    BY <1>5, <2>1 DEF UnknownKey, IsFormat1, Line
  <2> QED
    BY <1>5, <2>2, Refused DEF UnknownKey
<1>6. CASE EndOfFile
  <2>1. /\ mr = "OK" /\ FirstIsOne(file) /\ \A i \in Before : Taken(i)
        /\ seen = {file[i].key : i \in Before}
        /\ \A i, j \in Before : file[i].key = file[j].key => i = j
    BY <1>6 DEF LinesInv, EndOfFile
  <2>2. Before = Pairs(file)
    <3>1. Len(file) \in Nat /\ pos = Len(file) + 1
      BY <1>6, FileShape DEF LinesInv, EndOfFile
    <3> QED
      BY <3>1 DEF Before, Pairs
  <2>3. seen = Required <=> IsFormat1(file)
    <3>1. seen \subseteq Required
      BY <2>1 DEF Taken
    <3>2. Required \subseteq seen <=> \A key \in Required : \E i \in Pairs(file) : file[i].key = key
      BY <2>1, <2>2
    <3>3. \A i \in Pairs(file) : file[i].key \in Required /\ WellFormed(file[i])
      BY <2>1, <2>2 DEF Taken
    <3> QED
      BY <2>1, <2>2, <3>1, <3>2, <3>3 DEF IsFormat1, FirstIsOne
  <2>4. /\ pc' = "parsed" /\ UNCHANGED <<file, pos, seen, man>>
        /\ mr' = IF seen = Required THEN "OK" ELSE "MISSING"
    BY <1>6 DEF EndOfFile, Stop
  <2>5. \A i \in Pairs(file) : man[file[i].key] = Meaning(file[i])
    BY <2>1, <2>2 DEF Taken
  <2>6. ParsedInv'
    BY <2>3, <2>4, <2>5 DEF ParsedInv
  <2> QED
    BY <2>4, <2>6 DEF LinesInv
<1> QED
  BY <1>1, <1>2, <1>3, <1>4, <1>5, <1>6 DEF Parser

-----------------------------------------------------------------------------
(* Sequences of bytes.                                                     *)

LEMMA FcnIsSeq ==
  ASSUME NEW S, NEW n \in Nat, NEW f \in [1 .. n -> S]
  PROVE  f \in Seq(S) /\ Len(f) = n
  OBVIOUS

Assoc(a, b, c) == (a \o b) \o c = a \o (b \o c)

LEMMA Associates ==
  ASSUME NEW S, NEW a \in Seq(S), NEW b \in Seq(S), NEW c \in Seq(S)
  PROVE  Assoc(a, b, c)
  BY ConcatAssociative DEF Assoc

LEMMA Parts ==
  ASSUME NEW S, NEW s \in Seq(S), NEW n \in 0 .. Len(s)
  PROVE  /\ First(s, n) \in Seq(S) /\ Len(First(s, n)) = n
         /\ \A i \in 1 .. n : First(s, n)[i] = s[i]
         /\ After(s, n) \in Seq(S) /\ Len(After(s, n)) = Len(s) - n
         /\ \A i \in 1 .. Len(s) - n : After(s, n)[i] = s[n + i]
         /\ First(s, n) \o After(s, n) = s
<1>1. Len(s) \in Nat /\ \A i \in 1 .. Len(s) : s[i] \in S
  BY LenProperties, ElementOfSeq
<1>2. /\ First(s, n) \in Seq(S) /\ Len(First(s, n)) = n
      /\ \A i \in 1 .. n : First(s, n)[i] = s[i]
  BY <1>1, SubSeqProperties DEF First
<1>3. /\ After(s, n) \in Seq(S) /\ Len(After(s, n)) = Len(s) - n
      /\ \A i \in 1 .. Len(s) - n : After(s, n)[i] = s[n + i]
  BY <1>1, SubSeqProperties DEF After
<1>4. First(s, n) \o After(s, n) = s
  <2>1. /\ First(s, n) \o After(s, n) \in Seq(S)
        /\ Len(First(s, n) \o After(s, n)) = Len(s)
        /\ \A i \in 1 .. Len(s) : (First(s, n) \o After(s, n))[i] =
             IF i <= n THEN First(s, n)[i] ELSE After(s, n)[i - n]
    BY <1>1, <1>2, <1>3, ConcatProperties
  <2>2. \A i \in 1 .. Len(s) : (First(s, n) \o After(s, n))[i] = s[i]
    BY <1>1, <1>2, <1>3, <2>1
  <2> QED
    BY <2>1, <2>2, SeqEqual
<1> QED
  BY <1>2, <1>3, <1>4

LEMMA FirstOfLonger ==
  ASSUME NEW S, NEW s \in Seq(S), NEW d \in Seq(S), NEW n \in 0 .. Len(s)
  PROVE  First(s \o d, n) = First(s, n)
<1>1. Len(s) \in Nat /\ Len(d) \in Nat
  BY LenProperties
<1>2. /\ s \o d \in Seq(S) /\ Len(s \o d) = Len(s) + Len(d)
      /\ \A i \in 1 .. Len(s) : (s \o d)[i] = s[i]
  BY <1>1, ConcatProperties
<1>3. n \in 0 .. Len(s \o d)
  BY <1>1, <1>2
<1>4. /\ First(s \o d, n) \in Seq(S) /\ First(s, n) \in Seq(S)
      /\ Len(First(s \o d, n)) = n /\ Len(First(s, n)) = n
      /\ \A i \in 1 .. n : First(s \o d, n)[i] = First(s, n)[i]
  <2>1. PICK longer : longer = s \o d
    OBVIOUS
  <2>2. /\ First(longer, n) \in Seq(S) /\ Len(First(longer, n)) = n
        /\ \A i \in 1 .. n : First(longer, n)[i] = longer[i]
    BY <1>2, <1>3, <2>1, Parts
  <2>3. /\ First(s, n) \in Seq(S) /\ Len(First(s, n)) = n
        /\ \A i \in 1 .. n : First(s, n)[i] = s[i]
    BY Parts
  <2>4. \A i \in 1 .. n : i \in 1 .. Len(s)
    BY <1>1
  <2> QED
    BY <1>2, <2>1, <2>2, <2>3, <2>4
<1> QED
  BY <1>4, SeqEqual

-----------------------------------------------------------------------------
(* The hash.                                                               *)

Ctx(S) == [state : Seq(S), bitlen : Nat, buf : [1 .. BlockLen -> S], buflen : 0 .. BlockLen]

\* What the context holds once s has gone into it: the whole blocks of s are
\* compressed, the bytes after them are in buf, and bitlen counts them all.
Hashes(c, s) ==
  /\ s = c.state \o First(c.buf, c.buflen)
  /\ \E q \in Nat : Len(c.state) = q * BlockLen
  /\ c.bitlen = (Len(s) * BitsPerByte) % BitLens

LEMMA CountsOn ==
  ASSUME NEW m \in Nat, NEW n \in Nat
  PROVE  /\ (((m * BitsPerByte) % BitLens) + n * BitsPerByte) % BitLens
              = ((m + n) * BitsPerByte) % BitLens
         /\ ((m + n) * BitsPerByte) % BitLens \in Nat
<1>1. BitsPerByte \in Nat /\ BitLens \in Nat \ {0}
  BY BlockAssumption, PowerAssumption
<1>2. m * BitsPerByte \in Nat /\ n * BitsPerByte \in Nat
      /\ (m + n) * BitsPerByte = m * BitsPerByte + n * BitsPerByte
  BY <1>1
<1>3. (((m * BitsPerByte) % BitLens) + n * BitsPerByte) % BitLens
        = (m * BitsPerByte + n * BitsPerByte) % BitLens
  BY <1>1, <1>2, SumOfRemainder
<1>4. (m * BitsPerByte + n * BitsPerByte) % BitLens \in Nat
  BY <1>1, <1>2, Division
<1> QED
  BY <1>2, <1>3, <1>4

IsCopy(new, buf, at, to, d) ==
  \A k \in 1 .. BlockLen : new[k] = IF k > at /\ k <= to THEN d[k - at] ELSE buf[k]

LEMMA CopiedIs ==
  ASSUME NEW S, NEW buf \in [1 .. BlockLen -> S], NEW at \in Nat, NEW d \in Seq(S),
         NEW to \in Nat, to = at + Len(d)
  PROVE  /\ Copied(buf, at, d) \in [1 .. BlockLen -> S]
         /\ IsCopy(Copied(buf, at, d), buf, at, to, d)
<1>1. BlockLen \in Nat /\ Len(d) \in Nat
  BY BlockAssumption, LenProperties
<1>2. ASSUME NEW k \in 1 .. BlockLen, k > at, k <= to PROVE d[k - at] \in S
  <2>1. k - at \in 1 .. Len(d)
    BY <1>1, <1>2
  <2> QED
    BY <2>1, ElementOfSeq
<1>3. Copied(buf, at, d) =
        [k \in 1 .. BlockLen |-> IF k > at /\ k <= to THEN d[k - at] ELSE buf[k]]
  BY DEF Copied
<1> QED
  BY <1>2, <1>3 DEF IsCopy

LEMMA FirstOfBlock ==
  ASSUME NEW S, NEW buf \in [1 .. BlockLen -> S], NEW at \in 0 .. BlockLen
  PROVE  First(buf, at) \in Seq(S) /\ Len(First(buf, at)) = at
<1>1. buf \in Seq(S) /\ Len(buf) = BlockLen
  BY BlockAssumption, FcnIsSeq
<1> QED
  BY <1>1, Parts

\* What is copied behind the first bytes follows them.
Follows(new, to, buf, at, d) == First(new, to) = First(buf, at) \o d

LEMMA CopiedBehind ==
  ASSUME NEW S, NEW buf \in [1 .. BlockLen -> S], NEW at \in Nat, NEW d \in Seq(S),
         NEW to \in Nat, to = at + Len(d), to <= BlockLen
  PROVE  Follows(Copied(buf, at, d), to, buf, at, d)
<1>1. BlockLen \in Nat /\ at \in 0 .. BlockLen /\ to \in 0 .. BlockLen
  BY BlockAssumption, LenProperties
<1>2. buf \in Seq(S) /\ Len(buf) = BlockLen
  BY <1>1, FcnIsSeq
<1> DEFINE new == Copied(buf, at, d)
<1>3. new \in [1 .. BlockLen -> S] /\ IsCopy(new, buf, at, to, d)
  BY CopiedIs
<1> HIDE DEF new
<1>4. new \in Seq(S) /\ Len(new) = BlockLen
  BY <1>1, <1>3, FcnIsSeq
<1> DEFINE old == First(buf, at)
<1> DEFINE both == First(new, to)
<1>5. /\ old \in Seq(S) /\ Len(old) = at /\ \A i \in 1 .. at : old[i] = buf[i]
  BY <1>1, <1>2, Parts
<1>6. /\ both \in Seq(S) /\ Len(both) = to /\ \A i \in 1 .. to : both[i] = new[i]
  BY <1>1, <1>4, Parts
<1> HIDE DEF old, both
<1>7. /\ old \o d \in Seq(S) /\ Len(old \o d) = to
      /\ \A i \in 1 .. to : (old \o d)[i] = IF i <= at THEN old[i] ELSE d[i - at]
  BY <1>5, ConcatProperties
<1>8. \A i \in 1 .. to : both[i] = (old \o d)[i]
  <2> TAKE i \in 1 .. to
  <2>1. i \in 1 .. BlockLen /\ i \in Nat
    BY <1>1
  <2>2. both[i] = IF i > at THEN d[i - at] ELSE buf[i]
    BY <1>3, <1>6, <2>1 DEF IsCopy
  <2>3. (old \o d)[i] = IF i <= at THEN old[i] ELSE d[i - at]
    BY <1>7
  <2>4. i <= at => old[i] = buf[i]
    BY <1>5, <2>1
  <2>5. i > at <=> ~(i <= at)
    BY <2>1
  <2> QED
    BY <2>2, <2>3, <2>4, <2>5
<1>9. both = old \o d
  BY <1>6, <1>7, <1>8, SeqEqual
<1> QED
  BY <1>9 DEF both, old, new, Follows

\* Bytes go behind the partial block as far as there is room.
LEMMA CarryHashes ==
  ASSUME NEW S, NEW s \in Seq(S), NEW d \in Seq(S), NEW c \in Ctx(S), Hashes(c, s),
         NEW n \in Nat, n = Len(d), NEW to \in Nat, to = c.buflen + n, to <= BlockLen
  PROVE  /\ Carry(c, d) \in Ctx(S) /\ Hashes(Carry(c, d), s \o d)
         /\ Carry(c, d).buflen = to
<1>1. PICK r, m, state, old, oldbits :
        r = c.buflen /\ m = Len(s) /\ state = c.state /\ old = c.buf /\ oldbits = c.bitlen
  OBVIOUS
<1>2. /\ m \in Nat /\ BlockLen \in Nat /\ r \in 0 .. BlockLen /\ r \in Nat
      /\ old \in [1 .. BlockLen -> S] /\ state \in Seq(S) /\ oldbits \in Nat
      /\ to = r + Len(d)
  BY <1>1, LenProperties, BlockAssumption DEF Ctx
<1> DEFINE buf == Copied(old, r, d)
<1> DEFINE bits == (oldbits + n * BitsPerByte) % BitLens
<1>3. Carry(c, d) = [state |-> state, bitlen |-> bits, buf |-> buf, buflen |-> to]
  <2>1. c = [state |-> state, bitlen |-> oldbits, buf |-> old, buflen |-> r]
    BY <1>1 DEF Ctx
  <2>2. Carry(c, d) = [c EXCEPT !.buf = buf, !.buflen = to, !.bitlen = bits]
    BY <1>1 DEF Carry
  <2> HIDE DEF buf, bits
  <2> QED
    BY <2>1, <2>2
<1>4. /\ buf \in [1 .. BlockLen -> S]
      /\ First(old, r) \in Seq(S)
      /\ First(buf, to) = First(old, r) \o d
  <2>1. buf \in [1 .. BlockLen -> S]
    BY <1>2, CopiedIs
  <2>2. First(old, r) \in Seq(S)
    BY <1>2, FirstOfBlock
  <2>3. Follows(Copied(old, r, d), to, old, r, d)
    BY <1>2, CopiedBehind
  <2> QED
    BY <2>1, <2>2, <2>3 DEF Follows
<1>5. bits = ((m + n) * BitsPerByte) % BitLens /\ bits \in Nat
  <2>1. oldbits = (m * BitsPerByte) % BitLens
    BY <1>1 DEF Hashes
  <2> QED
    BY <1>2, <2>1, CountsOn
<1>6. to \in 0 .. BlockLen
  BY <1>2
<1> HIDE DEF bits, buf
<1>7. Carry(c, d) \in Ctx(S) /\ Carry(c, d).buflen = to
  BY <1>2, <1>3, <1>4, <1>5, <1>6 DEF Ctx
<1>8. s \o d = state \o First(buf, to)
  <2>1. s = state \o First(old, r)
    BY <1>1 DEF Hashes
  <2>2. Assoc(state, First(old, r), d)
    BY <1>2, <1>4, Associates
  <2> QED
    BY <1>4, <2>1, <2>2 DEF Assoc
<1>9. Len(s \o d) = m + n
  <2>1. Len(s \o d) = Len(s) + Len(d)
    BY ConcatProperties
  <2> QED
    BY <1>1, <2>1
<1>10. \E q \in Nat : Len(state) = q * BlockLen
  BY <1>1 DEF Hashes
<1>11. Hashes(Carry(c, d), s \o d)
  BY <1>3, <1>5, <1>8, <1>9, <1>10 DEF Hashes
<1> QED
  BY <1>1, <1>7, <1>11

LEMMA Ends ==
  ASSUME NEW S, NEW s \in Seq(S), NEW n \in Nat, n = Len(s)
  PROVE  First(s, 0) = <<>> /\ After(s, 0) = s /\ First(s, n) = s /\ After(s, n) = <<>>
<1>1. /\ 0 \in 0 .. Len(s) /\ n \in 0 .. Len(s)
  BY LenProperties
<1>2. First(s, 0) \in Seq(S) /\ Len(First(s, 0)) = 0
  BY <1>1, Parts
<1>3. First(s, 0) = <<>>
  BY <1>2, EmptySeq
<1>4. After(s, n) \in Seq(S) /\ Len(After(s, n)) = 0
  <2>1. After(s, n) \in Seq(S) /\ Len(After(s, n)) = Len(s) - n
    BY <1>1, Parts
  <2> QED
    BY <2>1
<1>5. After(s, n) = <<>>
  BY <1>4, EmptySeq
<1>6. After(s, 0) \in Seq(S) /\ First(s, 0) \o After(s, 0) = s
  BY <1>1, Parts
<1>7. First(s, n) \in Seq(S) /\ First(s, n) \o After(s, n) = s
  BY <1>1, Parts
<1>8. After(s, 0) = s
  BY <1>3, <1>6, ConcatEmptySeq
<1>9. First(s, n) = s
  BY <1>5, <1>7, ConcatEmptySeq
<1> QED
  BY <1>3, <1>5, <1>8, <1>9

\* Nothing is left of a full block once it is compressed.
LEMMA FlushHashes ==
  ASSUME NEW S, NEW s \in Seq(S), NEW c \in Ctx(S), Hashes(c, s)
  PROVE  /\ Flushed(c) \in Ctx(S) /\ Hashes(Flushed(c), s)
         /\ Flushed(c).buflen = IF c.buflen = BlockLen THEN 0 ELSE c.buflen
<1>1. CASE c.buflen # BlockLen
  BY <1>1 DEF Flushed
<1>2. CASE c.buflen = BlockLen
  <2>1. PICK state, buf, bits : state = c.state /\ buf = c.buf /\ bits = c.bitlen
    OBVIOUS
  <2>2. /\ BlockLen \in Nat /\ state \in Seq(S) /\ bits \in Nat
        /\ buf \in [1 .. BlockLen -> S]
        /\ c = [state |-> state, bitlen |-> bits, buf |-> buf, buflen |-> BlockLen]
    BY <1>2, <2>1, BlockAssumption DEF Ctx
  <2>3. buf \in Seq(S) /\ Len(buf) = BlockLen
    BY <2>2, FcnIsSeq
  <2>4. First(buf, BlockLen) = buf /\ First(buf, 0) = <<>>
    BY <2>2, <2>3, Ends
  <2> DEFINE longer == state \o buf
  <2>5. longer \in Seq(S) /\ Len(longer) = Len(state) + BlockLen
    BY <2>2, <2>3, ConcatProperties
  <2>6. longer = s
    BY <1>2, <2>1, <2>4 DEF Hashes
  <2>7. longer \o <<>> = longer
    BY <2>5, ConcatEmptySeq
  <2>8. Flushed(c) = [state |-> longer, bitlen |-> bits, buf |-> buf, buflen |-> 0]
    <3>1. Flushed(c) = [c EXCEPT !.state = longer, !.buflen = 0]
      BY <1>2, <2>1 DEF Flushed, Compress
    <3> HIDE DEF longer
    <3> QED
      BY <2>2, <3>1
  <2> HIDE DEF longer
  <2>9. Flushed(c) \in Ctx(S) /\ Flushed(c).buflen = 0
    BY <2>2, <2>5, <2>8 DEF Ctx
  <2>10. \E q \in Nat : Len(longer) = q * BlockLen
    <3>1. PICK q \in Nat : Len(state) = q * BlockLen
      BY <2>1 DEF Hashes
    <3>2. Len(longer) = (q + 1) * BlockLen /\ q + 1 \in Nat
      BY <2>2, <2>5, <3>1
    <3> QED
      BY <3>2
  <2>11. bits = (Len(s) * BitsPerByte) % BitLens
    BY <2>1 DEF Hashes
  <2>12. s = longer \o First(buf, 0)
    BY <2>4, <2>6, <2>7
  <2>13. Hashes(Flushed(c), s)
    BY <2>8, <2>10, <2>11, <2>12 DEF Hashes
  <2> QED
    BY <1>2, <2>9, <2>13
<1> QED
  BY <1>1, <1>2

\* Whole blocks are compressed at once when nothing is carried.
LEMMA AbsorbHashes ==
  ASSUME NEW S, NEW s \in Seq(S), NEW d \in Seq(S), NEW c \in Ctx(S), Hashes(c, s),
         c.buflen = 0 \/ d = <<>>, NEW n \in Nat, n = Len(d),
         NEW k \in Nat, n = k * BlockLen
  PROVE  /\ Absorb(c, d) \in Ctx(S) /\ Hashes(Absorb(c, d), s \o d)
         /\ Absorb(c, d).buflen = c.buflen
<1>1. PICK m, state, buf, r, oldbits :
        m = Len(s) /\ state = c.state /\ buf = c.buf /\ r = c.buflen /\ oldbits = c.bitlen
  OBVIOUS
<1> DEFINE longer == state \o d
<1> DEFINE bits == (oldbits + n * BitsPerByte) % BitLens
<1>2. /\ BlockLen \in Nat /\ state \in Seq(S) /\ oldbits \in Nat /\ m \in Nat
      /\ buf \in [1 .. BlockLen -> S] /\ r \in 0 .. BlockLen
      /\ c = [state |-> state, bitlen |-> oldbits, buf |-> buf, buflen |-> r]
  BY <1>1, BlockAssumption, LenProperties DEF Ctx
<1>3. Absorb(c, d) = [state |-> longer, bitlen |-> bits, buf |-> buf, buflen |-> r]
  <2>1. Absorb(c, d) = [c EXCEPT !.state = longer, !.bitlen = bits]
    BY <1>1 DEF Absorb, Compress
  <2> HIDE DEF longer, bits
  <2> QED
    BY <1>2, <2>1
<1>4. longer \in Seq(S) /\ Len(longer) = Len(state) + n
  <2>1. longer \in Seq(S) /\ Len(longer) = Len(state) + Len(d)
    BY <1>2, ConcatProperties
  <2> QED
    BY <2>1
<1>5. bits = ((m + n) * BitsPerByte) % BitLens /\ bits \in Nat
  <2>1. oldbits = (m * BitsPerByte) % BitLens
    BY <1>1 DEF Hashes
  <2> QED
    BY <1>2, <2>1, CountsOn
<1>6. Len(s \o d) = m + n
  <2>1. Len(s \o d) = Len(s) + Len(d)
    BY ConcatProperties
  <2> QED
    BY <1>1, <2>1
<1>7. \E q \in Nat : Len(longer) = q * BlockLen
  <2>1. PICK q \in Nat : Len(state) = q * BlockLen
    BY <1>1 DEF Hashes
  <2>2. Len(longer) = (q + k) * BlockLen /\ q + k \in Nat
    BY <1>2, <1>4, <2>1
  <2> QED
    BY <2>2
<1>8. s \o d = longer \o First(buf, r)
  <2>1. s = state \o First(buf, r)
    BY <1>1 DEF Hashes
  <2>2. First(buf, r) \in Seq(S)
    BY <1>2, FirstOfBlock
  <2>3. CASE d = <<>>
    <3>1. longer = state /\ s \o d = s
      BY <1>2, <2>3, ConcatEmptySeq
    <3> QED
      BY <2>1, <3>1
  <2>4. CASE r = 0
    <3>1. First(buf, r) = <<>>
      <4>1. buf \in Seq(S)
        BY <1>2, FcnIsSeq
      <4>2. PICK size \in Nat : size = Len(buf)
        BY <4>1, LenProperties
      <4> QED
        BY <2>4, <4>1, <4>2, Ends
    <3>2. s = state
      BY <1>2, <2>1, <3>1, ConcatEmptySeq
    <3>3. longer \o <<>> = longer
      BY <1>4, ConcatEmptySeq
    <3> QED
      BY <3>1, <3>2, <3>3
  <2> QED
    BY <1>1, <2>3, <2>4
<1> HIDE DEF longer, bits
<1>9. Absorb(c, d) \in Ctx(S) /\ Absorb(c, d).buflen = c.buflen
  BY <1>1, <1>2, <1>3, <1>4, <1>5 DEF Ctx
<1>10. Hashes(Absorb(c, d), s \o d)
  BY <1>3, <1>5, <1>6, <1>7, <1>8 DEF Hashes
<1> QED
  BY <1>9, <1>10

LEMMA WholeOf ==
  ASSUME NEW n \in Nat
  PROVE  \E w, k \in Nat : /\ w = n - (n % BlockLen) /\ w = k * BlockLen /\ w \in 0 .. n
                           /\ n - w < BlockLen
<1>1. BlockLen \in Nat \ {0}
  BY BlockAssumption
<1> DEFINE k == n \div BlockLen
<1> DEFINE r == n % BlockLen
<1>2. k \in Nat /\ r \in 0 .. BlockLen - 1 /\ n = k * BlockLen + r
  BY <1>1, Division
<1> DEFINE w == n - r
<1> HIDE DEF k, r
<1>3. k * BlockLen \in Nat
  BY <1>1, <1>2
<1>4. w = k * BlockLen /\ w \in 0 .. n /\ n - w < BlockLen
  BY <1>1, <1>2, <1>3
<1> QED
  BY <1>2, <1>3, <1>4 DEF r

\* Phases 2 and 3: whole blocks at once, the remainder into the block.
LEMMA RestHashes ==
  ASSUME NEW S, NEW s \in Seq(S), NEW d \in Seq(S), NEW c \in Ctx(S), Hashes(c, s),
         c.buflen < BlockLen, c.buflen = 0 \/ d = <<>>
  PROVE  LET w == Whole(d)
             e == Carry(Absorb(c, First(d, w)), After(d, w))
         IN e \in Ctx(S) /\ Hashes(e, s \o d) /\ e.buflen < BlockLen
<1>1. PICK n \in Nat : n = Len(d)
  BY LenProperties
<1>2. PICK w, k \in Nat : /\ w = n - (n % BlockLen) /\ w = k * BlockLen /\ w \in 0 .. n
                          /\ n - w < BlockLen
  BY WholeOf
<1>3. Whole(d) = w
  BY <1>1, <1>2 DEF Whole
<1>4. PICK head, tail : head = First(d, w) /\ tail = After(d, w)
  OBVIOUS
<1>5. /\ head \in Seq(S) /\ Len(head) = w
      /\ tail \in Seq(S) /\ Len(tail) = n - w
      /\ head \o tail = d
  <2>1. w \in 0 .. Len(d)
    BY <1>1, <1>2
  <2>2. /\ First(d, w) \in Seq(S) /\ Len(First(d, w)) = w
        /\ After(d, w) \in Seq(S) /\ Len(After(d, w)) = Len(d) - w
        /\ First(d, w) \o After(d, w) = d
    BY <2>1, Parts
  <2> QED
    BY <1>1, <1>4, <2>2
<1>6. c.buflen = 0 \/ head = <<>>
  <2>1. CASE d = <<>>
    BY <1>1, <1>2, <1>5, <2>1, EmptySeq
  <2> QED
    BY <2>1
<1>7. PICK a : /\ a = Absorb(c, head)
               /\ a \in Ctx(S) /\ Hashes(a, s \o head) /\ a.buflen = c.buflen
  BY <1>2, <1>5, <1>6, AbsorbHashes
<1>8. PICK over, to \in Nat : over = n - w /\ to = a.buflen + over /\ to < BlockLen
  <2>1. c.buflen \in Nat /\ BlockLen \in Nat
    BY BlockAssumption DEF Ctx
  <2>2. CASE c.buflen = 0
    BY <1>2, <1>7, <2>1, <2>2
  <2>3. CASE d = <<>>
    <3>1. n = 0 /\ n - w = 0
      BY <1>1, <1>2, <2>3, EmptySeq
    <3> QED
      BY <1>7, <2>1, <3>1
  <2> QED
    BY <2>2, <2>3
<1>9. PICK both : both = s \o head
  OBVIOUS
<1>10. both \in Seq(S) /\ both \o tail = s \o d
  <2>1. both \in Seq(S)
    BY <1>5, <1>9, ConcatProperties
  <2>2. Assoc(s, head, tail)
    <3>1. head \in Seq(S) /\ tail \in Seq(S)
      BY <1>5
    <3> QED
      BY <3>1, Associates
  <2> QED
    BY <1>5, <1>9, <2>1, <2>2 DEF Assoc
<1>11. over = Len(tail) /\ to <= BlockLen
  BY <1>5, <1>8, BlockAssumption
<1>12. /\ Carry(a, tail) \in Ctx(S) /\ Hashes(Carry(a, tail), both \o tail)
       /\ Carry(a, tail).buflen = to
  <2>1. /\ a \in Ctx(S) /\ Hashes(a, both) /\ both \in Seq(S) /\ tail \in Seq(S)
        /\ over \in Nat /\ over = Len(tail)
        /\ to \in Nat /\ to = a.buflen + over /\ to <= BlockLen
    BY <1>5, <1>7, <1>8, <1>9, <1>10, <1>11
  <2> QED
    BY <2>1, CarryHashes
<1> QED
  BY <1>4, <1>3, <1>7, <1>8, <1>10, <1>12

\* sha256_update appends.
LEMMA UpdateHashes ==
  ASSUME NEW S, NEW s \in Seq(S), NEW d \in Seq(S), NEW c \in Ctx(S), Hashes(c, s),
         c.buflen < BlockLen
  PROVE  /\ sha256_update(c, d) \in Ctx(S) /\ Hashes(sha256_update(c, d), s \o d)
         /\ sha256_update(c, d).buflen < BlockLen
<1>1. PICK len \in Nat : len = Len(d)
  BY LenProperties
<1>2. PICK r : r = c.buflen /\ r \in Nat /\ r < BlockLen /\ BlockLen \in Nat
  BY BlockAssumption DEF Ctx
<1>3. PICK n \in 0 .. len : n = TopUp(c, d) /\ n <= BlockLen - r
                            /\ (n = 0 => r = 0 \/ len = 0)
                            /\ (n # 0 => n = len \/ n = BlockLen - r)
  BY <1>1, <1>2 DEF TopUp, Least
<1>4. PICK head, rest : head = First(d, n) /\ rest = After(d, n)
  OBVIOUS
<1>5. /\ head \in Seq(S) /\ Len(head) = n
      /\ rest \in Seq(S) /\ Len(rest) = len - n
      /\ head \o rest = d
  <2>1. n \in 0 .. Len(d)
    BY <1>1
  <2> QED
    BY <1>4, <1>1, <2>1, Parts
<1>6. PICK topped : topped = IF n = 0 THEN c ELSE Flushed(Carry(c, head))
  OBVIOUS
<1>7. PICK both : both = s \o head
  OBVIOUS
<1>8. both = s \o head /\ both \in Seq(S) /\ both \o rest = s \o d
  <2>1. both \in Seq(S)
    BY <1>5, <1>7, ConcatProperties
  <2>2. Assoc(s, head, rest)
    <3>1. head \in Seq(S) /\ rest \in Seq(S)
      BY <1>5
    <3> QED
      BY <3>1, Associates
  <2> QED
    BY <1>5, <1>7, <2>1, <2>2 DEF Assoc
<1>9. /\ topped \in Ctx(S) /\ Hashes(topped, both) /\ topped.buflen < BlockLen
      /\ topped.buflen = 0 \/ rest = <<>>
  <2>1. CASE n = 0
    <3>1. head = <<>> /\ both = s
      BY <1>5, <1>8, <2>1, EmptySeq, ConcatEmptySeq
    <3>2. r = 0 \/ rest = <<>>
      <4>1. CASE len = 0
        BY <1>5, <2>1, <4>1, EmptySeq
      <4> QED
        BY <1>3, <2>1, <4>1
    <3> QED
      BY <1>2, <1>6, <2>1, <3>1, <3>2
  <2>2. CASE n # 0
    <3>1. PICK to \in Nat : to = r + n /\ to <= BlockLen
      BY <1>2, <1>3
    <3>2. PICK e : e = Carry(c, head) /\ e \in Ctx(S) /\ Hashes(e, both) /\ e.buflen = to
      <4>1. n = Len(head) /\ n \in Nat /\ to = c.buflen + n
        BY <1>1, <1>2, <1>5, <3>1
      <4>2. /\ Carry(c, head) \in Ctx(S) /\ Hashes(Carry(c, head), s \o head)
            /\ Carry(c, head).buflen = to
        BY <1>5, <3>1, <4>1, CarryHashes
      <4> QED
        BY <1>8, <4>2
    <3>3. /\ Flushed(e) \in Ctx(S) /\ Hashes(Flushed(e), both)
          /\ Flushed(e).buflen = IF to = BlockLen THEN 0 ELSE to
      BY <1>8, <3>2, FlushHashes
    <3>4. to = BlockLen \/ rest = <<>>
      <4>1. CASE n = len
        BY <1>1, <1>5, <4>1, EmptySeq
      <4>2. CASE n = BlockLen - r
        BY <1>2, <3>1, <4>2
      <4> QED
        BY <1>3, <2>2, <4>1, <4>2
    <3>5. topped = Flushed(e)
      BY <1>6, <2>2, <3>2
    <3>6. topped.buflen < BlockLen
      BY <1>2, <3>1, <3>3, <3>5
    <3> QED
      BY <3>3, <3>4, <3>5, <3>6
  <2> QED
    BY <2>1, <2>2
<1>10. PICK w : w = Whole(rest)
  OBVIOUS
<1>11. PICK e : e = Carry(Absorb(topped, First(rest, w)), After(rest, w))
  OBVIOUS
<1>12. e \in Ctx(S) /\ Hashes(e, both \o rest) /\ e.buflen < BlockLen
  BY <1>5, <1>8, <1>9, <1>10, <1>11, RestHashes
<1>13. sha256_update(c, d) = e
  BY <1>4, <1>3, <1>6, <1>10, <1>11 DEF sha256_update
<1> QED
  BY <1>8, <1>12, <1>13

-----------------------------------------------------------------------------
(* The padding.                                                            *)

LEMMA ZerosAre ==
  ASSUME NEW S, 0 \in S, NEW n \in Nat
  PROVE  Zeros(n) \in Seq(S) /\ Len(Zeros(n)) = n
<1>1. Zeros(n) \in [1 .. n -> S]
  BY DEF Zeros
<1> QED
  BY <1>1, FcnIsSeq

LEMMA ZerosAdd ==
  ASSUME NEW m \in Nat, NEW n \in Nat, NEW k \in Nat, k = m + n
  PROVE  Zeros(m) \o Zeros(n) = Zeros(k)
<1>1. 0 \in {0}
  OBVIOUS
<1>2. PICK x, y, z : x = Zeros(m) /\ y = Zeros(n) /\ z = Zeros(k)
  OBVIOUS
<1>3. /\ x \in Seq({0}) /\ Len(x) = m /\ y \in Seq({0}) /\ Len(y) = n
      /\ z \in Seq({0}) /\ Len(z) = k
  BY <1>1, <1>2, ZerosAre
<1>4. /\ x \o y \in Seq({0}) /\ Len(x \o y) = k
  BY <1>3, ConcatProperties
<1>5. \A i \in 1 .. k : (x \o y)[i] = z[i]
  <2> TAKE i \in 1 .. k
  <2>1. z[i] \in {0} /\ (x \o y)[i] \in {0}
    BY <1>3, <1>4, ElementOfSeq
  <2> QED
    BY <2>1
<1>6. x \o y = z
  BY <1>3, <1>4, <1>5, SeqEqual
<1> QED
  BY <1>2, <1>6

\* A block filled to its end is what it held and what filled it.
IsFilled(new, buf, at, d) == new = First(buf, at) \o d

LEMMA FilledBlock ==
  ASSUME NEW S, NEW buf \in [1 .. BlockLen -> S], NEW at \in Nat, NEW d \in Seq(S),
         NEW to \in Nat, to = at + Len(d), to = BlockLen
  PROVE  IsFilled(Copied(buf, at, d), buf, at, d)
<1>1. to <= BlockLen
  OBVIOUS
<1>2. PICK new : new = Copied(buf, at, d)
  OBVIOUS
<1>3. new \in [1 .. BlockLen -> S]
  BY <1>1, <1>2, CopiedIs
<1>4. Follows(Copied(buf, at, d), to, buf, at, d)
  BY <1>1, CopiedBehind
<1>5. new \in Seq(S) /\ Len(new) = to
  BY <1>1, <1>3, FcnIsSeq
<1>6. First(new, to) = new
  BY <1>5, Ends
<1> QED
  BY <1>2, <1>4, <1>6 DEF Follows, IsFilled

\* The last block: what is left, zeros, and the length.
IsLast(new, buf, at, zeros, d) == new = (First(buf, at) \o zeros) \o d

LEMMA LastBlock ==
  ASSUME NEW S, 0 \in S, NEW buf \in [1 .. BlockLen -> S], NEW at \in Nat,
         NEW room \in Nat, room = BlockLen - LenLen, NEW z \in Nat, room = at + z,
         NEW d \in Seq(S), Len(d) = LenLen
  PROVE  IsLast(Copied(Copied(buf, at, Zeros(z)), room, d), buf, at, Zeros(z), d)
<1>1. PICK zeros : zeros = Zeros(z) /\ zeros \in Seq(S) /\ Len(zeros) = z
  <2>1. Zeros(z) \in Seq(S) /\ Len(Zeros(z)) = z
    BY ZerosAre
  <2> QED
    BY <2>1
<1>2. /\ BlockLen \in Nat /\ room <= BlockLen /\ BlockLen = room + Len(d)
      /\ room = at + Len(zeros)
  BY <1>1, BlockAssumption
<1>3. PICK filled : filled = Copied(buf, at, zeros)
  OBVIOUS
<1>4. filled \in [1 .. BlockLen -> S]
  BY <1>1, <1>2, <1>3, CopiedIs
<1>5. Follows(Copied(buf, at, zeros), room, buf, at, zeros)
  BY <1>1, <1>2, CopiedBehind
<1>6. IsFilled(Copied(filled, room, d), filled, room, d)
  <2>1. PICK to \in Nat : to = BlockLen /\ to = room + Len(d)
    BY <1>2
  <2> QED
    BY <1>4, <2>1, FilledBlock
<1> QED
  BY <1>1, <1>3, <1>5, <1>6 DEF Follows, IsFilled, IsLast

FillOf(n) == (BlockLen - ((n + 1 + LenLen) % BlockLen)) % BlockLen

IsFill(fill, r) ==
  /\ r + 1 + LenLen <= BlockLen => fill = BlockLen - (r + 1 + LenLen)
  /\ r + 1 + LenLen > BlockLen => fill = 2 * BlockLen - (r + 1 + LenLen)

\* How many zeros: up to the length in this block, or through the next one.
LEMMA Fill ==
  ASSUME NEW q \in Nat, NEW n \in Nat, NEW r \in Nat, n = q * BlockLen + r, r < BlockLen
  PROVE  IsFill(FillOf(n), r)
<1>1. BlockLen \in Nat \ {0} /\ LenLen \in Nat /\ LenLen < BlockLen
  BY BlockAssumption
<1>2. q * BlockLen \in Nat /\ (q + 1) * BlockLen = q * BlockLen + BlockLen
  BY <1>1
<1>3. PICK a \in Nat : a = r + 1 + LenLen /\ a > 0 /\ a < 2 * BlockLen
  BY <1>1
<1>4. n + 1 + LenLen = q * BlockLen + a
  BY <1>1, <1>2, <1>3
<1>5. CASE a < BlockLen
  <2>1. PICK f \in 0 .. BlockLen - 1 : f = BlockLen - a
    BY <1>1, <1>3, <1>5
  <2>2. a \in 0 .. BlockLen - 1
    BY <1>1, <1>5
  <2>3. (q * BlockLen + a) % BlockLen = a
    BY <1>1, <2>2, Remainder
  <2>4. (0 * BlockLen + f) % BlockLen = f
    BY <1>1, Remainder
  <2>5. f % BlockLen = f
    BY <1>1, <2>4
  <2>6. FillOf(n) = f
    BY <1>4, <2>1, <2>3, <2>5 DEF FillOf
  <2> QED
    BY <1>1, <1>3, <1>5, <2>1, <2>6 DEF IsFill
<1>6. CASE a = BlockLen
  <2>1. 0 \in 0 .. BlockLen - 1 /\ q + 1 \in Nat /\ 1 \in Nat
    BY <1>1
  <2>2. ((q + 1) * BlockLen + 0) % BlockLen = 0 /\ (1 * BlockLen + 0) % BlockLen = 0
    BY <1>1, <2>1, Remainder
  <2>3. q * BlockLen + a = (q + 1) * BlockLen + 0 /\ BlockLen - 0 = 1 * BlockLen + 0
    BY <1>1, <1>2, <1>6
  <2>4. FillOf(n) = 0
    BY <1>4, <2>2, <2>3 DEF FillOf
  <2> QED
    BY <1>1, <1>3, <1>6, <2>4 DEF IsFill
<1>7. CASE a > BlockLen
  <2>1. PICK b \in 0 .. BlockLen - 1 : b = a - BlockLen /\ b > 0
    BY <1>1, <1>3, <1>7
  <2>2. PICK f \in 0 .. BlockLen - 1 : f = BlockLen - b
    BY <1>1, <2>1
  <2>3. ((q + 1) * BlockLen + b) % BlockLen = b
    <3>1. q + 1 \in Nat
      OBVIOUS
    <3> QED
      BY <1>1, <3>1, Remainder
  <2>4. (0 * BlockLen + f) % BlockLen = f
    BY <1>1, Remainder
  <2>5. f % BlockLen = f
    BY <1>1, <2>4
  <2>6. q * BlockLen + a = (q + 1) * BlockLen + b
    BY <1>1, <1>2, <1>3, <2>1
  <2>7. FillOf(n) = f
    BY <1>4, <2>2, <2>3, <2>5, <2>6 DEF FillOf
  <2> QED
    BY <1>1, <1>3, <1>7, <2>1, <2>2, <2>7 DEF IsFill
<1> QED
  BY <1>1, <1>3, <1>5, <1>6, <1>7

IsAppended(a, b, c, d) == a \o ((b \o c) \o d) = ((a \o b) \o c) \o d

LEMMA Appended ==
  ASSUME NEW S, NEW a \in Seq(S), NEW b \in Seq(S), NEW c \in Seq(S), NEW d \in Seq(S)
  PROVE  IsAppended(a, b, c, d)
<1>1. PICK bc : bc = b \o c
  OBVIOUS
<1>2. bc \in Seq(S)
  BY <1>1, ConcatProperties
<1>3. Assoc(a, bc, d)
  BY <1>2, Associates
<1>4. Assoc(a, b, c)
  BY Associates
<1> QED
  BY <1>1, <1>3, <1>4 DEF Assoc, IsAppended

IsRegrouped(a, b, c, d, e) ==
  (a \o (b \o c)) \o (d \o e) = ((a \o b) \o (c \o d)) \o e

LEMMA Regrouped ==
  ASSUME NEW S, NEW a \in Seq(S), NEW b \in Seq(S), NEW c \in Seq(S), NEW d \in Seq(S),
         NEW e \in Seq(S)
  PROVE  IsRegrouped(a, b, c, d, e)
<1>1. PICK ab, cd : ab = a \o b /\ cd = c \o d
  OBVIOUS
<1>2. PICK abc : abc = ab \o c
  OBVIOUS
<1>3. ab \in Seq(S) /\ cd \in Seq(S)
  BY <1>1, ConcatProperties
<1>4. abc \in Seq(S)
  BY <1>2, <1>3, ConcatProperties
<1>5. Assoc(a, b, c)
  BY Associates
<1>6. Assoc(abc, d, e)
  BY <1>4, Associates
<1>7. Assoc(ab, c, d)
  BY <1>3, Associates
<1> QED
  BY <1>1, <1>2, <1>5, <1>6, <1>7 DEF Assoc, IsRegrouped

\* The steps of sha256_final: the mark, the block it may fill, and the last one.
MarkedOf(c) ==
  [c EXCEPT !.buf = Copied(@, c.buflen, <<TopBit>>), !.buflen = @ + 1]
SpiltOf(m) ==
  [m EXCEPT !.state = Compress(@, Copied(m.buf, m.buflen, Zeros(BlockLen - m.buflen))),
            !.buflen = 0]
EndOf(m, bits) ==
  Compress(m.state,
           Copied(Copied(m.buf, m.buflen, Zeros(BlockLen - LenLen - m.buflen)),
                  BlockLen - LenLen, LengthBytes(bits)))

LEMMA FinalShape ==
  ASSUME NEW c
  PROVE  /\ MarkedOf(c).buflen <= BlockLen - LenLen =>
              sha256_final(c) = EndOf(MarkedOf(c), c.bitlen)
         /\ ~(MarkedOf(c).buflen <= BlockLen - LenLen) =>
              sha256_final(c) = EndOf(SpiltOf(MarkedOf(c)), c.bitlen)
BY DEF sha256_final, MarkedOf, SpiltOf, EndOf

\* sha256_final is the padded message, whatever the block held before.
LEMMA PadsWith ==
  ASSUME NEW S, 0 \in S, TopBit \in S, NEW s \in Seq(S), NEW c \in Ctx(S), Hashes(c, s),
         c.buflen < BlockLen, LengthBytes(c.bitlen) \in [1 .. LenLen -> S]
  PROVE  sha256_final(c) = Padded(s)
<1>1. PICK n, state, buf, bits, r, mark, len :
        /\ n = Len(s) /\ state = c.state /\ buf = c.buf /\ bits = c.bitlen /\ r = c.buflen
        /\ mark = <<TopBit>> /\ len = LengthBytes(bits)
  OBVIOUS
<1>2. /\ n \in Nat /\ BlockLen \in Nat /\ LenLen \in Nat /\ LenLen < BlockLen
      /\ state \in Seq(S) /\ buf \in [1 .. BlockLen -> S] /\ bits \in Nat
      /\ r \in Nat /\ r < BlockLen
      /\ c = [state |-> state, bitlen |-> bits, buf |-> buf, buflen |-> r]
  BY <1>1, LenProperties, BlockAssumption DEF Ctx
<1>3. /\ mark \in Seq(S) /\ Len(mark) = 1 /\ len \in Seq(S) /\ Len(len) = LenLen
  <2>1. mark \in Seq(S) /\ Len(mark) = 1
    BY <1>1
  <2>2. len \in Seq(S) /\ Len(len) = LenLen
    BY <1>1, <1>2, FcnIsSeq
  <2> QED
    BY <2>1, <2>2
<1>4. PICK old : old = First(buf, r) /\ old \in Seq(S) /\ Len(old) = r
  <2>1. r \in 0 .. BlockLen
    BY <1>2
  <2>2. First(buf, r) \in Seq(S) /\ Len(First(buf, r)) = r
    BY <1>2, <2>1, FirstOfBlock
  <2> QED
    BY <2>2
<1>5. s = state \o old /\ bits = (n * BitsPerByte) % BitLens
  BY <1>1, <1>4 DEF Hashes
<1>6. PICK q \in Nat : n = q * BlockLen + r
  <2>1. PICK q \in Nat : Len(state) = q * BlockLen
    BY <1>1 DEF Hashes
  <2>2. Len(s) = Len(state) + Len(old)
    BY <1>2, <1>4, <1>5, ConcatProperties
  <2> QED
    BY <1>1, <1>4, <2>1, <2>2
<1>7. PICK to, room \in Nat :
        to = r + 1 /\ to <= BlockLen /\ room = BlockLen - LenLen /\ room <= BlockLen
  BY <1>2
<1>8. PICK marked : marked = Copied(buf, r, mark)
  OBVIOUS
<1>9. marked \in [1 .. BlockLen -> S] /\ First(marked, to) = old \o mark
  <2>1. to = r + Len(mark)
    BY <1>3, <1>7
  <2>2. marked \in [1 .. BlockLen -> S]
    BY <1>2, <1>3, <1>7, <1>8, <2>1, CopiedIs
  <2>3. Follows(Copied(buf, r, mark), to, buf, r, mark)
    BY <1>2, <1>3, <1>7, <2>1, CopiedBehind
  <2> QED
    BY <1>4, <1>8, <2>2, <2>3 DEF Follows
<1>10. PICK used : used = old \o mark /\ used \in Seq(S) /\ state \o used = s \o mark
  <2>1. old \o mark \in Seq(S)
    BY <1>3, <1>4, ConcatProperties
  <2>2. Assoc(state, old, mark)
    BY <1>2, <1>3, <1>4, Associates
  <2> QED
    BY <1>5, <2>1, <2>2 DEF Assoc
<1>11. PICK fill : fill = FillOf(n)
  OBVIOUS
<1>12. Padded(s) = ((s \o mark) \o Zeros(fill)) \o len
  BY <1>1, <1>5, <1>11 DEF Padded, FillOf
<1>13. PICK c1 :
         /\ c1 = MarkedOf(c)
         /\ c1 = [state |-> state, bitlen |-> bits, buf |-> marked, buflen |-> to]
  <2>1. PICK c1 : c1 = MarkedOf(c)
    OBVIOUS
  <2>2. c1 = [c EXCEPT !.buf = marked, !.buflen = to]
    BY <1>1, <1>2, <1>7, <1>8, <2>1 DEF MarkedOf
  <2>3. c1 = [state |-> state, bitlen |-> bits, buf |-> marked, buflen |-> to]
    BY <1>2, <2>2
  <2> QED
    BY <2>1, <2>3
<1>14. CASE to <= room
  <2>1. PICK z \in Nat : z = room - to /\ room = to + z
    BY <1>7, <1>14
  <2>2. sha256_final(c) = state \o Copied(Copied(marked, to, Zeros(z)), room, len)
    <3>1. c1.buflen = to /\ c1.state = state /\ c1.buf = marked
      BY <1>13
    <3>2. sha256_final(c) = EndOf(c1, bits)
      BY <1>1, <1>7, <1>13, <1>14, <3>1, FinalShape
    <3>3. BlockLen - LenLen = room /\ room - to = z
      BY <1>7, <2>1
    <3> QED
      BY <1>1, <3>1, <3>2, <3>3 DEF EndOf, Compress
  <2>3. Copied(Copied(marked, to, Zeros(z)), room, len) = (used \o Zeros(z)) \o len
    <3>1. IsLast(Copied(Copied(marked, to, Zeros(z)), room, len), marked, to, Zeros(z), len)
      BY <1>3, <1>7, <1>9, <2>1, LastBlock
    <3> QED
      BY <1>9, <1>10, <3>1 DEF IsLast
  <2>4. fill = z
    <3>1. r + 1 + LenLen <= BlockLen /\ z = BlockLen - (r + 1 + LenLen)
      BY <1>2, <1>7, <1>14, <2>1
    <3>2. IsFill(FillOf(n), r)
      BY <1>2, <1>6, Fill
    <3> QED
      BY <1>11, <3>1, <3>2 DEF IsFill
  <2>5. PICK zeros : zeros = Zeros(z) /\ zeros \in Seq(S)
    <3>1. Zeros(z) \in Seq(S)
      BY ZerosAre
    <3> QED
      BY <3>1
  <2>6. IsAppended(state, used, zeros, len)
    BY <1>2, <1>3, <1>10, <2>5, Appended
  <2> QED
    BY <1>10, <1>12, <2>2, <2>3, <2>4, <2>5, <2>6 DEF IsAppended
<1>15. CASE to > room
  <2>1. PICK y \in Nat : y = BlockLen - to /\ BlockLen = to + y
    BY <1>2, <1>7
  <2>2. PICK full : full = Copied(marked, to, Zeros(y))
    OBVIOUS
  <2>3. PICK last : last = Copied(Copied(marked, 0, Zeros(room)), room, len)
    OBVIOUS
  <2>4. sha256_final(c) = (state \o full) \o last
    <3>1. ~(to <= room) /\ room - 0 = room
      BY <1>7, <1>15
    <3>2. PICK longer : longer = state \o full
      OBVIOUS
    <3>3. c1.buflen = to /\ c1.state = state /\ c1.buf = marked
      BY <1>13
    <3>4. PICK c2 : c2 = SpiltOf(c1)
      OBVIOUS
    <3>5. c2 = [c1 EXCEPT !.state = longer, !.buflen = 0]
      BY <2>1, <2>2, <3>2, <3>3, <3>4 DEF SpiltOf, Compress
    <3>6. c2 = [state |-> longer, bitlen |-> bits, buf |-> marked, buflen |-> 0]
      <4>1. c1 = [state |-> state, bitlen |-> bits, buf |-> marked, buflen |-> to]
        BY <1>13
      <4> QED
        BY <3>5, <4>1
    <3>7. c2.buflen = 0 /\ c2.state = longer /\ c2.buf = marked
      BY <3>6
    <3>8. sha256_final(c) = EndOf(c2, bits)
      BY <1>1, <1>7, <1>13, <3>1, <3>3, <3>4, FinalShape
    <3>9. BlockLen - LenLen = room
      BY <1>7
    <3> QED
      BY <1>1, <2>3, <3>1, <3>2, <3>7, <3>8, <3>9 DEF EndOf, Compress
  <2>5. PICK zeros : zeros = Zeros(y) /\ zeros \in Seq(S) /\ Len(zeros) = y
    <3>1. Zeros(y) \in Seq(S) /\ Len(Zeros(y)) = y
      BY ZerosAre
    <3> QED
      BY <3>1
  <2>6. full = used \o zeros
    <3>1. PICK end \in Nat : end = to + Len(zeros) /\ end = BlockLen
      BY <1>2, <2>1, <2>5
    <3>2. IsFilled(Copied(marked, to, zeros), marked, to, zeros)
      BY <1>7, <1>9, <2>5, <3>1, FilledBlock
    <3> QED
      BY <1>9, <1>10, <2>2, <2>5, <3>2 DEF IsFilled
  <2>7. PICK more : more = Zeros(room) /\ more \in Seq(S)
    <3>1. Zeros(room) \in Seq(S)
      BY ZerosAre
    <3> QED
      BY <3>1
  <2>8. last = more \o len
    <3>1. 0 \in Nat /\ room = 0 + room
      OBVIOUS
    <3>2. IsLast(Copied(Copied(marked, 0, Zeros(room)), room, len),
                 marked, 0, Zeros(room), len)
      BY <1>3, <1>7, <1>9, <3>1, LastBlock
    <3>3. First(marked, 0) = <<>>
      <4>1. marked \in Seq(S) /\ Len(marked) = BlockLen
        BY <1>2, <1>9, FcnIsSeq
      <4> QED
        BY <1>2, <4>1, Ends
    <3>4. <<>> \o more = more
      BY <2>7, ConcatEmptySeq
    <3> QED
      BY <2>3, <2>7, <3>2, <3>3, <3>4 DEF IsLast
  <2>9. fill = y + room
    <3>1. r + 1 + LenLen > BlockLen /\ y + room = 2 * BlockLen - (r + 1 + LenLen)
      BY <1>2, <1>7, <1>15, <2>1
    <3>2. IsFill(FillOf(n), r)
      BY <1>2, <1>6, Fill
    <3> QED
      BY <1>11, <3>1, <3>2 DEF IsFill
  <2>10. Zeros(fill) = zeros \o more
    <3>1. fill \in Nat
      BY <2>9
    <3> QED
      BY <1>7, <2>5, <2>7, <2>9, <3>1, ZerosAdd
  <2>11. IsRegrouped(state, used, zeros, more, len)
    BY <1>2, <1>3, <1>10, <2>5, <2>7, Regrouped
  <2> QED
    BY <1>10, <1>12, <2>4, <2>6, <2>8, <2>10, <2>11 DEF IsRegrouped
<1> QED
  BY <1>7, <1>14, <1>15

LEMMA Widened ==
  ASSUME NEW S, NEW T, S \subseteq T, NEW s \in Seq(S)
  PROVE  s \in Seq(T)
<1>1. PICK n \in Nat : n = Len(s)
  BY LenProperties
<1>2. s \in [1 .. n -> T]
  BY <1>1, LenProperties
<1> QED
  BY <1>1, <1>2, FcnIsSeq

\* sha256_final(c) is the padded message, whatever the bytes are.
LEMMA FinalIsPadded ==
  ASSUME NEW S, NEW s \in Seq(S), NEW c \in Ctx(S), Hashes(c, s), c.buflen < BlockLen
  PROVE  sha256_final(c) = Padded(s)
<1>1. PICK len : len = LengthBytes(c.bitlen)
  OBVIOUS
<1>2. PICK T : T = S \cup {0, TopBit} \cup {len[k] : k \in 1 .. LenLen}
  OBVIOUS
<1>3. 0 \in T /\ TopBit \in T /\ S \subseteq T
  BY <1>2
<1>4. len \in [1 .. LenLen -> T]
  <2>1. len = [k \in 1 .. LenLen |-> len[k]]
    BY <1>1 DEF LengthBytes
  <2> QED
    BY <1>2, <2>1
<1>5. s \in Seq(T)
  BY <1>3, Widened
<1>6. c \in Ctx(T)
  <2>1. c.state \in Seq(T)
    <3>1. c.state \in Seq(S)
      BY DEF Ctx
    <3> QED
      BY <1>3, <3>1, Widened
  <2>2. /\ c = [state |-> c.state, bitlen |-> c.bitlen, buf |-> c.buf, buflen |-> c.buflen]
        /\ c.bitlen \in Nat /\ c.buflen \in 0 .. BlockLen
        /\ c.buf \in [1 .. BlockLen -> T]
    BY <1>3 DEF Ctx
  <2> QED
    BY <2>1, <2>2 DEF Ctx
<1> QED
  BY <1>1, <1>3, <1>4, <1>5, <1>6, PadsWith

\* The bytes from done on are what comes next.
IsExtended(longer, s, d) == longer = s \o d

LEMMA Extended ==
  ASSUME NEW S, NEW s \in Seq(S), NEW m \in Nat, NEW n \in Nat, NEW to \in Nat,
         to = m + n, to <= Len(s)
  PROVE  /\ SubSeq(s, m + 1, to) \in Seq(S)
         /\ IsExtended(First(s, to), First(s, m), SubSeq(s, m + 1, to))
<1>1. Len(s) \in Nat /\ m \in 0 .. Len(s) /\ to \in 0 .. Len(s)
  BY LenProperties
<1>2. PICK d : d = SubSeq(s, m + 1, to)
  OBVIOUS
<1>3. d \in Seq(S) /\ Len(d) = n /\ \A i \in 1 .. n : d[i] = s[m + i]
  <2>1. PICK from \in Nat : from = m + 1
    OBVIOUS
  <2>2. \A i \in from .. to : s[i] \in S
    <3>1. \A i \in from .. to : i \in 1 .. Len(s)
      BY <1>1, <2>1
    <3> QED
      BY <3>1, ElementOfSeq
  <2>3. /\ SubSeq(s, from, to) \in Seq(S)
        /\ Len(SubSeq(s, from, to)) = IF from <= to THEN to - from + 1 ELSE 0
        /\ \A i \in 1 .. to - from + 1 : SubSeq(s, from, to)[i] = s[from + i - 1]
    <3>1. from \in Int /\ to \in Int
      OBVIOUS
    <3> QED
      BY <2>2, <3>1, SubSeqProperties
  <2>4. to - from + 1 = n /\ (IF from <= to THEN to - from + 1 ELSE 0) = n
    BY <2>1
  <2>5. \A i \in 1 .. n : from + i - 1 = m + i
    BY <2>1
  <2> QED
    BY <1>2, <2>1, <2>3, <2>4, <2>5
<1>4. PICK old, both : old = First(s, m) /\ both = First(s, to)
  OBVIOUS
<1>5. old \in Seq(S) /\ Len(old) = m /\ \A i \in 1 .. m : old[i] = s[i]
  BY <1>1, <1>4, Parts
<1>6. both \in Seq(S) /\ Len(both) = to /\ \A i \in 1 .. to : both[i] = s[i]
  BY <1>1, <1>4, Parts
<1>7. /\ old \o d \in Seq(S) /\ Len(old \o d) = to
      /\ \A i \in 1 .. to : (old \o d)[i] = IF i <= m THEN old[i] ELSE d[i - m]
  <2>1. /\ old \o d \in Seq(S) /\ Len(old \o d) = Len(old) + Len(d)
        /\ \A i \in 1 .. Len(old) + Len(d) :
             (old \o d)[i] = IF i <= Len(old) THEN old[i] ELSE d[i - Len(old)]
    BY <1>3, <1>5, ConcatProperties
  <2>2. Len(old) = m /\ Len(old) + Len(d) = to
    BY <1>3, <1>5
  <2> QED
    BY <2>1, <2>2
<1>8. \A i \in 1 .. to : both[i] = (old \o d)[i]
  <2> TAKE i \in 1 .. to
  <2>1. CASE i <= m
    <3>1. i \in 1 .. m
      BY <2>1
    <3> QED
      BY <1>5, <1>6, <1>7, <2>1, <3>1
  <2>2. CASE i > m
    <3>1. i - m \in 1 .. n /\ m + (i - m) = i /\ ~(i <= m)
      BY <2>2
    <3>2. d[i - m] = s[i]
      BY <1>3, <3>1
    <3> QED
      BY <1>6, <1>7, <3>1, <3>2
  <2>3. i <= m \/ i > m
    OBVIOUS
  <2> QED
    BY <2>1, <2>2, <2>3
<1>9. both = old \o d
  BY <1>6, <1>7, <1>8, SeqEqual
<1> QED
  BY <1>2, <1>3, <1>4, <1>9 DEF IsExtended

-----------------------------------------------------------------------------
(* The parser's theorem.                                                   *)

LEMMA ParserFrame ==
  ASSUME ParserInv, UNCHANGED parser,
         \/ UNCHANGED pc
         \/ pc \notin {"first", "lines"} /\ pc' \notin {"first", "lines"}
  PROVE  ParserInv'
<1>1. UNCHANGED <<file, pos, seen, man, mr>>
  BY DEF parser
<1>2. Before' = Before
  BY <1>1 DEF Before
<1>3. LinesInv'
  BY <1>1, <1>2 DEF ParserInv, LinesInv, Taken
<1>4. ParsedInv'
  BY <1>1 DEF ParserInv, ParsedInv
<1> QED
  BY <1>1, <1>3, <1>4 DEF ParserInv

LEMMA ParserStart == Init => ParserInv
  BY DEF Init, ParserInit, ParserInv, LinesInv, ParsedInv

LEMMA ParserKept == ParserInv /\ [Next]_vars => ParserInv'
<1> SUFFICES ASSUME ParserInv, [Next]_vars PROVE ParserInv'
  OBVIOUS
<1>1. CASE ParseManifest
  BY <1>1, ParserStep DEF ParseManifest
<1>2. CASE CheckSize
  BY <1>2, ParserFrame DEF CheckSize, Conclude
<1>3. CASE GetImage
  BY <1>3, ParserFrame DEF GetImage, Conclude
<1>4. CASE HashChunk
  BY <1>4, ParserFrame DEF HashChunk
<1>5. CASE Compare
  BY <1>5, ParserFrame DEF Compare, Conclude
<1>6. CASE UNCHANGED vars
  BY <1>6, ParserFrame DEF vars
<1> QED
  BY <1>1, <1>2, <1>3, <1>4, <1>5, <1>6 DEF Next

\* manifest_parse takes exactly the files of format 1, for what they mean.
THEOREM ParserIsExact == Spec => []ParserIsStrict
<1>1. ParserInv => ParserIsStrict
  BY DEF ParserInv, ParsedInv, ParserIsStrict
<1> QED
  BY <1>1, ParserStart, ParserKept, PTL DEF Spec

-----------------------------------------------------------------------------
(* The hash and the verdict.                                               *)

Octets == Bytes \cup {0}

\* What the buffer holds has been hashed up to done, as one message.
HashInv ==
  /\ ctx \in Ctx(Octets) /\ ctx.buflen < BlockLen
  /\ ddr \in Seq(Octets) /\ Len(ddr) = DdrLen
  /\ done \in 0 .. DdrLen
  /\ Hashes(ctx, First(ddr, done))
  /\ pc \notin {"hash", "concluded"} => done = 0

\* How far the update is, and what is known there of the length.
StageInv ==
  /\ chunk \in Nat \ {0}
  /\ pc \in {"first", "lines", "parsed", "image"} => image = <<>>
  /\ pc \in {"image", "hash"} => mr = "OK" /\ Fits
  /\ pc = "hash" =>
       /\ done <= man["length"] /\ man["length"] <= Len(image)
       /\ First(ddr, man["length"]) = First(image, man["length"])

VerdictInv == /\ ParserInv /\ HashInv /\ StageInv /\ VerdictIsAcceptable

\* A manifest of format 1 says what its parser returned.
Says(length, digest) ==
  Served <=> /\ 0 < length /\ length <= SlotSize /\ length <= Len(image)
             /\ Padded(First(image, length)) = digest
             /\ image_is_bootable(First(image, length))

Described ==
  /\ file \in Manifests /\ IsFormat1(file)
  /\ \A i \in Pairs(file) : man[file[i].key] = Meaning(file[i])

LEMMA LengthIsNumber ==
  ASSUME Described
  PROVE  man["length"] \in Nat
<1>1. PICK i \in Pairs(file) : file[i].key = "length"
  BY DEF Described, IsFormat1, Required
<1>2. i \in 1 .. Len(file)
  BY <1>1, FileShape DEF Pairs, Described
<1>3. IsLine(file[i]) /\ WellFormed(file[i])
  BY <1>1, <1>2, FileShape DEF Described, IsFormat1
<1>4. /\ file[i].value \in Seq(Nat) /\ file[i].value \notin {Bad, NoValue}
  BY <1>1, <1>3 DEF IsLine, WellFormed, IsDecimal
<1>5. man["length"] = Number(file[i].value)
  BY <1>1 DEF Described, Meaning
<1> QED
  BY <1>4, <1>5, ParsesNumbers

LEMMA ServedMeans ==
  ASSUME Described
  PROVE  Says(man["length"], man["sha256"])
<1> DEFINE m == [key \in Required |->
                   Meaning(file[CHOOSE i \in Pairs(file) : file[i].key = key])]
<1>1. ASSUME NEW key \in Required PROVE m[key] = man[key]
  <2>1. \E i \in Pairs(file) : file[i].key = key
    BY DEF Described, IsFormat1
  <2>2. PICK i \in Pairs(file) :
          /\ i = CHOOSE j \in Pairs(file) : file[j].key = key
          /\ file[i].key = key
    BY <2>1
  <2>3. m[key] = Meaning(file[i])
    BY <2>2
  <2> QED
    BY <2>2, <2>3 DEF Described
<1>2. m["length"] = man["length"] /\ m["sha256"] = man["sha256"]
  BY <1>1 DEF Required
<1>3. Served <=> /\ 0 < m["length"] /\ m["length"] <= SlotSize /\ m["length"] <= Len(image)
                 /\ Padded(First(image, m["length"])) = m["sha256"]
                 /\ image_is_bootable(First(image, m["length"]))
  BY DEF Served, Described
<1> HIDE DEF m
<1> QED
  BY <1>2, <1>3 DEF Says

LEMMA ServedMeansNext == Described' => Says(man["length"], man["sha256"])'
<1>1. Described => Says(man["length"], man["sha256"])
  BY ServedMeans
<1> QED
  BY <1>1, PTL

LEMMA OkIsDescribed ==
  ASSUME ParserInv, pc \notin {"first", "lines"}, mr = "OK"
  PROVE  Described
  BY DEF ParserInv, ParsedInv, Described

LEMMA VerdictStart == Init => HashInv /\ StageInv /\ VerdictIsAcceptable
<1> SUFFICES ASSUME Init PROVE HashInv /\ StageInv /\ VerdictIsAcceptable
  OBVIOUS
<1>1. /\ pc = "first" /\ ddr \in Leftovers /\ image = <<>> /\ done = 0
      /\ ctx = InitCtx(Zeros(BlockLen)) /\ chunk \in ChunkLens
  BY DEF Init, ParserInit
<1>2. ddr \in Seq(Octets) /\ Len(ddr) = DdrLen
  <2>1. ddr \in Seq(Bytes) /\ Len(ddr) = DdrLen
    BY <1>1, BufferAssumption
  <2>2. Bytes \subseteq Octets
    BY DEF Octets
  <2> QED
    BY <2>1, <2>2, Widened
<1>3. PICK zeros : zeros = Zeros(BlockLen)
  OBVIOUS
<1>4. /\ zeros \in [1 .. BlockLen -> Octets] /\ zeros \in Seq(Octets)
      /\ Len(zeros) = BlockLen /\ BlockLen \in Nat \ {0}
  <2>1. zeros = [k \in 1 .. BlockLen |-> 0]
    BY <1>3 DEF Zeros
  <2>2. zeros \in [1 .. BlockLen -> Octets] /\ BlockLen \in Nat \ {0}
    BY <2>1, BlockAssumption DEF Octets
  <2> QED
    BY <2>2, FcnIsSeq
<1>5. ctx = [state |-> <<>>, bitlen |-> 0, buf |-> zeros, buflen |-> 0]
  BY <1>1, <1>3 DEF InitCtx
<1>6. ctx \in Ctx(Octets) /\ ctx.buflen < BlockLen
  <2>1. <<>> \in Seq(Octets)
    BY EmptySeq
  <2>2. 0 \in 0 .. BlockLen /\ 0 < BlockLen
    BY <1>4
  <2> QED
    BY <1>4, <1>5, <2>1, <2>2 DEF Ctx
<1>7. First(ddr, 0) = <<>> /\ First(zeros, 0) = <<>>
  BY <1>2, <1>4, BufferAssumption, Ends
<1>8. Hashes(ctx, First(ddr, done))
  <2>1. <<>> = <<>> \o <<>>
    BY EmptySeq, ConcatEmptySeq
  <2>2. Len(<<>>) = 0
    OBVIOUS
  <2>3. 0 * BlockLen = 0 /\ 0 * BitsPerByte = 0 /\ 0 % BitLens = 0
    <3>1. BitLens \in Nat \ {0} /\ BitsPerByte \in Nat
      BY PowerAssumption, BlockAssumption
    <3>2. 0 \in 0 .. BitLens - 1 /\ 0 * BitLens + 0 = 0
      BY <3>1
    <3>3. (0 * BitLens + 0) % BitLens = 0
      BY <3>1, <3>2, Remainder
    <3> QED
      BY <1>4, <3>1, <3>2, <3>3
  <2>4. \E q \in Nat : 0 = q * BlockLen
    BY <2>3
  <2>5. /\ ctx.state = <<>> /\ ctx.bitlen = 0 /\ First(ctx.buf, ctx.buflen) = <<>>
        /\ First(ddr, done) = <<>>
    BY <1>1, <1>5, <1>7
  <2>6. (0 * BitsPerByte) % BitLens = 0
    BY <2>3
  <2> QED
    BY <2>1, <2>2, <2>4, <2>5, <2>6 DEF Hashes
<1>9. HashInv
  <2>1. done \in 0 .. DdrLen
    BY <1>1, BufferAssumption
  <2> QED
    BY <1>1, <1>2, <1>6, <1>8, <2>1 DEF HashInv
<1>10. StageInv /\ VerdictIsAcceptable
  BY <1>1, BufferAssumption DEF StageInv, VerdictIsAcceptable
<1> QED
  BY <1>9, <1>10

LEMMA VerdictFrame ==
  ASSUME HashInv, StageInv, VerdictIsAcceptable, ParserInv, UNCHANGED vars
  PROVE  HashInv' /\ StageInv' /\ VerdictIsAcceptable'
<1>1. UNCHANGED <<pc, file, pos, seen, man, mr, ddr, image, got, ctx, done, chunk, verdict>>
  BY DEF vars, parser, download, hashing
<1>2. HashInv'
  BY <1>1 DEF HashInv
<1>3. StageInv'
  BY <1>1 DEF StageInv, Fits
<1>4. VerdictIsAcceptable'
  BY <1>1 DEF VerdictIsAcceptable, Served
<1> QED
  BY <1>2, <1>3, <1>4

LEMMA HashFrame ==
  ASSUME HashInv, UNCHANGED hashing, UNCHANGED ddr,
         pc' \notin {"hash", "concluded"} => pc \notin {"hash", "concluded"}
  PROVE  HashInv'
<1>1. UNCHANGED <<ctx, done, ddr>>
  BY DEF hashing
<1> QED
  BY <1>1 DEF HashInv

LEMMA ParseKeeps ==
  ASSUME HashInv, StageInv, VerdictIsAcceptable, ParseManifest
  PROVE  HashInv' /\ StageInv' /\ VerdictIsAcceptable'
<1>1. pc \in {"first", "lines"} /\ pc' \in {"lines", "parsed"}
  BY DEF ParseManifest, Parser, FirstLine, SkipBlank, NotAPair, KnownKey, UnknownKey,
         EndOfFile, Stop, More, Pair
<1>2. UNCHANGED <<ddr, image, got, ctx, done, chunk, verdict>>
  BY DEF ParseManifest, download, hashing
<1>3. HashInv'
  BY <1>1, <1>2, HashFrame DEF hashing
<1>4. StageInv'
  BY <1>1, <1>2 DEF StageInv
<1>5. VerdictIsAcceptable'
  BY <1>1 DEF VerdictIsAcceptable
<1> QED
  BY <1>3, <1>4, <1>5

\* Before anything is served as the image, nothing is one.
LEMMA NothingServed ==
  ASSUME Described, image = <<>>
  PROVE  ~Served
<1>1. Says(man["length"], man["sha256"]) /\ man["length"] \in Nat
  BY ServedMeans, LengthIsNumber
<1>2. Len(image) = 0
  BY EmptySeq
<1> QED
  BY <1>1, <1>2 DEF Says

LEMMA ConcludeWith ==
  ASSUME NEW r, r # "IMAGE", Conclude(r), ~Served'
  PROVE  VerdictIsAcceptable'
BY DEF Conclude, VerdictIsAcceptable

LEMMA SizeKeeps ==
  ASSUME ParserInv, HashInv, StageInv, VerdictIsAcceptable, CheckSize
  PROVE  HashInv' /\ StageInv' /\ VerdictIsAcceptable'
<1>1. pc = "parsed" /\ pc' \in {"concluded", "image"}
  BY DEF CheckSize, Conclude
<1>2. UNCHANGED <<file, man, mr, ddr, image, got, ctx, done, chunk>>
  BY DEF CheckSize, parser, download, hashing
<1>3. HashInv'
  BY <1>1, <1>2, HashFrame DEF hashing
<1>4. image = <<>>
  BY <1>1 DEF StageInv
<1>5. StageInv'
  <2>1. pc' = "image" => mr' = "OK" /\ Fits'
    BY <1>1, <1>2 DEF CheckSize, Conclude, Fits
  <2> QED
    BY <1>1, <1>2, <1>4, <2>1 DEF StageInv
<1>6. ~Served'
  <2>1. ~Served
    <3>1. CASE mr = "OK"
      <4>1. Described
        BY <1>1, <3>1, OkIsDescribed
      <4> QED
        BY <1>4, <4>1, NothingServed
    <3>2. CASE mr # "OK"
      <4>1. ~IsFormat1(file)
        BY <1>1, <3>2 DEF ParserInv, ParsedInv
      <4> QED
        BY <4>1 DEF Served
    <3> QED
      BY <3>1, <3>2
  <2> QED
    BY <1>2, <2>1 DEF Served
<1>7. VerdictIsAcceptable'
  <2>1. CASE pc' = "image"
    BY <2>1 DEF VerdictIsAcceptable
  <2>2. CASE Conclude("MANIFEST_PARSE") \/ Conclude("TOOBIG")
    BY <1>6, <2>2, ConcludeWith
  <2> QED
    BY <2>1, <2>2 DEF CheckSize
<1> QED
  BY <1>3, <1>5, <1>7

LEMMA GetKeeps ==
  ASSUME ParserInv, HashInv, StageInv, VerdictIsAcceptable, GetImage
  PROVE  HashInv' /\ StageInv' /\ VerdictIsAcceptable'
<1>1. pc = "image" /\ UNCHANGED <<file, man, mr, ctx, done, chunk>>
  BY DEF GetImage, parser, hashing
<1>2. mr = "OK" /\ Fits /\ image = <<>> /\ done = 0 /\ chunk \in Nat \ {0}
  BY <1>1 DEF StageInv, HashInv
<1>3. Described /\ man["length"] \in Nat
  BY <1>1, <1>2, OkIsDescribed, LengthIsNumber
<1>4. Described'
  BY <1>1, <1>3 DEF Described
<1>5. CASE Conclude("IMAGE_GET") /\ UNCHANGED download
  <2>1. pc' = "concluded" /\ UNCHANGED <<ddr, image>>
    BY <1>5 DEF Conclude, download
  <2>2. HashInv'
    BY <1>1, <2>1, HashFrame DEF hashing
  <2>3. StageInv'
    BY <1>1, <1>2, <2>1 DEF StageInv
  <2>4. ~Served'
    <3>1. ~Served
      BY <1>2, <1>3, NothingServed
    <3> QED
      BY <1>1, <2>1, <3>1 DEF Served
  <2> QED
    BY <1>5, <2>2, <2>3, <2>4, ConcludeWith
<1>6. CASE /\ image' \in {i \in Images : Len(i) <= DdrLen}
           /\ got' = Len(image') /\ ddr' = image' \o After(ddr, got')
           /\ \/ Short /\ Conclude("SHORT")
              \/ ~Short /\ pc' = "hash" /\ UNCHANGED verdict
  <2>1. PICK new, n, rest : new = image' /\ n = got' /\ rest = After(ddr, n)
    OBVIOUS
  <2>2. new \in Seq(Octets) /\ n = Len(new) /\ n \in Nat /\ n <= DdrLen
    <3>1. new \in Seq(Bytes) /\ n = Len(new) /\ n <= DdrLen
      BY <1>6, <2>1, BufferAssumption
    <3>2. Bytes \subseteq Octets
      BY DEF Octets
    <3> QED
      BY <3>1, <3>2, Widened, LenProperties
  <2>3. /\ ddr \in Seq(Octets) /\ Len(ddr) = DdrLen /\ DdrLen \in Nat
    BY BufferAssumption DEF HashInv
  <2>4. rest \in Seq(Octets) /\ Len(rest) = DdrLen - n
    <3>1. n \in 0 .. Len(ddr)
      BY <2>2, <2>3
    <3> QED
      BY <2>1, <2>3, <3>1, Parts
  <2>5. ddr' = new \o rest
    BY <1>6, <2>1
  <2>6. ddr' \in Seq(Octets) /\ Len(ddr') = DdrLen
    <3>1. new \o rest \in Seq(Octets) /\ Len(new \o rest) = n + Len(rest)
      BY <2>2, <2>4, ConcatProperties
    <3> QED
      BY <2>2, <2>3, <2>4, <2>5, <3>1
  <2>7. First(ddr', 0) = <<>> /\ First(ddr, 0) = <<>>
    BY <2>3, <2>6, Ends
  <2>8. HashInv'
    <3>1. Hashes(ctx', First(ddr', done'))
      BY <1>1, <1>2, <2>7 DEF HashInv
    <3>2. pc' \in {"hash", "concluded"}
      BY <1>6 DEF Conclude
    <3> QED
      BY <1>1, <2>6, <3>1, <3>2 DEF HashInv
  <2>9. CASE Short /\ Conclude("SHORT")
    <3>1. n < man["length"]
      BY <2>1, <2>9 DEF Short
    <3>2. Says(man["length"], man["sha256"])'
      BY <1>4, ServedMeansNext
    <3>3. ~(man'["length"] <= Len(image'))
      BY <1>1, <1>3, <2>1, <2>2, <3>1
    <3>4. ~Served'
      BY <3>2, <3>3 DEF Says
    <3>5. VerdictIsAcceptable'
      BY <2>9, <3>4, ConcludeWith
    <3>6. StageInv'
      BY <1>1, <1>2, <2>9 DEF StageInv, Conclude
    <3> QED
      BY <2>8, <3>5, <3>6
  <2>10. CASE ~Short /\ pc' = "hash" /\ UNCHANGED verdict
    <3>1. man["length"] \in 0 .. Len(new)
      BY <1>3, <2>1, <2>2, <2>10 DEF Short
    <3>2. First(ddr', man["length"]) = First(image', man["length"])
      <4>1. First(new \o rest, man["length"]) = First(new, man["length"])
        BY <2>2, <2>4, <3>1, FirstOfLonger
      <4> QED
        BY <2>1, <2>5, <4>1
    <3>3. done' <= man'["length"] /\ man'["length"] <= Len(image')
      BY <1>1, <1>2, <1>3, <2>1, <2>2, <3>1
    <3>4. StageInv'
      BY <1>1, <1>2, <2>10, <3>2, <3>3 DEF StageInv, Fits
    <3>5. VerdictIsAcceptable'
      BY <2>10 DEF VerdictIsAcceptable
    <3> QED
      BY <2>8, <3>4, <3>5
  <2> QED
    BY <1>6, <2>9, <2>10
<1> QED
  BY <1>5, <1>6 DEF GetImage

LEMMA ChunkKeeps ==
  ASSUME ParserInv, HashInv, StageInv, VerdictIsAcceptable, HashChunk
  PROVE  HashInv' /\ StageInv' /\ VerdictIsAcceptable'
<1>1. /\ pc = "hash" /\ pc' = "hash" /\ done < man["length"]
      /\ UNCHANGED <<file, man, mr, ddr, image, chunk>>
  BY DEF HashChunk, parser, download
<1>2. /\ mr = "OK" /\ Fits /\ chunk \in Nat \ {0}
      /\ First(ddr, man["length"]) = First(image, man["length"])
      /\ man["length"] <= Len(image)
  BY <1>1 DEF StageInv
<1>3. man["length"] \in Nat /\ DdrLen \in Nat /\ man["length"] <= DdrLen
  BY <1>1, <1>2, OkIsDescribed, LengthIsNumber, BufferAssumption DEF Fits
<1>4. PICK m, n, to \in Nat :
        /\ m = done /\ n = Least(chunk, man["length"] - done) /\ to = m + n
        /\ to <= man["length"]
  <2>1. PICK length, m \in Nat : length = man["length"] /\ m = done
    BY <1>3 DEF HashInv
  <2>2. PICK n \in Nat : n = Least(chunk, length - m) /\ m + n <= length
    BY <1>1, <1>2, <2>1 DEF Least
  <2>3. m + n \in Nat
    OBVIOUS
  <2> QED
    BY <2>1, <2>2, <2>3
<1>5. PICK d, s : d = SubSeq(ddr, m + 1, to) /\ s = First(ddr, m)
  OBVIOUS
<1>6. ddr \in Seq(Octets) /\ Len(ddr) = DdrLen /\ to <= DdrLen
  BY <1>3, <1>4 DEF HashInv
<1>7. d \in Seq(Octets) /\ IsExtended(First(ddr, to), s, d)
  BY <1>4, <1>5, <1>6, Extended
<1>8. s \in Seq(Octets)
  <2>1. m \in 0 .. Len(ddr)
    BY <1>3, <1>4, <1>6
  <2> QED
    BY <1>5, <1>6, <2>1, Parts
<1>9. ctx' = sha256_update(ctx, d) /\ done' = to
  BY <1>4, <1>5 DEF HashChunk
<1>10. /\ sha256_update(ctx, d) \in Ctx(Octets) /\ Hashes(sha256_update(ctx, d), s \o d)
       /\ sha256_update(ctx, d).buflen < BlockLen
  <2>1. ctx \in Ctx(Octets) /\ ctx.buflen < BlockLen /\ Hashes(ctx, s)
    BY <1>4, <1>5 DEF HashInv
  <2> QED
    BY <1>7, <1>8, <2>1, UpdateHashes
<1>11. HashInv'
  <2>1. Hashes(ctx', First(ddr', done'))
    BY <1>1, <1>7, <1>9, <1>10 DEF IsExtended
  <2>2. done' \in 0 .. DdrLen
    BY <1>3, <1>4, <1>6, <1>9
  <2> QED
    BY <1>1, <1>6, <1>9, <1>10, <2>1, <2>2 DEF HashInv
<1>12. StageInv'
  BY <1>1, <1>2, <1>4, <1>9 DEF StageInv, Fits
<1>13. VerdictIsAcceptable'
  BY <1>1 DEF VerdictIsAcceptable
<1> QED
  BY <1>11, <1>12, <1>13

\* Between two chunks, and at the end, the hash is of what was hashed.
LEMMA OnePiece ==
  ASSUME HashInv
  PROVE  HashIsOnePiece
<1>1. PICK s : s = First(ddr, done)
  OBVIOUS
<1>2. s \in Seq(Octets)
  <2>1. ddr \in Seq(Octets) /\ done \in 0 .. Len(ddr)
    BY DEF HashInv
  <2> QED
    BY <1>1, <2>1, Parts
<1>3. ctx \in Ctx(Octets) /\ Hashes(ctx, s) /\ ctx.buflen < BlockLen
  BY <1>1 DEF HashInv
<1>4. sha256_final(ctx) = Padded(s)
  BY <1>2, <1>3, FinalIsPadded
<1> QED
  BY <1>1, <1>4 DEF HashIsOnePiece

LEMMA CompareKeeps ==
  ASSUME ParserInv, HashInv, StageInv, VerdictIsAcceptable, Compare
  PROVE  HashInv' /\ StageInv' /\ VerdictIsAcceptable'
<1>1. /\ pc = "hash" /\ pc' = "concluded" /\ done >= man["length"]
      /\ UNCHANGED <<file, man, mr, ddr, image, ctx, done, chunk>>
  BY DEF Compare, Conclude, parser, download, hashing
<1>2. HashInv'
  BY <1>1, HashFrame DEF hashing
<1>3. /\ mr = "OK" /\ Fits /\ chunk \in Nat \ {0}
      /\ First(ddr, man["length"]) = First(image, man["length"])
      /\ man["length"] <= Len(image) /\ done <= man["length"]
  BY <1>1 DEF StageInv
<1>4. StageInv'
  BY <1>1, <1>3 DEF StageInv
<1>5. Described /\ man["length"] \in Nat
  BY <1>1, <1>3, OkIsDescribed, LengthIsNumber
<1>6. done = man["length"]
  <2>1. done \in Nat
    BY BufferAssumption DEF HashInv
  <2> QED
    BY <1>1, <1>3, <1>5, <2>1
<1>7. PICK length, bytes : length = man["length"] /\ bytes = First(image, length)
  OBVIOUS
<1>8. sha256_final(ctx) = Padded(bytes) /\ First(ddr, length) = bytes
  BY <1>3, <1>6, <1>7, OnePiece DEF HashIsOnePiece
<1>9. 0 < length /\ length <= SlotSize
  BY <1>3, <1>5, <1>7 DEF Fits
<1>10. Served <=> Padded(bytes) = man["sha256"] /\ image_is_bootable(bytes)
  <2>1. Says(length, man["sha256"])
    BY <1>5, <1>7, ServedMeans
  <2> QED
    BY <1>3, <1>7, <1>9, <2>1 DEF Says
<1>11. verdict' = "IMAGE" <=> Padded(bytes) = man["sha256"] /\ image_is_bootable(bytes)
  <2>1. CASE sha256_final(ctx) # man["sha256"] /\ Conclude("HASH_DOWNLOAD")
    BY <1>8, <2>1 DEF Conclude
  <2>2. CASE /\ sha256_final(ctx) = man["sha256"]
             /\ Conclude(IF image_is_bootable(First(ddr, man["length"])) THEN "IMAGE"
                         ELSE "NOT_BOOTIMAGE")
    BY <1>7, <1>8, <2>2 DEF Conclude
  <2> QED
    BY <2>1, <2>2 DEF Compare
<1>12. Served' <=> Served
  BY <1>1 DEF Served
<1>13. VerdictIsAcceptable'
  BY <1>10, <1>11, <1>12 DEF VerdictIsAcceptable
<1> QED
  BY <1>2, <1>4, <1>13

LEMMA VerdictKept == VerdictInv /\ [Next]_vars => VerdictInv'
<1> SUFFICES ASSUME VerdictInv, [Next]_vars PROVE VerdictInv'
  OBVIOUS
<1>1. ParserInv /\ HashInv /\ StageInv /\ VerdictIsAcceptable
  BY DEF VerdictInv
<1>2. ParserInv'
  BY <1>1, ParserKept
<1>3. HashInv' /\ StageInv' /\ VerdictIsAcceptable'
  BY <1>1, ParseKeeps, SizeKeeps, GetKeeps, ChunkKeeps, CompareKeeps, VerdictFrame DEF Next
<1> QED
  BY <1>2, <1>3 DEF VerdictInv

\* The digest does not depend on the chunks the image is hashed in.
THEOREM HashIgnoresChunks == Spec => []HashIsOnePiece
<1>1. Init => VerdictInv
  BY ParserStart, VerdictStart DEF VerdictInv
<1>2. VerdictInv => HashIsOnePiece
  BY OnePiece DEF VerdictInv
<1> QED
  BY <1>1, <1>2, VerdictKept, PTL DEF Spec

\* The update goes on exactly with an image, and it is the one that was served,
\* not what the buffer held before.
THEOREM VerdictIsRight == Spec => []VerdictIsAcceptable
<1>1. Init => VerdictInv
  BY ParserStart, VerdictStart DEF VerdictInv
<1>2. VerdictInv => VerdictIsAcceptable
  BY DEF VerdictInv
<1> QED
  BY <1>1, <1>2, VerdictKept, PTL DEF Spec

-----------------------------------------------------------------------------
(* The verdict as UpdatePipeline takes it, in one step.                    *)

\* The file is a manifest of d: the length and the digest it gives are d's.
IsManifestOf(d) ==
  /\ IsFormat1(file)
  /\ \A i \in Pairs(file) :
       /\ file[i].key = "length" => Meaning(file[i]) = Len(d)
       /\ file[i].key = "sha256" => Meaning(file[i]) = Padded(d)

\* UpdatePipeline!Acceptable, of bytes: what was served is as long as d, starts
\* with d, and d is a boot image that fits the slot.
AcceptableFor(d) ==
  /\ 0 < Len(d) /\ Len(d) <= SlotSize
  /\ Len(d) <= Len(image) /\ First(image, Len(d)) = d
  /\ image_is_bootable(d)

\* updater_run goes on to step 5 exactly with what the publisher described.
VerdictIsAcceptance ==
  pc = "concluded" =>
    \A d \in Seq(Bytes) : IsManifestOf(d) => (verdict = "IMAGE" <=> AcceptableFor(d))

\* Messages of one length that are padded to the same are the same.
LEMMA PaddedTellsApart ==
  ASSUME NEW a \in Seq(Bytes), NEW b \in Seq(Bytes), Len(a) = Len(b), Padded(a) = Padded(b)
  PROVE  a = b
<1>1. PICK n : n = Len(a)
  OBVIOUS
<1>2. n \in Nat /\ BlockLen \in Nat \ {0} /\ LenLen \in Nat
  BY <1>1, LenProperties, BlockAssumption
<1>3. PICK fill, len : /\ fill = (BlockLen - ((n + 1 + LenLen) % BlockLen)) % BlockLen
                       /\ len = LengthBytes((n * BitsPerByte) % BitLens)
  OBVIOUS
<1>4. PICK mark, zeros : mark = <<TopBit>> /\ zeros = Zeros(fill)
  OBVIOUS
<1>5. PICK S : S = Bytes \cup {0, TopBit} \cup {len[k] : k \in 1 .. LenLen}
  OBVIOUS
<1>6. a \in Seq(S) /\ b \in Seq(S) /\ mark \in Seq(S)
  <2>1. Bytes \subseteq S /\ TopBit \in S
    BY <1>5
  <2>2. a \in Seq(S) /\ b \in Seq(S)
    BY <2>1, Widened
  <2>3. mark \in Seq(S)
    BY <1>4, <2>1
  <2> QED
    BY <2>2, <2>3
<1>7. zeros \in Seq(S)
  <2>1. fill \in Nat
    <3>1. PICK m \in Nat : m = n + 1 + LenLen
      BY <1>2
    <3>2. m % BlockLen \in 0 .. BlockLen - 1
      BY <1>2, <3>1, Division
    <3>3. BlockLen - (m % BlockLen) \in Nat
      BY <1>2, <3>2
    <3> QED
      BY <1>2, <1>3, <3>1, <3>3, Division
  <2>2. 0 \in S
    BY <1>5
  <2> QED
    BY <1>4, <2>1, <2>2, ZerosAre
<1>8. len \in Seq(S)
  <2>1. len = [k \in 1 .. LenLen |-> len[k]]
    BY <1>3 DEF LengthBytes
  <2>2. len \in [1 .. LenLen -> S]
    BY <1>5, <2>1
  <2> QED
    BY <1>2, <2>2, FcnIsSeq
<1>9. PICK x, y : x = zeros \o len /\ y = mark \o x
  OBVIOUS
<1>10. x \in Seq(S) /\ y \in Seq(S)
  BY <1>6, <1>7, <1>8, <1>9, ConcatProperties
<1>11. Padded(a) = a \o y /\ Padded(b) = b \o y
  <2>1. ASSUME NEW m \in Seq(S), Len(m) = n PROVE Padded(m) = m \o y
    <3>1. IsAppended(m, mark, zeros, len)
      BY <1>6, <1>7, <1>8, <2>1, Appended
    <3>2. Padded(m) = m \o mark \o zeros \o len
      BY <1>3, <1>4, <2>1 DEF Padded
    <3>3. Assoc(mark, zeros, len)
      BY <1>6, <1>7, <1>8, Associates
    <3> QED
      BY <1>9, <3>1, <3>2, <3>3 DEF IsAppended, Assoc
  <2> QED
    BY <1>1, <1>6, <2>1
<1>12. First(a \o y, n) = First(a, n) /\ First(b \o y, n) = First(b, n)
  BY <1>1, <1>2, <1>6, <1>10, FirstOfLonger
<1>13. First(a, n) = First(b, n)
  BY <1>11, <1>12
<1>14. First(a, n) = a /\ First(b, n) = b
  BY <1>1, <1>6, Ends
<1> QED
  BY <1>13, <1>14

\* What was served is what its manifest describes.
LEMMA ServedIsAcceptable ==
  ASSUME NEW d \in Seq(Bytes), IsManifestOf(d), image \in Seq(Bytes)
  PROVE  Served <=> AcceptableFor(d)
<1> DEFINE m == [key \in Required |->
                   Meaning(file[CHOOSE i \in Pairs(file) : file[i].key = key])]
<1>1. m["length"] = Len(d) /\ m["sha256"] = Padded(d)
  <2>1. ASSUME NEW key \in Required
        PROVE \E i \in Pairs(file) : file[i].key = key /\ m[key] = Meaning(file[i])
    <3>1. \E i \in Pairs(file) : file[i].key = key
      BY DEF IsManifestOf, IsFormat1
    <3> QED
      BY <3>1
  <2> QED
    BY <2>1 DEF IsManifestOf, Required
<1>2. Served <=> /\ 0 < m["length"] /\ m["length"] <= SlotSize /\ m["length"] <= Len(image)
                 /\ Padded(First(image, m["length"])) = m["sha256"]
                 /\ image_is_bootable(First(image, m["length"]))
  BY DEF Served, IsManifestOf
<1> HIDE DEF m
<1>3. PICK n : n = Len(d)
  OBVIOUS
<1>4. n \in Nat /\ Len(image) \in Nat
  BY <1>3, LenProperties
<1>5. n <= Len(image) => (Padded(First(image, n)) = Padded(d) <=> First(image, n) = d)
  <2> SUFFICES ASSUME n <= Len(image), Padded(First(image, n)) = Padded(d)
               PROVE First(image, n) = d
    OBVIOUS
  <2>1. First(image, n) \in Seq(Bytes) /\ Len(First(image, n)) = n
    BY <1>4, Parts
  <2> QED
    BY <1>3, <2>1, PaddedTellsApart
<1> QED
  BY <1>1, <1>2, <1>3, <1>5 DEF AcceptableFor

ImageIsBytes == image \in Seq(Bytes)

LEMMA ImageStays == Init => ImageIsBytes
  BY EmptySeq DEF Init, ImageIsBytes

LEMMA ImageKept == ImageIsBytes /\ [Next]_vars => ImageIsBytes'
<1> SUFFICES ASSUME ImageIsBytes, [Next]_vars PROVE ImageIsBytes'
  OBVIOUS
<1>1. image' \in Images \/ image' = image
  BY DEF Next, ParseManifest, CheckSize, GetImage, HashChunk, Compare, Conclude, download, vars
<1> QED
  BY <1>1, BufferAssumption DEF ImageIsBytes

\* The verdict of steps 2 to 4b, taken a line, a datagram and a chunk at a time,
\* is the one step that the board model takes it for: whatever image the
\* manifest describes, updater_run accepts it and nothing else.
THEOREM VerdictIsOneStep == Spec => []VerdictIsAcceptance
<1>1. VerdictIsAcceptable /\ ImageIsBytes => VerdictIsAcceptance
  BY ServedIsAcceptable DEF VerdictIsAcceptable, VerdictIsAcceptance, ImageIsBytes
<1>2. Spec => []ImageIsBytes
  BY ImageStays, ImageKept, PTL DEF Spec
<1> QED
  BY <1>1, <1>2, VerdictIsRight, PTL
=============================================================================
