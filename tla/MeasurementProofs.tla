-------------------------- MODULE MeasurementProofs --------------------------
(* Proofs about the fixed-point arithmetic and the measurement built on it:  *)
(* the cut divisions and products are those of the code's 64-bit numbers,    *)
(* the square root errs on one side, the state keeps its widths, and two of  *)
(* the three curves fall.                                                    *)
EXTENDS Measurement, WellFoundedInduction, SequenceTheorems, TLAPS

-----------------------------------------------------------------------------
(* Recursion over an interval of numbers.                                    *)

(* Induction: a set that holds zero and each successor holds them all.       *)
LEMMA Induct ==
  ASSUME NEW N \in Nat, NEW T, 0 \in T, \A n \in 1..N : n - 1 \in T => n \in T
  PROVE  0..N \subseteq T
<1> DEFINE B == {n \in 0..N : n \notin T}
           R == {p \in Nat \X Nat : p[1] < p[2]}
<1>1. IsWellFoundedOn(R, Nat)
  BY NatLessThanWellFounded DEF OpToRel
<1>2. SUFFICES ASSUME B # {} PROVE FALSE
  OBVIOUS
<1>3. PICK m \in B : \A n \in B : <<n, m>> \notin R
  <2>1. B \subseteq Nat
    OBVIOUS
  <2> HIDE DEF B, R
  <2> QED BY <1>1, <1>2, <2>1, WFMin
<1>4. m # 0 /\ m \in 1..N
  OBVIOUS
<1>5. m - 1 \in 0..N /\ <<m - 1, m>> \in R
  BY <1>4
<1> QED BY <1>3, <1>4, <1>5

(* f starts with x and goes on with g.                                       *)
Continues(f, x, g, N) == f[0] = x /\ \A n \in 1..N : f[n] = g[n][f[n-1]]

(* A recursive definition over an interval has a solution.                   *)
LEMMA Recursion ==
  ASSUME NEW S, NEW x \in S, NEW N \in Nat, NEW g \in [1..N -> [S -> S]]
  PROVE  \E f \in [0..N -> S] : Continues(f, x, g, N)
<1> DEFINE From(f, k) == f \in [0..k -> S] /\ Continues(f, x, g, k)
           T == {k \in 0..N : \E f : From(f, k)}
<1>1. 0 \in T
  <2>1. From([i \in 0..0 |-> x], 0)
    BY DEF Continues
  <2> HIDE DEF From
  <2> QED BY <2>1
<1>2. ASSUME NEW k \in 1..N, k - 1 \in T
      PROVE  k \in T
  <2>1. PICK f : From(f, k - 1)
    BY <1>2
  <2> DEFINE v == g[k][f[k-1]]
             h == [i \in 0..k |-> IF i = k THEN v ELSE f[i]]
  <2>2. v \in S
    BY <2>1
  <2>3. \A i \in 0..k-1 : h[i] = f[i] /\ i \in 0..k
    OBVIOUS
  <2>4. h \in [0..k -> S] /\ h[0] = x /\ h[k] = v
    <3> HIDE DEF v
    <3> QED BY <2>1, <2>2 DEF Continues
  <2>5. ASSUME NEW n \in 1..k
        PROVE  h[n] = g[n][h[n-1]]
    <3>1. h[n-1] = f[n-1]
      BY <2>3
    <3> HIDE DEF h
    <3>2. CASE n = k
      BY <2>4, <3>1, <3>2
    <3>3. CASE n # k
      BY <2>1, <2>3, <3>1, <3>3 DEF Continues
    <3> QED BY <3>2, <3>3
  <2>6. From(h, k)
    <3> HIDE DEF h
    <3> QED BY <2>4, <2>5 DEF Continues
  <2> HIDE DEF From
  <2> QED BY <2>6
<1>3. N \in T
  <2> HIDE DEF T
  <2>1. 0..N \subseteq T
    BY <1>1, <1>2, Induct
  <2> QED BY <2>1
<1> QED BY <1>3

-----------------------------------------------------------------------------
(* The arithmetic.                                                           *)

(* A quotient is what the division with remainder says.                      *)
LEMMA DivUnique ==
  ASSUME NEW b \in Nat \ {0}, NEW q \in Int, NEW r \in 0..b-1
  PROVE  (b * q + r) \div b = q /\ (b * q + r) % b = r
OBVIOUS

(* Division with remainder.                                                  *)
LEMMA DivFacts ==
  ASSUME NEW b \in Nat \ {0}, NEW a \in Int
  PROVE  /\ a \div b \in Int /\ a % b \in 0..b-1
         /\ a = b * (a \div b) + (a % b)
         /\ a \in Nat => a \div b \in Nat
OBVIOUS

(* The quotient and the remainder are integers.                              *)
LEMMA DivTypes ==
  ASSUME NEW b \in Nat \ {0}, NEW a \in Int
  PROVE  a \div b \in Int /\ a % b \in Int
OBVIOUS

(* Four more bits of a quotient: the remainder carries over.                 *)
LEMMA DivCarry ==
  ASSUME NEW a \in Nat, NEW b \in Nat \ {0}
  PROVE  /\ (16 * a) \div b = 16 * (a \div b) + (16 * (a % b)) \div b
         /\ (16 * a) % b = (16 * (a % b)) % b
<1> DEFINE q == a \div b
           r == a % b
           c == (16 * r) \div b
           s == (16 * r) % b
<1>1. q \in Int /\ r \in 0..b-1 /\ a = b * q + r
  BY DivFacts
<1>2. c \in Int /\ s \in 0..b-1 /\ 16 * r = b * c + s
  <2>1. 16 * r \in Int
    BY <1>1
  <2> QED BY <2>1, DivFacts
<1> HIDE DEF q, r, c, s
<1>3. 16 * a = b * (16 * q + c) + s
  <2>1. b * (16 * q + c) = 16 * (b * q) + b * c
    BY <1>1, <1>2
  <2> QED BY <1>1, <1>2, <2>1
<1>4. 16 * q + c \in Int
  BY <1>1, <1>2
<1>5. (16 * a) \div b = 16 * q + c /\ (16 * a) % b = s
  BY <1>2, <1>3, <1>4, DivUnique
<1> QED BY <1>5 DEF q, r, c, s

(* Quotient is the quotient of the 64-bit division of the code.              *)
LEMMA QuotientIs ==
  ASSUME NEW a \in Nat, NEW b \in Nat \ {0}
  PROVE  Quotient(a, b) = (a * ONE) \div b
<1> DEFINE step[n \in 0..4] ==
        IF n = 0 THEN [q |-> a \div b, r |-> a % b]
        ELSE LET s == step[n - 1]
             IN  [q |-> 16 * s.q + (16 * s.r) \div b, r |-> (16 * s.r) % b]
<1>1. Quotient(a, b) = step[4].q
  BY DEF Quotient
<1> DEFINE More(s) == [q |-> 16 * s.q + (16 * s.r) \div b, r |-> (16 * s.r) % b]
           first == [q |-> a \div b, r |-> a % b]
           Solves(f) == f = [n \in 0..4 |-> IF n = 0 THEN first ELSE More(f[n - 1])]
           S == [q : Int, r : Int]
<1>2. \E f : Solves(f)
  <2>1. first \in S /\ \A s \in S : More(s) \in S
    <3>1. ASSUME NEW s \in S PROVE More(s) \in S
      <4>1. 16 * s.r \in Int /\ 16 * s.q \in Int
        OBVIOUS
      <4>2. PICK x \in Int, y \in Int : x = 16 * s.r /\ y = 16 * s.q
        BY <4>1
      <4>3. x \div b \in Int /\ x % b \in Int
        BY DivTypes
      <4>4. y + x \div b \in Int
        BY <4>3
      <4> QED BY <4>2, <4>3, <4>4
    <3>2. first \in S
      <4>1. a \div b \in Int /\ a % b \in Int
        BY DivTypes
      <4> QED BY <4>1
    <3> QED BY <3>1, <3>2
  <2> HIDE DEF More, first, S
  <2> DEFINE g == [n \in 1..4 |-> [s \in S |-> More(s)]]
  <2>2. g \in [1..4 -> [S -> S]] /\ \A n \in 1..4, s \in S : g[n][s] = More(s)
    BY <2>1
  <2> HIDE DEF g
  <2>3. PICK f \in [0..4 -> S] : Continues(f, first, g, 4)
    BY <2>1, <2>2, Recursion
  <2>4. \A n \in 0..4 : f[n] = IF n = 0 THEN first ELSE More(f[n - 1])
    BY <2>2, <2>3 DEF Continues
  <2> QED BY <2>4
<1>3. Solves(step)
  <2>1. step = CHOOSE f : Solves(f)
    OBVIOUS
  <2> HIDE DEF step, Solves
  <2> QED BY <1>2, <2>1
<1>4. step[0] = first /\ \A n \in 1..4 : step[n] = More(step[n - 1])
  <2> HIDE DEF step, More, first
  <2> QED BY <1>3
<1> HIDE DEF step, Solves
<1> DEFINE Holds(n, c) == /\ step[n].q = c \div b /\ step[n].r = c % b /\ c \in Nat
<1>5. ASSUME NEW n \in 1..4, NEW c \in Nat, Holds(n - 1, c)
      PROVE  Holds(n, 16 * c)
  <2>1. step[n] = More(step[n - 1])
    BY <1>5, <1>4
  <2>2. /\ step[n].q = 16 * (c \div b) + (16 * (c % b)) \div b
        /\ step[n].r = (16 * (c % b)) % b
    BY <1>5, <2>1
  <2> HIDE DEF More
  <2>3. /\ (16 * c) \div b = 16 * (c \div b) + (16 * (c % b)) \div b
        /\ (16 * c) % b = (16 * (c % b)) % b
    BY DivCarry
  <2> QED BY <2>2, <2>3
<1>6. Holds(0, a)
  BY <1>4
<1> HIDE DEF Holds
<1>7. Holds(1, 16 * a)
  BY <1>5, <1>6
<1>8. Holds(2, 16 * (16 * a))
  BY <1>5, <1>7
<1>9. Holds(3, 16 * (16 * (16 * a)))
  BY <1>5, <1>8
<1>10. Holds(4, 16 * (16 * (16 * (16 * a))))
  BY <1>5, <1>9
<1>11. 16 * (16 * (16 * (16 * a))) = a * ONE
  BY DEF ONE
<1> QED BY <1>1, <1>10, <1>11 DEF Holds

(* Two bytes make a digit of a word.                                         *)
LEMMA TwoBytes ==
  ASSUME NEW x \in 0..255, NEW y \in 0..255
  PROVE  256 * y + x \in Nat /\ 256 * y + x <= 65535
OBVIOUS

(* A remainder below the word does not carry into the quotient.              *)
LEMMA DivWord ==
  ASSUME NEW q \in Int, NEW r \in Nat, r <= 65535
  PROVE  (65536 * q + r) \div 65536 = q
OBVIOUS

(* Product is the 64-bit product of the code, shifted by sixteen.            *)
LEMMA ProductIs ==
  ASSUME NEW a \in Nat, NEW b \in Nat
  PROVE  Product(a, b) = (a * b) \div ONE
<1> DEFINE h == b \div 256
           l == b % 256
           H == h \div 256
           m == h % 256
           low == (a * l) \div 256
           x == (a * l) % 256
           mid == (a * m + low) \div 256
           y == (a * m + low) % 256
<1>1. h \in Nat /\ l \in 0..255 /\ b = 256 * h + l
  BY DivFacts
<1>2. H \in Nat /\ m \in 0..255 /\ h = 256 * H + m
  <2> HIDE DEF h
  <2> QED BY <1>1, DivFacts
<1>3. a * l \in Nat /\ a * m \in Nat
  BY <1>1, <1>2
<1>4. low \in Nat /\ x \in 0..255 /\ a * l = 256 * low + x
  <2> DEFINE z == a * l
  <2>0. z \in Nat
    BY <1>3
  <2> HIDE DEF z
  <2>1. z \div 256 \in Nat /\ z % 256 \in 0..255 /\ z = 256 * (z \div 256) + (z % 256)
    BY <2>0, DivFacts
  <2> QED BY <2>1 DEF z
<1>5. mid \in Nat /\ y \in 0..255 /\ a * m + low = 256 * mid + y
  <2> DEFINE z == a * m + low
  <2>0. z \in Nat
    <3> HIDE DEF low, m
    <3> QED BY <1>3, <1>4
  <2> HIDE DEF z
  <2>1. z \div 256 \in Nat /\ z % 256 \in 0..255 /\ z = 256 * (z \div 256) + (z % 256)
    BY <2>0, DivFacts
  <2> QED BY <2>1 DEF z
<1>6. b \div ONE = H
  <2> HIDE DEF h, l, H, m
  <2> DEFINE r == 256 * m + l
  <2>1. r \in Nat /\ r <= 65535 /\ H \in Int
    BY <1>1, <1>2, TwoBytes
  <2>2. b = 65536 * H + r
    BY <1>1, <1>2
  <2> HIDE DEF r
  <2>3. (65536 * H + r) \div 65536 = H
    BY <2>1, DivWord
  <2> QED BY <2>2, <2>3 DEF ONE
<1>7. Product(a, b) = a * H + mid
  BY <1>6 DEF Product
<1> HIDE DEF h, l, H, m, low, x, mid, y
<1>8. a * b = ONE * (a * H + mid) + (256 * y + x)
  <2>1. a * b = 65536 * (a * H) + 256 * (a * m) + a * l
    BY <1>1, <1>2
  <2>2. a * H \in Nat
    BY <1>2
  <2> HIDE DEF ONE
  <2>3. a * b = 65536 * (a * H) + 256 * (a * m + low) + x
    BY <1>3, <1>4, <2>1, <2>2
  <2>4. a * b = 65536 * (a * H) + 256 * (256 * mid + y) + x
    BY <1>5, <2>3
  <2> QED BY <1>4, <1>5, <2>2, <2>4 DEF ONE
<1> DEFINE q == a * H + mid
           r == 256 * y + x
<1>9. q \in Int
  <2>1. a * H \in Nat
    BY <1>2
  <2> QED BY <1>5, <2>1
<1>10. r \in Nat /\ r <= 65535
  BY <1>4, <1>5, TwoBytes
<1>11. a * b = 65536 * q + r /\ Product(a, b) = q
  BY <1>7, <1>8 DEF ONE
<1> HIDE DEF q, r
<1>12. (65536 * q + r) \div 65536 = q
  BY <1>9, <1>10, DivWord
<1> QED BY <1>11, <1>12 DEF ONE

(* A squared sample is an integer.                                           *)
LEMMA SquareType ==
  ASSUME NEW v \in Int
  PROVE  Square(v) \in Int
<1>1. v \div 512 \in Int
  BY DivFacts
<1>2. (v \div 512) * (v \div 512) \in Int
  BY <1>1
<1> QED BY <1>2, DivFacts DEF Square

(* The sum of the squares fits 16 bits.                                      *)
LEMMA SumOfSquaresType ==
  ASSUME NEW signal_ \in Seq(Int)
  PROVE  SumOfSquares(signal_) \in 0..ONE-1
<1> DEFINE N == Len(signal_)
           sum[n \in 0..N] ==
             IF n = 0 THEN 0 ELSE (sum[n - 1] + Square(signal_[n])) % ONE
           Solves(f) == f = [n \in 0..N |->
             IF n = 0 THEN 0 ELSE (f[n - 1] + Square(signal_[n])) % ONE]
           Word == 0..ONE-1
<1>1. N \in Nat /\ \A n \in 1..N : Square(signal_[n]) \in Int
  BY LenProperties, ElementOfSeq, SquareType
<1>2. 0 \in Word /\ \A m \in Int : m % ONE \in Word
  <2>1. ONE \in Nat \ {0}
    BY DEF ONE
  <2>2. 0 \in 0..ONE-1
    BY <2>1
  <2>3. ASSUME NEW m \in Int
        PROVE  m % ONE \in 0..ONE-1
    BY <2>1, DivFacts
  <2> QED BY <2>2, <2>3
<1>12. \A w \in Word : w \in Int
  OBVIOUS
<1>3. SumOfSquares(signal_) = sum[N]
  BY DEF SumOfSquares
<1> HIDE DEF N
<1>4. \E f : Solves(f)
  <2> DEFINE add(n, w) == (w + Square(signal_[n])) % ONE
             g == [n \in 1..N |-> [w \in Word |-> add(n, w)]]
  <2>1. ASSUME NEW n \in 1..N, NEW w \in Word
        PROVE  add(n, w) \in Word
    <3>1. w + Square(signal_[n]) \in Int
      <4>1. w \in Int
        BY <1>12
      <4> QED BY <1>1, <4>1
    <3> QED BY <1>2, <3>1
  <2> HIDE DEF add, Word
  <2>2. g \in [1..N -> [Word -> Word]] /\ \A n \in 1..N, w \in Word : g[n][w] = add(n, w)
    BY <2>1
  <2> HIDE DEF g
  <2>3. PICK f \in [0..N -> Word] : Continues(f, 0, g, N)
    BY <1>1, <1>2, <2>2, Recursion
  <2>4. ASSUME NEW n \in 0..N
        PROVE  f[n] = IF n = 0 THEN 0 ELSE (f[n - 1] + Square(signal_[n])) % ONE
    <3>1. CASE n = 0
      BY <2>3, <3>1 DEF Continues
    <3>2. CASE n # 0
      <4>1. n \in 1..N /\ n - 1 \in 0..N /\ f[n - 1] \in Word
        BY <1>1, <2>3, <3>2
      <4>2. f[n] = g[n][f[n - 1]]
        BY <2>3, <4>1 DEF Continues
      <4>3. g[n][f[n - 1]] = (f[n - 1] + Square(signal_[n])) % ONE
        BY <2>2, <4>1 DEF add
      <4> QED BY <3>2, <4>2, <4>3
    <3> QED BY <3>1, <3>2
  <2> QED BY <2>4
<1>5. Solves(sum)
  <2>1. sum = CHOOSE f : Solves(f)
    OBVIOUS
  <2> HIDE DEF sum, Solves
  <2> QED BY <1>4, <2>1
<1>6. sum[0] = 0 /\ \A n \in 1..N : sum[n] = (sum[n - 1] + Square(signal_[n])) % ONE
  <2> HIDE DEF sum
  <2> QED BY <1>1, <1>5
<1> HIDE DEF sum, Word
<1> DEFINE T == {n \in 0..N : sum[n] \in Word}
<1>7. 0 \in T
  BY <1>1, <1>2, <1>6
<1>8. ASSUME NEW n \in 1..N, n - 1 \in T
      PROVE  n \in T
  <2>1. sum[n - 1] + Square(signal_[n]) \in Int
    <3>1. sum[n - 1] \in Word
      BY <1>8
    <3>2. sum[n - 1] \in Int
      BY <1>12, <3>1
    <3> QED BY <1>1, <3>2
  <2> QED BY <1>2, <1>6, <2>1
<1>9. N \in T
  <2> HIDE DEF T
  <2>1. 0..N \subseteq T
    BY <1>1, <1>7, <1>8, Induct
  <2> QED BY <1>1, <2>1
<1> QED BY <1>3, <1>9 DEF Word

-----------------------------------------------------------------------------
(* Newton's iteration.                                                       *)

Newton(base, guess) ==
  IF guess = 0 THEN 0 ELSE (Quotient(base, guess) + guess) \div 2

(* The mean of two numbers is not below their geometric mean.                *)
LEMMA Squares ==
  ASSUME NEW u \in Nat, NEW g \in Nat, NEW w \in Nat, u + g <= w
  PROVE  4 * (g * u) <= w * w
<1>1. (u + g) * (u + g) = (u - g) * (u - g) + 4 * (g * u)
  OBVIOUS
<1>2. (u - g) * (u - g) >= 0
  <2>1. CASE u >= g
    BY <2>1
  <2>2. CASE u < g
    <3>1. (u - g) * (u - g) = (g - u) * (g - u)
      OBVIOUS
    <3> QED BY <2>2, <3>1
  <2> QED BY <2>1, <2>2
<1>3. (u + g) * (u + g) <= w * w
  <2> DEFINE v == u + g
  <2>1. v \in Nat /\ v <= w
    OBVIOUS
  <2> HIDE DEF v
  <2>2. v * v <= v * w
    BY <2>1
  <2>3. v * w <= w * w
    BY <2>1
  <2>4. v * v \in Nat /\ v * w \in Nat /\ w * w \in Nat
    BY <2>1
  <2>5. v * v <= w * w
    BY <2>2, <2>3, <2>4
  <2> QED BY <2>5 DEF v
<1> DEFINE a == (u + g) * (u + g)
           b == (u - g) * (u - g)
           c == g * u
           d == w * w
<1>4. a \in Int /\ b \in Int /\ c \in Int /\ d \in Int
  OBVIOUS
<1>5. a = b + 4 * c /\ b >= 0 /\ a <= d
  BY <1>1, <1>2, <1>3
<1> HIDE DEF a, b, c, d
<1>6. 4 * c <= d
  BY <1>4, <1>5
<1> QED BY <1>6 DEF c, d

(* A Newton step from any guess ends at most one below the root: the mean of *)
(* a number and its quotient is not below it, and both halves are truncated. *)
LEMMA NewtonStep ==
  ASSUME NEW base \in Nat, NEW g \in Nat \ {0}
  PROVE  /\ Newton(base, g) \in Nat
         /\ base * ONE < (Newton(base, g) + 1) * (Newton(base, g) + 1)
<1> DEFINE A == base * ONE
           t == A \div g
           s == (t + g) \div 2
<1>1. A \in Nat /\ A \in Int
  BY DEF ONE
<1> HIDE DEF A
<1>2. t \in Nat /\ A % g \in 0..g-1 /\ A = g * t + (A % g)
  <2> HIDE DEF s
  <2>1. /\ A \div g \in Nat /\ A % g \in 0..g-1
        /\ A = g * (A \div g) + (A % g)
    BY <1>1, DivFacts
  <2> QED BY <2>1
<1>3. Newton(base, g) = s
  BY QuotientIs DEF Newton, A
<1> HIDE DEF t
<1>4. s \in Nat /\ t + g <= 2 * s + 1
  BY <1>2
<1> HIDE DEF s
<1>5. 4 * (g * (t + 1)) <= (2 * (s + 1)) * (2 * (s + 1))
  BY <1>2, <1>4, Squares
<1>6. A < g * (t + 1)
  <2>1. g * (t + 1) = g * t + g
    BY <1>2
  <2>2. g * t \in Nat
    BY <1>2
  <2> QED BY <1>1, <1>2, <2>1, <2>2
<1>7. (2 * (s + 1)) * (2 * (s + 1)) = 4 * ((s + 1) * (s + 1))
  BY <1>4
<1>8. A < (s + 1) * (s + 1)
  <2> DEFINE x == g * (t + 1)
             y == (s + 1) * (s + 1)
  <2>1. x \in Int /\ y \in Int
    BY <1>2, <1>4
  <2>2. 4 * x <= 4 * y /\ A < x
    BY <1>5, <1>6, <1>7
  <2> HIDE DEF x, y
  <2>3. A < y
    BY <1>1, <2>1, <2>2
  <2> QED BY <2>3 DEF y
<1> QED BY <1>3, <1>4, <1>8 DEF A

(* A step from any guess, zero included, is a number.                        *)
LEMMA NewtonType ==
  ASSUME NEW base \in Nat, NEW g \in Nat
  PROVE  Newton(base, g) \in Nat
<1>1. CASE g = 0
  BY <1>1 DEF Newton
<1>2. CASE g # 0
  BY <1>2, NewtonStep
<1> QED BY <1>1, <1>2

(* The steps that the square root is made of.                                *)
LEMMA SquareRootIs ==
  ASSUME NEW base \in Nat
  PROVE  \E r \in [0..6 -> Nat] :
           /\ r[0] = base \div 2 /\ \A i \in 1..6 : r[i] = Newton(base, r[i-1])
           /\ SquareRoot(base) = r[6]
<1> DEFINE result[i \in 0..NB_ITERATIONS] ==
             IF i = 0 THEN base \div 2
             ELSE LET guess == result[i - 1]
                  IN  IF guess = 0 THEN 0 ELSE (Quotient(base, guess) + guess) \div 2
           Solves(f) == f = [i \in 0..NB_ITERATIONS |->
             IF i = 0 THEN base \div 2
             ELSE LET guess == f[i - 1]
                  IN  IF guess = 0 THEN 0 ELSE (Quotient(base, guess) + guess) \div 2]
           next(x) == Newton(base, x)
<1>1. SquareRoot(base) = result[NB_ITERATIONS]
  BY DEF SquareRoot
<1>2. base \div 2 \in Nat
  OBVIOUS
<1>3. \A f : Solves(f) <=>
        f = [i \in 0..6 |-> IF i = 0 THEN base \div 2 ELSE next(f[i - 1])]
  BY DEF Newton, NB_ITERATIONS
<1>4. \E f : Solves(f)
  <2> HIDE DEF Solves
  <2> DEFINE g == [n \in 1..6 |-> [x \in Nat |-> next(x)]]
  <2>1. g \in [1..6 -> [Nat -> Nat]] /\ \A n \in 1..6, x \in Nat : g[n][x] = next(x)
    BY NewtonType
  <2> HIDE DEF g, next
  <2>2. PICK f \in [0..6 -> Nat] : Continues(f, base \div 2, g, 6)
    BY <1>2, <2>1, Recursion
  <2>3. ASSUME NEW i \in 0..6
        PROVE  f[i] = IF i = 0 THEN base \div 2 ELSE next(f[i - 1])
    <3>1. CASE i = 0
      BY <2>2, <3>1 DEF Continues
    <3>2. CASE i # 0
      <4>1. i \in 1..6 /\ f[i - 1] \in Nat
        BY <3>2
      <4>2. f[i] = g[i][f[i - 1]]
        BY <2>2, <4>1 DEF Continues
      <4> QED BY <2>1, <3>2, <4>1, <4>2
    <3> QED BY <3>1, <3>2
  <2>4. f = [i \in 0..6 |-> IF i = 0 THEN base \div 2 ELSE next(f[i - 1])]
    BY <2>3
  <2> QED BY <1>3, <2>4
<1>5. Solves(result)
  <2>1. result = CHOOSE f : Solves(f)
    OBVIOUS
  <2> HIDE DEF result, Solves
  <2> QED BY <1>4, <2>1
<1> HIDE DEF result, Solves
<1>6. /\ result[0] = base \div 2
      /\ \A i \in 1..6 : result[i] = next(result[i-1])
      /\ result = [i \in 0..6 |-> result[i]]
  <2> HIDE DEF next
  <2> QED BY <1>3, <1>5
<1>7. \A i \in 0..6 : result[i] \in Nat
  <2> DEFINE T == {i \in 0..6 : result[i] \in Nat}
  <2>1. 0 \in T /\ \A i \in 1..6 : i - 1 \in T => i \in T
    BY <1>2, <1>6, NewtonType
  <2> HIDE DEF T
  <2>2. 0..6 \subseteq T
    BY <2>1, Induct
  <2> QED BY <2>2 DEF T
<1>8. result \in [0..6 -> Nat]
  BY <1>6, <1>7
<1> QED BY <1>1, <1>6, <1>8 DEF NB_ITERATIONS

(* FixPoint::SquareRoot is never more than a unit of 1/65536 below the root: *)
(* the error that six steps leave is on one side.  The base is what is       *)
(* handed over, and one alone has no guess to start from.                    *)
THEOREM RootNotBelow ==
  ASSUME NEW base \in Nat, base # 1
  PROVE  /\ SquareRoot(base) \in Nat
         /\ base * ONE < (SquareRoot(base) + 1) * (SquareRoot(base) + 1)
<1>1. PICK r \in [0..6 -> Nat] :
        /\ r[0] = base \div 2 /\ \A i \in 1..6 : r[i] = Newton(base, r[i-1])
        /\ SquareRoot(base) = r[6]
  BY SquareRootIs
<1>2. CASE base = 0
  <2> DEFINE s == SquareRoot(base)
  <2>1. s \in Nat
    BY <1>1
  <2> HIDE DEF s
  <2>2. 0 < (s + 1) * (s + 1)
    BY <2>1
  <2>3. base * ONE = 0
    BY <1>2 DEF ONE
  <2> QED BY <2>1, <2>2, <2>3 DEF s
<1>3. CASE base >= 2
  <2> DEFINE T == {i \in 0..6 : r[i] # 0}
  <2>1. 0 \in T
    BY <1>1, <1>3
  <2>2. ASSUME NEW i \in 1..6, i - 1 \in T
        PROVE  i \in T
    <3>1. r[i-1] \in Nat \ {0} /\ r[i] = Newton(base, r[i-1])
      BY <1>1, <2>2
    <3>2. base * ONE < (r[i] + 1) * (r[i] + 1)
      BY <3>1, NewtonStep
    <3>3. base * ONE >= 2
      BY <1>3 DEF ONE
    <3>4. r[i] # 0
      <4>1. SUFFICES ASSUME r[i] = 0 PROVE FALSE
        OBVIOUS
      <4>2. (r[i] + 1) * (r[i] + 1) = 1
        BY <4>1
      <4>3. base * ONE \in Int
        BY DEF ONE
      <4> QED BY <3>2, <3>3, <4>2, <4>3
    <3> QED BY <3>4
  <2>3. 5 \in T
    <3> HIDE DEF T
    <3>1. 0..6 \subseteq T
      BY <2>1, <2>2, Induct
    <3> QED BY <3>1
  <2>4. r[5] \in Nat \ {0} /\ r[6] = Newton(base, r[5])
    <3>1. r[6] = Newton(base, r[6-1])
      BY <1>1
    <3> QED BY <2>3, <3>1
  <2> QED BY <1>1, <2>4, NewtonStep
<1> QED BY <1>2, <1>3

-----------------------------------------------------------------------------
(* Types of the measurement.                                                 *)

(* An interval is what its bounds say.                                       *)
LEMMA InRange ==
  ASSUME NEW lo \in Int, NEW hi \in Int, NEW x
  PROVE  x \in lo..hi <=> x \in Int /\ lo <= x /\ x <= hi
OBVIOUS

(* The bounds of the signal are integers.                                    *)
LEMMA BoundTypes ==
  LOWEST \in Int /\ HIGHEST \in Int /\ PEAK \in Int /\ -PEAK \in Int /\ 0 \in Int
BY DEF LOWEST, HIGHEST, PEAK

(* Their values.                                                             *)
LEMMA Bounds ==
  /\ LOWEST = -32768 /\ HIGHEST = 32767 /\ PEAK = 1000
BY DEF LOWEST, HIGHEST, PEAK

(* What fits 16 bits.                                                        *)
LEMMA Words ==
  ASSUME NEW x
  PROVE  x \in 0..ONE-1 <=> x \in Int /\ 0 <= x /\ x < ONE
<1>1. ONE \in Int
  BY DEF ONE
<1> QED BY <1>1

(* The current of a full window fits its 16 bits.                            *)
LEMMA CurrentType ==
  ASSUME NEW window \in Seq(Int), Len(window) = NB_Sample
  PROVE  GetCurrent(window) \in 0..ONE-1
<1>1. ONE \in Nat \ {0}
  BY DEF ONE
<1>2. PICK sum \in Int : sum = SumOfSquares(window) /\ 0 <= sum
  <2>1. SumOfSquares(window) \in 0..ONE-1
    BY SumOfSquaresType
  <2> QED BY <2>1, Words
<1>3. PICK mean \in Nat : mean = (SumOfSquares(window) * 512) \div Len(window)
  <2>1. (sum * 512) \div 20 \in Nat
    BY <1>2
  <2> QED BY <1>2, <2>1 DEF NB_Sample
<1>4. PICK rms \in Nat : rms = SquareRoot(mean)
  <2>1. PICK r \in [0..6 -> Nat] : SquareRoot(mean) = r[6]
    BY SquareRootIs
  <2> QED BY <2>1
<1>5. PICK current \in Nat : current = Quotient(rms, ratio)
  <2>1. ratio \in Nat \ {0}
    BY DEF ratio
  <2>2. rms * ONE \in Nat
    BY <1>1
  <2>3. (rms * ONE) \div ratio \in Nat
    BY <2>1, <2>2, DivFacts
  <2> QED BY <2>1, <2>3, QuotientIs
<1>6. GetCurrent(window) = (current \div 32) % ONE
  BY <1>3, <1>4, <1>5 DEF GetCurrent, GetVoltageRMS
<1>7. current \div 32 \in Int
  OBVIOUS
<1> QED BY <1>1, <1>6, <1>7, DivFacts

(* What the converter reads fits its 16 bits.                                *)
LEMMA ReadingType ==
  ASSUME level \in Levels, phase \in Phase
  PROVE  adcReading \in LOWEST..HIGHEST
<1>1. level \in Int /\ 0 <= level /\ level <= HIGHEST
  <2>1. level \in 0..HIGHEST
    BY SignalAssumption
  <2> QED BY <2>1, BoundTypes, InRange
<1>2. PICK w \in -PEAK..PEAK : w = Waveform[phase]
  BY SignalAssumption, ElementOfSeq DEF Phase
<1>3. w \in Int /\ -PEAK <= w /\ w <= PEAK
  BY BoundTypes, InRange
<1>4. PICK l \in Int : l = level /\ 0 <= l /\ l <= 32767
  BY <1>1, Bounds
<1>5. -1000 <= w /\ w <= 1000
  BY <1>3, Bounds
<1>6. PICK p \in Int : p = l * w /\ -32767000 <= p /\ p <= 32767000
  <2>1. l * w <= l * 1000 /\ l * (-1000) <= l * w
    BY <1>3, <1>4, <1>5
  <2>2. l * w \in Int
    BY <1>3
  <2> QED BY <1>4, <2>1, <2>2
<1>7. p \div 1000 \in Int /\ -32768 <= p \div 1000 /\ p \div 1000 <= 32767
  BY <1>6
<1>8. adcReading = p \div 1000
  BY <1>2, <1>4, <1>6, Bounds DEF adcReading
<1>9. adcReading \in Int /\ LOWEST <= adcReading /\ adcReading <= HIGHEST
  BY <1>7, <1>8, Bounds
<1> QED BY <1>9, BoundTypes, InRange

(* A quotient of natural numbers is not above the dividend.                  *)
LEMMA QuotientBelow ==
  ASSUME NEW a \in Nat, NEW b \in Nat \ {0}
  PROVE  a \div b \in Nat /\ a \div b <= a
<1> DEFINE h == a \div b
           r == a % b
<1> HIDE DEF h, r
<1>1. h \in Nat /\ r \in 0..b-1 /\ a = b * h + r
  <2>1. a \in Int /\ a \in Nat /\ b \in Nat \ {0}
    OBVIOUS
  <2> QED BY <2>1, DivFacts DEF h, r
<1>2. h <= b * h
  BY <1>1
<1>3. h <= a
  BY <1>1, <1>2
<1> QED BY <1>1, <1>3 DEF h

(* A quotient of 16000 fits the 16 bits of the answered frequency.           *)
LEMMA FrequencyRange ==
  ASSUME NEW x \in Nat \ {0}
  PROVE  (16000 \div x) \div 16 \in 0..ONE-1
<1>1. PICK a \in Nat : a = 16000
  OBVIOUS
<1>2. PICK h \in Nat : h = a \div x /\ h <= a
  BY QuotientBelow
<1>3. PICK f \in Nat : f = h \div 16 /\ f <= h
  BY QuotientBelow
<1>4. f < ONE
  BY <1>1, <1>2, <1>3 DEF ONE
<1>5. f \in 0..ONE-1
  BY <1>4, Words
<1> QED BY <1>1, <1>2, <1>3, <1>5

(* The product of the period with sixteen may wrap to zero; what is answered *)
(* then, and for every other period, fits 16 bits.                           *)
LEMMA FrequencyType ==
  ASSUME NEW samples \in Nat
  PROVE  GetFrequency(samples) \in 0..ONE-1
<1> DEFINE x == (samples * 16) % PERIOD_WORD
<1>1. PERIOD_WORD \in Nat \ {0}
  BY SignalAssumption
<1>2. x \in 0..PERIOD_WORD-1
  <2>1. samples * 16 \in Int
    OBVIOUS
  <2> QED BY <1>1, <2>1, DivFacts
<1>3. GetFrequency(samples) = IF x = 0 THEN 0 ELSE (16000 \div x) \div 16
  BY DEF GetFrequency
<1> HIDE DEF x
<1>4. CASE x = 0
  <2>1. 0 \in Int /\ 0 < ONE
    BY DEF ONE
  <2>2. 0 \in 0..ONE-1
    BY <2>1, Words
  <2> QED BY <1>3, <1>4, <2>2
<1>5. CASE x # 0
  <2>1. x \in Nat \ {0}
    BY <1>1, <1>2, <1>5
  <2>2. (16000 \div x) \div 16 \in 0..ONE-1
    BY <2>1, FrequencyRange
  <2> QED BY <1>3, <1>5, <2>2
<1> QED BY <1>4, <1>5

(* The parts of a step of GetSignal, one after the other.                    *)
LEMMA MeasureType ==
  ASSUME TypeOK, Measure
  PROVE  inputSignal' \in Seq(Int) /\ Len(inputSignal') <= NB_Sample /\ Current' \in 0..ONE-1
<1>1. /\ level \in Levels /\ phase \in Phase
      /\ inputSignal \in Seq(Int) /\ Len(inputSignal) <= NB_Sample /\ Current \in 0..ONE-1
  BY DEF TypeOK
<1>2. NB_Sample \in Nat
  BY DEF NB_Sample
<1>3. CASE /\ Len(inputSignal) < NB_Sample
           /\ inputSignal' = Append(inputSignal, adcReading * 20)
           /\ UNCHANGED Current
  <2>1. PICK x \in Int : x = adcReading * 20
    <3>1. adcReading \in Int
      BY <1>1, ReadingType, BoundTypes, InRange
    <3> QED BY <3>1
  <2>2. inputSignal' = Append(inputSignal, x)
    BY <1>3, <2>1
  <2>3. inputSignal' \in Seq(Int) /\ Len(inputSignal') = Len(inputSignal) + 1
    BY <1>1, <2>2, AppendProperties
  <2>4. Len(inputSignal) \in Nat
    BY <1>1, LenProperties
  <2> QED BY <1>1, <1>2, <1>3, <2>3, <2>4
<1>4. CASE /\ Len(inputSignal) = NB_Sample
           /\ Current' = GetCurrent(inputSignal) /\ inputSignal' = <<>>
  <2>1. Current' \in 0..ONE-1
    BY <1>1, <1>4, CurrentType
  <2>2. inputSignal' \in Seq(Int) /\ Len(inputSignal') = 0
    BY <1>4, EmptySeq
  <2> QED BY <1>2, <2>1, <2>2
<1> QED BY <1>3, <1>4 DEF Measure

(* The detector and its counter.                                             *)
LEMMA DetectType ==
  ASSUME TypeOK, Detect
  PROVE  /\ prevSample' \in LOWEST..HIGHEST /\ zeroPoint' \in 0..1
         /\ period' \in 0..PERIOD_WORD-1 /\ frequency' \in 0..ONE-1
<1>1. /\ level \in Levels /\ phase \in Phase
      /\ prevSample \in LOWEST..HIGHEST /\ zeroPoint \in 0..1
      /\ period \in 0..PERIOD_WORD-1 /\ frequency \in 0..ONE-1
  BY DEF TypeOK
<1>2. PERIOD_WORD \in Nat \ {0} /\ period \in Nat
  BY <1>1, SignalAssumption
<1>3. prevSample' \in LOWEST..HIGHEST
  BY <1>1, ReadingType DEF Detect
<1>4. PICK crossings \in Nat : crossings = zeroPoint + IF Crossing THEN 1 ELSE 0
  <2>1. (IF Crossing THEN 1 ELSE 0) \in Nat
    OBVIOUS
  <2> HIDE DEF Crossing
  <2> QED BY <1>1, <2>1
<1>5. \/ /\ crossings < 2 /\ zeroPoint' = crossings
         /\ period' = (period + 1) % PERIOD_WORD /\ UNCHANGED frequency
      \/ zeroPoint' = 0 /\ period' = 0 /\ frequency' = GetFrequency(period)
  BY <1>4 DEF Detect
<1>6. (period + 1) % PERIOD_WORD \in 0..PERIOD_WORD-1 /\ 0 \in 0..PERIOD_WORD-1
  <2>1. period + 1 \in Int
    BY <1>2
  <2> QED BY <1>2, <2>1, DivFacts
<1>7. GetFrequency(period) \in 0..ONE-1
  BY <1>2, FrequencyType
<1> QED BY <1>1, <1>3, <1>5, <1>6, <1>7

(* The signal.                                                               *)
LEMMA NextPhaseType ==
  ASSUME TypeOK, NextPhase
  PROVE  level' \in Levels /\ phase' \in Phase /\ steady' \in 0..TwoPeriods
<1>1. level \in Levels /\ phase \in Phase /\ steady \in 0..TwoPeriods
  BY DEF TypeOK
<1>2. Len(Waveform) \in Nat \ {0}
  BY SignalAssumption, LenProperties
<1>3. level' \in Levels
  BY <1>1 DEF NextPhase
<1>4. phase' \in Phase
  <2>1. phase \in Int
    BY <1>1, <1>2 DEF Phase
  <2>2. phase % Len(Waveform) \in 0..Len(Waveform)-1
    BY <1>2, <2>1, DivFacts
  <2>3. phase' = 1 \/ phase' = (phase % Len(Waveform)) + 1
    BY DEF NextPhase
  <2> QED BY <1>2, <2>2, <2>3 DEF Phase
<1>5. steady' \in 0..TwoPeriods
  <2>1. TwoPeriods \in Nat
    BY <1>2 DEF TwoPeriods
  <2>2. steady' = IF level = 0 THEN 0
                  ELSE IF steady < TwoPeriods THEN steady + 1 ELSE steady
    BY DEF NextPhase
  <2> QED BY <1>1, <2>1, <2>2
<1> QED BY <1>3, <1>4, <1>5

(* The window never exceeds its twenty samples, and the current and the      *)
(* answered frequency are 16-bit numbers whatever the period counter wraps   *)
(* to: for every signal and every width of that counter.                     *)
THEOREM MeasurementTypes == Spec => []TypeOK
<1>1. Init => TypeOK
  <2>1. SUFFICES ASSUME Init PROVE TypeOK
    OBVIOUS
  <2>2. level \in Levels /\ phase \in Phase /\ steady \in 0..TwoPeriods
    <3>1. 0 \in Levels /\ Len(Waveform) \in Nat \ {0}
      BY SignalAssumption, LenProperties
    <3> QED BY <2>1, <3>1 DEF Init, Phase, TwoPeriods
  <2>3. inputSignal \in Seq(Int) /\ Len(inputSignal) <= NB_Sample
    BY <2>1, EmptySeq DEF Init, NB_Sample
  <2>4. prevSample \in LOWEST..HIGHEST
    <3>1. LOWEST <= 0 /\ 0 <= HIGHEST
      BY Bounds
    <3>2. prevSample = 0
      BY <2>1 DEF Init
    <3> QED BY <3>1, <3>2, BoundTypes, InRange
  <2>5. zeroPoint \in 0..1 /\ period \in 0..PERIOD_WORD-1 /\ frequency \in 0..ONE-1
    <3>1. PERIOD_WORD \in Nat \ {0}
      BY SignalAssumption
    <3>2. frequency \in Int /\ 0 <= frequency /\ frequency < ONE
      BY <2>1 DEF Init, ONE
    <3>3. frequency \in 0..ONE-1
      BY <3>2, Words
    <3> QED BY <2>1, <3>1, <3>3 DEF Init
  <2>6. Current \in 0..ONE-1
    <3>1. Current \in Int /\ 0 <= Current /\ Current < ONE
      BY <2>1 DEF Init, ONE
    <3> QED BY <3>1, Words
  <2> QED BY <2>2, <2>3, <2>4, <2>5, <2>6 DEF TypeOK
<1>2. TypeOK /\ [GetSignal]_vars => TypeOK'
  <2>1. SUFFICES ASSUME TypeOK, [GetSignal]_vars PROVE TypeOK'
    OBVIOUS
  <2>2. CASE UNCHANGED vars
    <3>1. /\ UNCHANGED <<level, phase, steady, prevSample, zeroPoint, period>>
          /\ UNCHANGED <<frequency, inputSignal, Current>>
      BY <2>2 DEF vars, signal, detector
    <3> QED BY <2>1, <3>1 DEF TypeOK
  <2>3. CASE GetSignal
    <3>1. Measure /\ Detect /\ NextPhase
      BY <2>3 DEF GetSignal
    <3> QED BY <2>1, <3>1, MeasureType, DetectType, NextPhaseType DEF TypeOK
  <2> QED BY <2>1, <2>2, <2>3
<1> QED BY <1>1, <1>2, PTL DEF Spec

-----------------------------------------------------------------------------
(* The curves.                                                               *)

(* A quotient falls as the divisor rises,                                    *)
LEMMA DivFalls ==
  ASSUME NEW a \in Nat, NEW b \in Nat \ {0}, NEW c \in Nat \ {0}, b <= c
  PROVE  a \div c <= a \div b
<1> DEFINE q == a \div c
           p == a \div b
           r == a % c
           s == a % b
<1>1. q \in Nat /\ r \in 0..c-1 /\ a = c * q + r
  BY DivFacts
<1>2. p \in Nat /\ s \in 0..b-1 /\ a = b * p + s
  BY DivFacts
<1> HIDE DEF p, q, r, s
<1>3. q <= p
  <2>1. SUFFICES ASSUME q >= p + 1 PROVE FALSE
    BY <1>1, <1>2
  <2>2. b * q <= c * q /\ b * (p + 1) <= b * q
    BY <1>1, <1>2, <2>1
  <2>3. b * (p + 1) = b * p + b
    BY <1>2
  <2>4. b * p \in Nat /\ b * q \in Nat /\ c * q \in Nat
    BY <1>1, <1>2
  <2> QED BY <1>1, <1>2, <2>2, <2>3, <2>4
<1> QED BY <1>3 DEF p, q

(* and rises with the dividend.                                              *)
LEMMA DivRises ==
  ASSUME NEW a \in Nat, NEW b \in Nat, a <= b
  PROVE  a \div 65536 <= b \div 65536
OBVIOUS

(* The same of the quotients of fixed-point numbers.                         *)
LEMMA QuotientFalls ==
  ASSUME NEW k \in Nat, NEW b \in Nat \ {0}, NEW c \in Nat \ {0}, b <= c
  PROVE  Quotient(k, c) <= Quotient(k, b)
<1>1. k * ONE \in Nat
  BY DEF ONE
<1>2. PICK a \in Nat : a = k * ONE
  BY <1>1
<1>3. Quotient(k, b) = a \div b /\ Quotient(k, c) = a \div c
  BY <1>2, QuotientIs
<1> QED BY <1>3, DivFalls

(* A division leaves a remainder below the divisor.                          *)
LEMMA DivSplit ==
  ASSUME NEW a \in Nat, NEW b \in Nat \ {0}
  PROVE  \E p \in Nat, r \in 0..b-1 : a \div b = p /\ a = b * p + r
<1> DEFINE p == a \div b
           r == a % b
<1>0. a \in Int
  OBVIOUS
<1>1. p \in Nat /\ r \in 0..b-1 /\ a = b * p + r
  BY <1>0, DivFacts
<1>2. a \div b = p
  OBVIOUS
<1> HIDE DEF p, r
<1> QED BY <1>1, <1>2

(* The same of the quotient of fixed-point numbers.                          *)
LEMMA QuotientSplit ==
  ASSUME NEW k \in Nat, NEW b \in Nat \ {0}
  PROVE  \E p \in Nat, r \in 0..b-1 : Quotient(k, b) = p /\ k * ONE = b * p + r
<1>1. PICK a \in Nat : a = k * ONE
  BY DEF ONE
<1>2. Quotient(k, b) = a \div b
  BY <1>1, QuotientIs
<1>3. PICK p \in Nat, r \in 0..b-1 : a \div b = p /\ a = b * p + r
  BY DivSplit, Zenon
<1> QED BY <1>1, <1>2, <1>3, Zenon

(* A trip time falls with its divisor, and is a positive 32-bit word.        *)
LEMMA TripTimeOf ==
  ASSUME NEW k \in Nat, NEW b \in Nat \ {0}, NEW c \in Nat \ {0}, b <= c,
         b <= k * ONE, k < ONE * b
  PROVE  /\ 0 < Quotient(k, b) /\ Quotient(k, b) < ONE * ONE
         /\ Quotient(k, c) <= Quotient(k, b)
<1>1. PICK p \in Nat, r \in 0..b-1 : Quotient(k, b) = p /\ k * ONE = b * p + r
  BY QuotientSplit, Zenon
<1>2. 0 < p
  <2>1. SUFFICES ASSUME p = 0 PROVE FALSE
    OBVIOUS
  <2>2. b * p = 0
    BY <2>1
  <2>3. b <= 65536 * k
    BY DEF ONE
  <2> QED BY <1>1, <2>2, <2>3
<1>3. p < 65536 * 65536
  <2>1. SUFFICES ASSUME p >= 65536 * 65536 PROVE FALSE
    OBVIOUS
  <2>2. PICK x \in Nat : x = b * p
    OBVIOUS
  <2>3. b * (65536 * 65536) <= x
    BY <2>1, <2>2
  <2>4. k * 65536 = x + r
    BY <1>1, <2>2 DEF ONE
  <2>5. k < 65536 * b
    BY DEF ONE
  <2> QED BY <2>3, <2>4, <2>5
<1>4. Quotient(k, c) <= Quotient(k, b)
  BY QuotientFalls
<1> QED BY <1>1, <1>2, <1>3, <1>4 DEF ONE

(* The squares of currents in the range of the code.                         *)
LEMMA SquareBounds ==
  ASSUME NEW r \in Nat, NEW s \in Nat, 67520 <= r, r <= s, s <= 2097120
  PROVE  /\ r * r \in Nat /\ s * s \in Nat /\ r * r <= s * s
         /\ 4558950400 <= r * r /\ s * s <= 4397912294400
<1>1. 67520 * 67520 <= 67520 * r /\ 67520 * r <= r * r
  OBVIOUS
<1>2. r * r <= r * s /\ r * s <= s * s
  OBVIOUS
<1>3. s * s <= 2097120 * s /\ 2097120 * s <= 2097120 * 2097120
  OBVIOUS
<1>4. r * r \in Nat /\ s * s \in Nat /\ r * s \in Nat
  OBVIOUS
<1> QED BY <1>1, <1>2, <1>3, <1>4

(* On the two curves without roots a stronger current never waits longer:    *)
(* for every current that the 16 bits of the code hold, from the threshold   *)
(* 2109 on, the divisor is positive, the trip time is a positive 32-bit      *)
(* word, and it falls as the current rises.                                  *)
THEOREM SteepCurvesFall ==
  ASSUME NEW curve \in {"VeryInverse", "ExtremelyInverse"},
         NEW c \in Nat, NEW d \in Nat, 2109 < c, c <= d, d < ONE
  PROVE  /\ Divisor(curve, c) > 0
         /\ 0 < TripTime(curve, c) /\ TripTime(curve, c) < ONE * ONE
         /\ TripTime(curve, d) <= TripTime(curve, c)
<1>1. 2110 <= c /\ c <= d /\ d <= 65535
  BY DEF ONE
<1> DEFINE b == Divisor(curve, c)
           e == Divisor(curve, d)
           k == K(curve)
<1>2. /\ k \in Nat /\ k >= 884736 /\ k <= 5242880
      /\ b \in Int /\ e \in Int /\ 1984 <= b /\ b <= e /\ b <= 80000000
  <2>1. CASE curve = "VeryInverse"
    <3>1. k = 884736 /\ b = c * 32 - 65536 /\ e = d * 32 - 65536
      BY <2>1 DEF K, Divisor, Power, RMS, ONE
    <3> HIDE DEF b, e, k
    <3> QED BY <1>1, <3>1
  <2>2. CASE curve = "ExtremelyInverse"
    <3>1. PICK r \in Nat, s \in Nat :
            r = c * 32 /\ s = d * 32 /\ 67520 <= r /\ r <= s /\ s <= 2097120
      BY <1>1
    <3>2. k = 5242880 /\ b = Product(r, r) - 65536 /\ e = Product(s, s) - 65536
      BY <2>2, <3>1 DEF K, Divisor, Power, RMS, ONE
    <3>3. PICK u \in Nat, v \in Nat :
            /\ u = r * r /\ v = s * s /\ u <= v
            /\ 4558950400 <= u /\ v <= 4397912294400
      BY <3>1, SquareBounds
    <3>4. Product(r, r) = u \div 65536 /\ Product(s, s) = v \div 65536
      BY <3>3, ProductIs DEF ONE
    <3> HIDE DEF b, e, k
    <3>5. u \div 65536 <= v \div 65536
      BY <3>3, DivRises
    <3>6. 69564 <= u \div 65536 /\ v \div 65536 <= 70000000
      BY <3>3
    <3> QED BY <3>2, <3>4, <3>5, <3>6
  <2> QED BY <2>1, <2>2
<1>3. TripTime(curve, c) = Quotient(k, b) /\ TripTime(curve, d) = Quotient(k, e)
  BY DEF TripTime
<1> HIDE DEF b, e, k
<1>4. b \in Nat \ {0} /\ e \in Nat \ {0} /\ b <= k * ONE /\ k < ONE * b
  BY <1>2 DEF ONE
<1>5. /\ 0 < Quotient(k, b) /\ Quotient(k, b) < ONE * ONE
      /\ Quotient(k, e) <= Quotient(k, b)
  BY <1>2, <1>4, TripTimeOf
<1> QED BY <1>2, <1>3, <1>5 DEF b
=============================================================================
