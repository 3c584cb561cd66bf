--------------------------- MODULE ModArithmetic ---------------------------
(***************************************************************************)
(* Facts about numbers modulo M: what the wire's sequence numbers and the  *)
(* positions of a ring buffer have in common.                              *)
(***************************************************************************)
EXTENDS Integers, TLAPS

(* Arithmetic modulo M: the quotient of a number smaller than M is 0. *)
LEMMA SmallMultiple ==
  ASSUME NEW M \in Nat, M > 0, NEW q \in Int, M * q < M, M * q >= 0
  PROVE  q = 0
<1>1. CASE q >= 1
  <2>1. M * q >= M  BY <1>1
  <2>. QED  BY <2>1
<1>2. CASE q <= -1
  <2>1. M * q <= 0 - M  BY <1>2
  <2>. QED  BY <2>1
<1>. QED  BY <1>1, <1>2

(* Two numbers less than M apart with the same wire number are equal. *)
LEMMA ModUnique ==
  ASSUME NEW M \in Nat, M > 0, NEW a \in Int, NEW b \in Int,
         a % M = b % M, a - b < M, a - b >= 0
  PROVE  a = b
<1>. DEFINE qa == a \div M
            qb == b \div M
<1>1. qa \in Int /\ qb \in Int  OBVIOUS
<1>2. a - b = M * qa - M * qb
  <2>1. a = M * qa + (a % M) /\ b = M * qb + (b % M)  OBVIOUS
  <2>. QED  BY <2>1
<1>3. M * qa - M * qb = M * (qa - qb)  BY <1>1
<1>4. qa - qb = 0  BY <1>1, <1>2, <1>3, SmallMultiple
<1>. QED  BY <1>2, <1>3, <1>4

(* The remainder is the only number of 0 .. M-1 that leaves a multiple. *)
LEMMA ModRemainder ==
  ASSUME NEW M \in Nat, M > 0, NEW a \in Int, NEW q \in Int, NEW r \in 0 .. M - 1,
         a = M * q + r
  PROVE  a % M = r
<1>. DEFINE qa == a \div M
            ra == a % M
<1>1. qa \in Int /\ ra \in 0 .. M - 1 /\ a = M * qa + ra  OBVIOUS
<1>. HIDE DEF qa, ra
<1>2. M * (qa - q) = r - ra  BY <1>1
<1>3. CASE qa - q >= 1
  <2>1. M * (qa - q) >= M  BY <1>3, <1>1
  <2>. QED  BY <2>1, <1>2, <1>1
<1>4. CASE qa - q <= -1
  <2>1. M * (qa - q) <= 0 - M  BY <1>4, <1>1
  <2>. QED  BY <2>1, <1>2, <1>1
<1>5. CASE qa = q  BY <1>5, <1>2, <1>1 DEF ra
<1>. QED  BY <1>3, <1>4, <1>5, <1>1

(* Adding to a wire number and reducing again is adding to the position. *)
LEMMA ModAdd ==
  ASSUME NEW M \in Nat, M > 0, NEW a \in Int, NEW i \in Int
  PROVE  ((a % M) + i) % M = (a + i) % M
<1>. DEFINE qa == a \div M
            qi == (a + i) \div M
            r  == (a + i) % M
<1>1. qa \in Int /\ a = M * qa + (a % M) /\ a % M \in Int  OBVIOUS
<1>2. qi \in Int /\ r \in 0 .. M - 1 /\ a + i = M * qi + r  OBVIOUS
<1>3. (a % M) + i = M * (qi - qa) + r
  <2>. HIDE DEF qa, qi, r
  <2>. QED  BY <1>1, <1>2
<1>. HIDE DEF qa, qi, r
<1>4. (a % M) + i \in Int /\ qi - qa \in Int  BY <1>1, <1>2
<1>. QED  BY <1>2, <1>3, <1>4, ModRemainder DEF r

(* The distance of two wire numbers is the distance of the positions,      *)
(* reduced.                                                                *)
LEMMA ModSub ==
  ASSUME NEW M \in Nat, M > 0, NEW a \in Int, NEW b \in Int
  PROVE  ((a % M) - (b % M)) % M = (a - b) % M
<1>. DEFINE qa == a \div M
            qb == b \div M
            qd == (a - b) \div M
            r  == (a - b) % M
<1>1. qa \in Int /\ a = M * qa + (a % M) /\ a % M \in Int  OBVIOUS
<1>2. qb \in Int /\ b = M * qb + (b % M) /\ b % M \in Int  OBVIOUS
<1>3. qd \in Int /\ r \in 0 .. M - 1 /\ a - b = M * qd + r  OBVIOUS
<1>. HIDE DEF qa, qb, qd, r
<1>4. (a % M) - (b % M) = M * (qd - qa + qb) + r  BY <1>1, <1>2, <1>3
<1>5. (a % M) - (b % M) \in Int /\ qd - qa + qb \in Int  BY <1>1, <1>2, <1>3
<1>. QED  BY <1>3, <1>4, <1>5, ModRemainder DEF r

(* The quotient is the largest number of times M fits. *)
LEMMA QuotientBound ==
  ASSUME NEW M \in Nat, M > 0, NEW a \in Int, NEW q \in Int, M * q <= a
  PROVE  q <= a \div M
<1>. DEFINE d == a \div M
<1>1. d \in Int /\ a < M * d + M  BY SMT
<1>. HIDE DEF d
<1>2. CASE q >= d + 1
  <2>1. M * q = M * d + M + M * (q - d - 1)  BY <1>1
  <2>2. M * (q - d - 1) >= 0  BY <1>1, <1>2
  <2>3. M * q \in Int /\ M * d \in Int  BY <1>1
  <2>. QED  BY <1>1, <2>1, <2>2, <2>3
<1>. QED  BY <1>1, <1>2 DEF d

(* What whole parts lose never adds up. *)
LEMMA QuotientSum ==
  ASSUME NEW M \in Nat, M > 0, NEW a \in Nat, NEW b \in Nat
  PROVE  /\ (a \div M) + (b \div M) <= (a + b) \div M
         /\ b \div M \in Nat /\ a \div M <= (a + b) \div M
         /\ b >= M => b \div M >= 1
<1>. DEFINE qa == a \div M
            qb == b \div M
<1>1. qa \in Int /\ qb \in Int /\ M * qa <= a /\ M * qb <= b  BY SMT
<1>2. 0 <= qb
  <2>1. M * 0 <= b  OBVIOUS
  <2>. QED  BY <2>1, QuotientBound
<1>3. b >= M => 1 <= qb
  <2>1. M * 1 = M  OBVIOUS
  <2>. QED  BY <2>1, QuotientBound
<1>. HIDE DEF qa, qb
<1>4. M * (qa + qb) <= a + b
  <2>1. M * (qa + qb) = M * qa + M * qb  BY <1>1
  <2>2. M * qa \in Int /\ M * qb \in Int  BY <1>1
  <2>. QED  BY <1>1, <2>1, <2>2
<1>5. qa + qb <= (a + b) \div M
  <2>1. qa + qb \in Int /\ a + b \in Int  BY <1>1
  <2>. QED  BY <1>4, <2>1, QuotientBound
<1>6. qa <= (a + b) \div M
  <2>1. M * qa \in Int /\ M * qa <= a + b  BY <1>1
  <2>. QED  BY <1>1, <2>1, QuotientBound
<1>. QED  BY <1>1, <1>2, <1>3, <1>5, <1>6 DEF qa, qb

(* The slots of a ring of M, seen from the end of what it holds: u slots   *)
(* from r on are taken, k are free to take, and a slot's distance from the *)
(* end says which it is.                                                   *)
LEMMA RingDistance ==
  ASSUME NEW M \in Nat, M > 0, NEW r \in Int, NEW u \in 0 .. M, NEW k \in 0 .. M - u,
         NEW i \in 0 .. u + k - 1
  PROVE  (((r + i) % M) - r - u) % M = IF i >= u THEN i - u ELSE M + i - u
<1>1. (((r + i) % M) + (0 - r - u)) % M = ((r + i) + (0 - r - u)) % M
  <2>1. r + i \in Int /\ 0 - r - u \in Int  OBVIOUS
  <2>. QED  BY <2>1, ModAdd
<1>2. ((r + i) % M) + (0 - r - u) = ((r + i) % M) - r - u
  <2>1. (r + i) % M \in Int  OBVIOUS
  <2>. QED  BY <2>1
<1>3. (r + i) + (0 - r - u) = i - u  OBVIOUS
<1>4. CASE i >= u
  <2>1. i - u \in 0 .. M - 1 /\ i - u = M * 0 + (i - u)  BY <1>4
  <2>2. (i - u) % M = i - u  BY <2>1, ModRemainder
  <2>. QED  BY <1>1, <1>2, <1>3, <1>4, <2>2
<1>5. CASE i < u
  <2>1. M + i - u \in 0 .. M - 1 /\ i - u = M * (-1) + (M + i - u)  BY <1>5
  <2>2. i - u \in Int /\ -1 \in Int  OBVIOUS
  <2>3. (i - u) % M = M + i - u  BY <2>1, <2>2, ModRemainder
  <2>. QED  BY <1>1, <1>2, <1>3, <1>5, <2>3
<1>. QED  BY <1>4, <1>5

(* Multiples of M: their sums and differences are multiples, what is added *)
(* to one keeps its remainder, and taking a remainder off leaves one.      *)
LEMMA Multiples ==
  ASSUME NEW M \in Nat, M > 0, NEW a \in Int, a % M = 0, NEW b \in Int
  PROVE  /\ (a + b) % M = b % M
         /\ b % M = 0 => (a - b) % M = 0
<1>1. ((a % M) + b) % M = (a + b) % M  BY ModAdd
<1>2. ((a % M) - (b % M)) % M = (a - b) % M  BY ModSub
<1>3. 0 % M = 0
  <2>1. 0 \in 0 .. M - 1 /\ 0 = M * 0 + 0  OBVIOUS
  <2>. QED  BY <2>1, ModRemainder
<1>4. 0 + b = b /\ 0 - 0 = 0  OBVIOUS
<1>. QED  BY <1>1, <1>2, <1>3, <1>4

LEMMA WholeMultiple ==
  ASSUME NEW M \in Nat, M > 0, NEW n \in Int
  PROVE  (n - (n % M)) % M = 0 /\ M % M = 0
<1>1. n % M \in 0 .. M - 1  OBVIOUS
<1>2. (n % M) % M = n % M
  <2>1. n % M = M * 0 + (n % M)  BY <1>1
  <2>. QED  BY <1>1, <2>1, ModRemainder
<1>3. ((n % M) - ((n % M) % M)) % M = (n - (n % M)) % M
  <2>1. n % M \in Int  BY <1>1
  <2>. QED  BY <2>1, ModSub
<1>4. 0 % M = 0 /\ M % M = 0
  <2>1. 0 \in 0 .. M - 1 /\ 0 = M * 0 + 0 /\ M = M * 1 + 0  OBVIOUS
  <2>. QED  BY <2>1, ModRemainder
<1>5. (n % M) - ((n % M) % M) = 0  BY <1>1, <1>2
<1>. QED  BY <1>3, <1>4, <1>5

(* A quotient is below m exactly when the number is below M times m. *)
LEMMA QuotientLess ==
  ASSUME NEW M \in Nat, M > 0, NEW a \in Int, NEW m \in Int
  PROVE  a \div M < m <=> a < M * m
<1>. DEFINE q == a \div M
<1>1. q \in Int /\ M * q <= a /\ a < M * q + M  BY SMT
<1>2. M * q \in Int /\ M * m \in Int  BY <1>1
<1>. HIDE DEF q
<1>3. CASE q < m
  <2>1. M * m = M * q + M + M * (m - q - 1)  BY <1>1
  <2>2. M * (m - q - 1) >= 0
    <3>1. m - q - 1 \in Nat  BY <1>1, <1>3
    <3>. QED  BY <3>1
  <2>3. M * (m - q - 1) \in Int  BY <1>1
  <2>4. a < M * m  BY <1>1, <1>2, <2>1, <2>2, <2>3
  <2>. QED  BY <1>3, <2>4 DEF q
<1>4. CASE ~(q < m)
  <2>1. M * q = M * m + M * (q - m)  BY <1>1
  <2>2. M * (q - m) >= 0
    <3>1. q - m \in Nat  BY <1>1, <1>4
    <3>. QED  BY <3>1
  <2>3. M * (q - m) \in Int  BY <1>1
  <2>4. ~(a < M * m)  BY <1>1, <1>2, <2>1, <2>2, <2>3
  <2>. QED  BY <1>4, <2>4 DEF q
<1>. QED  BY <1>3, <1>4
=============================================================================
