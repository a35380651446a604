---------------------------- MODULE MessagesProofs ----------------------------
(***************************************************************************)
(* What a path of nodes does to a message, proved for every wrapper, every    *)
(* input, any number of nodes and any width of a word that is no multiple of  *)
(* seven.  A varint that is written is read back; so is a field; the encoding *)
(* of a message is read field by field as the message it encodes (ReadStep);  *)
(* and bytes that are no longer than canonical fields need are the encoding   *)
(* of these fields.                                                          *)
(***************************************************************************)
EXTENDS Messages, Integers, SequenceTheorems, FiniteSetTheorems,
        WellFoundedInduction, TLAPS

----------------------------------------------------------------------------
(* Induction and recursion.  The library's theorems take the property as an  *)
(* operator; here it is a set, and a recursive function a step and a start.  *)

\* A set of numbers with 0 and every successor is all of them.
LEMMA SetInduction ==
  ASSUME NEW T, 0 \in T, \A n \in Nat : n \in T => n + 1 \in T
  PROVE  Nat \subseteq T
<1> DEFINE R == {p \in Nat \X Nat : p[1] < p[2]}
           M == {n \in Nat : n \notin T}
<1>1. IsWellFoundedOn(R, Nat)
  BY NatLessThanWellFounded DEF OpToRel
<1>2. ASSUME M # {} PROVE FALSE
  <2>1. PICK x \in M : \A y \in M : <<y, x>> \notin R
    BY <1>1, <1>2, WFMin
  <2>2. x # 0 /\ x - 1 \in Nat
    OBVIOUS
  <2>3. <<x - 1, x>> \in R
    BY <2>2
  <2>4. x - 1 \in T
    BY <2>1, <2>2, <2>3
  <2> QED
    BY <2>2, <2>4
<1> QED
  BY <1>2

\* A set of numbers that is not empty has a least one.
LEMMA Least ==
  ASSUME NEW M \in SUBSET Nat, M # {}
  PROVE  \E x \in M : \A y \in M : x <= y
<1> DEFINE R == {p \in Nat \X Nat : p[1] < p[2]}
<1>1. IsWellFoundedOn(R, Nat)
  BY NatLessThanWellFounded DEF OpToRel
<1>2. PICK x \in M : \A y \in M : <<y, x>> \notin R
  BY <1>1, WFMin
<1>3. \A y \in M : ~(y < x)
  BY <1>2
<1> QED
  BY <1>2, <1>3

\* A recursive function on 0..n exists: from z, a step for each number.
Iterated(f, S, z, n, step) ==
  f \in [0..n -> S] /\ f[0] = z /\ \A i \in 1..n : f[i] = step[<<i, f[i - 1]>>]

LEMMA Iterates ==
  ASSUME NEW S, NEW z \in S, NEW n \in Nat, NEW step \in [(1..n) \X S -> S]
  PROVE  \E f : Iterated(f, S, z, n, step)
<1> DEFINE Good(k, f) == f[0] = z /\ \A i \in 1..k : f[i] = step[<<i, f[i - 1]>>]
           T == {k \in Nat : k <= n => \E f \in [0..k -> S] : Good(k, f)}
<1>1. 0 \in T
  <2>1. [i \in 0..0 |-> z] \in [0..0 -> S] /\ Good(0, [i \in 0..0 |-> z])
    OBVIOUS
  <2> QED
    BY <2>1
<1>2. ASSUME NEW k \in Nat, k \in T PROVE k + 1 \in T
  <2> SUFFICES ASSUME k + 1 <= n PROVE \E f \in [0..(k + 1) -> S] : Good(k + 1, f)
    OBVIOUS
  <2>1. PICK f \in [0..k -> S] : Good(k, f)
    BY <1>2
  <2> DEFINE last == step[<<k + 1, f[k]>>]
             g == [i \in 0..(k + 1) |-> IF i = k + 1 THEN last ELSE f[i]]
  <2>2. last \in S
    OBVIOUS
  <2>3. g \in [0..(k + 1) -> S]
    BY <2>2
  <2>4. g[k + 1] = last /\ \A i \in 0..k : g[i] = f[i]
    OBVIOUS
  <2>5. Good(k + 1, g)
    <3>1. g[0] = z
      BY <2>1, <2>4
    <3>2. ASSUME NEW i \in 1..k PROVE g[i] = step[<<i, g[i - 1]>>]
      <4>1. i - 1 \in 0..k /\ i \in 0..k
        OBVIOUS
      <4> HIDE DEF g
      <4> QED
        BY <2>1, <2>4, <4>1
    <3>3. g[k + 1] = step[<<k + 1, g[(k + 1) - 1]>>]
      <4> HIDE DEF g
      <4> QED
        BY <2>4
    <3>4. \A i \in 1..(k + 1) : i \in 1..k \/ i = k + 1
      OBVIOUS
    <3> HIDE DEF g
    <3> QED
      BY <3>1, <3>2, <3>3, <3>4
  <2> QED
    BY <2>3, <2>5
<1>3. n \in T
  <2> HIDE DEF T
  <2> QED
    BY <1>1, <1>2, SetInduction
<1> QED
  BY <1>3 DEF Iterated

----------------------------------------------------------------------------
(* Powers of two.                                                            *)

LEMMA PowerOfZero == 2^0 = 1
<1>1. IsFiniteSet({}) /\ Cardinality({}) = 0
  BY FS_EmptySet
<1>2. Cardinality(SUBSET {}) = 2^Cardinality({})
  BY <1>1, FS_SUBSET
<1>3. SUBSET {} = {{}} /\ Cardinality({{}}) = 1
  BY FS_Singleton
<1> QED
  BY <1>1, <1>2, <1>3

LEMMA PowerInNat == ASSUME NEW n \in Nat PROVE 2^n \in Nat
<1>1. IsFiniteSet(1..n) /\ Cardinality(1..n) = n
  BY FS_Interval
<1>2. IsFiniteSet(SUBSET (1..n)) /\ Cardinality(SUBSET (1..n)) = 2^n
  BY <1>1, FS_SUBSET
<1> QED
  BY <1>2, FS_CardinalityType

\* The subsets of a set with one more element are those without it and those
\* with it.
LEMMA SubsetsDouble ==
  ASSUME NEW S, IsFiniteSet(S), NEW x, x \notin S
  PROVE  Cardinality(SUBSET (S \cup {x})) = Cardinality(SUBSET S) + Cardinality(SUBSET S)
<1> DEFINE A == SUBSET S
           B == {a \cup {x} : a \in A}
           f == [a \in A |-> a \cup {x}]
<1>1. IsFiniteSet(A)
  BY FS_SUBSET
<1>2. f \in [A -> B]
  OBVIOUS
<1>3. ASSUME NEW a \in A, NEW b \in A, f[a] = f[b] PROVE a = b
  <2>1. a \cup {x} = b \cup {x} /\ x \notin a /\ x \notin b
    BY <1>3
  <2> QED
    BY <2>1
<1>4. \A c \in B : \E a \in A : f[a] = c
  OBVIOUS
<1>5. IsFiniteSet(B) /\ Cardinality(B) = Cardinality(A)
  <2> HIDE DEF A, B, f
  <2>1. f \in Bijection(A, B)
    BY <1>2, <1>3, <1>4 DEF Bijection, Injection, Surjection, IsInjective
  <2> QED
    BY <1>1, <2>1, FS_Bijection DEF ExistsBijection
<1>6. SUBSET (S \cup {x}) = A \cup B
  <2>1. ASSUME NEW c, c \subseteq S \cup {x} PROVE c \in A \cup B
    <3>1. CASE x \in c
      <4>1. c \ {x} \in A /\ c = (c \ {x}) \cup {x}
        BY <2>1, <3>1
      <4> QED
        BY <4>1
    <3>2. CASE x \notin c
      BY <2>1, <3>2
    <3> QED
      BY <3>1, <3>2
  <2>2. ASSUME NEW c, c \in A \cup B PROVE c \subseteq S \cup {x}
    BY <2>2
  <2> HIDE DEF A, B
  <2> QED
    BY <2>1, <2>2
<1>7. A \cap B = {}
  <2>1. \A c \in A : x \notin c
    OBVIOUS
  <2>2. \A c \in B : x \in c
    OBVIOUS
  <2> HIDE DEF A, B
  <2> QED
    BY <2>1, <2>2
<1>8. Cardinality(A \cap B) = 0
  BY <1>7, FS_EmptySet
<1>9. Cardinality(A \cup B) = Cardinality(A) + (Cardinality(B) - Cardinality(A \cap B))
  <2> HIDE DEF A, B
  <2> QED
    BY <1>1, <1>5, FS_Union
<1>10. Cardinality(A) \in Nat
  BY <1>1, FS_CardinalityType
<1>11. Cardinality(A \cup B) = Cardinality(A) + Cardinality(A)
  <2> HIDE DEF A, B
  <2> QED
    BY <1>5, <1>8, <1>9, <1>10
<1> HIDE DEF B
<1> QED
  BY <1>6, <1>11

LEMMA PowerDoubles == ASSUME NEW n \in Nat PROVE 2^(n + 1) = 2^n + 2^n
<1>1. /\ IsFiniteSet(1..n) /\ Cardinality(1..n) = n
      /\ IsFiniteSet(1..(n + 1)) /\ Cardinality(1..(n + 1)) = n + 1
  BY FS_Interval
<1>2. Cardinality(SUBSET (1..n)) = 2^n
  BY <1>1, FS_SUBSET
<1>3. Cardinality(SUBSET (1..(n + 1))) = 2^(n + 1)
  BY <1>1, FS_SUBSET
<1>4. 1..(n + 1) = (1..n) \cup {n + 1} /\ n + 1 \notin 1..n
  OBVIOUS
<1> QED
  BY <1>1, <1>2, <1>3, <1>4, SubsetsDouble

LEMMA PowerPositive == ASSUME NEW n \in Nat PROVE 2^n \in Nat \ {0}
<1> DEFINE T == {k \in Nat : 2^k \in Nat \ {0}}
<1>1. 0 \in T
  BY PowerOfZero
<1>2. ASSUME NEW k \in Nat, k \in T PROVE k + 1 \in T
  BY <1>2, PowerDoubles
<1> HIDE DEF T
<1>3. n \in T
  BY <1>1, <1>2, SetInduction
<1> QED
  BY <1>3 DEF T

\* Powers grow.
LEMMA PowerMonotone == ASSUME NEW a \in Nat, NEW d \in Nat PROVE 2^a <= 2^(a + d)
<1> DEFINE T == {k \in Nat : 2^a <= 2^(a + k)}
<1>1. 0 \in T
  BY PowerPositive
<1>2. ASSUME NEW k \in Nat, k \in T PROVE k + 1 \in T
  <2>1. 2^((a + k) + 1) = 2^(a + k) + 2^(a + k)
    BY PowerDoubles
  <2>2. 2^(a + k) \in Nat /\ 2^a \in Nat /\ (a + k) + 1 = a + (k + 1)
    BY PowerPositive
  <2> QED
    BY <1>2, <2>1, <2>2
<1> HIDE DEF T
<1>3. d \in T
  BY <1>1, <1>2, SetInduction
<1> QED
  BY <1>3 DEF T

\* The base of a group of seven bits.
LEMMA PowerOfGroup == ASSUME NEW k \in Nat PROVE 2^(7 * (k + 1)) = 128 * 2^(7 * k)
<1> DEFINE e == 7 * k
<1>1. e \in Nat /\ 7 * (k + 1) = e + 7
  OBVIOUS
<1> HIDE DEF e
<1>2. 2^e \in Nat
  BY <1>1, PowerPositive
<1>3. 2^(e + 1) = 2 * 2^e
  BY <1>1, <1>2, PowerDoubles
<1>4. 2^((e + 1) + 1) = 2 * 2^(e + 1)
  BY <1>1, <1>2, <1>3, PowerDoubles
<1>5. 2^((e + 2) + 1) = 2^(e + 2) + 2^(e + 2)
  BY <1>1, PowerDoubles
<1>6. 2^((e + 3) + 1) = 2^(e + 3) + 2^(e + 3)
  BY <1>1, PowerDoubles
<1>7. 2^((e + 4) + 1) = 2^(e + 4) + 2^(e + 4)
  BY <1>1, PowerDoubles
<1>8. 2^((e + 5) + 1) = 2^(e + 5) + 2^(e + 5)
  BY <1>1, PowerDoubles
<1>9. 2^((e + 6) + 1) = 2^(e + 6) + 2^(e + 6)
  BY <1>1, PowerDoubles
<1>10. /\ (e + 1) + 1 = e + 2 /\ (e + 2) + 1 = e + 3 /\ (e + 3) + 1 = e + 4
       /\ (e + 4) + 1 = e + 5 /\ (e + 5) + 1 = e + 6 /\ (e + 6) + 1 = e + 7
  BY <1>1
<1>11. /\ 2^(e + 2) \in Nat /\ 2^(e + 3) \in Nat /\ 2^(e + 4) \in Nat /\ 2^(e + 5) \in Nat
       /\ 2^(e + 6) \in Nat /\ 2^(e + 7) \in Nat
  BY <1>1, PowerPositive
<1> QED
  BY <1>1, <1>2, <1>3, <1>4, <1>5, <1>6, <1>7, <1>8, <1>9, <1>10, <1>11 DEF e

----------------------------------------------------------------------------
(* Division.                                                                 *)

LEMMA DivisionIs ==
  ASSUME NEW b \in Nat \ {0}, NEW q \in Nat, NEW r \in Nat, r < b
  PROVE  (q * b + r) \div b = q /\ (q * b + r) % b = r
OBVIOUS

LEMMA Division ==
  ASSUME NEW a \in Nat, NEW b \in Nat \ {0}
  PROVE  a \div b \in Nat /\ a % b \in Nat /\ a % b < b /\ a = (a \div b) * b + (a % b)
OBVIOUS

\* One more group of seven bits.
LEMMA GroupStep ==
  ASSUME NEW v \in Nat, NEW p \in Nat \ {0}
  PROVE  /\ v % (128 * p) = (v % p) + ((v \div p) % 128) * p
         /\ (v % (128 * p)) % p = v % p
<1> DEFINE q == v \div p
           r == v % p
           h == q \div 128
           d == q % 128
<1>1. q \in Nat /\ r \in Nat /\ r < p /\ v = q * p + r
  BY Division
<1>2. h \in Nat /\ d \in 0..127 /\ q = h * 128 + d
  BY <1>1, Division
<1> HIDE DEF q, r, h, d
<1>3. d * p + r \in Nat /\ d * p + r < 128 * p
  <2>1. d * p <= 127 * p /\ d * p \in Nat
    BY <1>2
  <2>2. 128 * p = 127 * p + p
    OBVIOUS
  <2> QED
    BY <1>1, <2>1, <2>2
<1>4. v = h * (128 * p) + (d * p + r)
  <2>1. (h * 128 + d) * p = h * (128 * p) + d * p
    BY <1>2
  <2> QED
    BY <1>1, <1>2, <2>1
<1>5. v % (128 * p) = d * p + r
  <2> DEFINE P == 128 * p
             R == d * p + r
  <2>1. P \in Nat \ {0} /\ R \in Nat /\ R < P /\ v = h * P + R
    BY <1>3, <1>4
  <2> HIDE DEF P, R
  <2>2. v % P = R
    BY <1>2, <2>1, DivisionIs
  <2> QED
    BY <2>2 DEF P, R
<1>6. (d * p + r) % p = r
  BY <1>1, <1>2, DivisionIs
<1>7. d * p \in Nat
  BY <1>2
<1> QED
  BY <1>1, <1>5, <1>6, <1>7 DEF q, r, d

----------------------------------------------------------------------------
(* Varints.                                                                  *)
Base(k) == 2^(7 * k)
Digit(v, i) == (v \div Base(i - 1)) % 128

LEMMA BaseIs ==
  ASSUME NEW k \in Nat
  PROVE  Base(0) = 1 /\ Base(k) \in Nat \ {0} /\ Base(k + 1) = 128 * Base(k)
BY PowerOfZero, PowerPositive, PowerOfGroup DEF Base

LEMMA DigitIs ==
  ASSUME NEW v \in Nat, NEW i \in Nat \ {0}
  PROVE  Digit(v, i) \in 0..127
<1>1. Base(i - 1) \in Nat \ {0}
  BY BaseIs
<1>2. v \div Base(i - 1) \in Nat
  BY <1>1, Division
<1> QED
  BY <1>2 DEF Digit

LEMMA GroupIs == ASSUME NEW x \in Byte PROVE x \in 0..255 /\ x % 128 \in 0..127
BY DEF Byte

LEMMA MaxVarintIs ==
  MaxVarint \in 1..WordBits /\ 7 * MaxVarint >= WordBits /\ 7 * (MaxVarint - 1) < WordBits
<1> DEFINE n == (WordBits + 6) \div 7
<1>1. n \in 1..WordBits /\ 7 * n >= WordBits /\ 7 * (n - 1) < WordBits
  BY WidthAssumption DEF WidthAssumption
<1> HIDE DEF n
<1> QED
  BY <1>1 DEF MaxVarint

Word == {v \in Nat : v < 2^WordBits}

LEMMA WordWithinMax == \A v \in Word : v < Base(MaxVarint)
<1> SUFFICES ASSUME NEW v \in Word PROVE v < Base(MaxVarint)
  OBVIOUS
<1> DEFINE d == 7 * MaxVarint - WordBits
<1>1. d \in Nat /\ 7 * MaxVarint = WordBits + d /\ WordBits \in Nat
  BY MaxVarintIs, WidthAssumption DEF WidthAssumption
<1>2. 2^WordBits <= 2^(7 * MaxVarint)
  BY <1>1, PowerMonotone
<1>3. 2^WordBits \in Nat /\ 2^(7 * MaxVarint) \in Nat
  BY <1>1, MaxVarintIs, PowerPositive
<1> QED
  BY <1>2, <1>3 DEF Base, Word

\* The length of a varint is the fewest groups that hold the value.
LEMMA VarintLengthIs ==
  ASSUME NEW v \in Word
  PROVE  /\ VarintLength(v) \in 1..MaxVarint /\ v < Base(VarintLength(v))
         /\ VarintLength(v) > 1 => v >= Base(VarintLength(v) - 1)
<1> DEFINE M == {k \in Nat : v < Base(k + 1)}
<1>1. MaxVarint - 1 \in M /\ (MaxVarint - 1) + 1 = MaxVarint
  BY WordWithinMax, MaxVarintIs
<1>2. PICK k \in M : \A y \in M : k <= y
  BY <1>1, Least
<1> DEFINE n == k + 1
<1>3. n \in 1..MaxVarint /\ v < Base(n)
  BY <1>1, <1>2, MaxVarintIs
<1>4. ASSUME n > 1 PROVE v >= Base(n - 1)
  <2>1. n - 2 \in Nat /\ (n - 2) + 1 = n - 1 /\ n - 2 \notin M /\ n - 1 \in Nat
    BY <1>2, <1>4
  <2>2. Base(n - 1) \in Nat
    BY <2>1, BaseIs
  <2> QED
    BY <2>1, <2>2 DEF Word
<1> HIDE DEF n
<1> QED
  BY <1>3, <1>4 DEF VarintLength, Base

\* How many groups a value needs is at most the number of any that hold it.
LEMMA FewestGroups ==
  ASSUME NEW v \in Word, NEW n \in Nat \ {0}, v < Base(n)
  PROVE  VarintLength(v) <= n
<1> DEFINE k == VarintLength(v)
<1>1. k \in 1..MaxVarint /\ (k > 1 => v >= Base(k - 1))
  BY VarintLengthIs
<1> HIDE DEF k
<1>2. ASSUME k > n PROVE FALSE
  <2> DEFINE d == 7 * ((k - 1) - n)
  <2>1. d \in Nat /\ 7 * (k - 1) = 7 * n + d /\ k > 1
    BY <1>1, <1>2, MaxVarintIs
  <2>2. Base(n) <= Base(k - 1)
    BY <2>1, PowerMonotone DEF Base
  <2>3. Base(n) \in Nat /\ Base(k - 1) \in Nat
    BY <1>1, BaseIs, MaxVarintIs
  <2> QED
    BY <1>1, <2>1, <2>2, <2>3 DEF Word
<1> QED
  BY <1>1, <1>2, MaxVarintIs DEF k

\* The bytes of a varint: seven bits each, marked except the last.
LEMMA WriteVarintIs ==
  ASSUME NEW v \in Word
  PROVE  LET s == WriteVarint(v)
         IN  /\ s \in Seq(Byte) /\ Len(s) = VarintLength(v)
             /\ \A i \in 1..Len(s) : s[i] % 128 = Digit(v, i) /\ (s[i] < 128 <=> i = Len(s))
<1> DEFINE n == VarintLength(v)
           s == [i \in 1..n |-> Digit(v, i) + (IF i < n THEN 128 ELSE 0)]
<1>1. n \in 1..MaxVarint /\ n \in Nat
  BY VarintLengthIs, MaxVarintIs
<1>2. WriteVarint(v) = s
  BY DEF WriteVarint, Digit, Base
<1> HIDE DEF n
<1>3. \A i \in 1..n : Digit(v, i) \in 0..127
  <2> SUFFICES ASSUME NEW i \in 1..n PROVE Digit(v, i) \in 0..127
    OBVIOUS
  <2>1. v \in Nat /\ i \in Nat \ {0}
    BY <1>1 DEF Word
  <2> QED
    BY <2>1, DigitIs
<1>4. \A i \in 1..n : s[i] \in Byte /\ s[i] % 128 = Digit(v, i) /\ (s[i] < 128 <=> i = n)
  <2> SUFFICES ASSUME NEW i \in 1..n
               PROVE  s[i] \in Byte /\ s[i] % 128 = Digit(v, i) /\ (s[i] < 128 <=> i = n)
    OBVIOUS
  <2>1. PICK d \in 0..127 : d = Digit(v, i)
    BY <1>3
  <2>2. s[i] = d + (IF i < n THEN 128 ELSE 0)
    BY <2>1
  <2> HIDE DEF s
  <2> QED
    BY <1>1, <2>1, <2>2 DEF Byte
<1>5. s \in [1..n -> Byte] /\ Len(s) = n
  BY <1>1, <1>4
<1>6. s \in Seq(Byte)
  <2> HIDE DEF s
  <2> QED
    BY <1>1, <1>5
<1> QED
  BY <1>2, <1>4, <1>5, <1>6 DEF n

\* What a sequence of groups adds up to, group by group.
JoinedBy(bytes, f) ==
  /\ f[0] = 0
  /\ \A i \in 1..Len(bytes) : f[i] = f[i - 1] + (bytes[i] % 128) * Base(i - 1)
  /\ Joined(bytes) = f[Len(bytes)]

\* A recursive definition with the same start and step is the same function.
LEMMA SameIterates ==
  ASSUME NEW n \in Nat, NEW f, NEW g, f[0] = g[0],
         \A i \in 1..n : f[i - 1] = g[i - 1] => f[i] = g[i]
  PROVE  \A i \in 0..n : f[i] = g[i]
<1> DEFINE T == {k \in Nat : k <= n => f[k] = g[k]}
<1>1. 0 \in T
  OBVIOUS
<1>2. ASSUME NEW k \in Nat, k \in T PROVE k + 1 \in T
  <2> SUFFICES ASSUME k + 1 <= n PROVE f[k + 1] = g[k + 1]
    OBVIOUS
  <2>1. k + 1 \in 1..n /\ (k + 1) - 1 = k /\ f[k] = g[k]
    BY <1>2
  <2> QED
    BY <2>1
<1> HIDE DEF T
<1>3. Nat \subseteq T
  BY <1>1, <1>2, SetInduction
<1> QED
  BY <1>3 DEF T

LEMMA JoinedIs ==
  ASSUME NEW bytes \in Seq(Byte)
  PROVE  \E f \in [0..Len(bytes) -> Nat] : JoinedBy(bytes, f)
<1> DEFINE n == Len(bytes)
           step == [a \in (1..n) \X Nat |-> a[2] + (bytes[a[1]] % 128) * Base(a[1] - 1)]
<1>1. n \in Nat /\ \A i \in 1..n : bytes[i] \in Byte
  OBVIOUS
<1> HIDE DEF n
<1>2. step \in [(1..n) \X Nat -> Nat]
  <2> SUFFICES ASSUME NEW i \in 1..n, NEW y \in Nat
               PROVE  y + (bytes[i] % 128) * Base(i - 1) \in Nat
    OBVIOUS
  <2> DEFINE b == bytes[i] % 128
             p == Base(i - 1)
  <2>0. bytes[i] \in Byte /\ i - 1 \in Nat
    BY <1>1
  <2>1. b \in Nat
    <3>1. bytes[i] % 128 \in 0..127
      BY <2>0, GroupIs, ZenonT(30)
    <3>2. b \in 0..127
      BY <3>1
    <3> HIDE DEF b
    <3> QED
      BY <3>2
  <2>2. p \in Nat
    BY <2>0, BaseIs
  <2> HIDE DEF b, p
  <2>3. y + b * p \in Nat
    BY <2>1, <2>2
  <2> QED
    BY <2>3 DEF b, p
<1>3. PICK f : Iterated(f, Nat, 0, n, step)
  <2> HIDE DEF step
  <2>1. 0 \in Nat
    OBVIOUS
  <2> QED
    BY <1>1, <1>2, <2>1, Iterates
<1>4. \A i \in 1..n : f[i] = f[i - 1] + (bytes[i] % 128) * Base(i - 1)
  <2> SUFFICES ASSUME NEW i \in 1..n
               PROVE  f[i] = f[i - 1] + (bytes[i] % 128) * Base(i - 1)
    OBVIOUS
  <2>1. i - 1 \in 0..n
    BY <1>1
  <2>2. f[i] = step[<<i, f[i - 1]>>] /\ f[i - 1] \in Nat
    BY <1>3, <2>1 DEF Iterated
  <2> QED
    BY <2>2
<1> DEFINE Upto(g) == [i \in 0..n |-> IF i = 0 THEN 0
                                     ELSE g[i - 1] + (bytes[i] % 128) * 2^(7 * (i - 1))]
           h == CHOOSE g : g = Upto(g)
<1>5. f = Upto(f)
  BY <1>1, <1>3, <1>4 DEF Base, Iterated
<1>6. h = Upto(h)
  <2> HIDE DEF Upto
  <2> QED
    BY <1>5
<1>7. \A i \in 0..n : f[i] = h[i]
  <2> HIDE DEF h
  <2>1. \A i \in 0..n : h[i] = Upto(h)[i]
    BY <1>6
  <2>2. h[0] = 0 /\ \A i \in 1..n : h[i] = h[i - 1] + (bytes[i] % 128) * Base(i - 1)
    BY <1>1, <2>1 DEF Base
  <2>3. f[0] = h[0] /\ \A i \in 1..n : f[i - 1] = h[i - 1] => f[i] = h[i]
    BY <1>3, <1>4, <2>2 DEF Iterated
  <2> QED
    BY <1>1, <2>3, SameIterates, ZenonT(30)
<1>8. Joined(bytes) = h[n]
  BY DEF Joined, n
<1>9. Joined(bytes) = f[n]
  <2> HIDE DEF h
  <2> QED
    BY <1>1, <1>7, <1>8
<1> QED
  BY <1>3, <1>4, <1>9 DEF JoinedBy, n, Iterated

\* Groups that are the digits of a value add up to the value, as far as they go.
LEMMA JoinedDigits ==
  ASSUME NEW v \in Nat, NEW bytes \in Seq(Byte),
         \A i \in 1..Len(bytes) : bytes[i] % 128 = Digit(v, i)
  PROVE  Joined(bytes) = v % Base(Len(bytes))
<1>1. PICK f \in [0..Len(bytes) -> Nat] : JoinedBy(bytes, f)
  BY JoinedIs
<1> DEFINE n == Len(bytes)
           T == {k \in Nat : k <= n => f[k] = v % Base(k)}
<1>2. n \in Nat
  OBVIOUS
<1>3. 0 \in T
  <2>1. f[0] = 0 /\ Base(0) = 1
    BY <1>1, BaseIs DEF JoinedBy
  <2>2. v % 1 = 0
    OBVIOUS
  <2> QED
    BY <2>1, <2>2
<1>4. ASSUME NEW k \in Nat, k \in T PROVE k + 1 \in T
  <2> SUFFICES ASSUME k + 1 <= n PROVE f[k + 1] = v % Base(k + 1)
    OBVIOUS
  <2>1. k + 1 \in 1..n /\ (k + 1) - 1 = k /\ f[k] = v % Base(k)
    BY <1>2, <1>4
  <2>2. f[k + 1] = f[k] + Digit(v, k + 1) * Base(k)
    BY <1>1, <2>1 DEF JoinedBy
  <2>3. Base(k) \in Nat \ {0} /\ Base(k + 1) = 128 * Base(k)
    BY BaseIs
  <2>4. v % (128 * Base(k)) = (v % Base(k)) + ((v \div Base(k)) % 128) * Base(k)
    BY <2>3, GroupStep, ZenonT(30)
  <2> QED
    BY <2>1, <2>2, <2>3, <2>4 DEF Digit
<1>5. n \in T
  <2> HIDE DEF T
  <2> QED
    BY <1>2, <1>3, <1>4, SetInduction
<1> QED
  BY <1>1, <1>2, <1>5 DEF JoinedBy

\* The groups of a sum are its digits, and it needs no more of them.
LEMMA DigitsOfJoined ==
  ASSUME NEW bytes \in Seq(Byte)
  PROVE  /\ Joined(bytes) \in Nat /\ Joined(bytes) < Base(Len(bytes))
         /\ \A i \in 1..Len(bytes) : bytes[i] % 128 = Digit(Joined(bytes), i)
<1>1. PICK f \in [0..Len(bytes) -> Nat] : JoinedBy(bytes, f)
  BY JoinedIs
<1> DEFINE n == Len(bytes)
           v == f[n]
           Below == {k \in Nat : k <= n => f[k] < Base(k)}
           Later == {k \in Nat : k <= n => f[n - k] = v % Base(n - k)}
<1>2. n \in Nat /\ v \in Nat /\ Joined(bytes) = v
  BY <1>1 DEF JoinedBy
<1>3. ASSUME NEW k \in 0..(n - 1)
      PROVE  /\ k + 1 \in 1..n /\ f[k] \in Nat /\ f[k + 1] \in Nat
             /\ bytes[k + 1] % 128 \in 0..127
             /\ Base(k) \in Nat \ {0} /\ Base(k + 1) = 128 * Base(k)
             /\ f[k + 1] = (bytes[k + 1] % 128) * Base(k) + f[k]
  <2>1. k + 1 \in 1..n /\ k \in 0..n /\ k + 1 \in 0..n /\ (k + 1) - 1 = k
    BY <1>2
  <2>2. f[k] \in Nat /\ f[k + 1] \in Nat
    BY <2>1
  <2>3. bytes[k + 1] \in Byte /\ k \in Nat
    BY <1>2, <2>1
  <2>4. Base(k) \in Nat \ {0} /\ Base(k + 1) = 128 * Base(k)
    BY <2>3, BaseIs
  <2>5. f[k + 1] = f[k] + (bytes[k + 1] % 128) * Base(k)
    BY <1>1, <2>1 DEF JoinedBy
  <2>6. bytes[k + 1] % 128 \in 0..127
    BY <2>3, GroupIs, ZenonT(30)
  <2> DEFINE d == bytes[k + 1] % 128
             p == Base(k)
  <2>7. f[k + 1] = d * p + f[k]
    <3> HIDE DEF d, p
    <3>1. d \in 0..127 /\ p \in Nat \ {0} /\ f[k + 1] = f[k] + d * p
      BY <2>4, <2>5, <2>6 DEF d, p
    <3>2. d * p \in Nat
      BY <3>1
    <3> QED
      BY <2>2, <3>1, <3>2
  <2> QED
    BY <2>1, <2>2, <2>4, <2>6, <2>7
<1>4. Nat \subseteq Below
  <2>1. 0 \in Below
    BY <1>1, BaseIs DEF JoinedBy
  <2>2. ASSUME NEW k \in Nat, k \in Below PROVE k + 1 \in Below
    <3> SUFFICES ASSUME k + 1 <= n PROVE f[k + 1] < Base(k + 1)
      OBVIOUS
    <3>1. k \in 0..(n - 1) /\ f[k] < Base(k)
      BY <1>2, <2>2
    <3>2. PICK d \in 0..127, p \in Nat \ {0}, y \in Nat :
             d = bytes[k + 1] % 128 /\ p = Base(k) /\ y = f[k]
      BY <1>3, <3>1
    <3>3. d * p <= 127 * p /\ d * p \in Nat /\ 128 * p = 127 * p + p
      OBVIOUS
    <3>4. d * p + y < 128 * p
      BY <3>1, <3>2, <3>3, SMTT(30)
    <3> QED
      BY <1>3, <3>1, <3>2, <3>4
  <2> HIDE DEF Below
  <2> QED
    BY <2>1, <2>2, SetInduction
<1>5. v < Base(n)
  BY <1>2, <1>4
<1>6. Nat \subseteq Later
  <2>1. 0 \in Later
    <3>1. v % Base(n) = v
      <4>1. PICK p \in Nat \ {0} : p = Base(n)
        BY <1>2, BaseIs
      <4>2. v < p
        BY <1>5, <4>1
      <4> HIDE DEF v
      <4>3. v % p = v
        BY <1>2, <4>2
      <4> QED
        BY <4>1, <4>3
    <3> QED
      BY <1>2, <3>1
  <2>2. ASSUME NEW k \in Nat, k \in Later PROVE k + 1 \in Later
    <3> SUFFICES ASSUME k + 1 <= n PROVE f[n - (k + 1)] = v % Base(n - (k + 1))
      OBVIOUS
    <3> DEFINE m == n - (k + 1)
    <3>1. m \in 0..(n - 1) /\ n - k = m + 1 /\ m \in Nat
      BY <1>2
    <3>2. f[m + 1] = v % Base(m + 1)
      BY <2>2, <3>1
    <3> HIDE DEF m
    <3>3. PICK d \in 0..127, p \in Nat \ {0}, y \in Nat :
             d = bytes[m + 1] % 128 /\ p = Base(m) /\ y = f[m] /\ Base(m + 1) = 128 * p
      BY <1>3, <3>1, ZenonT(30)
    <3>4. f[m + 1] = d * p + y /\ y < p
      BY <1>3, <1>4, <3>1, <3>3
    <3>5. (v % (128 * p)) % p = v % p
      BY <1>2, GroupStep, ZenonT(30)
    <3>6. (d * p + y) % p = y
      <4>1. d \in Nat /\ y < p
        BY <3>4
      <4> QED
        BY <4>1, DivisionIs
    <3> QED
      BY <3>2, <3>3, <3>4, <3>5, <3>6 DEF m
  <2> HIDE DEF Later
  <2> QED
    BY <2>1, <2>2, SetInduction
<1>7. \A k \in 0..n : f[k] = v % Base(k)
  <2> SUFFICES ASSUME NEW k \in 0..n PROVE f[k] = v % Base(k)
    OBVIOUS
  <2>1. n - k \in Nat /\ n - k <= n /\ n - (n - k) = k
    BY <1>2
  <2>2. n - k \in Later
    BY <1>6, <2>1
  <2> QED
    BY <2>1, <2>2
<1>8. ASSUME NEW i \in 1..n PROVE bytes[i] % 128 = Digit(v, i)
  <2> DEFINE k == i - 1
  <2>1. k \in 0..(n - 1) /\ k + 1 = i /\ k \in 0..n /\ i \in 0..n
    BY <1>2
  <2> HIDE DEF k
  <2>2. PICK d \in 0..127, p \in Nat \ {0}, y \in Nat, e \in 0..127 :
           /\ d = bytes[i] % 128 /\ p = Base(k) /\ y = f[k] /\ Base(i) = 128 * p
           /\ e = (v \div p) % 128
    <3>1. PICK p \in Nat \ {0} : p = Base(k) /\ Base(i) = 128 * p
      BY <1>3, <2>1
    <3>2. v \div p \in Nat
      BY <1>2, Division
    <3>3. (v \div p) % 128 \in 0..127
      <4>1. PICK q \in Nat : q = v \div p
        BY <3>2
      <4>2. q % 128 \in 0..127
        OBVIOUS
      <4> QED
        BY <4>1, <4>2
    <3> QED
      BY <1>3, <2>1, <3>1, <3>3, ZenonT(30)
  <2>3. d * p + y = y + e * p
    <3>1. f[i] = d * p + y
      BY <1>3, <2>1, <2>2
    <3>2. f[i] = v % (128 * p) /\ y = v % p
      BY <1>7, <2>1, <2>2
    <3>3. v % (128 * p) = (v % p) + e * p
      <4> HIDE DEF v
      <4>1. v % (128 * p) = (v % p) + ((v \div p) % 128) * p
        BY <1>2, GroupStep, ZenonT(30)
      <4> QED
        BY <2>2, <4>1
    <3> QED
      BY <3>1, <3>2, <3>3
  <2>4. d = e
    <3>1. d * p \in Nat /\ e * p \in Nat /\ d * p = e * p
      BY <2>3
    <3>2. (d * p) \div p = d /\ (e * p) \div p = e
      BY DivisionIs
    <3> QED
      BY <3>1, <3>2
  <2> QED
    BY <2>1, <2>2, <2>4 DEF Digit, k
<1> QED
  BY <1>2, <1>5, <1>8

----------------------------------------------------------------------------
(* Reading what was written.                                                 *)

\* The bytes of s are those of a buffer from a position on.
At(buf, at, s) ==
  at + Len(s) <= Len(buf) /\ \A i \in 1..Len(s) : buf[at + i] = s[i]

Errors == {"Truncated", "MalformedVarint", "UnsupportedWireType", "ZeroFieldNumber"}

LEMMA MinIs ==
  ASSUME NEW S \in SUBSET Nat, S # {}
  PROVE  Min(S) \in S /\ \A y \in S : Min(S) <= y
BY Least DEF Min

\* The first n bytes after at are a varint.
Ends(buf, at) == {n \in 1..MaxVarint : at + n <= Len(buf) /\ buf[at + n] < 128}
VarintOf(buf, at, n) ==
  /\ n \in 1..MaxVarint /\ at + n <= Len(buf) /\ buf[at + n] < 128
  /\ \A i \in 1..(n - 1) : ~(buf[at + i] < 128)

LEMMA ReadVarintIs ==
  ASSUME NEW buf \in Seq(Byte), NEW at \in Nat
  PROVE  \/ ReadVarint(buf, at).ok = FALSE /\ ReadVarint(buf, at).error \in Errors
         \/ \E n \in Nat : /\ VarintOf(buf, at, n)
                           /\ ReadVarint(buf, at) =
                                Ok(Joined(SubSeq(buf, at + 1, at + n)) % 2^WordBits, at + n)
<1> DEFINE ends == Ends(buf, at)
<1>1. ends \in SUBSET Nat
  BY MaxVarintIs DEF Ends
<1>2. CASE ends # {}
  <2> DEFINE n == Min(ends)
  <2>1. n \in ends /\ \A y \in ends : n <= y
    BY <1>1, <1>2, MinIs
  <2>2. ReadVarint(buf, at) = Ok(Joined(SubSeq(buf, at + 1, at + n)) % 2^WordBits, at + n)
    BY <1>2 DEF ReadVarint, Ends
  <2> HIDE DEF n
  <2>3. n \in Nat /\ VarintOf(buf, at, n)
    <3>1. n \in 1..MaxVarint /\ at + n <= Len(buf) /\ buf[at + n] < 128
      BY <2>1 DEF Ends
    <3>2. ASSUME NEW i \in 1..(n - 1), buf[at + i] < 128 PROVE FALSE
      <4>1. i \in 1..MaxVarint /\ at + i <= Len(buf) /\ i < n
        BY <3>1, MaxVarintIs
      <4>2. i \in ends
        BY <3>2, <4>1 DEF Ends
      <4> QED
        BY <2>1, <3>1, <4>1, <4>2, MaxVarintIs
    <3> QED
      BY <3>1, <3>2, MaxVarintIs DEF VarintOf
  <2> QED
    BY <2>2, <2>3
<1>3. CASE ends = {}
  BY <1>3 DEF ReadVarint, Ends, Failed, Errors
<1> QED
  BY <1>2, <1>3

\* There is one varint at a position.
LEMMA OneVarint ==
  ASSUME NEW buf \in Seq(Byte), NEW at \in Nat, NEW n \in Nat, NEW k \in Nat,
         VarintOf(buf, at, n), VarintOf(buf, at, k)
  PROVE  n = k
<1>1. ASSUME n < k PROVE FALSE
  <2>1. n \in 1..(k - 1)
    BY <1>1, MaxVarintIs DEF VarintOf
  <2> QED
    BY <2>1 DEF VarintOf
<1>2. ASSUME k < n PROVE FALSE
  <2>1. k \in 1..(n - 1)
    BY <1>2, MaxVarintIs DEF VarintOf
  <2> QED
    BY <2>1 DEF VarintOf
<1> QED
  BY <1>1, <1>2

LEMMA SubSeqAt ==
  ASSUME NEW buf \in Seq(Byte), NEW at \in Nat, NEW n \in Nat, at + n <= Len(buf)
  PROVE  LET s == SubSeq(buf, at + 1, at + n)
         IN  s \in Seq(Byte) /\ Len(s) = n /\ \A i \in 1..n : s[i] = buf[at + i]
<1> DEFINE m == at + 1
           k == at + n
           s == SubSeq(buf, m, k)
<1>1. m \in 1..(Len(buf) + 1) /\ k \in (m - 1)..Len(buf) /\ k - m + 1 = n
  OBVIOUS
<1>2. s \in Seq(Byte)
  <2>1. \A i \in m..k : buf[i] \in Byte
    BY <1>1
  <2> HIDE DEF m, k
  <2> QED
    BY <1>1, <2>1
<1>3. Len(s) = n /\ \A i \in 1..n : s[i] = buf[m + i - 1]
  <2> HIDE DEF m, k
  <2> QED
    BY <1>1
<1>4. \A i \in 1..n : m + i - 1 = at + i
  OBVIOUS
<1> QED
  BY <1>2, <1>3, <1>4

\* Sequences with the same elements are the same.
LEMMA SameSeq ==
  ASSUME NEW s \in Seq(Byte), NEW t \in Seq(Byte), Len(s) = Len(t),
         \A i \in 1..Len(s) : s[i] = t[i]
  PROVE  s = t
OBVIOUS

\* The bytes of a varint are read back as its value, of which no bit is lost.
LEMMA ReadsVarint ==
  ASSUME NEW buf \in Seq(Byte), NEW at \in Nat, NEW v \in Word,
         At(buf, at, WriteVarint(v))
  PROVE  /\ ReadVarint(buf, at) = Ok(v, at + Len(WriteVarint(v)))
         /\ ~Overflows(buf, at)
<1> DEFINE s == WriteVarint(v)
           n == Len(s)
<1>1. /\ s \in Seq(Byte) /\ n \in 1..MaxVarint /\ v < Base(n)
      /\ \A i \in 1..n : s[i] % 128 = Digit(v, i) /\ (s[i] < 128 <=> i = n)
  BY WriteVarintIs, VarintLengthIs
<1>2. n \in Nat /\ at + n <= Len(buf) /\ \A i \in 1..n : buf[at + i] = s[i]
  BY <1>1 DEF At
<1> HIDE DEF s
<1>3. VarintOf(buf, at, n)
  <2>1. \A i \in 1..(n - 1) : i \in 1..n /\ i # n
    BY <1>2
  <2>2. n \in 1..n
    BY <1>1, MaxVarintIs
  <2> HIDE DEF n
  <2> QED
    BY <1>1, <1>2, <2>1, <2>2 DEF VarintOf
<1>4. SubSeq(buf, at + 1, at + n) = s
  <2> DEFINE t == SubSeq(buf, at + 1, at + n)
  <2>1. t \in Seq(Byte) /\ Len(t) = n /\ \A i \in 1..n : t[i] = buf[at + i]
    BY <1>2, SubSeqAt
  <2> HIDE DEF t
  <2>2. t = s
    BY <1>1, <1>2, <2>1, SameSeq
  <2> QED
    BY <2>2 DEF t
<1>5. Joined(s) = v
  <2>1. Joined(s) = v % Base(n) /\ v \in Nat
    BY <1>1, JoinedDigits DEF Word
  <2>2. PICK p \in Nat \ {0} : p = Base(n)
    BY <1>2, BaseIs
  <2>3. v < p
    BY <1>1, <2>2
  <2>4. v % p = v
    BY <2>1, <2>3
  <2> QED
    BY <2>1, <2>2, <2>4
<1>6. v % 2^WordBits = v
  <2>1. 2^WordBits \in Nat \ {0}
    BY PowerPositive, WidthAssumption DEF WidthAssumption
  <2> QED
    BY <2>1 DEF Word
<1>7. \E k \in Nat :
          /\ VarintOf(buf, at, k)
          /\ ReadVarint(buf, at) = Ok(Joined(SubSeq(buf, at + 1, at + k)) % 2^WordBits, at + k)
  <2>1. Ends(buf, at) # {}
    BY <1>3 DEF VarintOf, Ends
  <2>2. ReadVarint(buf, at).ok = TRUE
    BY <2>1 DEF ReadVarint, Ends, Ok
  <2> QED
    BY <2>2, ReadVarintIs
<1>8. ReadVarint(buf, at) = Ok(v, at + n)
  BY <1>2, <1>3, <1>4, <1>5, <1>6, <1>7, OneVarint DEF s
<1>9. ~Overflows(buf, at)
  <2>1. v < 2^WordBits /\ v \in Nat /\ 2^WordBits \in Nat
    BY PowerPositive, WidthAssumption DEF Word, WidthAssumption
  <2>2. ReadVarint(buf, at).next = at + n
    BY <1>8 DEF Ok
  <2>3. Joined(SubSeq(buf, at + 1, ReadVarint(buf, at).next)) = v
    BY <1>4, <1>5, <2>2
  <2> QED
    BY <2>1, <2>3 DEF Overflows
<1> QED
  BY <1>8, <1>9 DEF s

\* The numbers and tags of the wrappers fit their words.
LEMMA Small == /\ 2^U32Bits \in Nat /\ 2^U32Bits >= 32 /\ 2^WordBits \in Nat /\ 2^WordBits >= 256
               /\ 2^U32Bits <= 2^WordBits
<1>1. 2^1 = 2 /\ 2^2 = 4 /\ 2^3 = 8 /\ 2^4 = 16 /\ 2^5 = 32
  <2>1. 2^(0 + 1) = 2^0 + 2^0 /\ 2^(1 + 1) = 2^1 + 2^1 /\ 2^(2 + 1) = 2^2 + 2^2
    BY PowerDoubles
  <2>2. 2^(3 + 1) = 2^3 + 2^3 /\ 2^(4 + 1) = 2^4 + 2^4
    BY PowerDoubles
  <2>3. 0 + 1 = 1 /\ 1 + 1 = 2 /\ 2 + 1 = 3 /\ 3 + 1 = 4 /\ 4 + 1 = 5
    OBVIOUS
  <2> QED
    BY <2>1, <2>2, <2>3, PowerOfZero
<1>2. 2^6 = 64 /\ 2^7 = 128 /\ 2^8 = 256
  <2>1. 2^(5 + 1) = 2^5 + 2^5 /\ 2^(6 + 1) = 2^6 + 2^6 /\ 2^(7 + 1) = 2^7 + 2^7
    BY PowerDoubles
  <2>2. 5 + 1 = 6 /\ 6 + 1 = 7 /\ 7 + 1 = 8
    OBVIOUS
  <2> QED
    BY <1>1, <2>1, <2>2
<1>3. /\ U32Bits - 5 \in Nat /\ WordBits - 8 \in Nat /\ WordBits - U32Bits \in Nat
      /\ 5 + (U32Bits - 5) = U32Bits /\ 8 + (WordBits - 8) = WordBits
      /\ U32Bits + (WordBits - U32Bits) = WordBits /\ U32Bits \in Nat /\ WordBits \in Nat
  BY WidthAssumption DEF WidthAssumption
<1>4. 2^5 <= 2^U32Bits
  BY <1>3, PowerMonotone
<1>5. 2^8 <= 2^WordBits
  BY <1>3, PowerMonotone
<1>6. 2^U32Bits <= 2^WordBits
  BY <1>3, PowerMonotone
<1>7. 2^U32Bits \in Nat /\ 2^WordBits \in Nat
  BY <1>3, PowerPositive
<1> QED
  BY <1>1, <1>2, <1>4, <1>5, <1>6, <1>7

LEMMA AtConcat ==
  ASSUME NEW buf \in Seq(Byte), NEW at \in Nat, NEW s \in Seq(Byte), NEW t \in Seq(Byte)
  PROVE  At(buf, at, s \o t) <=> At(buf, at, s) /\ At(buf, at + Len(s), t)
<1> DEFINE c == s \o t
           k == Len(s)
           n == Len(t)
<1>1. /\ Len(c) = k + n /\ k \in Nat /\ n \in Nat /\ Len(buf) \in Nat
      /\ \A i \in 1..k : c[i] = s[i]
      /\ \A i \in 1..n : c[k + i] = t[i]
  OBVIOUS
<1> HIDE DEF c, k, n
<1>2. ASSUME at + (k + n) <= Len(buf) /\ \A i \in 1..(k + n) : buf[at + i] = c[i]
      PROVE  /\ at + k <= Len(buf) /\ \A i \in 1..k : buf[at + i] = s[i]
             /\ (at + k) + n <= Len(buf) /\ \A i \in 1..n : buf[(at + k) + i] = t[i]
  <2>1. \A i \in 1..k : i \in 1..(k + n)
    BY <1>1
  <2>2. ASSUME NEW i \in 1..n PROVE buf[(at + k) + i] = t[i]
    <3>1. k + i \in 1..(k + n) /\ (at + k) + i = at + (k + i)
      BY <1>1
    <3> QED
      BY <1>1, <1>2, <3>1
  <2> QED
    BY <1>1, <1>2, <2>1, <2>2
<1>3. ASSUME /\ at + k <= Len(buf) /\ \A i \in 1..k : buf[at + i] = s[i]
             /\ (at + k) + n <= Len(buf) /\ \A i \in 1..n : buf[(at + k) + i] = t[i]
      PROVE  at + (k + n) <= Len(buf) /\ \A i \in 1..(k + n) : buf[at + i] = c[i]
  <2>1. ASSUME NEW i \in 1..(k + n), i > k PROVE buf[at + i] = c[i]
    <3>1. i - k \in 1..n /\ (at + k) + (i - k) = at + i /\ k + (i - k) = i
      BY <1>1, <2>1
    <3> QED
      BY <1>1, <1>3, <3>1
  <2>2. ASSUME NEW i \in 1..(k + n), ~(i > k) PROVE buf[at + i] = c[i]
    <3>1. i \in 1..k
      BY <1>1, <2>2
    <3> QED
      BY <1>1, <1>3, <3>1
  <2> QED
    BY <1>1, <1>3, <2>1, <2>2
<1>4. At(buf, at, c) <=> at + (k + n) <= Len(buf) /\ \A i \in 1..(k + n) : buf[at + i] = c[i]
  BY <1>1 DEF At
<1>5. At(buf, at, s) <=> at + k <= Len(buf) /\ \A i \in 1..k : buf[at + i] = s[i]
  BY DEF At, k
<1>6. At(buf, at + k, t) <=> (at + k) + n <= Len(buf) /\ \A i \in 1..n : buf[(at + k) + i] = t[i]
  BY DEF At, n
<1>7. At(buf, at, c) <=> At(buf, at, s) /\ At(buf, at + k, t)
  BY <1>2, <1>3, <1>4, <1>5, <1>6
<1> QED
  BY <1>7 DEF c, k

\* A field a wrapper may write.
Writable(number, wireType, value) ==
  /\ number \in 1..31 /\ wireType \in {VARINT, LEN, FIXED32}
  /\ wireType = VARINT => value \in Word
  /\ wireType = LEN => value \in Seq(Byte) /\ Len(value) \in Word
  /\ wireType = FIXED32 => value \in Seq(Byte) /\ Len(value) = 4

Body(wireType, value) == CASE wireType = VARINT -> WriteVarint(value)
                           [] wireType = LEN -> WriteVarint(Len(value)) \o value
                           [] OTHER -> value

LEMMA WriteFieldIs ==
  ASSUME NEW number, NEW wireType, NEW value, Writable(number, wireType, value)
  PROVE  /\ 8 * number + wireType \in Word
         /\ WriteVarint(8 * number + wireType) \in Seq(Byte)
         /\ Body(wireType, value) \in Seq(Byte)
         /\ WriteField(Field(number, wireType, value)) =
              WriteVarint(8 * number + wireType) \o Body(wireType, value)
         /\ WriteField(Field(number, wireType, value)) \in Seq(Byte)
<1>1. 8 * number + wireType \in Word
  BY Small DEF Word, Writable, VARINT, LEN, FIXED32
<1>2. WriteVarint(8 * number + wireType) \in Seq(Byte)
  BY <1>1, WriteVarintIs
<1>3. Body(wireType, value) \in Seq(Byte)
  <2>1. CASE wireType = VARINT
    BY <2>1, WriteVarintIs DEF Writable, Body
  <2>2. CASE wireType = LEN
    <3>1. WriteVarint(Len(value)) \in Seq(Byte) /\ value \in Seq(Byte)
      BY <2>2, WriteVarintIs DEF Writable
    <3>2. Body(wireType, value) = WriteVarint(Len(value)) \o value
      BY <2>2 DEF Body, VARINT, LEN
    <3> QED
      BY <3>1, <3>2
  <2>3. CASE wireType = FIXED32
    BY <2>3 DEF Writable, Body, VARINT, LEN, FIXED32
  <2> QED
    BY <2>1, <2>2, <2>3 DEF Writable
<1>4. WriteField(Field(number, wireType, value)) =
        WriteVarint(8 * number + wireType) \o Body(wireType, value)
  BY DEF WriteField, Field, Body
<1> QED
  BY <1>1, <1>2, <1>3, <1>4

\* The bytes of a field are read back as the field.
LEMMA ReadsField ==
  ASSUME NEW buf \in Seq(Byte), NEW at \in Nat,
         NEW number, NEW wireType, NEW value, Writable(number, wireType, value),
         At(buf, at, WriteField(Field(number, wireType, value)))
  PROVE  /\ NextField(buf, at) =
              Ok(Field(number, wireType, value),
                 at + Len(WriteField(Field(number, wireType, value))))
         /\ ~OverflowsIn(buf, at)
<1> DEFINE tag == 8 * number + wireType
           s == WriteVarint(tag)
           t == Body(wireType, value)
           next == at + Len(s)
           end == next + Len(t)
<1>1. /\ tag \in Word /\ s \in Seq(Byte) /\ t \in Seq(Byte)
      /\ WriteField(Field(number, wireType, value)) = s \o t
  BY WriteFieldIs
<1>2. At(buf, at, s) /\ At(buf, next, t) /\ next \in Nat
  BY <1>1, AtConcat
<1>3. ReadVarint(buf, at) = Ok(tag, next) /\ ~Overflows(buf, at)
  BY <1>1, <1>2, ReadsVarint
<1>4. number = tag \div 8 /\ wireType = tag % 8 /\ number \in 1..(2^U32Bits - 1)
  <2>1. number \in 1..31 /\ wireType \in {0, 2, 5}
    BY DEF Writable, VARINT, LEN, FIXED32
  <2>2. PICK k \in 1..31 : k = number
    BY <2>1
  <2>3. PICK w \in {0, 2, 5} : w = wireType
    BY <2>1
  <2>4. k = (8 * k + w) \div 8 /\ w = (8 * k + w) % 8
    OBVIOUS
  <2>5. 2^U32Bits \in Nat /\ 2^U32Bits >= 32
    BY Small
  <2>6. number \in 1..(2^U32Bits - 1)
    BY <2>2, <2>5
  <2> QED
    BY <2>2, <2>3, <2>4, <2>6
<1>5. end = at + Len(s \o t)
  BY <1>1
<1>6. ReadValue(wireType, buf, next) = Ok(value, end)
  <2>1. CASE wireType = VARINT
    <3>1. t = WriteVarint(value) /\ value \in Word
      BY <2>1 DEF Body, Writable, VARINT, LEN
    <3>2. ReadVarint(buf, next) = Ok(value, end)
      <4> HIDE DEF next, t
      <4>1. At(buf, next, WriteVarint(value))
        BY <1>2, <3>1
      <4>2. ReadVarint(buf, next) = Ok(value, next + Len(WriteVarint(value)))
        BY <1>2, <3>1, <4>1, ReadsVarint
      <4> QED
        BY <3>1, <4>2
    <3> QED
      BY <2>1, <3>2 DEF ReadValue, VARINT, LEN, FIXED32, FIXED64
  <2>2. CASE wireType = LEN
    <3> DEFINE l == WriteVarint(Len(value))
               from == next + Len(l)
    <3>1. t = l \o value /\ value \in Seq(Byte) /\ Len(value) \in Word
      BY <2>2 DEF Body, Writable, VARINT, LEN
    <3>2. l \in Seq(Byte)
      BY <3>1, WriteVarintIs
    <3> HIDE DEF t, next, l
    <3>3. At(buf, next, l) /\ At(buf, from, value) /\ from \in Nat
      BY <1>2, <3>1, <3>2, AtConcat
    <3>4. ReadVarint(buf, next) = Ok(Len(value), from)
      BY <1>2, <3>1, <3>3, ReadsVarint DEF l
    <3>5. end = from + Len(value)
      BY <1>2, <3>1, <3>2
    <3>6. Take(buf, from, Len(value)) = Ok(value, end)
      <4>1. from + Len(value) <= Len(buf) /\ \A i \in 1..Len(value) : buf[from + i] = value[i]
        BY <3>3 DEF At
      <4> DEFINE u == SubSeq(buf, from + 1, from + Len(value))
      <4> HIDE DEF from
      <4>2. u \in Seq(Byte) /\ Len(u) = Len(value) /\ \A i \in 1..Len(value) : u[i] = buf[from + i]
        BY <3>1, <3>3, <4>1, SubSeqAt
      <4> HIDE DEF u
      <4>3. u = value
        BY <3>1, <4>1, <4>2, SameSeq
      <4> QED
        BY <3>5, <4>1, <4>3 DEF Take, u
    <3> QED
      BY <2>2, <3>4, <3>6 DEF ReadValue, Ok, VARINT, LEN, FIXED32, FIXED64
  <2>3. CASE wireType = FIXED32
    <3>1. t = value /\ value \in Seq(Byte) /\ Len(value) = 4
      BY <2>3 DEF Body, Writable, VARINT, LEN, FIXED32
    <3> HIDE DEF t, next
    <3>2. next + 4 <= Len(buf) /\ \A i \in 1..4 : buf[next + i] = value[i]
      BY <1>2, <3>1 DEF At
    <3> DEFINE u == SubSeq(buf, next + 1, next + 4)
    <3>3. u \in Seq(Byte) /\ Len(u) = 4 /\ \A i \in 1..4 : u[i] = buf[next + i]
      BY <1>2, <3>2, SubSeqAt
    <3> HIDE DEF u
    <3>4. u = value
      BY <3>1, <3>2, <3>3, SameSeq
    <3>5. Take(buf, next, 4) = Ok(value, end)
      BY <3>1, <3>2, <3>4 DEF Take, u
    <3> QED
      BY <2>3, <3>5 DEF ReadValue, VARINT, LEN, FIXED32, FIXED64
  <2> QED
    BY <2>1, <2>2, <2>3 DEF Writable
<1>7. ASSUME wireType \in {VARINT, LEN} PROVE ~Overflows(buf, next)
  <2>1. CASE wireType = VARINT
    <3>1. t = WriteVarint(value) /\ value \in Word
      BY <2>1 DEF Body, Writable, VARINT, LEN
    <3> HIDE DEF next, t
    <3> QED
      BY <1>2, <3>1, ReadsVarint
  <2>2. CASE wireType = LEN
    <3> DEFINE l == WriteVarint(Len(value))
    <3>1. t = l \o value /\ value \in Seq(Byte) /\ Len(value) \in Word
      BY <2>2 DEF Body, Writable, VARINT, LEN
    <3>2. l \in Seq(Byte)
      BY <3>1, WriteVarintIs
    <3> HIDE DEF t, next, l
    <3>3. At(buf, next, l)
      BY <1>2, <3>1, <3>2, AtConcat
    <3> QED
      BY <1>2, <3>1, <3>3, ReadsVarint DEF l
  <2> QED
    BY <1>7, <2>1, <2>2
<1> DEFINE r == ReadVarint(buf, at)
           w == ReadValue(r.value % 8, buf, r.next)
<1> HIDE DEF tag, s, t, next, end
<1>8. r.ok = TRUE /\ r.value = tag /\ r.next = next
  BY <1>3 DEF Ok
<1>9. w.ok = TRUE /\ w.value = value /\ w.next = end
  BY <1>4, <1>6, <1>8 DEF Ok
<1>10. NextField(buf, at) = Ok(Field(r.value \div 8, r.value % 8, w.value), w.next)
  <2>1. r.value \div 8 \in 1..(2^U32Bits - 1)
    BY <1>4, <1>8
  <2> QED
    BY <1>8, <1>9, <2>1 DEF NextField
<1>11. ~OverflowsIn(buf, at)
  <2>1. r.value % 8 = wireType
    BY <1>4, <1>8
  <2> QED
    BY <1>3, <1>7, <1>8, <2>1 DEF OverflowsIn, r
<1> HIDE DEF r, w
<1> QED
  BY <1>1, <1>4, <1>5, <1>8, <1>9, <1>10, <1>11

\* What a field holds, by its wire type.
Held(wireType, value) ==
  \/ wireType = VARINT /\ value \in Word
  \/ wireType = FIXED64 /\ value \in Seq(Byte) /\ Len(value) = 8
  \/ wireType = FIXED32 /\ value \in Seq(Byte) /\ Len(value) = 4
  \/ wireType = LEN /\ value \in Seq(Byte) /\ Len(value) \in Word

ReadAs(buf, at, number, wireType, value, next, n) ==
  /\ number \in Nat \ {0} /\ Held(wireType, value)
  /\ n \in Nat /\ VarintOf(buf, at, n)
  /\ ReadVarint(buf, at) = Ok(8 * number + wireType, at + n)
  /\ ReadValue(wireType, buf, at + n) = Ok(value, next)
  /\ next \in Nat /\ at + n <= next /\ next <= Len(buf)
  /\ NextField(buf, at) = Ok(Field(number, wireType, value), next)

Refused(r) == r.ok = FALSE /\ r.error \in Errors
Taken(buf, at, wireType, r) ==
  \E value, next : /\ r = Ok(value, next) /\ Held(wireType, value)
                   /\ next \in Nat /\ at <= next /\ next <= Len(buf)

LEMMA VarintRefused ==
  ASSUME NEW buf \in Seq(Byte), NEW at \in Nat, ~ReadVarint(buf, at).ok
  PROVE  Refused(ReadVarint(buf, at))
<1>1. ASSUME NEW v, NEW next, ReadVarint(buf, at) = Ok(v, next) PROVE FALSE
  BY <1>1 DEF Ok
<1> QED
  <2>1. ASSUME NEW n \in Nat,
               ReadVarint(buf, at) =
                 Ok(Joined(SubSeq(buf, at + 1, at + n)) % 2^WordBits, at + n)
        PROVE  FALSE
    BY <1>1, <2>1
  <2>2. ReadVarint(buf, at).ok = FALSE /\ ReadVarint(buf, at).error \in Errors
    BY <2>1, ReadVarintIs
  <2> QED
    BY <2>2 DEF Refused

LEMMA VarintValue ==
  ASSUME NEW buf \in Seq(Byte), NEW at \in Nat, ReadVarint(buf, at).ok
  PROVE  \E n \in Nat, v \in Word :
            VarintOf(buf, at, n) /\ ReadVarint(buf, at) = Ok(v, at + n)
<1>1. PICK n \in Nat :
         /\ VarintOf(buf, at, n)
         /\ ReadVarint(buf, at) = Ok(Joined(SubSeq(buf, at + 1, at + n)) % 2^WordBits, at + n)
  BY ReadVarintIs
<1> DEFINE s == SubSeq(buf, at + 1, at + n)
<1>2. s \in Seq(Byte)
  BY <1>1, SubSeqAt DEF VarintOf
<1>3. PICK j \in Nat, w \in Nat \ {0} : j = Joined(s) /\ w = 2^WordBits
  BY <1>2, DigitsOfJoined, PowerPositive, WidthAssumption DEF WidthAssumption
<1>4. j % w \in Nat /\ j % w < w
  BY Division
<1> HIDE DEF s
<1>5. Joined(s) % 2^WordBits \in Word
  BY <1>3, <1>4 DEF Word
<1> QED
  BY <1>1, <1>5 DEF s

LEMMA TakeIs ==
  ASSUME NEW buf \in Seq(Byte), NEW at \in Nat, NEW n \in Nat
  PROVE  \/ Refused(Take(buf, at, n))
         \/ \E value \in Seq(Byte) : /\ Take(buf, at, n) = Ok(value, at + n)
                                     /\ Len(value) = n /\ at + n <= Len(buf)
BY SubSeqAt DEF Take, Failed, Errors, Refused

LEMMA ReadValueIs ==
  ASSUME NEW buf \in Seq(Byte), NEW at \in Nat, NEW wireType \in 0..7
  PROVE  \/ Refused(ReadValue(wireType, buf, at))
         \/ Taken(buf, at, wireType, ReadValue(wireType, buf, at))
<1>1. CASE wireType = VARINT
  <2>1. ReadValue(wireType, buf, at) = ReadVarint(buf, at)
    BY <1>1 DEF ReadValue, VARINT, FIXED64, FIXED32, LEN
  <2>2. CASE ReadVarint(buf, at).ok
    <3>1. PICK n \in Nat, v \in Word : VarintOf(buf, at, n) /\ ReadVarint(buf, at) = Ok(v, at + n)
      BY <2>2, VarintValue
    <3>2. Held(wireType, v) /\ at + n \in Nat /\ at <= at + n /\ at + n <= Len(buf)
      BY <1>1, <3>1 DEF Held, VarintOf
    <3> QED
      BY <2>1, <3>1, <3>2 DEF Taken
  <2>3. CASE ~ReadVarint(buf, at).ok
    BY <2>1, <2>3, VarintRefused
  <2> QED
    BY <2>2, <2>3
<1>2. CASE wireType = FIXED64
  <2>1. ReadValue(wireType, buf, at) = Take(buf, at, 8)
    BY <1>2 DEF ReadValue, VARINT, FIXED64, FIXED32, LEN
  <2>2. ASSUME NEW value \in Seq(Byte), Take(buf, at, 8) = Ok(value, at + 8),
               Len(value) = 8, at + 8 <= Len(buf)
        PROVE  Taken(buf, at, wireType, Take(buf, at, 8))
    <3>1. Held(wireType, value) /\ at + 8 \in Nat /\ at <= at + 8
      BY <1>2, <2>2 DEF Held
    <3> QED
      BY <2>2, <3>1 DEF Taken
  <2>3. 8 \in Nat
    OBVIOUS
  <2>4. \/ Refused(Take(buf, at, 8))
        \/ \E value \in Seq(Byte) : /\ Take(buf, at, 8) = Ok(value, at + 8)
                                    /\ Len(value) = 8 /\ at + 8 <= Len(buf)
    BY <2>3, TakeIs
  <2> QED
    BY <2>1, <2>2, <2>4
<1>3. CASE wireType = FIXED32
  <2>1. ReadValue(wireType, buf, at) = Take(buf, at, 4)
    BY <1>3 DEF ReadValue, VARINT, FIXED64, FIXED32, LEN
  <2>2. ASSUME NEW value \in Seq(Byte), Take(buf, at, 4) = Ok(value, at + 4),
               Len(value) = 4, at + 4 <= Len(buf)
        PROVE  Taken(buf, at, wireType, Take(buf, at, 4))
    <3>1. Held(wireType, value) /\ at + 4 \in Nat /\ at <= at + 4
      BY <1>3, <2>2 DEF Held
    <3> QED
      BY <2>2, <3>1 DEF Taken
  <2>3. 4 \in Nat
    OBVIOUS
  <2>4. \/ Refused(Take(buf, at, 4))
        \/ \E value \in Seq(Byte) : /\ Take(buf, at, 4) = Ok(value, at + 4)
                                    /\ Len(value) = 4 /\ at + 4 <= Len(buf)
    BY <2>3, TakeIs
  <2> QED
    BY <2>1, <2>2, <2>4
<1>4. CASE wireType = LEN
  <2>1. ReadValue(wireType, buf, at) =
          IF ReadVarint(buf, at).ok
          THEN Take(buf, ReadVarint(buf, at).next, ReadVarint(buf, at).value)
          ELSE ReadVarint(buf, at)
    BY <1>4 DEF ReadValue, VARINT, FIXED64, FIXED32, LEN
  <2>2. CASE ReadVarint(buf, at).ok
    <3>1. PICK n \in Nat, v \in Word : VarintOf(buf, at, n) /\ ReadVarint(buf, at) = Ok(v, at + n)
      BY <2>2, VarintValue
    <3>2. ReadValue(wireType, buf, at) = Take(buf, at + n, v)
      BY <2>1, <2>2, <3>1 DEF Ok
    <3>3. v \in Nat /\ at + n \in Nat
      BY DEF Word
    <3>4. ASSUME NEW value \in Seq(Byte), Take(buf, at + n, v) = Ok(value, (at + n) + v),
                 Len(value) = v, (at + n) + v <= Len(buf)
          PROVE  Taken(buf, at, wireType, Take(buf, at + n, v))
      <4>1. Held(wireType, value) /\ (at + n) + v \in Nat /\ at <= (at + n) + v
        BY <1>4, <3>3, <3>4 DEF Held
      <4> QED
        BY <3>4, <4>1 DEF Taken
    <3> QED
      BY <3>2, <3>3, <3>4, TakeIs
  <2>3. CASE ~ReadVarint(buf, at).ok
    BY <2>1, <2>3, VarintRefused
  <2> QED
    BY <2>2, <2>3
<1>5. CASE wireType \notin {VARINT, FIXED64, FIXED32, LEN}
  BY <1>5 DEF ReadValue, Failed, Errors, Refused
<1> QED
  BY <1>1, <1>2, <1>3, <1>4, <1>5

\* The Reader refuses, or takes a field of the kind its tag says and moves on.
LEMMA NextFieldIs ==
  ASSUME NEW buf \in Seq(Byte), NEW at \in Nat
  PROVE  \/ Refused(NextField(buf, at))
         \/ \E number, wireType, value, next, n : ReadAs(buf, at, number, wireType, value, next, n)
<1>1. CASE ~ReadVarint(buf, at).ok
  <2>1. NextField(buf, at) = ReadVarint(buf, at)
    BY <1>1 DEF NextField
  <2> QED
    BY <1>1, <2>1, VarintRefused
<1>2. CASE ReadVarint(buf, at).ok
  <2>1. PICK n \in Nat, v \in Word : VarintOf(buf, at, n) /\ ReadVarint(buf, at) = Ok(v, at + n)
    BY <1>2, VarintValue
  <2> DEFINE number == v \div 8
             wireType == v % 8
             r == ReadValue(wireType, buf, at + n)
  <2>2. number \in Nat /\ wireType \in 0..7 /\ v = 8 * number + wireType
    BY DEF Word
  <2>3. NextField(buf, at) =
          IF number \notin 1..(2^U32Bits - 1) THEN Failed("ZeroFieldNumber")
          ELSE IF ~r.ok THEN r ELSE Ok(Field(number, wireType, r.value), r.next)
    BY <1>2, <2>1 DEF NextField, Ok
  <2> HIDE DEF number, wireType, r
  <2>7. Refused(r) \/ Taken(buf, at + n, wireType, r)
    BY <2>1, <2>2, ReadValueIs DEF r
  <2>4. CASE number \notin 1..(2^U32Bits - 1)
    BY <2>3, <2>4 DEF Failed, Errors, Refused
  <2>5. CASE number \in 1..(2^U32Bits - 1) /\ ~r.ok
    <3>1. NextField(buf, at) = r
      BY <2>3, <2>5
    <3> QED
      BY <2>5, <2>7, <3>1 DEF Taken, Ok
  <2>6. CASE number \in 1..(2^U32Bits - 1) /\ r.ok
    <3>1. PICK value, next : /\ r = Ok(value, next) /\ Held(wireType, value)
                             /\ next \in Nat /\ at + n <= next /\ next <= Len(buf)
      BY <2>6, <2>7 DEF Taken, Refused
    <3>2. NextField(buf, at) = Ok(Field(number, wireType, value), next)
      BY <2>3, <2>6, <3>1 DEF Ok
    <3>3. number \in Nat \ {0}
      BY <2>2, <2>6
    <3>4. ReadAs(buf, at, number, wireType, value, next, n)
      BY <2>1, <2>2, <3>1, <3>2, <3>3 DEF ReadAs, r
    <3> QED
      BY <3>4
  <2> QED
    BY <2>4, <2>5, <2>6
<1> QED
  BY <1>1, <1>2

----------------------------------------------------------------------------
(* What encode writes, field after field.                                    *)

AreParts(parts, N) == parts \in [1..N -> Seq(Byte)]

\* W[n] is what the first n parts add up to.
Builds(W, N, parts) ==
  /\ W \in [0..N -> Seq(Byte)] /\ W[0] = <<>>
  /\ \A i \in 1..N : W[i] = W[i - 1] \o parts[i]

LEMMA SumsExist ==
  ASSUME NEW N \in Nat, NEW parts, AreParts(parts, N)
  PROVE  \E W : Builds(W, N, parts)
<1> DEFINE S == Seq(Byte)
           step == [a \in (1..N) \X S |-> a[2] \o parts[a[1]]]
<1>1. \A s \in S, t \in S : s \o t \in S
  BY ConcatProperties
<1>2. step \in [(1..N) \X S -> S]
  <2> HIDE DEF S
  <2>1. \A i \in 1..N : parts[i] \in S
    BY DEF S, AreParts
  <2> QED
    BY <1>1, <2>1
<1>3. <<>> \in S
  OBVIOUS
<1> HIDE DEF S
<1>4. PICK W : Iterated(W, S, <<>>, N, step)
  <2> HIDE DEF step
  <2> QED
    BY <1>2, <1>3, Iterates
<1>5. \A i \in 1..N : W[i] = W[i - 1] \o parts[i]
  <2> SUFFICES ASSUME NEW i \in 1..N PROVE W[i] = W[i - 1] \o parts[i]
    OBVIOUS
  <2>1. i - 1 \in 0..N
    OBVIOUS
  <2>2. W[i] = step[<<i, W[i - 1]>>] /\ W[i - 1] \in S
    BY <1>4, <2>1 DEF Iterated
  <2> QED
    BY <2>2
<1> QED
  BY <1>4, <1>5 DEF Builds, Iterated, S

LEMMA SameSums ==
  ASSUME NEW N \in Nat, NEW parts, NEW V, NEW W,
         Builds(V, N, parts), Builds(W, N, parts)
  PROVE  \A i \in 0..N : V[i] = W[i]
<1>1. V[0] = W[0]
  BY DEF Builds
<1>2. \A i \in 1..N : V[i - 1] = W[i - 1] => V[i] = W[i]
  BY DEF Builds
<1> QED
  BY <1>1, <1>2, SameIterates

\* FlattenSeq puts the parts together in this order.
LEMMA Flattened ==
  ASSUME NEW N \in Nat \ {0}, NEW parts, AreParts(parts, N), NEW W,
         Builds(W, N, parts)
  PROVE  FlattenSeq(parts) = W[N]
<1> DEFINE Flat(g) == [i \in 1..N |-> IF i = 1 THEN parts[i] ELSE g[i - 1] \o parts[i]]
           h == CHOOSE g : g = Flat(g)
           V == [i \in 0..N |-> IF i = 0 THEN <<>> ELSE h[i]]
           G == [i \in 1..N |-> W[i]]
<1>1. Len(parts) = N /\ N # 0 /\ 1 \in 1..N /\ parts[1] \in Seq(Byte)
  BY DEF AreParts
<1>2. \A i \in 1..N : i - 1 \in 0..N /\ (i # 1 => i - 1 \in 1..N /\ i - 1 # 0)
  OBVIOUS
<1>3. W[1] = parts[1]
  <2>1. W[1] = W[1 - 1] \o parts[1] /\ 1 - 1 = 0 /\ W[0] = <<>>
    <3>1. W[0] = <<>> /\ \A i \in 1..N : W[i] = W[i - 1] \o parts[i]
      BY DEF Builds
    <3> QED
      BY <1>1, <3>1
  <2>2. parts[1] \in Seq(Byte)
    BY <1>1
  <2> QED
    BY <2>1, <2>2, ConcatEmptySeq
<1>4. G = Flat(G)
  <2>1. \A i \in 1..N : W[i] = IF i = 1 THEN parts[i] ELSE G[i - 1] \o parts[i]
    BY <1>2, <1>3 DEF Builds
  <2> HIDE DEF h, V
  <2> QED
    BY <2>1, Zenon
<1>5. h = Flat(h)
  <2> HIDE DEF Flat, G, V
  <2> QED
    BY <1>4
<1> HIDE DEF h
<1>6. h[1] = parts[1] /\ \A i \in 1..N : i # 1 => h[i] = h[i - 1] \o parts[i]
  BY <1>1, <1>2, <1>5
<1>7. V[0] = W[0] /\ \A i \in 1..N : V[i - 1] = W[i - 1] => V[i] = W[i]
  <2>1. V[0] = <<>> /\ \A i \in 1..N : V[i] = h[i]
    BY <1>1
  <2> HIDE DEF V
  <2>2. V[0] = W[0]
    BY <2>1 DEF Builds
  <2>3. V[1] = W[1]
    BY <1>1, <1>3, <1>6, <2>1
  <2>4. ASSUME NEW i \in 1..N, i # 1, V[i - 1] = W[i - 1] PROVE V[i] = W[i]
    <3>1. V[i] = V[i - 1] \o parts[i]
      BY <1>2, <1>6, <2>1, <2>4
    <3> QED
      BY <2>4, <3>1 DEF Builds
  <2> QED
    BY <2>2, <2>3, <2>4
<1>8. h[N] = W[N]
  <2>1. N \in 0..N /\ N \in Nat /\ V[N] = h[N]
    OBVIOUS
  <2> HIDE DEF V
  <2>2. \A i \in 0..N : V[i] = W[i]
    BY <1>7, <2>1, SameIterates
  <2> QED
    BY <2>1, <2>2
<1>9. FlattenSeq(parts) = h[N]
  BY <1>1 DEF FlattenSeq, h
<1> QED
  BY <1>8, <1>9

LEMMA BuildsIs ==
  ASSUME NEW N \in Nat, NEW parts, NEW W, AreParts(parts, N), Builds(W, N, parts)
  PROVE  /\ W[0] = <<>> /\ \A i \in 0..N : W[i] \in Seq(Byte)
         /\ \A i \in 1..N : W[i] = W[i - 1] \o parts[i] /\ parts[i] \in Seq(Byte)
BY DEF Builds, AreParts

\* Every prefix is at the start of the whole.
LEMMA PrefixOfAll ==
  ASSUME NEW N \in Nat, NEW parts, NEW W, AreParts(parts, N), Builds(W, N, parts),
         NEW n \in 0..N
  PROVE  At(W[N], 0, W[n])
<1> DEFINE T == {j \in Nat : j <= N => At(W[N], 0, W[N - j])}
<1>1. /\ \A i \in 0..N : W[i] \in Seq(Byte)
      /\ \A i \in 1..N : W[i] = W[i - 1] \o parts[i] /\ parts[i] \in Seq(Byte)
  BY BuildsIs
<1>2. 0 \in T
  <2>1. W[N] \in Seq(Byte) /\ N - 0 = N
    BY <1>1
  <2>2. At(W[N], 0, W[N])
    BY <2>1 DEF At
  <2> QED
    BY <2>1, <2>2
<1>3. ASSUME NEW j \in Nat, j \in T PROVE j + 1 \in T
  <2> SUFFICES ASSUME j + 1 <= N PROVE At(W[N], 0, W[N - (j + 1)])
    OBVIOUS
  <2>1. N - j \in 1..N /\ (N - j) - 1 = N - (j + 1) /\ N - (j + 1) \in 0..N /\ N \in 0..N
    OBVIOUS
  <2>2. At(W[N], 0, W[N - (j + 1)] \o parts[N - j])
    <3>1. At(W[N], 0, W[N - j])
      BY <1>3
    <3>2. W[N - j] = W[(N - j) - 1] \o parts[N - j]
      BY <1>1, <2>1
    <3> QED
      BY <2>1, <3>1, <3>2
  <2>3. W[N] \in Seq(Byte) /\ W[N - (j + 1)] \in Seq(Byte) /\ parts[N - j] \in Seq(Byte)
    BY <1>1, <2>1
  <2> QED
    BY <2>2, <2>3, AtConcat
<1>4. N - n \in Nat /\ N - n <= N /\ N - (N - n) = n
  OBVIOUS
<1> HIDE DEF T
<1>5. N - n \in T
  BY <1>2, <1>3, <1>4, SetInduction
<1> QED
  BY <1>4, <1>5 DEF T

\* Parts that are empty add nothing.
LEMMA EmptyParts ==
  ASSUME NEW N \in Nat, NEW parts, NEW W, AreParts(parts, N), Builds(W, N, parts),
         NEW n \in 0..N, NEW k \in n..N, \A i \in (n + 1)..k : parts[i] = <<>>
  PROVE  W[k] = W[n]
<1> DEFINE T == {j \in Nat : n + j <= k => W[n + j] = W[n]}
<1>1. 0 \in T
  OBVIOUS
<1>2. ASSUME NEW j \in Nat, j \in T PROVE j + 1 \in T
  <2> SUFFICES ASSUME n + (j + 1) <= k PROVE W[n + (j + 1)] = W[n]
    OBVIOUS
  <2> DEFINE i == n + (j + 1)
  <2>1. i \in 1..N /\ i \in (n + 1)..k /\ i - 1 = n + j /\ n + j <= k /\ n \in 0..N
    OBVIOUS
  <2> HIDE DEF i
  <2>2. W[i] = W[i - 1] \o <<>> /\ W[n] \in Seq(Byte)
    <3>1. \A l \in 0..N : W[l] \in Seq(Byte)
      BY BuildsIs
    <3>2. \A l \in 1..N : W[l] = W[l - 1] \o parts[l]
      BY DEF Builds
    <3>3. i \in 1..N
      BY <2>1
    <3>4. W[i] = W[i - 1] \o parts[i]
      BY <3>2, <3>3
    <3>5. parts[i] = <<>>
      BY <2>1
    <3> QED
      BY <2>1, <3>1, <3>4, <3>5
  <2>3. W[i - 1] = W[n]
    BY <1>2, <2>1
  <2>4. W[i] = W[n]
    BY <2>2, <2>3, ConcatEmptySeq
  <2> QED
    BY <2>4 DEF i
<1>3. k - n \in Nat /\ n + (k - n) = k
  OBVIOUS
<1> HIDE DEF T
<1>4. k - n \in T
  BY <1>1, <1>2, <1>3, SetInduction
<1> QED
  BY <1>3, <1>4 DEF T

\* After a prefix the whole is at its end, or goes on with the next part that is
\* not empty.
NoMore(W, N, parts, n) == W[N] = W[n] /\ \A i \in (n + 1)..N : parts[i] = <<>>
More(W, N, parts, n, k) ==
  /\ k \in (n + 1)..N
  /\ parts[k] # <<>> /\ \A i \in (n + 1)..(k - 1) : parts[i] = <<>>
  /\ At(W[N], Len(W[n]), parts[k])
  /\ Len(W[k]) = Len(W[n]) + Len(parts[k])

LEMMA NextPart ==
  ASSUME NEW N \in Nat, NEW parts, NEW W, AreParts(parts, N), Builds(W, N, parts),
         NEW n \in 0..N
  PROVE  NoMore(W, N, parts, n) \/ \E k : More(W, N, parts, n, k)
<1> DEFINE M == {k \in (n + 1)..N : parts[k] # <<>>}
<1>1. CASE M = {}
  <2>1. \A i \in (n + 1)..N : parts[i] = <<>>
    BY <1>1
  <2>2. N \in n..N
    OBVIOUS
  <2>3. W[N] = W[n]
    BY <2>1, <2>2, EmptyParts
  <2> QED
    BY <2>1, <2>3 DEF NoMore
<1>2. CASE M # {}
  <2>1. M \in SUBSET Nat
    OBVIOUS
  <2>2. PICK k \in M : \A y \in M : k <= y
    BY <1>2, <2>1, Least
  <2>3. /\ k \in (n + 1)..N /\ k \in 1..N /\ k - 1 \in n..N /\ k \in 0..N /\ n \in 0..N
        /\ N \in 0..N /\ parts[k] # <<>>
    OBVIOUS
  <2>4. \A i \in (n + 1)..(k - 1) : parts[i] = <<>>
    <3> SUFFICES ASSUME NEW i \in (n + 1)..(k - 1), parts[i] # <<>> PROVE FALSE
      OBVIOUS
    <3>1. i \in M /\ i < k /\ i \in Nat /\ k \in Nat
      BY <2>3
    <3> QED
      BY <2>2, <3>1
  <2>5. W[k - 1] = W[n]
    BY <2>3, <2>4, EmptyParts
  <2>6. /\ W[k] = W[n] \o parts[k] /\ parts[k] \in Seq(Byte) /\ W[n] \in Seq(Byte)
        /\ W[N] \in Seq(Byte)
    <3>1. /\ \A l \in 0..N : W[l] \in Seq(Byte)
          /\ \A l \in 1..N : W[l] = W[l - 1] \o parts[l] /\ parts[l] \in Seq(Byte)
      BY BuildsIs
    <3>2. W[k] = W[k - 1] \o parts[k] /\ parts[k] \in Seq(Byte)
      BY <2>3, <3>1
    <3> QED
      BY <2>3, <2>5, <3>1, <3>2
  <2>7. At(W[N], 0, W[n] \o parts[k])
    BY <2>3, <2>6, PrefixOfAll
  <2>8. At(W[N], 0 + Len(W[n]), parts[k])
    BY <2>6, <2>7, AtConcat
  <2>9. Len(W[k]) = Len(W[n]) + Len(parts[k]) /\ 0 + Len(W[n]) = Len(W[n])
    BY <2>6
  <2> QED
    BY <2>3, <2>4, <2>8, <2>9 DEF More
<1> QED
  BY <1>1, <1>2

----------------------------------------------------------------------------
(* The wrappers.                                                             *)
Top(schema) == Max(DOMAIN schema)

SchemaOK(schema) ==
  /\ DOMAIN schema \subseteq 1..31
  /\ Top(schema) \in DOMAIN schema /\ \A n \in DOMAIN schema : n <= Top(schema)
  /\ \A n \in DOMAIN schema : /\ schema[n].kind \in {"u32", "bool", "fixed32", "bytes"}
                              /\ schema[n].written \in {"present", "always", "nonDefault"}

LEMMA MaxIs ==
  ASSUME NEW S \in SUBSET Nat, NEW t \in S, \A y \in S : y <= t
  PROVE  Max(S) = t
<1>1. t \in S /\ \A y \in S : t >= y
  OBVIOUS
<1>2. Max(S) \in S /\ \A y \in S : Max(S) >= y
  BY <1>1 DEF Max
<1>3. Max(S) \in Nat /\ t \in Nat /\ Max(S) >= t /\ t >= Max(S)
  BY <1>1, <1>2
<1> QED
  BY <1>3

LEMMA TopIs ==
  ASSUME NEW schema, NEW t \in DOMAIN schema, DOMAIN schema \subseteq 1..31,
         \A n \in DOMAIN schema : n <= t
  PROVE  Top(schema) \in DOMAIN schema /\ \A n \in DOMAIN schema : n <= Top(schema)
<1>1. DOMAIN schema \in SUBSET Nat
  OBVIOUS
<1>2. Top(schema) = t
  BY <1>1, MaxIs DEF Top
<1> QED
  BY <1>2

LEMMA SchemasOK == \A s \in DOMAIN Schema : SchemaOK(Schema[s])
<1>1. SchemaOK(Data)
  <2>1. DOMAIN Data = 1..10
    BY DEF Data
  <2>2. Top(Data) \in DOMAIN Data /\ \A n \in DOMAIN Data : n <= Top(Data)
    BY <2>1, TopIs
  <2>3. ASSUME NEW n \in 1..10
        PROVE  Data[n].kind \in {"u32", "bool", "fixed32", "bytes"}
               /\ Data[n].written \in {"present", "always", "nonDefault"}
    BY DEF Data, Implicit, Optional
  <2> QED
    BY <2>1, <2>2, <2>3 DEF SchemaOK
<1>2. SchemaOK(User)
  <2>1. DOMAIN User = 1..9
    BY DEF User
  <2>2. Top(User) \in DOMAIN User /\ \A n \in DOMAIN User : n <= Top(User)
    BY <2>1, TopIs
  <2>3. ASSUME NEW n \in 1..9
        PROVE  User[n].kind \in {"u32", "bool", "fixed32", "bytes"}
               /\ User[n].written \in {"present", "always", "nonDefault"}
    BY DEF User, Implicit, Optional
  <2> QED
    BY <2>1, <2>2, <2>3 DEF SchemaOK
<1>3. SchemaOK(Position)
  <2>1. DOMAIN Position = {1, 2, 3, 4, 23}
    BY DEF Position
  <2>2. Top(Position) \in DOMAIN Position /\ \A n \in DOMAIN Position : n <= Top(Position)
    BY <2>1, TopIs
  <2>3. ASSUME NEW n \in {1, 2, 3, 4, 23}
        PROVE  Position[n].kind \in {"u32", "bool", "fixed32", "bytes"}
               /\ Position[n].written \in {"present", "always", "nonDefault"}
    BY DEF Position, Implicit, Optional
  <2> QED
    BY <2>1, <2>2, <2>3 DEF SchemaOK
<1>4. SchemaOK(ChannelSettings)
  <2>1. DOMAIN ChannelSettings = 2..7
    BY DEF ChannelSettings
  <2>2. /\ Top(ChannelSettings) \in DOMAIN ChannelSettings
        /\ \A n \in DOMAIN ChannelSettings : n <= Top(ChannelSettings)
    BY <2>1, TopIs
  <2>3. ASSUME NEW n \in 2..7
        PROVE  ChannelSettings[n].kind \in {"u32", "bool", "fixed32", "bytes"}
               /\ ChannelSettings[n].written \in {"present", "always", "nonDefault"}
    BY DEF ChannelSettings, Implicit, Optional
  <2> QED
    BY <2>1, <2>2, <2>3 DEF SchemaOK
<1>5. SchemaOK(Routing)
  <2>1. DOMAIN Routing = {3}
    BY DEF Routing
  <2>2. Top(Routing) \in DOMAIN Routing /\ \A n \in DOMAIN Routing : n <= Top(Routing)
    BY <2>1, TopIs
  <2>3. ASSUME NEW n \in {3}
        PROVE  Routing[n].kind \in {"u32", "bool", "fixed32", "bytes"}
               /\ Routing[n].written \in {"present", "always", "nonDefault"}
    BY DEF Routing
  <2> QED
    BY <2>1, <2>2, <2>3 DEF SchemaOK
<1>6. SchemaOK(NodeInfo)
  <2>1. DOMAIN NodeInfo = {1, 2, 3, 10}
    BY DEF NodeInfo
  <2>2. Top(NodeInfo) \in DOMAIN NodeInfo /\ \A n \in DOMAIN NodeInfo : n <= Top(NodeInfo)
    BY <2>1, TopIs
  <2>3. ASSUME NEW n \in {1, 2, 3, 10}
        PROVE  NodeInfo[n].kind \in {"u32", "bool", "fixed32", "bytes"}
               /\ NodeInfo[n].written \in {"present", "always", "nonDefault"}
    BY DEF NodeInfo, Implicit, Optional
  <2> QED
    BY <2>1, <2>2, <2>3 DEF SchemaOK
<1>7. SchemaOK(MeshPacket)
  <2>1. DOMAIN MeshPacket = {1, 2, 3, 5, 6, 11, 19}
    BY DEF MeshPacket
  <2>2. Top(MeshPacket) \in DOMAIN MeshPacket /\ \A n \in DOMAIN MeshPacket : n <= Top(MeshPacket)
    BY <2>1, TopIs
  <2>3. ASSUME NEW n \in {1, 2, 3, 5, 6, 11, 19}
        PROVE  MeshPacket[n].kind \in {"u32", "bool", "fixed32", "bytes"}
               /\ MeshPacket[n].written \in {"present", "always", "nonDefault"}
    BY DEF MeshPacket, Implicit, Optional
  <2> QED
    BY <2>1, <2>2, <2>3 DEF SchemaOK
<1> QED
  BY <1>1, <1>2, <1>3, <1>4, <1>5, <1>6, <1>7 DEF Schema

\* What a field of a kind holds, and a message of a wrapper.
InKind(kind, v) ==
  \/ kind = "u32" /\ v \in Nat /\ v < 2^U32Bits
  \/ kind = "bool" /\ v \in {0, 1}
  \/ kind = "fixed32" /\ v \in Seq(Byte) /\ Len(v) = 4
  \/ kind = "bytes" /\ v \in Seq(Byte) /\ Len(v) \in Word

Typed(schema, m) ==
  /\ m = [n \in DOMAIN schema |-> m[n]]
  /\ \A n \in DOMAIN schema : \/ InKind(schema[n].kind, m[n])
                              \/ schema[n].written = "present" /\ m[n] = Absent

LEMMA DefaultInKind ==
  \A kind \in {"u32", "bool", "fixed32", "bytes"} : InKind(kind, Default(kind))
<1>1. InKind("u32", 0) /\ InKind("bool", 0)
  BY Small DEF InKind
<1>2. InKind("fixed32", <<0, 0, 0, 0>>)
  <2>1. <<0, 0, 0, 0>> \in Seq(Byte) /\ Len(<<0, 0, 0, 0>>) = 4
    BY DEF Byte
  <2> QED
    BY <2>1 DEF InKind
<1>3. InKind("bytes", <<>>)
  BY Small DEF InKind, Word
<1> QED
  BY <1>1, <1>2, <1>3 DEF Default

LEMMA BlankTyped == ASSUME NEW schema, SchemaOK(schema) PROVE Typed(schema, Blank(schema))
BY DefaultInKind DEF Typed, Blank, SchemaOK

\* A field that is left out holds what a decoder starts from.
LEMMA LeftOut ==
  ASSUME NEW schema, SchemaOK(schema), NEW m, NEW n \in DOMAIN schema, ~Written(schema, m, n)
  PROVE  m[n] = Blank(schema)[n] /\ schema[n].written # "always"
BY DEF Written, Blank, SchemaOK

\* A field that is written is one the Reader reads back.
LEMMA WrittenIs ==
  ASSUME NEW schema, SchemaOK(schema), NEW m, Typed(schema, m),
         NEW n \in DOMAIN schema, Written(schema, m, n)
  PROVE  /\ InKind(schema[n].kind, m[n])
         /\ Writable(n, WireTypeOf(schema[n].kind), m[n])
         /\ Narrow(schema[n].kind, m[n]) = m[n]
<1>1. InKind(schema[n].kind, m[n])
  BY DEF Typed, Written
<1>2. n \in 1..31
  BY DEF SchemaOK
<1> DEFINE k == schema[n].kind
           v == m[n]
<1> HIDE DEF k, v
<1>3. ASSUME InKind(k, v)
      PROVE  Writable(n, WireTypeOf(k), v) /\ Narrow(k, v) = v
  <2>1. CASE k = "u32"
    <3>1. v \in Nat /\ v < 2^U32Bits
      BY <1>3, <2>1 DEF InKind
    <3>2. v \in Word
      BY <3>1, Small DEF Word
    <3>3. v % 2^U32Bits = v
      <4>1. PICK w \in Nat \ {0} : w = 2^U32Bits
        BY Small
      <4>2. v % w = v
        BY <3>1, <4>1
      <4> QED
        BY <4>1, <4>2
    <3> QED
      BY <1>2, <2>1, <3>2, <3>3 DEF Writable, WireTypeOf, Narrow, VARINT, LEN, FIXED32
  <2>2. CASE k = "bool"
    <3>1. v \in {0, 1}
      BY <1>3, <2>2 DEF InKind
    <3>2. v \in Word
      BY <3>1, Small DEF Word
    <3> QED
      BY <1>2, <2>2, <3>1, <3>2 DEF Writable, WireTypeOf, Narrow, VARINT, LEN, FIXED32
  <2>3. CASE k = "fixed32"
    <3>1. v \in Seq(Byte) /\ Len(v) = 4
      BY <1>3, <2>3 DEF InKind
    <3> QED
      BY <1>2, <2>3, <3>1 DEF Writable, WireTypeOf, Narrow, VARINT, LEN, FIXED32
  <2>4. CASE k = "bytes"
    <3>1. v \in Seq(Byte) /\ Len(v) \in Word
      BY <1>3, <2>4 DEF InKind
    <3> QED
      BY <1>2, <2>4, <3>1 DEF Writable, WireTypeOf, Narrow, VARINT, LEN, FIXED32
  <2> QED
    BY <1>3, <2>1, <2>2, <2>3, <2>4 DEF InKind
<1> QED
  BY <1>1, <1>3 DEF k, v

----------------------------------------------------------------------------
(* Encoding a message, and decoding what was encoded.                        *)
Parts(schema, m) == [n \in 1..Top(schema) |-> FieldBytes(schema, m, n)]
Sums(schema, m) == CHOOSE W : Builds(W, Top(schema), Parts(schema, m))
Encoding(schema, m) == Sums(schema, m)[Top(schema)]

LEMMA TopInNat == ASSUME NEW schema, SchemaOK(schema) PROVE Top(schema) \in 1..31
BY DEF SchemaOK

LEMMA PartIs ==
  ASSUME NEW schema, SchemaOK(schema), NEW m, Typed(schema, m), NEW n \in 1..31
  PROVE  /\ FieldBytes(schema, m, n) \in Seq(Byte)
         /\ n \in DOMAIN schema /\ Written(schema, m, n) => FieldBytes(schema, m, n) # <<>>
<1>1. CASE n \in DOMAIN schema /\ Written(schema, m, n)
  <2> DEFINE w == WireTypeOf(schema[n].kind)
             tag == WriteVarint(8 * n + w)
             body == Body(w, m[n])
  <2>1. Writable(n, w, m[n])
    BY <1>1, WrittenIs
  <2>2. FieldBytes(schema, m, n) = WriteField(Field(n, w, m[n]))
    BY <1>1 DEF FieldBytes
  <2> HIDE DEF w
  <2>3. /\ 8 * n + w \in Word /\ tag \in Seq(Byte) /\ body \in Seq(Byte)
        /\ WriteField(Field(n, w, m[n])) = tag \o body
    BY <2>1, WriteFieldIs
  <2>4. Len(tag) \in 1..MaxVarint
    BY <2>3, WriteVarintIs, VarintLengthIs
  <2> HIDE DEF tag, body
  <2>5. tag \o body \in Seq(Byte) /\ Len(tag \o body) = Len(tag) + Len(body)
    BY <2>3
  <2>6. Len(tag \o body) # 0
    BY <2>3, <2>4, <2>5, MaxVarintIs
  <2>7. tag \o body # <<>>
    BY <2>5, <2>6
  <2> QED
    BY <2>2, <2>3, <2>5, <2>7
<1>2. CASE ~(n \in DOMAIN schema /\ Written(schema, m, n))
  BY <1>2 DEF FieldBytes
<1> QED
  BY <1>1, <1>2

LEMMA SumsAre ==
  ASSUME NEW schema, SchemaOK(schema), NEW m, Typed(schema, m)
  PROVE  /\ AreParts(Parts(schema, m), Top(schema))
         /\ Builds(Sums(schema, m), Top(schema), Parts(schema, m))
         /\ Encoding(schema, m) \in Seq(Byte)
<1>1. Top(schema) \in 1..31 /\ Top(schema) \in Nat /\ Top(schema) \in 0..Top(schema)
  BY TopInNat
<1>2. AreParts(Parts(schema, m), Top(schema))
  <2>1. ASSUME NEW n \in 1..Top(schema) PROVE FieldBytes(schema, m, n) \in Seq(Byte)
    <3>1. n \in 1..31
      BY <1>1
    <3> QED
      BY <3>1, PartIs
  <2> QED
    BY <2>1 DEF AreParts, Parts
<1>3. \E W : Builds(W, Top(schema), Parts(schema, m))
  BY <1>1, <1>2, SumsExist
<1>4. Builds(Sums(schema, m), Top(schema), Parts(schema, m))
  BY <1>3 DEF Sums
<1> QED
  BY <1>1, <1>2, <1>4, BuildsIs DEF Encoding

LEMMA EncodeIs ==
  ASSUME NEW schema, SchemaOK(schema), NEW m, Typed(schema, m), NEW room
  PROVE  /\ Encode(schema, m, room).ok => Encode(schema, m, room).value = Encoding(schema, m)
         /\ ~Encode(schema, m, room).ok => Encode(schema, m, room).error = "BufferTooSmall"
         /\ Len(Encoding(schema, m)) <= room => Encode(schema, m, room).ok
<1>1. Top(schema) \in Nat \ {0}
  BY TopInNat
<1>2. FlattenSeq(Parts(schema, m)) = Encoding(schema, m)
  BY <1>1, SumsAre, Flattened DEF Encoding
<1>3. Encode(schema, m, room) = WriteFields(Parts(schema, m), room)
  BY DEF Encode, Parts, Top
<1> QED
  BY <1>2, <1>3 DEF WriteFields, Ok, Failed

\* A message of which the fields up to n have arrived.
Upto(schema, m, n) ==
  [k \in DOMAIN schema |-> IF k <= n THEN m[k] ELSE Blank(schema)[k]]

\* What is left of an encoding after a prefix: nothing, and the message is
\* complete, or the next field that is written, and reading it takes the decoder
\* to the prefix that ends with it.
Complete(schema, m, n) ==
  /\ Encoding(schema, m) = Sums(schema, m)[n] /\ Upto(schema, m, n) = m
  /\ \A i \in DOMAIN schema : i > n => ~Written(schema, m, i)
Continues(schema, m, n, k) ==
  /\ k \in (n + 1)..Top(schema)
  /\ k \in DOMAIN schema /\ Written(schema, m, k)
  /\ At(Encoding(schema, m), Len(Sums(schema, m)[n]), FieldBytes(schema, m, k))
  /\ Len(Sums(schema, m)[k]) = Len(Sums(schema, m)[n]) + Len(FieldBytes(schema, m, k))
  /\ \A i \in (n + 1)..(k - 1) : i \in DOMAIN schema => ~Written(schema, m, i)

LEMMA AfterPrefix ==
  ASSUME NEW schema, SchemaOK(schema), NEW m, Typed(schema, m), NEW n \in 0..Top(schema)
  PROVE  Complete(schema, m, n) \/ \E k : Continues(schema, m, n, k)
<1> DEFINE N == Top(schema)
           W == Sums(schema, m)
           parts == Parts(schema, m)
<1>1. N \in 1..31 /\ N \in Nat
  BY TopInNat
<1>2. AreParts(parts, N) /\ Builds(W, N, parts)
  BY SumsAre
<1>3. ASSUME NEW i \in 1..N
      PROVE  /\ parts[i] = FieldBytes(schema, m, i)
             /\ parts[i] = <<>> <=> ~(i \in DOMAIN schema /\ Written(schema, m, i))
  <2>1. i \in 1..31 /\ parts[i] = FieldBytes(schema, m, i)
    BY <1>1 DEF Parts
  <2>2. ~(i \in DOMAIN schema /\ Written(schema, m, i)) => FieldBytes(schema, m, i) = <<>>
    BY DEF FieldBytes
  <2> QED
    BY <2>1, <2>2, PartIs
<1> HIDE DEF W, parts, N
<1>4. CASE NoMore(W, N, parts, n)
  <2>1. ASSUME NEW i \in DOMAIN schema, ~(i <= n)
        PROVE  ~Written(schema, m, i) /\ Blank(schema)[i] = m[i]
    <3>1. i \in (n + 1)..N /\ i \in 1..N
      BY <1>1, <2>1 DEF SchemaOK, N
    <3>2. ~Written(schema, m, i)
      BY <1>3, <1>4, <3>1 DEF NoMore
    <3> QED
      BY <3>2, LeftOut
  <2>3. \A i \in DOMAIN schema : i > n => ~(i <= n)
    BY <1>1 DEF SchemaOK, N
  <2>2. Upto(schema, m, n) = [k \in DOMAIN schema |-> m[k]]
    BY <2>1 DEF Upto
  <2> QED
    BY <1>4, <2>1, <2>2, <2>3 DEF NoMore, Complete, Typed, Encoding, W, N
<1>5. ASSUME NEW k, More(W, N, parts, n, k)
      PROVE  Continues(schema, m, n, k)
  <2>1. k \in 1..N
    BY <1>1, <1>5 DEF N, More
  <2>2. k \in DOMAIN schema /\ Written(schema, m, k) /\ parts[k] = FieldBytes(schema, m, k)
    BY <1>3, <1>5, <2>1 DEF More
  <2>3. ASSUME NEW i \in (n + 1)..(k - 1), i \in DOMAIN schema PROVE ~Written(schema, m, i)
    <3>1. i \in 1..N
      BY <1>1, <1>5 DEF N, More
    <3> QED
      BY <1>3, <1>5, <2>3, <3>1 DEF More
  <2> QED
    BY <1>5, <2>2, <2>3 DEF More, Continues, Encoding, W, N
<1>6. n \in 0..N
  BY DEF N
<1>7. NoMore(W, N, parts, n) \/ \E k : More(W, N, parts, n, k)
  BY <1>1, <1>2, <1>6, NextPart
<1> QED
  BY <1>4, <1>5, <1>7

LEMMA TypedRead ==
  ASSUME NEW schema, SchemaOK(schema), NEW m, Typed(schema, m),
         NEW number, NEW wireType, NEW value, Held(wireType, value)
  PROVE  Typed(schema, Stored(schema, m, Field(number, wireType, value)))
<1> DEFINE f == Field(number, wireType, value)
           new == Stored(schema, m, f)
<1> SUFFICES Typed(schema, new)
  OBVIOUS
<1>1. f.number = number /\ f.wireType = wireType /\ f.value = value
  BY DEF Field
<1> HIDE DEF f
<1>2. CASE number \in DOMAIN schema /\ wireType = WireTypeOf(schema[number].kind)
  <2> DEFINE kind == schema[number].kind
             v == Narrow(kind, value)
  <2>1. kind \in {"u32", "bool", "fixed32", "bytes"}
    BY <1>2 DEF SchemaOK
  <2>2. new = [m EXCEPT ![number] = v]
    BY <1>1, <1>2 DEF Stored
  <2> HIDE DEF kind, v
  <2>3. wireType = WireTypeOf(kind) /\ v = Narrow(kind, value)
    BY <1>2 DEF kind, v
  <2>4. InKind(kind, v)
    <3>1. CASE kind = "u32"
      <4>1. value \in Nat
        BY <2>3, <3>1 DEF Held, WireTypeOf, Word, VARINT, LEN, FIXED32, FIXED64
      <4>2. PICK w \in Nat \ {0} : w = 2^U32Bits
        BY Small
      <4>3. value % w \in Nat /\ value % w < w
        BY <4>1, <4>2
      <4> QED
        BY <2>3, <3>1, <4>2, <4>3 DEF Narrow, InKind
    <3>2. CASE kind = "bool"
      BY <2>3, <3>2 DEF Narrow, InKind
    <3>3. CASE kind = "fixed32"
      BY <2>3, <3>3 DEF Held, WireTypeOf, Narrow, InKind, VARINT, LEN, FIXED32, FIXED64
    <3>4. CASE kind = "bytes"
      BY <2>3, <3>4 DEF Held, WireTypeOf, Narrow, InKind, VARINT, LEN, FIXED32, FIXED64
    <3> QED
      BY <2>1, <3>1, <3>2, <3>3, <3>4
  <2>5. m = [n \in DOMAIN schema |-> m[n]]
    BY DEF Typed
  <2>6. new = [n \in DOMAIN schema |-> IF n = number THEN v ELSE m[n]]
    BY <2>2, <2>5
  <2>7. \A n \in DOMAIN schema : new[n] = IF n = number THEN v ELSE m[n]
    BY <2>6
  <2>8. new = [n \in DOMAIN schema |-> new[n]]
    BY <2>6
  <2>9. \A n \in DOMAIN schema : \/ InKind(schema[n].kind, m[n])
                                 \/ schema[n].written = "present" /\ m[n] = Absent
    BY DEF Typed
  <2>10. InKind(schema[number].kind, v)
    BY <2>4 DEF kind
  <2> HIDE DEF new
  <2> QED
    BY <2>7, <2>8, <2>9, <2>10 DEF Typed
<1>3. CASE ~(number \in DOMAIN schema /\ wireType = WireTypeOf(schema[number].kind))
  <2>1. new = m
    BY <1>1, <1>3 DEF Stored
  <2> QED
    BY <2>1
<1> QED
  BY <1>2, <1>3

\* The field a message is written with.
FieldOf(schema, m, k) == Field(k, WireTypeOf(schema[k].kind), m[k])

\* Reading an encoding takes the decoder from the prefix it has read to the next
\* one, and to what has arrived of the message with it; no bit is lost.
LEMMA ReadStep ==
  ASSUME NEW schema, SchemaOK(schema), NEW m, Typed(schema, m), NEW n \in 0..Top(schema),
         NEW k, Continues(schema, m, n, k)
  PROVE  /\ \E f : /\ f = FieldOf(schema, m, k)
                   /\ NextField(Encoding(schema, m), Len(Sums(schema, m)[n]))
                        = Ok(f, Len(Sums(schema, m)[k]))
                   /\ Stored(schema, Upto(schema, m, n), f) = Upto(schema, m, k)
         /\ Len(Sums(schema, m)[n]) < Len(Encoding(schema, m))
         /\ ~OverflowsIn(Encoding(schema, m), Len(Sums(schema, m)[n]))
<1> DEFINE w == WireTypeOf(schema[k].kind)
           f == Field(k, w, m[k])
           at == Len(Sums(schema, m)[n])
           wireOf == Encoding(schema, m)
           part == FieldBytes(schema, m, k)
<1>1. /\ k \in DOMAIN schema /\ Written(schema, m, k) /\ k \in (n + 1)..Top(schema)
      /\ At(wireOf, at, part) /\ Len(Sums(schema, m)[k]) = at + Len(part)
      /\ \A i \in (n + 1)..(k - 1) : i \in DOMAIN schema => ~Written(schema, m, i)
  BY DEF Continues
<1>2. k \in 1..31 /\ part = WriteField(f)
  BY <1>1 DEF SchemaOK, FieldBytes
<1>3. Writable(k, w, m[k]) /\ Narrow(schema[k].kind, m[k]) = m[k]
  BY <1>1, WrittenIs
<1>4. wireOf \in Seq(Byte) /\ at \in Nat
  <2>1. Builds(Sums(schema, m), Top(schema), Parts(schema, m)) /\ AreParts(Parts(schema, m), Top(schema))
        /\ wireOf \in Seq(Byte)
    BY SumsAre
  <2>2. Top(schema) \in Nat
    BY TopInNat
  <2>3. Sums(schema, m)[n] \in Seq(Byte)
    BY <2>1, <2>2, BuildsIs
  <2> QED
    BY <2>1, <2>3
<1>5. part \in Seq(Byte) /\ part # <<>>
  BY <1>1, <1>2, PartIs
<1>6. NextField(wireOf, at) = Ok(f, Len(Sums(schema, m)[k])) /\ ~OverflowsIn(wireOf, at)
  <2> HIDE DEF wireOf, at, part, w
  <2>1. At(wireOf, at, WriteField(Field(k, w, m[k])))
    BY <1>1, <1>2
  <2>2. /\ NextField(wireOf, at) = Ok(Field(k, w, m[k]), at + Len(WriteField(Field(k, w, m[k]))))
        /\ ~OverflowsIn(wireOf, at)
    BY <1>3, <1>4, <2>1, ReadsField
  <2> QED
    BY <1>1, <1>2, <2>2
<1>7. at < Len(wireOf)
  <2> HIDE DEF wireOf, at, part
  <2>1. at + Len(part) <= Len(wireOf) /\ Len(part) \in Nat \ {0} /\ Len(wireOf) \in Nat
    BY <1>1, <1>4, <1>5 DEF At
  <2> QED
    BY <1>4, <2>1
<1>8. Stored(schema, Upto(schema, m, n), f) = Upto(schema, m, k)
  <2> DEFINE old == Upto(schema, m, n)
             new == Upto(schema, m, k)
  <2>1. f.number = k /\ f.wireType = w /\ f.value = m[k]
    BY DEF Field
  <2>2. Stored(schema, old, f) = [old EXCEPT ![k] = m[k]]
    BY <1>1, <1>3, <2>1 DEF Stored
  <2>3. ASSUME NEW i \in DOMAIN schema
        PROVE  new[i] = IF i = k THEN m[k] ELSE old[i]
    <3>1. i \in Nat /\ k \in Nat /\ n \in Nat /\ n < k
      <4>1. Top(schema) \in Nat /\ i \in 1..31
        BY TopInNat DEF SchemaOK
      <4>2. PICK t \in Nat : t = Top(schema)
        BY <4>1
      <4>3. n \in 0..t /\ k \in (n + 1)..t
        BY <1>1, <4>2
      <4> QED
        BY <4>1, <4>2, <4>3
    <3>2. new[i] = (IF i <= k THEN m[i] ELSE Blank(schema)[i])
          /\ old[i] = (IF i <= n THEN m[i] ELSE Blank(schema)[i])
      BY DEF Upto
    <3>3. CASE n < i /\ i < k
      <4>1. i \in (n + 1)..(k - 1)
        BY <3>1, <3>3
      <4>2. ~Written(schema, m, i)
        BY <1>1, <4>1
      <4>3. m[i] = Blank(schema)[i]
        BY <4>2, LeftOut
      <4> QED
        BY <3>1, <3>2, <3>3, <4>3
    <3> QED
      BY <3>1, <3>2, <3>3
  <2>4. /\ old = [i \in DOMAIN schema |-> old[i]] /\ new = [i \in DOMAIN schema |-> new[i]]
    BY DEF Upto
  <2> HIDE DEF old, new
  <2>5. [old EXCEPT ![k] = m[k]] = [i \in DOMAIN schema |-> IF i = k THEN m[k] ELSE old[i]]
    BY <2>4
  <2> QED
    BY <2>2, <2>3, <2>4, <2>5 DEF old, new
<1>9. f = FieldOf(schema, m, k)
  BY DEF FieldOf
<1> HIDE DEF f
<1> QED
  BY <1>6, <1>7, <1>8, <1>9

----------------------------------------------------------------------------
(* The inductive invariant.  Nothing is said of the bytes that arrived: from *)
(* them the first node decodes some message, and from then on the bytes on   *)
(* the path are the encoding of that message.  A decoder that reads the      *)
(* encoding of a message has read a prefix of it and holds what has arrived  *)
(* of the message with it.                                                   *)
Follows(m) ==
  \E n \in 0..Top(Schema[name]) :
     pos = Len(Sums(Schema[name], m)[n]) /\ message = Upto(Schema[name], m, n)

Statuses == {"reading", "decoded", "encoded", "BufferTooSmall"} \cup Errors

TypeOK ==
  /\ name \in DOMAIN Schema
  /\ origin \in Inputs[name]
  /\ wire \in Seq(Byte)
  /\ pos \in Nat /\ (status = "reading" => pos <= Len(wire))
  /\ Typed(Schema[name], message)
  /\ status \in Statuses
  /\ hop \in Nat

\* A node that has decoded the bytes of a message holds the message.
ReadsBack ==
  \A m : Typed(Schema[name], m) /\ wire = Encoding(Schema[name], m) =>
    /\ status = "reading" => Follows(m)
    /\ status = "decoded" => message = m

\* What the first node decoded is the message that is on its way.
OnItsWay ==
  /\ hop = 0 => wire = origin /\ status # "encoded"
  /\ hop = 0 /\ status = "decoded" => arrived = message
  /\ hop # 0 => /\ Typed(Schema[name], arrived)
                /\ status \in {"reading", "decoded", "encoded"} =>
                     wire = Encoding(Schema[name], arrived)

\* When the bytes that arrived were those of a message, it is that message.
FromTheStart ==
  \A m : Typed(Schema[name], m) /\ origin = Encoding(Schema[name], m) /\ hop # 0 => arrived = m

IInv == TypeOK /\ ReadsBack /\ OnItsWay /\ FromTheStart

LEMMA SchemaIs == ASSUME TypeOK PROVE SchemaOK(Schema[name])
BY SchemasOK DEF TypeOK

\* A decoder at the start of an encoding has read its empty prefix.
LEMMA FollowsFromStart ==
  ASSUME NEW schema, SchemaOK(schema), NEW m, Typed(schema, m)
  PROVE  /\ 0 \in 0..Top(schema) /\ Len(Sums(schema, m)[0]) = 0
         /\ Upto(schema, m, 0) = Blank(schema)
<1>1. Top(schema) \in Nat
  BY TopInNat
<1>2. Sums(schema, m)[0] = <<>>
  <2>1. Builds(Sums(schema, m), Top(schema), Parts(schema, m))
    BY SumsAre
  <2> QED
    BY <2>1 DEF Builds
<1>3. Upto(schema, m, 0) = Blank(schema)
  <2>1. \A k \in DOMAIN schema : ~(k <= 0)
    BY DEF SchemaOK
  <2>2. Upto(schema, m, 0) = [k \in DOMAIN schema |-> Blank(schema)[k]]
    BY <2>1 DEF Upto
  <2> QED
    BY <2>2 DEF Blank
<1> QED
  BY <1>1, <1>2, <1>3

\* A node that is about to read the bytes that arrived has read none of them.
THEOREM InitIInv == Init => IInv
<1> SUFFICES ASSUME Init PROVE IInv
  OBVIOUS
<1>1. name \in DOMAIN Schema /\ origin \in Inputs[name] /\ SchemaOK(Schema[name])
  BY SchemasOK DEF Init
<1>2. TypeOK
  <2>1. wire \in Seq(Byte)
    BY <1>1, ValuesAssumption DEF Init, ValuesAssumption
  <2>2. Typed(Schema[name], message)
    BY <1>1, BlankTyped DEF Init
  <2> QED
    BY <1>1, <2>1, <2>2 DEF Init, TypeOK, Statuses
<1>3. ReadsBack
  <2> SUFFICES ASSUME NEW m, Typed(Schema[name], m) PROVE Follows(m)
    BY DEF Init, ReadsBack
  <2> QED
    BY <1>1, FollowsFromStart DEF Init, Follows
<1>4. OnItsWay /\ FromTheStart
  BY DEF Init, OnItsWay, FromTheStart
<1> QED
  BY <1>2, <1>3, <1>4 DEF IInv

LEMMA ReadKeeps == ASSUME IInv, Read PROVE IInv'
<1> DEFINE schema == Schema[name]
           r == NextField(wire, pos)
<1>1. /\ TypeOK /\ ReadsBack /\ OnItsWay /\ FromTheStart
      /\ status = "reading" /\ pos < Len(wire)
      /\ name' = name /\ origin' = origin /\ wire' = wire /\ hop' = hop /\ arrived' = arrived
      /\ r.ok => /\ message' = Stored(schema, message, r.value)
                 /\ pos' = r.next /\ status' = status
      /\ ~r.ok => status' = r.error /\ message' = message /\ pos' = pos
  BY DEF IInv, Read
<1>2. SchemaOK(schema) /\ wire \in Seq(Byte) /\ pos \in Nat /\ Typed(schema, message)
  BY <1>1, SchemaIs DEF TypeOK
<1> HIDE DEF schema, r
<1>3. CASE Refused(r)
  <2>1. r.ok = FALSE /\ r.error \in Errors
    BY <1>3 DEF Refused
  <2>2. status' \in Errors /\ message' = message /\ pos' = pos
    BY <1>1, <2>1
  <2>3. status' \notin {"reading", "decoded", "encoded"}
    BY <2>2 DEF Errors
  <2>4. TypeOK'
    BY <1>1, <2>2, <2>3 DEF TypeOK, Statuses
  <2>5. ReadsBack'
    BY <2>3 DEF ReadsBack
  <2>6. OnItsWay' /\ FromTheStart'
    BY <1>1, <2>2, <2>3 DEF OnItsWay, FromTheStart
  <2> QED
    BY <2>4, <2>5, <2>6 DEF IInv
<1>4. ASSUME NEW number, NEW wireType, NEW value, NEW next, NEW n,
             ReadAs(wire, pos, number, wireType, value, next, n)
      PROVE  IInv'
  <2>1. /\ r = Ok(Field(number, wireType, value), next) /\ Held(wireType, value)
        /\ next \in Nat /\ next <= Len(wire)
    BY <1>4 DEF ReadAs, r
  <2>2. /\ message' = Stored(schema, message, Field(number, wireType, value))
        /\ pos' = next /\ status' = "reading"
    BY <1>1, <2>1 DEF Ok
  <2>3. Typed(schema, message')
    BY <1>2, <2>1, <2>2, TypedRead
  <2>4. TypeOK'
    BY <1>1, <2>1, <2>2, <2>3 DEF TypeOK, Statuses, schema
  <2>5. ReadsBack'
    <3> SUFFICES ASSUME NEW m, Typed(schema, m), wire = Encoding(schema, m)
                 PROVE  Follows(m)'
      BY <1>1, <2>2 DEF ReadsBack, schema
    <3>1. PICK i \in 0..Top(schema) : pos = Len(Sums(schema, m)[i]) /\ message = Upto(schema, m, i)
      BY <1>1 DEF ReadsBack, Follows, schema
    <3>2. ~Complete(schema, m, i)
      BY <1>1, <1>2, <3>1 DEF Complete
    <3>3. PICK k : Continues(schema, m, i, k)
      BY <1>2, <3>2, AfterPrefix
    <3>4. PICK f : /\ NextField(wire, pos) = Ok(f, Len(Sums(schema, m)[k]))
                   /\ Stored(schema, message, f) = Upto(schema, m, k)
      BY <1>2, <3>1, <3>3, ReadStep
    <3>5. pos' = Len(Sums(schema, m)[k]) /\ message' = Upto(schema, m, k)
      BY <1>1, <3>4 DEF r, Ok
    <3>6. k \in 0..Top(schema)
      <4>1. PICK t \in Nat : t = Top(schema)
        BY <1>2, TopInNat
      <4>2. i \in 0..t /\ k \in (i + 1)..t
        BY <3>3, <4>1 DEF Continues
      <4> QED
        BY <4>1, <4>2
    <3> QED
      BY <1>1, <3>5, <3>6 DEF Follows, schema
  <2>6. OnItsWay' /\ FromTheStart'
    BY <1>1, <2>2 DEF OnItsWay, FromTheStart
  <2> QED
    BY <2>4, <2>5, <2>6 DEF IInv
<1> QED
  BY <1>2, <1>3, <1>4, NextFieldIs DEF r

LEMMA DecodedKeeps == ASSUME IInv, Decoded PROVE IInv'
<1> DEFINE schema == Schema[name]
<1>1. /\ TypeOK /\ ReadsBack /\ OnItsWay /\ FromTheStart
      /\ status = "reading" /\ pos >= Len(wire) /\ status' = "decoded"
      /\ arrived' = IF hop = 0 THEN message ELSE arrived
      /\ name' = name /\ origin' = origin /\ wire' = wire /\ hop' = hop
      /\ message' = message /\ pos' = pos
  BY DEF IInv, Decoded
<1>2. SchemaOK(schema)
  BY <1>1, SchemaIs
<1> HIDE DEF schema
<1>3. TypeOK'
  BY <1>1 DEF TypeOK, Statuses
<1>4. ReadsBack'
  <2> SUFFICES ASSUME NEW m, Typed(schema, m), wire = Encoding(schema, m)
               PROVE  message = m
    BY <1>1 DEF ReadsBack, schema
  <2>1. PICK i \in 0..Top(schema) : pos = Len(Sums(schema, m)[i]) /\ message = Upto(schema, m, i)
    BY <1>1 DEF ReadsBack, Follows, schema
  <2>2. ASSUME NEW k, Continues(schema, m, i, k) PROVE FALSE
    <3>1. pos < Len(wire)
      BY <1>2, <2>1, <2>2, ReadStep
    <3> QED
      BY <1>1, <3>1 DEF TypeOK
  <2> QED
    BY <1>2, <2>1, <2>2, AfterPrefix DEF Complete
<1>5. OnItsWay' /\ FromTheStart'
  BY <1>1 DEF OnItsWay, FromTheStart
<1> QED
  BY <1>3, <1>4, <1>5 DEF IInv

\* What a node has decoded is what the first one did.
LEMMA DecodedIs ==
  ASSUME IInv, status = "decoded"
  PROVE  hop = 0 \/ message = arrived
BY DEF IInv, ReadsBack, OnItsWay

LEMMA ReencodeKeeps == ASSUME IInv, Reencode PROVE IInv'
<1> DEFINE schema == Schema[name]
           bytes == Encode(schema, message, Room)
<1>1. /\ TypeOK /\ ReadsBack /\ OnItsWay /\ FromTheStart
      /\ status = "decoded" /\ hop' = hop + 1
      /\ status' = IF bytes.ok THEN "encoded" ELSE bytes.error
      /\ wire' = IF bytes.ok THEN bytes.value ELSE wire
      /\ name' = name /\ origin' = origin /\ message' = message /\ pos' = pos
      /\ arrived' = arrived
  BY DEF IInv, Reencode, ghosts
<1>2. SchemaOK(schema) /\ Typed(schema, message)
  BY <1>1, SchemaIs DEF TypeOK
<1>3. arrived = message
  BY <1>1, DecodedIs DEF OnItsWay
<1> HIDE DEF schema, bytes
<1>4. /\ bytes.ok => bytes.value = Encoding(schema, message)
      /\ ~bytes.ok => bytes.error = "BufferTooSmall"
  BY <1>2, EncodeIs DEF bytes
<1>5. /\ status' \in {"encoded", "BufferTooSmall"}
      /\ status' = "encoded" => wire' = Encoding(schema, message)
      /\ wire' = wire \/ wire' = Encoding(schema, message)
  BY <1>1, <1>4
<1>6. TypeOK'
  <2>1. wire' \in Seq(Byte)
    BY <1>1, <1>2, <1>5, SumsAre DEF TypeOK
  <2> QED
    BY <1>1, <1>5, <2>1 DEF TypeOK, Statuses
<1>7. ReadsBack'
  BY <1>5 DEF ReadsBack
<1>8. hop' # 0
  BY <1>1 DEF TypeOK
<1>9. OnItsWay'
  BY <1>1, <1>2, <1>3, <1>5, <1>8 DEF OnItsWay, schema
<1>10. FromTheStart'
  <2> SUFFICES ASSUME NEW m, Typed(schema, m), origin = Encoding(schema, m)
               PROVE  arrived = m
    BY <1>1 DEF FromTheStart, schema
  <2>1. CASE hop # 0
    BY <1>1, <2>1 DEF FromTheStart, schema
  <2>2. CASE hop = 0
    BY <1>1, <1>3, <2>2 DEF OnItsWay, ReadsBack, schema
  <2> QED
    BY <2>1, <2>2
<1> QED
  BY <1>6, <1>7, <1>9, <1>10 DEF IInv

LEMMA ForwardKeeps == ASSUME IInv, Forward PROVE IInv'
<1> DEFINE schema == Schema[name]
<1>1. /\ TypeOK /\ OnItsWay /\ FromTheStart
      /\ status = "encoded" /\ status' = "reading" /\ pos' = 0
      /\ message' = Blank(schema)
      /\ name' = name /\ origin' = origin /\ wire' = wire /\ hop' = hop
      /\ arrived' = arrived
  BY DEF IInv, Forward, ghosts
<1>2. SchemaOK(schema)
  BY <1>1, SchemaIs
<1> HIDE DEF schema
<1>3. TypeOK'
  <2>1. Typed(schema, message')
    BY <1>1, <1>2, BlankTyped
  <2> QED
    BY <1>1, <2>1 DEF TypeOK, Statuses, schema
<1>4. ReadsBack'
  <2> SUFFICES ASSUME NEW m, Typed(schema, m) PROVE Follows(m)'
    BY <1>1 DEF ReadsBack, schema
  <2> QED
    BY <1>1, <1>2, FollowsFromStart DEF Follows, schema
<1>5. OnItsWay' /\ FromTheStart'
  BY <1>1 DEF OnItsWay, FromTheStart
<1> QED
  BY <1>3, <1>4, <1>5 DEF IInv

\* Every step keeps the invariant.
THEOREM NextIInv == IInv /\ [Next]_vars => IInv'
<1> SUFFICES ASSUME IInv, [Next]_vars PROVE IInv'
  OBVIOUS
<1>1. CASE UNCHANGED vars
  BY <1>1 DEF vars, ghosts, IInv, TypeOK, ReadsBack, OnItsWay, FromTheStart, Follows
<1> QED
  BY <1>1, ReadKeeps, DecodedKeeps, ReencodeKeeps, ForwardKeeps DEF Next

\* On every path, the bytes after the first node are the encoding of what it
\* decoded, and every decoder holds the fields it has read (message.rs:10-35).
THEOREM Invariance == Spec => []IInv
<1> QED
  BY InitIInv, NextIInv, PTL DEF Spec

\* From whatever bytes the first node decoded a message, every node after it that
\* decodes what it is sent decodes the same message (message.rs:10-35).
THEOREM NodesAlwaysAgree == Spec => []NodesAgree
<1>1. IInv => NodesAgree
  BY DecodedIs DEF IInv, OnItsWay, NodesAgree
<1> QED
  BY <1>1, Invariance, PTL

----------------------------------------------------------------------------
(* Acknowledgements.                                                         *)

\* A number below 128 is written on one byte.
LEMMA OneByte ==
  ASSUME NEW v \in 0..127
  PROVE  v \in Word /\ WriteVarint(v) = <<v>>
<1>1. v \in Nat /\ v \in Word
  BY Small DEF Word
<1> DEFINE n == VarintLength(v)
<1>2. n \in 1..MaxVarint /\ MaxVarint \in Nat
  BY <1>1, VarintLengthIs, MaxVarintIs
<1>3. n = 1
  <2>1. Base(0 + 1) = 128 * Base(0) /\ Base(0) = 1 /\ 0 + 1 = 1
    BY BaseIs
  <2>2. v < Base(1)
    BY <2>1
  <2>3. n <= 1
    BY <1>1, <2>2, FewestGroups
  <2> HIDE DEF n
  <2> QED
    BY <1>2, <2>3
<1>4. v \div 2^(7 * (1 - 1)) = v
  <2>1. 7 * (1 - 1) = 0
    OBVIOUS
  <2> QED
    BY <2>1, PowerOfZero
<1>5. WriteVarint(v) = [i \in 1..1 |-> v]
  <2>1. WriteVarint(v) = [i \in 1..1 |-> ((v \div 2^(7 * (i - 1))) % 128) + (IF i < 1 THEN 128 ELSE 0)]
    BY <1>3 DEF WriteVarint, n
  <2>2. \A i \in 1..1 : ((v \div 2^(7 * (i - 1))) % 128) + (IF i < 1 THEN 128 ELSE 0) = v
    <3>1. \A i \in 1..1 : i = 1
      OBVIOUS
    <3>2. (v % 128) + 0 = v
      OBVIOUS
    <3> QED
      BY <1>4, <3>1, <3>2
  <2> QED
    BY <2>1, <2>2
<1> QED
  BY <1>1, <1>5

\* The payload is the routing message that says zero.
LEMMA PayloadDecodes ==
  LET routing == Decode(Routing, ACK_PAYLOAD)
  IN  routing.ok /\ routing.value[3] = 0
<1> DEFINE p == ACK_PAYLOAD
           step(before) ==
             IF ~before.ok \/ before.next = Len(p) THEN before
             ELSE LET field == NextField(p, before.next)
                  IN  IF field.ok THEN Ok(Stored(Routing, before.value, field.value), field.next)
                                  ELSE field
           zero == Ok(Blank(Routing), 0)
           Turns(g) == [n \in 0..Len(p) |-> IF n = 0 THEN zero ELSE step(g[n - 1])]
           h == CHOOSE g : g = Turns(g)
           f == Field(3, VARINT, 0)
           one == Ok(Stored(Routing, Blank(Routing), f), 2)
<1>1. p \in Seq(Byte) /\ Len(p) = 2
  BY DEF ACK_PAYLOAD, Byte
<1>2. WriteField(f) = p
  <2>1. WriteVarint(24) = <<24>> /\ WriteVarint(0) = <<0>>
    <3>1. 24 \in 0..127 /\ 0 \in 0..127
      OBVIOUS
    <3>2. \A v \in 0..127 : WriteVarint(v) = <<v>>
      BY OneByte
    <3>3. WriteVarint(24) = <<24>>
      BY <3>1, <3>2, Zenon
    <3>4. WriteVarint(0) = <<0>>
      BY <3>1, <3>2, Zenon
    <3> QED
      BY <3>3, <3>4, Zenon
  <2>2. WriteField(f) = WriteVarint(24) \o WriteVarint(0)
    <3>1. Writable(3, VARINT, 0)
      BY OneByte DEF Writable, VARINT, LEN, FIXED32
    <3>2. WriteField(Field(3, VARINT, 0)) = WriteVarint(8 * 3 + VARINT) \o Body(VARINT, 0)
      BY <3>1, WriteFieldIs
    <3>3. 8 * 3 + VARINT = 24 /\ Body(VARINT, 0) = WriteVarint(0)
      BY DEF VARINT, LEN, Body
    <3> QED
      BY <3>2, <3>3
  <2>3. <<24>> \o <<0>> = <<24, 0>>
    <3> DEFINE c == <<24>> \o <<0>>
    <3>1. c \in Seq(Byte) /\ Len(c) = 2 /\ c[1] = 24 /\ c[2] = 0
      BY DEF Byte
    <3> HIDE DEF c
    <3>2. c = p
      BY <1>1, <3>1, SameSeq DEF ACK_PAYLOAD
    <3> QED
      BY <3>2 DEF c, ACK_PAYLOAD
  <2> QED
    BY <2>1, <2>2, <2>3 DEF ACK_PAYLOAD
<1>3. NextField(p, 0) = Ok(f, 2)
  <2>1. Writable(3, VARINT, 0)
    BY OneByte DEF Writable, VARINT, LEN, FIXED32
  <2> HIDE DEF p
  <2>2. At(p, 0, WriteField(Field(3, VARINT, 0)))
    <3>1. \A i \in 1..2 : 0 + i = i
      OBVIOUS
    <3>2. At(p, 0, p)
      BY <1>1, <3>1 DEF At
    <3> QED
      BY <1>2, <3>2
  <2>3. NextField(p, 0) = Ok(Field(3, VARINT, 0), 0 + Len(WriteField(Field(3, VARINT, 0))))
    BY <1>1, <2>1, <2>2, ReadsField
  <2> QED
    BY <1>1, <1>2, <2>3, SMTT(30)
<1> HIDE DEF f
<1>4. step(zero) = one
  <2>1. zero.ok /\ zero.next = 0 /\ zero.value = Blank(Routing)
    BY DEF Ok
  <2>2. NextField(p, 0).ok /\ NextField(p, 0).value = f /\ NextField(p, 0).next = 2
    BY <1>3 DEF Ok
  <2> HIDE DEF zero, p
  <2> QED
    BY <1>1, <2>1, <2>2
<1>5. step(one) = one
  <2>1. one.ok /\ one.next = 2
    BY DEF Ok
  <2> HIDE DEF one, p
  <2> QED
    BY <1>1, <2>1
<1> HIDE DEF step, zero, one
<1>6. \E g : g = Turns(g)
  <2> DEFINE G == [n \in 0..Len(p) |-> IF n = 0 THEN zero ELSE one]
  <2>1. \A n \in 0..Len(p) : n # 0 => n - 1 \in 0..Len(p)
    BY <1>1
  <2>2. \A n \in 0..Len(p) : n # 0 => step(G[n - 1]) = one
    BY <1>4, <1>5, <2>1
  <2>3. G = Turns(G)
    BY <2>2
  <2> QED
    BY <2>3
<1>7. h = Turns(h)
  BY <1>6
<1>8. Decode(Routing, p) = h[2]
  BY <1>1 DEF Decode, step, zero
<1> HIDE DEF h
<1>9. h[2] = one
  <2>1. h[0] = zero /\ h[1] = step(h[1 - 1]) /\ h[2] = step(h[2 - 1])
    <3> HIDE DEF p
    <3>1. 0 \in 0..Len(p) /\ 1 \in 0..Len(p) /\ 2 \in 0..Len(p)
      BY <1>1
    <3> QED
      BY <1>7, <3>1
  <2>2. 1 - 1 = 0 /\ 2 - 1 = 1
    OBVIOUS
  <2> QED
    BY <1>4, <1>5, <2>1, <2>2
<1>10. one.ok /\ one.value[3] = 0
  <2>1. f.number = 3 /\ f.wireType = VARINT /\ f.value = 0
    BY DEF f, Field
  <2>2. DOMAIN Routing = {3} /\ Routing[3].kind = "u32"
    BY DEF Routing
  <2>3. Narrow("u32", 0) = 0
    <3>1. PICK w \in Nat \ {0} : w = 2^U32Bits
      BY Small
    <3>2. 0 % w = 0
      BY <3>1
    <3> QED
      BY <3>1, <3>2 DEF Narrow
  <2>4. Stored(Routing, Blank(Routing), f)[3] = 0
    BY <2>1, <2>2, <2>3 DEF Stored, Blank, WireTypeOf
  <2> QED
    BY <2>4 DEF one, Ok
<1> QED
  BY <1>8, <1>9, <1>10

Acked(id) ==
  [n \in 1..10 |-> IF n = 1 THEN ROUTING_APP ELSE IF n = 2 THEN ACK_PAYLOAD
                   ELSE IF n = 6 THEN id ELSE Blank(Data)[n]]

Identifier(id) == id \in [1..4 -> Byte]

LEMMA IdentifierIs == ASSUME NEW id, Identifier(id) PROVE id \in Seq(Byte) /\ Len(id) = 4
<1>1. PICK n \in Nat : n = 4
  OBVIOUS
<1>2. id \in [1..n -> Byte]
  BY <1>1 DEF Identifier
<1>3. id \in Seq(Byte) /\ Len(id) = n
  BY <1>2
<1> QED
  BY <1>1, <1>3

\* A field with a small number and a short body is short.
LEMMA ShortField ==
  ASSUME NEW n \in 1..10, NEW w, NEW v, Writable(n, w, v), Len(Body(w, v)) <= 4
  PROVE  Len(WriteField(Field(n, w, v))) <= 6
<1> DEFINE tag == WriteVarint(8 * n + w)
           body == Body(w, v)
<1>1. tag \in Seq(Byte) /\ body \in Seq(Byte) /\ WriteField(Field(n, w, v)) = tag \o body
  BY WriteFieldIs
<1>2. 8 * n + w \in 0..127
  BY DEF Writable, VARINT, LEN, FIXED32
<1>3. Len(tag) = 1
  <2>1. PICK u \in 0..127 : u = 8 * n + w
    BY <1>2
  <2>2. WriteVarint(u) = <<u>>
    BY OneByte
  <2> QED
    BY <2>1, <2>2
<1> HIDE DEF tag, body
<1>4. Len(tag \o body) = Len(tag) + Len(body) /\ Len(body) \in Nat
  BY <1>1
<1> QED
  BY <1>1, <1>3, <1>4 DEF body

\* The fields of an acknowledgement are short.
LEMMA ShortBodies ==
  /\ Len(Body(VARINT, ROUTING_APP)) <= 4
  /\ Len(Body(LEN, ACK_PAYLOAD)) <= 4
  /\ \A id : Identifier(id) => Len(Body(FIXED32, id)) <= 4
<1>1. \A v \in 0..127 : WriteVarint(v) = <<v>>
  BY OneByte
<1>2. 5 \in 0..127 /\ 2 \in 0..127
  OBVIOUS
<1>3. WriteVarint(5) = <<5>>
  BY <1>1, <1>2, Zenon
<1>4. WriteVarint(2) = <<2>>
  BY <1>1, <1>2, Zenon
<1>5. Len(Body(VARINT, ROUTING_APP)) <= 4
  <2>1. Body(VARINT, ROUTING_APP) = <<5>>
    BY <1>3 DEF Body, VARINT, LEN, ROUTING_APP
  <2> QED
    BY <2>1
<1>6. Len(Body(LEN, ACK_PAYLOAD)) <= 4
  <2>1. ACK_PAYLOAD \in Seq(Byte) /\ Len(ACK_PAYLOAD) = 2 /\ <<2>> \in Seq(Byte) /\ Len(<<2>>) = 1
    BY DEF ACK_PAYLOAD, Byte
  <2>2. Body(LEN, ACK_PAYLOAD) = WriteVarint(Len(ACK_PAYLOAD)) \o ACK_PAYLOAD
    BY DEF Body, VARINT, LEN
  <2>3. Len(<<2>> \o ACK_PAYLOAD) = Len(<<2>>) + Len(ACK_PAYLOAD)
    <3> DEFINE l == <<2>>
    <3>1. l \in Seq(Byte)
      BY <2>1
    <3> HIDE DEF l
    <3>2. ACK_PAYLOAD \in Seq(Byte)
      BY <2>1
    <3>3. Len(l \o ACK_PAYLOAD) = Len(l) + Len(ACK_PAYLOAD)
      BY <3>1, <3>2
    <3> QED
      BY <3>3 DEF l
  <2>4. Len(Body(LEN, ACK_PAYLOAD)) = 1 + 2
    BY <1>4, <2>1, <2>2, <2>3, Zenon
  <2> QED
    BY <2>4
<1>7. ASSUME NEW id, Identifier(id) PROVE Len(Body(FIXED32, id)) <= 4
  <2>1. Body(FIXED32, id) = id
    BY DEF Body, VARINT, LEN, FIXED32
  <2>2. Len(id) = 4
    BY <1>7, IdentifierIs
  <2>3. Len(Body(FIXED32, id)) = 4
    BY <2>1, <2>2, Zenon
  <2> QED
    BY <2>3
<1> QED
  BY <1>5, <1>6, <1>7

\* An acknowledgement is a message of its wrapper, and short.
LEMMA AcknowledgementIs ==
  ASSUME NEW id, Identifier(id)
  PROVE  /\ Acknowledgement(id) = Acked(id) /\ Typed(Data, Acknowledgement(id))
         /\ AckBytes(id) = Encoding(Data, Acknowledgement(id))
<1> DEFINE m == Acknowledgement(id)
<1>1. DOMAIN Data = 1..10 /\ SchemaOK(Data)
  BY SchemasOK DEF Data, Schema
<1>2. m = Acked(id)
  <2> DEFINE b == Blank(Data)
  <2>1. b = [n \in 1..10 |-> b[n]]
    BY <1>1 DEF Blank
  <2> HIDE DEF b
  <2>2. m = [b EXCEPT ![1] = ROUTING_APP, ![2] = ACK_PAYLOAD, ![6] = id]
    BY DEF Acknowledgement, b
  <2>3. m = [n \in 1..10 |-> IF n = 1 THEN ROUTING_APP ELSE IF n = 2 THEN ACK_PAYLOAD
                             ELSE IF n = 6 THEN id ELSE b[n]]
    <3> DEFINE b1 == [b EXCEPT ![1] = ROUTING_APP]
               b2 == [b1 EXCEPT ![2] = ACK_PAYLOAD]
               b3 == [b2 EXCEPT ![6] = id]
    <3>1. b1 = [n \in 1..10 |-> IF n = 1 THEN ROUTING_APP ELSE b[n]]
      BY <2>1
    <3>2. m = b3
      BY <2>1, <2>2
    <3> HIDE DEF b1, m
    <3>3. b2 = [n \in 1..10 |-> IF n = 2 THEN ACK_PAYLOAD ELSE b1[n]]
      BY <3>1
    <3> HIDE DEF b2
    <3>4. b3 = [n \in 1..10 |-> IF n = 6 THEN id ELSE b2[n]]
      BY <3>3
    <3> HIDE DEF b3
    <3> QED
      BY <3>1, <3>2, <3>3, <3>4
  <2> QED
    BY <2>3 DEF Acked, b
<1>3. /\ m[1] = ROUTING_APP /\ m[2] = ACK_PAYLOAD /\ m[6] = id
      /\ \A n \in (1..10) \ {1, 2, 6} : m[n] = Blank(Data)[n]
  BY <1>2 DEF Acked
<1>4. /\ Data[1] = Implicit("u32") /\ Data[2] = Implicit("bytes") /\ Data[6] = Implicit("fixed32")
  BY DEF Data
<1> HIDE DEF m
<1>5. /\ InKind("u32", ROUTING_APP) /\ InKind("bytes", ACK_PAYLOAD) /\ InKind("fixed32", id)
  <2>1. id \in Seq(Byte) /\ Len(id) = 4
    BY IdentifierIs
  <2>2. ACK_PAYLOAD \in Seq(Byte) /\ Len(ACK_PAYLOAD) = 2
    BY DEF ACK_PAYLOAD, Byte
  <2>3. 2 \in Word
    BY Small DEF Word
  <2> QED
    BY <2>1, <2>2, <2>3, Small DEF InKind, ROUTING_APP
<1>6. Typed(Data, m)
  <2>1. ASSUME NEW n \in 1..10
        PROVE  \/ InKind(Data[n].kind, m[n])
               \/ Data[n].written = "present" /\ m[n] = Absent
    <3>1. CASE n \in {1, 2, 6}
      BY <1>3, <1>4, <1>5, <3>1 DEF Implicit
    <3>2. CASE n \notin {1, 2, 6}
      <4>1. Typed(Data, Blank(Data))
        BY <1>1, BlankTyped
      <4> QED
        BY <1>1, <1>3, <3>2, <4>1 DEF Typed
    <3> QED
      BY <3>1, <3>2
  <2>2. m = [n \in DOMAIN Data |-> m[n]]
    BY <1>1, <1>2 DEF Acked
  <2> QED
    BY <1>1, <2>1, <2>2 DEF Typed
<1> DEFINE W == Sums(Data, m)
           parts == Parts(Data, m)
<1>7. Top(Data) = 10
  <2>1. DOMAIN Data \in SUBSET Nat /\ 10 \in DOMAIN Data /\ \A n \in DOMAIN Data : n <= 10
    BY <1>1
  <2> QED
    BY <2>1, MaxIs DEF Top
<1>8. /\ Builds(W, 10, parts) /\ AreParts(parts, 10)
  BY <1>1, <1>6, <1>7, SumsAre
<1>9. ASSUME NEW n \in 1..10 PROVE Len(parts[n]) <= 6
  <2>1. parts[n] = FieldBytes(Data, m, n)
    BY <1>7 DEF Parts
  <2>2. CASE ~Written(Data, m, n)
    BY <2>1, <2>2 DEF FieldBytes
  <2>3. CASE Written(Data, m, n)
    <3>1. n \in {1, 2, 6}
      <4>1. ASSUME n \notin {1, 2, 6} PROVE FALSE
        <5>1. m[n] = Blank(Data)[n]
          BY <1>3, <4>1
        <5>2. Data[n].written # "always"
          BY DEF Data, Implicit, Optional
        <5> QED
          BY <1>1, <2>3, <5>1, <5>2 DEF Written, Blank, SchemaOK
      <4> QED
        BY <4>1
    <3> DEFINE w == WireTypeOf(Data[n].kind)
    <3>2. Writable(n, w, m[n])
      BY <1>1, <1>6, <2>3, WrittenIs
    <3>3. parts[n] = WriteField(Field(n, w, m[n]))
      BY <1>1, <2>1, <2>3 DEF FieldBytes
    <3>4. Len(Body(w, m[n])) <= 4
      BY <1>3, <1>4, <3>1, ShortBodies DEF Implicit, WireTypeOf
    <3> HIDE DEF w, parts
    <3> QED
      BY <3>2, <3>3, <3>4, ShortField
  <2> QED
    BY <2>2, <2>3
<1>10. Len(Encoding(Data, m)) <= 60
  <2> DEFINE T == {i \in Nat : i <= 10 => Len(W[i]) <= 6 * i}
  <2>1. /\ W[0] = <<>> /\ \A i \in 0..10 : W[i] \in Seq(Byte)
        /\ \A i \in 1..10 : W[i] = W[i - 1] \o parts[i] /\ parts[i] \in Seq(Byte)
    BY <1>8, BuildsIs
  <2> HIDE DEF W, parts
  <2>2. 0 \in T
    BY <2>1
  <2>3. ASSUME NEW i \in Nat, i \in T PROVE i + 1 \in T
    <3> SUFFICES ASSUME i + 1 <= 10 PROVE Len(W[i + 1]) <= 6 * (i + 1)
      OBVIOUS
    <3>1. i + 1 \in 1..10 /\ (i + 1) - 1 = i /\ i \in 0..10
      OBVIOUS
    <3>2. W[i + 1] = W[i] \o parts[i + 1] /\ parts[i + 1] \in Seq(Byte) /\ W[i] \in Seq(Byte)
      BY <2>1, <3>1
    <3>3. Len(W[i + 1]) = Len(W[i]) + Len(parts[i + 1])
      BY <3>2
    <3>4. Len(W[i]) <= 6 * i /\ Len(parts[i + 1]) <= 6 /\ Len(W[i]) \in Nat /\ Len(parts[i + 1]) \in Nat
      <4>1. Len(W[i]) <= 6 * i
        BY <2>3
      <4>2. Len(parts[i + 1]) <= 6
        BY <1>9, <3>1
      <4> QED
        BY <3>2, <4>1, <4>2
    <3>5. PICK a \in Nat, b \in Nat : a = Len(W[i]) /\ b = Len(parts[i + 1])
      BY <3>4
    <3>6. a <= 6 * i /\ b <= 6 /\ Len(W[i + 1]) = a + b
      BY <3>3, <3>4, <3>5
    <3> QED
      BY <3>6
  <2> HIDE DEF T
  <2>4. 10 \in T
    BY <2>2, <2>3, SetInduction
  <2> QED
    BY <1>7, <2>4 DEF Encoding, T, W
<1>11. AckBytes(id) = Encoding(Data, m)
  <2>1. Len(Encoding(Data, m)) <= 64
    BY <1>1, <1>6, <1>10, SumsAre
  <2> QED
    BY <1>1, <1>6, <2>1, EncodeIs DEF AckBytes, m
<1> QED
  BY <1>2, <1>6, <1>11 DEF m

\* Whoever decodes the acknowledgement of an identifier recognises it.
LEMMA Recognised ==
  ASSUME NEW id, Identifier(id)
  PROVE  Acknowledges(Acknowledgement(id)) =
           IF id = Default("fixed32") THEN Absent ELSE [request |-> id, status |-> 0]
<1> DEFINE m == Acknowledgement(id)
<1>1. m[1] = ROUTING_APP /\ m[2] = ACK_PAYLOAD /\ m[6] = id
  BY AcknowledgementIs DEF Acked
<1> HIDE DEF m
<1>2. Acknowledges(m) = IF id = Default("fixed32") THEN Absent
                        ELSE [request |-> id, status |-> 0]
  BY <1>1, PayloadDecodes DEF Acknowledges
<1> QED
  BY <1>2 DEF m

\* The acknowledgement of every identifier but 0 is recognised wherever it is
\* decoded, by however many nodes it was encoded again (delivery.rs:296-336).
THEOREM AckAlwaysRecognised == Spec => []AckIsRecognised
<1>1. IInv => AckIsRecognised
  <2> SUFFICES ASSUME IInv, NEW id \in RequestIds, name = "Data", status = "decoded",
                      origin = AckBytes(id)
               PROVE  message = Acknowledgement(id)
    BY Recognised, ValuesAssumption DEF AckIsRecognised, ValuesAssumption, Identifier
  <2>1. Identifier(id) /\ Schema[name] = Data
    BY ValuesAssumption DEF ValuesAssumption, Schema, Identifier
  <2>2. Typed(Schema[name], Acknowledgement(id)) /\ origin = Encoding(Schema[name], Acknowledgement(id))
    BY <2>1, AcknowledgementIs
  <2>3. CASE hop = 0
    BY <2>2, <2>3 DEF IInv, OnItsWay, ReadsBack
  <2>4. CASE hop # 0
    <3>1. arrived = Acknowledgement(id)
      BY <2>2, <2>4 DEF IInv, FromTheStart
    <3> QED
      BY <2>4, <3>1, DecodedIs
  <2> QED
    BY <2>3, <2>4
<1> QED
  BY <1>1, Invariance, PTL

----------------------------------------------------------------------------
(* The canonical round trip.  Fits(buf, at, s, end): what was read between   *)
(* two positions took at least the bytes of s, and if it took no more it is  *)
(* s.                                                                        *)
Fits(buf, at, s, end) ==
  at + Len(s) <= end /\ (at + Len(s) = end => At(buf, at, s))

LEMMA FitsConcat ==
  ASSUME NEW buf \in Seq(Byte), NEW at \in Nat, NEW s \in Seq(Byte), NEW t \in Seq(Byte),
         NEW mid \in Nat, NEW end \in Nat, Fits(buf, at, s, mid), Fits(buf, mid, t, end)
  PROVE  Fits(buf, at, s \o t, end)
<1> DEFINE k == Len(s)
           n == Len(t)
<1>1. k \in Nat /\ n \in Nat /\ Len(s \o t) = k + n
  OBVIOUS
<1>2. /\ at + k <= mid /\ (at + k = mid => At(buf, at, s))
      /\ mid + n <= end /\ (mid + n = end => At(buf, mid, t))
  BY DEF Fits
<1> HIDE DEF k, n
<1>3. at + (k + n) <= end
  BY <1>1, <1>2
<1>4. ASSUME at + (k + n) = end PROVE At(buf, at, s \o t)
  <2>1. at + k = mid /\ mid + n = end
    BY <1>1, <1>2, <1>4
  <2>2. At(buf, at, s) /\ At(buf, at + k, t)
    BY <1>2, <2>1
  <2> QED
    BY <2>2, AtConcat DEF k
<1> QED
  BY <1>1, <1>3, <1>4 DEF Fits

\* A varint that does not overflow has at least the bytes its value needs.
LEMMA VarintLeast ==
  ASSUME NEW buf \in Seq(Byte), NEW at \in Nat, ReadVarint(buf, at).ok, ~Overflows(buf, at)
  PROVE  \E v \in Word, next \in Nat :
            /\ ReadVarint(buf, at) = Ok(v, next) /\ next <= Len(buf)
            /\ Fits(buf, at, WriteVarint(v), next)
<1>1. PICK n \in Nat :
         /\ VarintOf(buf, at, n)
         /\ ReadVarint(buf, at) = Ok(Joined(SubSeq(buf, at + 1, at + n)) % 2^WordBits, at + n)
  BY ReadVarintIs
<1> DEFINE s == SubSeq(buf, at + 1, at + n)
           v == Joined(s)
<1>2. at + n <= Len(buf) /\ n \in 1..MaxVarint /\ n \in Nat \ {0}
  BY <1>1, MaxVarintIs DEF VarintOf
<1>3. s \in Seq(Byte) /\ Len(s) = n /\ \A i \in 1..n : s[i] = buf[at + i]
  BY <1>2, SubSeqAt
<1> HIDE DEF s
<1>4. v \in Nat /\ v < Base(n) /\ \A i \in 1..n : s[i] % 128 = Digit(v, i)
  BY <1>3, DigitsOfJoined
<1>5. v < 2^WordBits
  <2>1. ReadVarint(buf, at).next = at + n
    BY <1>1 DEF Ok
  <2>2. ~(Joined(SubSeq(buf, at + 1, at + n)) >= 2^WordBits)
    BY <2>1 DEF Overflows
  <2> QED
    BY <1>4, <2>2, Small DEF s
<1> HIDE DEF v
<1>6. v \in Word
  BY <1>4, <1>5 DEF Word
<1>7. ReadVarint(buf, at) = Ok(v, at + n)
  <2>1. PICK w \in Nat \ {0} : w = 2^WordBits
    BY Small
  <2>2. v % w = v
    BY <1>4, <1>5, <2>1
  <2> QED
    BY <1>1, <2>1, <2>2 DEF v, s
<1> DEFINE t == WriteVarint(v)
<1>8. /\ t \in Seq(Byte) /\ Len(t) = VarintLength(v)
      /\ \A i \in 1..Len(t) : t[i] % 128 = Digit(v, i) /\ (t[i] < 128 <=> i = Len(t))
  BY <1>6, WriteVarintIs
<1>9. Len(t) <= n
  BY <1>2, <1>4, <1>6, <1>8, FewestGroups
<1> HIDE DEF t
<1>10. ASSUME Len(t) = n PROVE At(buf, at, t)
  <2>1. ASSUME NEW i \in 1..n PROVE buf[at + i] = t[i]
    <3>1. s[i] \in 0..255 /\ t[i] \in 0..255
      <4>1. s[i] \in Byte /\ t[i] \in Byte
        BY <1>3, <1>8, <1>10, <2>1
      <4> QED
        BY <4>1 DEF Byte
    <3>2. s[i] % 128 = t[i] % 128
      BY <1>4, <1>8, <1>10, <2>1
    <3>3. s[i] < 128 <=> i = n
      <4>1. i = n => buf[at + i] < 128
        BY <1>1 DEF VarintOf
      <4>2. i # n => i \in 1..(n - 1)
        BY <1>2, <2>1
      <4>3. i # n => ~(buf[at + i] < 128)
        BY <1>1, <4>2 DEF VarintOf
      <4> QED
        BY <1>3, <2>1, <4>1, <4>3
    <3>4. t[i] < 128 <=> i = n
      BY <1>8, <1>10, <2>1
    <3>5. PICK a \in 0..255, b \in 0..255 : a = s[i] /\ b = t[i]
      BY <3>1
    <3>6. a % 128 = b % 128 /\ (a < 128 <=> b < 128)
      BY <3>2, <3>3, <3>4, <3>5
    <3>7. a = b
      BY <3>6
    <3> QED
      BY <1>3, <2>1, <3>5, <3>7
  <2> QED
    BY <1>2, <1>10, <2>1 DEF At
<1>11. Fits(buf, at, t, at + n) /\ at + n \in Nat
  <2>1. Len(t) \in Nat
    BY <1>8
  <2> QED
    BY <1>2, <1>9, <1>10, <2>1 DEF Fits
<1> QED
  BY <1>2, <1>6, <1>7, <1>11 DEF t

\* Bytes taken as they are fit themselves.
LEMMA TakeFits ==
  ASSUME NEW buf \in Seq(Byte), NEW at \in Nat, NEW n \in Nat, NEW value, NEW next,
         Take(buf, at, n) = Ok(value, next)
  PROVE  /\ value \in Seq(Byte) /\ Len(value) = n /\ next = at + n
         /\ Fits(buf, at, value, next)
<1> DEFINE s == SubSeq(buf, at + 1, at + n)
<1>1. at + n <= Len(buf) /\ value = s /\ next = at + n
  BY DEF Take, Ok, Failed
<1>2. s \in Seq(Byte) /\ Len(s) = n /\ \A i \in 1..n : s[i] = buf[at + i]
  BY <1>1, SubSeqAt
<1> HIDE DEF s
<1> QED
  BY <1>1, <1>2 DEF Fits, At

\* A field the Reader takes, also of a wire type no wrapper writes.
Taking(f) ==
  \E number, wireType, value :
     /\ f = Field(number, wireType, value)
     /\ number \in Nat \ {0} /\ Held(wireType, value) /\ 8 * number + wireType \in Word

LEMMA TakingIs ==
  ASSUME NEW number \in Nat, NEW wireType, NEW value, Held(wireType, value),
         8 * number + wireType \in Word
  PROVE  /\ wireType \in {VARINT, FIXED64, LEN, FIXED32}
         /\ WriteVarint(8 * number + wireType) \in Seq(Byte)
         /\ Body(wireType, value) \in Seq(Byte)
         /\ WriteField(Field(number, wireType, value)) =
              WriteVarint(8 * number + wireType) \o Body(wireType, value)
         /\ LeastLength(Field(number, wireType, value)) =
              Len(WriteField(Field(number, wireType, value)))
<1> DEFINE f == Field(number, wireType, value)
           s == WriteVarint(8 * number + wireType)
           t == Body(wireType, value)
<1>1. f.number = number /\ f.wireType = wireType /\ f.value = value
  BY DEF Field
<1> HIDE DEF f
<1>2. wireType \in {VARINT, FIXED64, LEN, FIXED32}
  BY DEF Held
<1>3. s \in Seq(Byte) /\ Len(s) = VarintLength(8 * number + wireType)
  BY WriteVarintIs
<1>4. WriteField(f) = s \o t
  BY <1>1 DEF WriteField, Body
<1> HIDE DEF s
<1>5. t \in Seq(Byte) /\ LeastLength(f) = Len(s) + Len(t)
  <2>1. CASE wireType = VARINT
    <3>1. t = WriteVarint(value) /\ value \in Word
      BY <2>1 DEF Held, Body, VARINT, LEN, FIXED32, FIXED64
    <3>2. t \in Seq(Byte) /\ Len(t) = VarintLength(value)
      BY <3>1, WriteVarintIs
    <3>3. LeastLength(f) = Len(s) + VarintLength(value)
      BY <1>1, <1>3, <2>1 DEF LeastLength, VARINT, LEN, FIXED32, FIXED64
    <3> QED
      BY <3>2, <3>3
  <2>2. CASE wireType = LEN
    <3> DEFINE l == WriteVarint(Len(value))
    <3>1. t = l \o value /\ value \in Seq(Byte) /\ Len(value) \in Word
      BY <2>2 DEF Held, Body, VARINT, LEN, FIXED32, FIXED64
    <3>2. l \in Seq(Byte) /\ Len(l) = VarintLength(Len(value))
      BY <3>1, WriteVarintIs
    <3>3. LeastLength(f) = Len(s) + (VarintLength(Len(value)) + Len(value))
      BY <1>1, <1>3, <2>2 DEF LeastLength, VARINT, LEN, FIXED32, FIXED64
    <3> HIDE DEF l, t
    <3>4. l \o value \in Seq(Byte) /\ Len(l \o value) = Len(l) + Len(value)
      <4>1. value \in Seq(Byte)
        BY <3>1
      <4>2. l \in Seq(Byte)
        BY <3>2
      <4> QED
        BY <4>1, <4>2
    <3> QED
      BY <3>1, <3>2, <3>3, <3>4
  <2>3. CASE wireType = FIXED32
    <3>1. t = value /\ value \in Seq(Byte) /\ Len(value) = 4
      BY <2>3 DEF Held, Body, VARINT, LEN, FIXED32, FIXED64
    <3>2. LeastLength(f) = Len(s) + 4
      BY <1>1, <1>3, <2>3 DEF LeastLength, VARINT, LEN, FIXED32, FIXED64
    <3> QED
      BY <3>1, <3>2
  <2>4. CASE wireType = FIXED64
    <3>1. t = value /\ value \in Seq(Byte) /\ Len(value) = 8
      BY <2>4 DEF Held, Body, VARINT, LEN, FIXED32, FIXED64
    <3>2. LeastLength(f) = Len(s) + 8
      BY <1>1, <1>3, <2>4 DEF LeastLength, VARINT, LEN, FIXED32, FIXED64
    <3> QED
      BY <3>1, <3>2
  <2> QED
    BY <1>2, <2>1, <2>2, <2>3, <2>4
<1> HIDE DEF t
<1>6. Len(s \o t) = Len(s) + Len(t)
  BY <1>3, <1>5
<1>7. LeastLength(f) = Len(WriteField(f))
  BY <1>4, <1>5, <1>6
<1> QED
  BY <1>2, <1>3, <1>4, <1>5, <1>7 DEF f, s, t

LEMMA FieldIsBytes ==
  ASSUME NEW f, Taking(f)
  PROVE  WriteField(f) \in Seq(Byte) /\ LeastLength(f) = Len(WriteField(f))
<1>1. PICK number, wireType, value :
        /\ f = Field(number, wireType, value)
        /\ number \in Nat \ {0} /\ Held(wireType, value) /\ 8 * number + wireType \in Word
  BY DEF Taking
<1> DEFINE s == WriteVarint(8 * number + wireType)
           t == Body(wireType, value)
<1>2. /\ s \in Seq(Byte) /\ t \in Seq(Byte) /\ WriteField(f) = s \o t
      /\ LeastLength(f) = Len(WriteField(f))
  BY <1>1, TakingIs
<1> HIDE DEF s, t
<1> QED
  BY <1>2

\* A field of which no varint overflows took at least the bytes it is written
\* with.
LEMMA FieldFits ==
  ASSUME NEW buf \in Seq(Byte), NEW at \in Nat, NEW number, NEW wireType, NEW value,
         NEW next, NEW n, ReadAs(buf, at, number, wireType, value, next, n)
  PROVE  /\ Taking(Field(number, wireType, value))
         /\ ~OverflowsIn(buf, at) =>
              Fits(buf, at, WriteField(Field(number, wireType, value)), next)
<1>1. /\ number \in Nat \ {0} /\ Held(wireType, value) /\ n \in Nat
      /\ ReadVarint(buf, at) = Ok(8 * number + wireType, at + n)
      /\ ReadValue(wireType, buf, at + n) = Ok(value, next)
      /\ next \in Nat
  BY DEF ReadAs
<1> DEFINE tag == 8 * number + wireType
           mid == at + n
           s == WriteVarint(tag)
           t == Body(wireType, value)
<1>2. tag \in Word
  <2>1. ReadVarint(buf, at).ok
    BY <1>1 DEF Ok
  <2>2. PICK k \in Nat, v \in Word : ReadVarint(buf, at) = Ok(v, at + k)
    BY <2>1, VarintValue
  <2> HIDE DEF tag
  <2>3. tag = v
    BY <1>1, <2>2 DEF Ok, tag
  <2> QED
    BY <2>3
<1>3. /\ wireType \in {VARINT, FIXED64, LEN, FIXED32}
      /\ s \in Seq(Byte) /\ t \in Seq(Byte)
      /\ WriteField(Field(number, wireType, value)) = s \o t
  BY <1>1, <1>2, TakingIs
<1>4. Taking(Field(number, wireType, value))
  BY <1>1, <1>2 DEF Taking
<1>5. ASSUME ~OverflowsIn(buf, at)
      PROVE  Fits(buf, at, s, mid) /\ Fits(buf, mid, t, next) /\ mid \in Nat
  <2>1. ReadVarint(buf, at).ok /\ ReadVarint(buf, at).value = tag /\ ReadVarint(buf, at).next = mid
    BY <1>1 DEF Ok
  <2>2. /\ ~Overflows(buf, at)
        /\ tag % 8 \in {VARINT, LEN} => ~Overflows(buf, mid)
    BY <1>5, <2>1 DEF OverflowsIn
  <2>3. tag % 8 = wireType /\ mid \in Nat
    <3>1. PICK w \in 0..7 : w = wireType
      BY <1>3 DEF VARINT, LEN, FIXED32, FIXED64
    <3>2. number \in Nat /\ n \in Nat
      BY <1>1
    <3>3. (8 * number + w) % 8 = w
      BY <3>1, <3>2
    <3> QED
      BY <3>1, <3>2, <3>3
  <2>4. Fits(buf, at, s, mid)
    <3>1. PICK v \in Word, end \in Nat : /\ ReadVarint(buf, at) = Ok(v, end)
                                         /\ Fits(buf, at, WriteVarint(v), end)
      BY <2>1, <2>2, VarintLeast
    <3> HIDE DEF tag, mid
    <3>2. v = tag /\ end = mid
      BY <2>1, <3>1 DEF Ok
    <3> QED
      BY <3>1, <3>2
  <2> HIDE DEF tag, mid, s, t
  <2>5. ReadValue(wireType, buf, mid) = Ok(value, next)
    BY <1>1 DEF mid
  <2>6. CASE wireType = VARINT
    <3>1. ReadVarint(buf, mid) = Ok(value, next) /\ t = WriteVarint(value)
      BY <2>5, <2>6 DEF ReadValue, t, Body, VARINT, LEN, FIXED32, FIXED64
    <3>2. ReadVarint(buf, mid).ok
      BY <3>1 DEF Ok
    <3>3. PICK v \in Word, end \in Nat : /\ ReadVarint(buf, mid) = Ok(v, end)
                                         /\ Fits(buf, mid, WriteVarint(v), end)
      BY <2>2, <2>3, <2>6, <3>2, VarintLeast
    <3>4. v = value /\ end = next
      BY <3>1, <3>3 DEF Ok
    <3> QED
      BY <2>3, <2>4, <3>1, <3>3, <3>4
  <2>7. CASE wireType = LEN
    <3>1. /\ ReadVarint(buf, mid).ok
          /\ Take(buf, ReadVarint(buf, mid).next, ReadVarint(buf, mid).value) = Ok(value, next)
      BY <2>5, <2>7 DEF ReadValue, Ok, VARINT, LEN, FIXED32, FIXED64
    <3>2. PICK v \in Word, end \in Nat : /\ ReadVarint(buf, mid) = Ok(v, end)
                                         /\ Fits(buf, mid, WriteVarint(v), end)
      BY <2>2, <2>3, <2>7, <3>1, VarintLeast
    <3>3. Take(buf, end, v) = Ok(value, next) /\ v \in Nat
      BY <3>1, <3>2 DEF Ok, Word
    <3>4. value \in Seq(Byte) /\ Len(value) = v /\ Fits(buf, end, value, next)
      BY <3>3, TakeFits
    <3> DEFINE l == WriteVarint(Len(value))
    <3>5. t = l \o value /\ l \in Seq(Byte) /\ Fits(buf, mid, l, end)
      BY <2>7, <3>2, <3>4, WriteVarintIs DEF t, Body, VARINT, LEN
    <3> HIDE DEF l
    <3>6. Fits(buf, mid, l \o value, next)
      BY <1>1, <2>3, <3>2, <3>4, <3>5, FitsConcat
    <3> QED
      BY <2>3, <2>4, <3>5, <3>6
  <2>8. CASE wireType = FIXED32
    <3>1. Take(buf, mid, 4) = Ok(value, next) /\ t = value
      BY <2>5, <2>8 DEF ReadValue, t, Body, VARINT, LEN, FIXED32, FIXED64
    <3> QED
      BY <2>3, <2>4, <3>1, TakeFits
  <2>9. CASE wireType = FIXED64
    <3>1. Take(buf, mid, 8) = Ok(value, next) /\ t = value
      BY <2>5, <2>9 DEF ReadValue, t, Body, VARINT, LEN, FIXED32, FIXED64
    <3> QED
      BY <2>3, <2>4, <3>1, TakeFits
  <2> QED
    BY <1>3, <2>6, <2>7, <2>8, <2>9
<1> HIDE DEF s, t, mid
<1>6. ASSUME ~OverflowsIn(buf, at) PROVE Fits(buf, at, s \o t, next)
  BY <1>1, <1>3, <1>5, <1>6, FitsConcat
<1> QED
  BY <1>3, <1>4, <1>6

\* The fields that arrived, and the bytes they are written with.
FieldSet == [number : Nat, wireType : Nat, value : Nat \cup Seq(Byte)]
Arrivals(fs) == fs \in Seq(FieldSet) /\ \A i \in 1..Len(fs) : Taking(fs[i])
WrittenParts(fs) == [i \in 1..Len(fs) |-> WriteField(fs[i])]
BytesOf(fs) == (CHOOSE W : Builds(W, Len(fs), WrittenParts(fs)))[Len(fs)]

LEMMA ArrivalsAre ==
  ASSUME NEW fs, Arrivals(fs)
  PROVE  /\ Len(fs) \in Nat /\ DOMAIN fs = 1..Len(fs)
         /\ AreParts(WrittenParts(fs), Len(fs))
         /\ \A i \in 1..Len(fs) : WrittenParts(fs)[i] = WriteField(fs[i])
<1>1. Len(fs) \in Nat /\ DOMAIN fs = 1..Len(fs)
  <2> DEFINE S == FieldSet
  <2>1. fs \in Seq(S)
    BY DEF Arrivals
  <2> HIDE DEF S
  <2> QED
    BY <2>1
<1>2. AreParts(WrittenParts(fs), Len(fs))
  <2> DEFINE n == Len(fs)
  <2>1. ASSUME NEW i \in 1..n PROVE WriteField(fs[i]) \in Seq(Byte)
    <3>1. Taking(fs[i])
      BY DEF Arrivals
    <3> QED
      BY <3>1, FieldIsBytes
  <2> HIDE DEF n
  <2>2. [i \in 1..n |-> WriteField(fs[i])] \in [1..n -> Seq(Byte)]
    BY <2>1
  <2> QED
    BY <2>2 DEF AreParts, WrittenParts, n
<1>3. \A i \in 1..Len(fs) : WrittenParts(fs)[i] = WriteField(fs[i])
  BY DEF WrittenParts
<1> QED
  BY <1>1, <1>2, <1>3

LEMMA BytesOfIs ==
  ASSUME NEW fs, Arrivals(fs)
  PROVE  \E W : /\ Builds(W, Len(fs), WrittenParts(fs))
                /\ BytesOf(fs) = W[Len(fs)] /\ BytesOf(fs) \in Seq(Byte)
<1>1. Len(fs) \in Nat /\ AreParts(WrittenParts(fs), Len(fs)) /\ Len(fs) \in 0..Len(fs)
  BY ArrivalsAre
<1> DEFINE W == CHOOSE V : Builds(V, Len(fs), WrittenParts(fs))
<1>2. \E V : Builds(V, Len(fs), WrittenParts(fs))
  BY <1>1, SumsExist
<1>3. Builds(W, Len(fs), WrittenParts(fs))
  BY <1>2
<1>4. BytesOf(fs) = W[Len(fs)]
  BY DEF BytesOf
<1> HIDE DEF W
<1>5. W[Len(fs)] \in Seq(Byte)
  BY <1>1, <1>3, BuildsIs
<1> QED
  BY <1>3, <1>4, <1>5

LEMMA NoBytes == Arrivals(<<>>) /\ BytesOf(<<>>) = <<>>
<1>1. Arrivals(<<>>)
  <2> DEFINE S == FieldSet
  <2>1. <<>> \in Seq(S) /\ Len(<<>>) = 0
    OBVIOUS
  <2> QED
    BY <2>1 DEF Arrivals
<1>2. PICK W : Builds(W, Len(<<>>), WrittenParts(<<>>)) /\ BytesOf(<<>>) = W[Len(<<>>)]
  BY <1>1, BytesOfIs
<1>3. W[0] = <<>> /\ Len(<<>>) = 0
  BY <1>2 DEF Builds
<1> QED
  BY <1>1, <1>2, <1>3

LEMMA AppendBytes ==
  ASSUME NEW fs, Arrivals(fs), NEW f, Taking(f)
  PROVE  /\ Arrivals(Append(fs, f))
         /\ BytesOf(Append(fs, f)) = BytesOf(fs) \o WriteField(f)
<1> DEFINE gs == Append(fs, f)
           n == Len(fs)
<1>1. f \in FieldSet
  <2>1. PICK number, wireType, value :
           /\ f = Field(number, wireType, value)
           /\ number \in Nat \ {0} /\ Held(wireType, value)
    BY DEF Taking
  <2>2. wireType \in Nat /\ value \in Nat \cup Seq(Byte)
    BY <2>1 DEF Held, Word, VARINT, FIXED64, LEN, FIXED32
  <2> QED
    BY <2>1, <2>2 DEF Field, FieldSet
<1>2. /\ gs \in Seq(FieldSet) /\ Len(gs) = n + 1 /\ n \in Nat
      /\ \A i \in 1..n : gs[i] = fs[i]
      /\ gs[n + 1] = f
  <2> DEFINE S == FieldSet
  <2>1. fs \in Seq(S) /\ f \in S
    BY <1>1 DEF Arrivals
  <2> HIDE DEF S
  <2>2. /\ gs \in Seq(S) /\ Len(gs) = n + 1 /\ n \in Nat
        /\ \A i \in 1..n : gs[i] = fs[i]
        /\ gs[n + 1] = f
    BY <2>1
  <2> QED
    BY <2>2 DEF S
<1> HIDE DEF gs, n
<1>3. Arrivals(gs)
  <2>1. ASSUME NEW i \in 1..(n + 1) PROVE Taking(gs[i])
    <3>1. CASE i \in 1..n
      BY <1>2, <3>1 DEF Arrivals, n
    <3>2. CASE i = n + 1
      BY <1>2, <3>2
    <3> QED
      BY <1>2, <3>1, <3>2
  <2> QED
    BY <1>2, <2>1 DEF Arrivals
<1>4. PICK V : Builds(V, n, WrittenParts(fs)) /\ BytesOf(fs) = V[n]
  BY BytesOfIs DEF n
<1>5. PICK W : Builds(W, n + 1, WrittenParts(gs)) /\ BytesOf(gs) = W[n + 1]
  BY <1>2, <1>3, BytesOfIs
<1>6. \A i \in 1..(n + 1) : W[i] = W[i - 1] \o WriteField(gs[i])
  BY <1>2, <1>3, <1>5, ArrivalsAre DEF Builds
<1>7. \A i \in 1..n : V[i] = V[i - 1] \o WriteField(fs[i])
  BY <1>4, ArrivalsAre DEF Builds, n
<1>8. V[0] = W[0]
  BY <1>4, <1>5 DEF Builds
<1>9. \A i \in 1..n : V[i - 1] = W[i - 1] => V[i] = W[i]
  <2> SUFFICES ASSUME NEW i \in 1..n, V[i - 1] = W[i - 1] PROVE V[i] = W[i]
    OBVIOUS
  <2>1. i \in 1..(n + 1) /\ gs[i] = fs[i]
    BY <1>2
  <2> QED
    BY <1>6, <1>7, <2>1
<1>10. V[n] = W[n]
  <2>1. n \in Nat /\ n \in 0..n
    BY <1>2
  <2>2. \A i \in 0..n : V[i] = W[i]
    BY <1>8, <1>9, <2>1, SameIterates
  <2> QED
    BY <2>1, <2>2
<1>11. W[n + 1] = W[n] \o WriteField(f)
  <2>1. n + 1 \in 1..(n + 1) /\ (n + 1) - 1 = n
    BY <1>2
  <2> QED
    BY <1>2, <1>6, <2>1
<1> QED
  BY <1>3, <1>4, <1>5, <1>10, <1>11 DEF gs

\* The least length of what arrived, as Canonical adds it up.
LeastSum(fs) ==
  LET Sum[i \in 0..Len(fs)] == IF i = 0 THEN 0 ELSE Sum[i - 1] + LeastLength(fs[i])
  IN  Sum[Len(fs)]

LEMMA LeastSumIs == ASSUME NEW fs, Arrivals(fs) PROVE LeastSum(fs) = Len(BytesOf(fs))
<1> DEFINE n == Len(fs)
<1>1. n \in Nat /\ AreParts(WrittenParts(fs), n)
  BY ArrivalsAre
<1>2. PICK W : Builds(W, n, WrittenParts(fs)) /\ BytesOf(fs) = W[n]
  BY BytesOfIs
<1> DEFINE Turns(g) == [i \in 0..n |-> IF i = 0 THEN 0 ELSE g[i - 1] + LeastLength(fs[i])]
           h == CHOOSE g : g = Turns(g)
           G == [i \in 0..n |-> Len(W[i])]
<1>3. LeastSum(fs) = h[n]
  BY DEF LeastSum
<1>4. Len(W[0]) = 0 /\ \A i \in 1..n : Len(W[i]) = Len(W[i - 1]) + LeastLength(fs[i])
  <2> HIDE DEF n
  <2>1. W[0] = <<>> /\ \A i \in 0..n : W[i] \in Seq(Byte)
    BY <1>1, <1>2, BuildsIs
  <2>2. ASSUME NEW i \in 1..n PROVE Len(W[i]) = Len(W[i - 1]) + LeastLength(fs[i])
    <3>1. Taking(fs[i]) /\ WrittenParts(fs)[i] = WriteField(fs[i])
      BY ArrivalsAre DEF Arrivals, n
    <3>2. WriteField(fs[i]) \in Seq(Byte) /\ LeastLength(fs[i]) = Len(WriteField(fs[i]))
      BY <3>1, FieldIsBytes
    <3>3. W[i] = W[i - 1] \o WriteField(fs[i])
      BY <1>2, <3>1 DEF Builds
    <3>4. i - 1 \in 0..n
      BY <1>1
    <3>5. W[i - 1] \in Seq(Byte)
      BY <2>1, <3>4
    <3>6. Len(W[i - 1] \o WriteField(fs[i])) = Len(W[i - 1]) + Len(WriteField(fs[i]))
      BY <3>2, <3>5
    <3> QED
      BY <3>2, <3>3, <3>6
  <2> QED
    BY <2>1, <2>2
<1> HIDE DEF n
<1>5. G = Turns(G)
  <2>1. \A i \in 0..n : Len(W[i]) = IF i = 0 THEN 0 ELSE G[i - 1] + LeastLength(fs[i])
    <3>1. \A i \in 0..n : i # 0 => i \in 1..n /\ i - 1 \in 0..n
      BY <1>1
    <3> QED
      BY <1>4, <3>1
  <2> HIDE DEF h
  <2> QED
    BY <2>1, Zenon
<1>6. h = Turns(h)
  <2> HIDE DEF Turns, G
  <2> QED
    BY <1>5
<1> HIDE DEF h
<1>7. h[0] = 0 /\ \A i \in 1..n : h[i] = h[i - 1] + LeastLength(fs[i])
  <2>1. 0 \in 0..n /\ \A i \in 1..n : i \in 0..n /\ i # 0
    BY <1>1
  <2> QED
    BY <1>6, <2>1
<1>8. G[0] = h[0] /\ \A i \in 1..n : G[i - 1] = h[i - 1] => G[i] = h[i]
  <2>1. \A i \in 0..n : G[i] = Len(W[i])
    OBVIOUS
  <2>2. 0 \in 0..n /\ \A i \in 1..n : i \in 0..n /\ i - 1 \in 0..n
    BY <1>1
  <2> HIDE DEF G, Turns
  <2> QED
    BY <1>4, <1>7, <2>1, <2>2
<1>9. n \in 0..n /\ G[n] = Len(W[n])
  BY <1>1
<1> HIDE DEF G, Turns
<1>10. G[n] = h[n]
  <2>1. \A i \in 0..n : G[i] = h[i]
    BY <1>1, <1>8, SameIterates
  <2> QED
    BY <1>9, <2>1
<1> QED
  BY <1>2, <1>3, <1>9, <1>10

\* What Canonical says of the fields one by one, and of those that are always
\* written up to a number.
CanonSoFar(schema, fs) ==
  \A i \in 1..Len(fs) :
    /\ fs[i].number \in DOMAIN schema
    /\ fs[i].wireType = WireTypeOf(schema[fs[i].number].kind)
    /\ fs[i].wireType = VARINT => fs[i].value = Narrow(schema[fs[i].number].kind, fs[i].value)
    /\ schema[fs[i].number].written = "nonDefault" =>
         fs[i].value # Default(schema[fs[i].number].kind)
    /\ i > 1 => fs[i - 1].number < fs[i].number

AlwaysUpto(schema, fs, k) ==
  \A n \in DOMAIN schema :
    n <= k /\ schema[n].written = "always" => \E i \in 1..Len(fs) : fs[i].number = n

LastOf(fs) == IF Len(fs) = 0 THEN 0 ELSE fs[Len(fs)].number

\* The message holds nothing past the last field, and up to it its encoding is
\* the bytes of the fields.
Holds(schema, fs, m) ==
  /\ \A n \in DOMAIN schema : n > LastOf(fs) => m[n] = Blank(schema)[n]
  /\ BytesOf(fs) = Sums(schema, m)[LastOf(fs)]

LEMMA CanonicalIs ==
  ASSUME NEW schema, SchemaOK(schema), Arrivals(fields)
  PROVE  Canonical(schema) <=>
           /\ CanonSoFar(schema, fields) /\ AlwaysUpto(schema, fields, 31)
           /\ Len(origin) = LeastSum(fields) /\ ~overflowed
<1>1. DOMAIN fields = 1..Len(fields)
  BY ArrivalsAre
<1>2. \A n \in DOMAIN schema : n <= 31
  BY DEF SchemaOK
<1> DEFINE Each == \A i \in DOMAIN fields :
             LET f == fields[i] IN
             /\ f.number \in DOMAIN schema
             /\ f.wireType = WireTypeOf(schema[f.number].kind)
             /\ f.wireType = VARINT => f.value = Narrow(schema[f.number].kind, f.value)
             /\ schema[f.number].written = "nonDefault" => f.value # Default(schema[f.number].kind)
             /\ i > 1 => fields[i - 1].number < f.number
           Always == \A n \in DOMAIN schema : schema[n].written = "always" =>
                       \E i \in DOMAIN fields : fields[i].number = n
<1>3. Each <=> CanonSoFar(schema, fields)
  BY <1>1 DEF CanonSoFar
<1>4. Always <=> AlwaysUpto(schema, fields, 31)
  BY <1>1, <1>2 DEF AlwaysUpto
<1>5. Canonical(schema) <=> Each /\ Always /\ Len(origin) = LeastSum(fields) /\ ~overflowed
  BY DEF Canonical, LeastSum
<1> HIDE DEF Each, Always
<1> QED
  BY <1>3, <1>4, <1>5

\* The numbers ascend to the last one.
LEMMA Ascending ==
  ASSUME NEW schema, SchemaOK(schema), NEW fs, Len(fs) \in Nat, CanonSoFar(schema, fs)
  PROVE  /\ LastOf(fs) \in 0..Top(schema)
         /\ \A i \in 1..Len(fs) : fs[i].number <= LastOf(fs)
<1> DEFINE n == Len(fs)
           l == LastOf(fs)
<1>1. \A i \in 1..n : fs[i].number \in DOMAIN schema /\ (i > 1 => fs[i - 1].number < fs[i].number)
  BY DEF CanonSoFar
<1>2. \A k \in DOMAIN schema : k \in 1..31 /\ k <= Top(schema)
  BY DEF SchemaOK
<1>3. n \in Nat /\ l = IF n = 0 THEN 0 ELSE fs[n].number
  BY DEF LastOf
<1> HIDE DEF n, l
<1>4. l \in 0..Top(schema)
  <2>1. PICK t \in Nat : t = Top(schema)
    BY TopInNat
  <2>2. CASE n = 0
    BY <1>3, <2>1, <2>2
  <2>3. CASE n # 0
    <3>1. n \in 1..n
      BY <1>3, <2>3
    <3>2. fs[n].number \in 1..31 /\ fs[n].number <= t
      BY <1>1, <1>2, <2>1, <3>1
    <3>3. PICK k \in 1..31 : k = fs[n].number
      BY <3>2
    <3>4. l = k /\ k <= t
      BY <1>3, <2>3, <3>2, <3>3
    <3> QED
      BY <2>1, <3>4
  <2> QED
    BY <2>2, <2>3
<1> DEFINE T == {j \in Nat : j < n => fs[n - j].number <= l}
<1>5. 0 \in T
  <2> SUFFICES ASSUME 0 < n PROVE fs[n - 0].number <= l
    OBVIOUS
  <2>1. n - 0 = n /\ n \in 1..n /\ n # 0
    BY <1>3
  <2>2. PICK k \in 1..31 : k = fs[n].number
    BY <1>1, <1>2, <2>1
  <2>3. l = k
    BY <1>3, <2>1, <2>2
  <2> QED
    BY <2>1, <2>2, <2>3
<1>6. ASSUME NEW j \in Nat, j \in T PROVE j + 1 \in T
  <2> SUFFICES ASSUME j + 1 < n PROVE fs[n - (j + 1)].number <= l
    OBVIOUS
  <2>1. n - j \in 1..n /\ n - j > 1 /\ (n - j) - 1 = n - (j + 1) /\ n - (j + 1) \in 1..n /\ j < n
    BY <1>3
  <2>2. fs[n - (j + 1)].number < fs[n - j].number
    BY <1>1, <2>1
  <2>3. fs[n - j].number <= l
    BY <1>6, <2>1
  <2>4. PICK a \in 1..31, b \in 1..31 : a = fs[n - j].number /\ b = fs[n - (j + 1)].number
    BY <1>1, <1>2, <2>1
  <2>5. l \in Nat
    BY <1>4, TopInNat
  <2>6. b < a /\ a <= l
    BY <2>2, <2>3, <2>4
  <2>7. b <= l
    BY <2>4, <2>5, <2>6
  <2> QED
    BY <2>4, <2>7
<1> HIDE DEF T
<1>7. Nat \subseteq T
  BY <1>5, <1>6, SetInduction
<1>8. ASSUME NEW i \in 1..n PROVE fs[i].number <= l
  <2>1. n - i \in Nat /\ n - i < n /\ n - (n - i) = i
    BY <1>3
  <2> QED
    BY <1>7, <2>1 DEF T
<1> QED
  BY <1>4, <1>8 DEF n, l

\* What encode writes of a field that holds its blank.
LEMMA BlankWritten ==
  ASSUME NEW schema, SchemaOK(schema), NEW m, NEW n \in DOMAIN schema,
         m[n] = Blank(schema)[n], schema[n].written # "always"
  PROVE  ~Written(schema, m, n)
BY DEF Written, Blank, SchemaOK

\* A message that holds the fields is encoded to their bytes.
LEMMA HeldIsEncoded ==
  ASSUME NEW schema, SchemaOK(schema), NEW m, Typed(schema, m), NEW fs, Arrivals(fs),
         CanonSoFar(schema, fs), AlwaysUpto(schema, fs, 31), Holds(schema, fs, m)
  PROVE  Encoding(schema, m) = BytesOf(fs)
<1> DEFINE l == LastOf(fs)
           N == Top(schema)
           W == Sums(schema, m)
           parts == Parts(schema, m)
<1>1. N \in 1..31 /\ N \in Nat /\ N \in l..N
  <2>1. Len(fs) \in Nat
    BY ArrivalsAre
  <2>2. l \in 0..N /\ N \in 1..31
    BY <2>1, Ascending, TopInNat
  <2> HIDE DEF l, N
  <2> QED
    BY <2>2
<1>2. l \in 0..N /\ \A i \in 1..Len(fs) : fs[i].number <= l
  BY ArrivalsAre, Ascending
<1>3. AreParts(parts, N) /\ Builds(W, N, parts)
  BY SumsAre
<1>4. ASSUME NEW i \in (l + 1)..N PROVE parts[i] = <<>>
  <2> HIDE DEF l, N
  <2>1. i \in 1..N /\ i \in 1..31 /\ i > l /\ i \in Nat /\ l \in Nat
    BY <1>1, <1>2
  <2>2. parts[i] = FieldBytes(schema, m, i)
    BY <2>1 DEF Parts, N
  <2>3. ASSUME i \in DOMAIN schema PROVE ~Written(schema, m, i)
    <3>1. m[i] = Blank(schema)[i]
      BY <2>1, <2>3 DEF Holds, l
    <3>2. ASSUME schema[i].written = "always" PROVE FALSE
      <4>1. PICK j \in 1..Len(fs) : fs[j].number = i
        BY <2>1, <2>3, <3>2 DEF AlwaysUpto
      <4> QED
        BY <1>2, <2>1, <4>1
    <3> QED
      BY <2>3, <3>1, <3>2, BlankWritten
  <2> QED
    BY <2>2, <2>3 DEF FieldBytes
<1> HIDE DEF l, N, W, parts
<1>5. W[N] = W[l]
  BY <1>1, <1>2, <1>3, <1>4, EmptyParts
<1> QED
  BY <1>5 DEF Holds, Encoding, W, N, l

\* The encodings of two messages are the same up to where the messages are.
LEMMA SameUpto ==
  ASSUME NEW schema, SchemaOK(schema), NEW m, Typed(schema, m), NEW o, Typed(schema, o),
         NEW l \in 0..Top(schema), \A i \in DOMAIN schema : i <= l => o[i] = m[i]
  PROVE  Sums(schema, o)[l] = Sums(schema, m)[l]
<1> DEFINE N == Top(schema)
           V == Sums(schema, o)
           W == Sums(schema, m)
<1>1. N \in 1..31 /\ l \in Nat /\ l \in 0..l /\ \A i \in 1..l : i \in 1..N /\ i <= l
  BY TopInNat
<1>2. Builds(V, N, Parts(schema, o)) /\ Builds(W, N, Parts(schema, m))
  BY SumsAre
<1>3. ASSUME NEW i \in 1..l PROVE Parts(schema, o)[i] = Parts(schema, m)[i]
  <2>1. i \in 1..N /\ i <= l
    BY <1>1
  <2>2. FieldBytes(schema, o, i) = FieldBytes(schema, m, i)
    BY <2>1 DEF FieldBytes, Written
  <2> QED
    BY <2>1, <2>2 DEF Parts
<1>4. V[0] = W[0]
  BY <1>2 DEF Builds
<1>5. \A i \in 1..l : V[i - 1] = W[i - 1] => V[i] = W[i]
  <2> SUFFICES ASSUME NEW i \in 1..l, V[i - 1] = W[i - 1] PROVE V[i] = W[i]
    OBVIOUS
  <2>1. i \in 1..N
    BY <1>1
  <2>2. V[i] = V[i - 1] \o Parts(schema, o)[i]
    BY <1>2, <2>1 DEF Builds
  <2>3. W[i] = W[i - 1] \o Parts(schema, m)[i]
    BY <1>2, <2>1 DEF Builds
  <2> QED
    BY <1>3, <2>2, <2>3
<1>6. \A i \in 0..l : V[i] = W[i]
  BY <1>1, <1>4, <1>5, SameIterates
<1> QED
  BY <1>1, <1>6

\* One more canonical field is stored, and written where it was read.
LEMMA HoldsOneMore ==
  ASSUME NEW schema, SchemaOK(schema), NEW m, Typed(schema, m), NEW fs, Arrivals(fs),
         NEW f, Taking(f), CanonSoFar(schema, Append(fs, f)),
         AlwaysUpto(schema, Append(fs, f), f.number),
         CanonSoFar(schema, fs) /\ AlwaysUpto(schema, fs, LastOf(fs)) => Holds(schema, fs, m)
  PROVE  Holds(schema, Append(fs, f), Stored(schema, m, f))
<1> DEFINE gs == Append(fs, f)
           n == Len(fs)
           l == LastOf(fs)
           N == Top(schema)
           new == Stored(schema, m, f)
<1>1. PICK k, w, v : /\ f = Field(k, w, v) /\ Held(w, v)
                     /\ k \in Nat \ {0} /\ 8 * k + w \in Word
  BY DEF Taking
<1>2. f.number = k /\ f.wireType = w /\ f.value = v
  BY <1>1 DEF Field
<1>3. Arrivals(gs) /\ BytesOf(gs) = BytesOf(fs) \o WriteField(f)
  BY AppendBytes
<1>4. /\ n \in Nat /\ Len(gs) = n + 1 /\ gs[n + 1] = f
      /\ \A i \in 1..n : gs[i] = fs[i]
  <2> DEFINE S == FieldSet
  <2>1. fs \in Seq(S) /\ gs \in Seq(S)
    BY <1>3 DEF Arrivals
  <2>2. n \in Nat /\ Len(gs) = n + 1 /\ gs[n + 1] = f /\ \A i \in 1..n : gs[i] = fs[i]
    <3> HIDE DEF S
    <3> QED
      BY <2>1
  <2> QED
    BY <2>2
<1>5. N \in 1..31 /\ N \in Nat /\ \A i \in DOMAIN schema : i \in 1..31 /\ i <= N
  BY TopInNat DEF SchemaOK
<1> HIDE DEF gs, n, l, N, new
<1>6. /\ k \in DOMAIN schema /\ w = WireTypeOf(schema[k].kind)
      /\ w = VARINT => v = Narrow(schema[k].kind, v)
      /\ schema[k].written = "nonDefault" => v # Default(schema[k].kind)
      /\ n + 1 > 1 => gs[n].number < k
  <2>1. n + 1 \in 1..(n + 1) /\ (n + 1) - 1 = n
    BY <1>4
  <2>2. CanonSoFar(schema, gs)
    BY DEF gs
  <2> QED
    BY <1>2, <1>4, <2>1, <2>2 DEF CanonSoFar
<1>7. CanonSoFar(schema, fs)
  <2>1. CanonSoFar(schema, gs)
    BY DEF gs
  <2> SUFFICES ASSUME NEW i \in 1..n
               PROVE  /\ fs[i].number \in DOMAIN schema
                      /\ fs[i].wireType = WireTypeOf(schema[fs[i].number].kind)
                      /\ fs[i].wireType = VARINT =>
                           fs[i].value = Narrow(schema[fs[i].number].kind, fs[i].value)
                      /\ schema[fs[i].number].written = "nonDefault" =>
                           fs[i].value # Default(schema[fs[i].number].kind)
                      /\ i > 1 => fs[i - 1].number < fs[i].number
    BY DEF CanonSoFar, n
  <2>2. i \in 1..(n + 1) /\ (i > 1 => i - 1 \in 1..n)
    BY <1>4
  <2>3. gs[i] = fs[i] /\ (i > 1 => gs[i - 1] = fs[i - 1])
    BY <1>4, <2>2
  <2> QED
    BY <1>4, <2>1, <2>2, <2>3 DEF CanonSoFar
<1>8. l \in 0..N /\ l \in Nat /\ \A i \in 1..n : fs[i].number <= l
  <2>1. l \in 0..N /\ \A i \in 1..n : fs[i].number <= l
    BY <1>4, <1>7, Ascending DEF l, N, n
  <2> QED
    BY <1>5, <2>1
<1>9. k \in 1..31 /\ k <= N /\ k \in Nat /\ l < k
  <2>1. k \in 1..31 /\ k <= N
    BY <1>5, <1>6
  <2>2. ASSUME n # 0 PROVE l < k
    <3>1. n \in 1..n /\ n + 1 > 1
      BY <1>4, <2>2
    <3>2. gs[n].number < k /\ gs[n] = fs[n]
      BY <1>4, <1>6, <3>1
    <3>3. l = fs[n].number
      BY <2>2 DEF l, LastOf, n
    <3> QED
      BY <3>2, <3>3
  <2>3. n = 0 => l = 0
    BY DEF l, LastOf, n
  <2> QED
    BY <2>1, <2>2, <2>3
<1>10. ASSUME NEW i \in DOMAIN schema, i < k, schema[i].written = "always"
       PROVE  i <= l /\ \E j \in 1..n : fs[j].number = i
  <2>1. AlwaysUpto(schema, gs, k) /\ i \in 1..31
    BY <1>2, <1>5 DEF gs
  <2>2. PICK j \in 1..Len(gs) : gs[j].number = i
    <3>1. i <= k
      BY <1>9, <1>10, <2>1
    <3> QED
      BY <1>10, <2>1, <3>1 DEF AlwaysUpto
  <2>3. j \in 1..(n + 1)
    BY <1>4, <2>2
  <2>4. j # n + 1
    BY <1>2, <1>4, <1>9, <1>10, <2>1, <2>2
  <2>5. j \in 1..n
    BY <1>4, <2>3, <2>4
  <2>6. fs[j].number = i
    BY <1>4, <2>2, <2>5
  <2> QED
    BY <1>8, <2>5, <2>6
<1>11. AlwaysUpto(schema, fs, l)
  <2> SUFFICES ASSUME NEW i \in DOMAIN schema, i <= l, schema[i].written = "always"
               PROVE  \E j \in 1..n : fs[j].number = i
    BY DEF AlwaysUpto, n
  <2>1. i \in 1..31 /\ i < k
    BY <1>5, <1>8, <1>9
  <2> QED
    BY <1>10, <2>1
<1>12. /\ \A i \in DOMAIN schema : i > l => m[i] = Blank(schema)[i]
       /\ BytesOf(fs) = Sums(schema, m)[l]
  BY <1>7, <1>11 DEF Holds, l
<1>13. Typed(schema, new)
  BY <1>1, TypedRead DEF new
<1>14. new[k] = v /\ \A i \in DOMAIN schema : i # k => new[i] = m[i]
  <2>1. Narrow(schema[k].kind, v) = v
    <3>1. schema[k].kind \in {"u32", "bool", "fixed32", "bytes"}
      BY <1>6 DEF SchemaOK
    <3> QED
      BY <1>6, <3>1 DEF Narrow, WireTypeOf
  <2>2. new = [m EXCEPT ![k] = v]
    BY <1>2, <1>6, <2>1 DEF Stored, new
  <2>3. m = [i \in DOMAIN schema |-> m[i]]
    BY DEF Typed
  <2>4. new = [i \in DOMAIN schema |-> IF i = k THEN v ELSE m[i]]
    BY <2>2, <2>3
  <2> QED
    BY <1>6, <2>4
<1> DEFINE W == Sums(schema, new)
           parts == Parts(schema, new)
<1>15. AreParts(parts, N) /\ Builds(W, N, parts)
  BY <1>13, SumsAre DEF N
<1>16. W[l] = Sums(schema, m)[l]
  <2>1. \A i \in DOMAIN schema : i <= l => new[i] = m[i]
    <3> SUFFICES ASSUME NEW i \in DOMAIN schema, i <= l PROVE new[i] = m[i]
      OBVIOUS
    <3>1. i \in 1..31 /\ i # k
      BY <1>5, <1>8, <1>9
    <3> QED
      BY <1>14, <3>1
  <2> QED
    BY <1>8, <1>13, <2>1, SameUpto DEF N
<1>17. ASSUME NEW i \in (l + 1)..(k - 1) PROVE parts[i] = <<>>
  <2>1. i \in 1..31 /\ i \in 1..N /\ i > l /\ i < k
    BY <1>5, <1>8, <1>9
  <2>2. parts[i] = FieldBytes(schema, new, i)
    BY <2>1 DEF Parts, N
  <2>3. ASSUME i \in DOMAIN schema PROVE ~Written(schema, new, i)
    <3>1. new[i] = Blank(schema)[i]
      BY <1>12, <1>14, <2>1, <2>3
    <3>2. schema[i].written # "always"
      BY <1>8, <1>10, <2>1, <2>3
    <3> QED
      BY <2>3, <3>1, <3>2, BlankWritten
  <2> QED
    BY <2>2, <2>3 DEF FieldBytes
<1>18. parts[k] = WriteField(f)
  <2>1. parts[k] = FieldBytes(schema, new, k)
    BY <1>9 DEF Parts, N
  <2>2. Written(schema, new, k)
    <3>1. v # Absent
      <4>1. v \in Nat \/ v \in Seq(Byte)
        BY <1>1 DEF Held, Word
      <4> QED
        BY <4>1, ValuesAssumption DEF ValuesAssumption
    <3>2. schema[k].written \in {"present", "always", "nonDefault"}
      BY <1>6 DEF SchemaOK
    <3> QED
      BY <1>6, <1>14, <3>1, <3>2 DEF Written
  <2> QED
    BY <1>1, <1>6, <1>14, <2>1, <2>2 DEF FieldBytes
<1> HIDE DEF W, parts
<1>19. W[k - 1] = W[l]
  <2>1. k - 1 \in l..N /\ l \in 0..N
    BY <1>5, <1>8, <1>9
  <2> QED
    BY <1>5, <1>15, <1>17, <2>1, EmptyParts
<1>20. W[k] = W[k - 1] \o parts[k]
  <2>1. k \in 1..N
    BY <1>5, <1>9
  <2> QED
    BY <1>15, <2>1 DEF Builds
<1>21. LastOf(gs) = k
  <2>1. Len(gs) # 0
    BY <1>4
  <2> QED
    BY <1>2, <1>4, <2>1 DEF LastOf
<1>22. BytesOf(gs) = W[k]
  BY <1>3, <1>12, <1>16, <1>18, <1>19, <1>20
<1>23. \A i \in DOMAIN schema : i > k => new[i] = Blank(schema)[i]
  <2> SUFFICES ASSUME NEW i \in DOMAIN schema, i > k PROVE new[i] = Blank(schema)[i]
    OBVIOUS
  <2>1. i \in 1..31 /\ i # k /\ i > l
    BY <1>5, <1>8, <1>9
  <2> QED
    BY <1>12, <1>14, <2>1
<1>24. Holds(schema, gs, new)
  BY <1>21, <1>22, <1>23 DEF Holds, W
<1> QED
  BY <1>24 DEF gs, new

\* The fields are those a message is written with, up to number n, and have
\* taken just the bytes of them.
Retraced(schema, fs, m, n) ==
  /\ CanonSoFar(schema, fs) /\ AlwaysUpto(schema, fs, n) /\ LastOf(fs) <= n
  /\ Len(BytesOf(fs)) = Len(Sums(schema, m)[n])

\* One more field of the message is read.
LEMMA RetracedOneMore ==
  ASSUME NEW schema, SchemaOK(schema), NEW m, Typed(schema, m), NEW n \in 0..Top(schema),
         NEW k, Continues(schema, m, n, k), NEW fs, Arrivals(fs), Retraced(schema, fs, m, n),
         Taking(FieldOf(schema, m, k))
  PROVE  Retraced(schema, Append(fs, FieldOf(schema, m, k)), m, k)
<1> DEFINE f == FieldOf(schema, m, k)
           gs == Append(fs, f)
           c == Len(fs)
<1>1. /\ k \in DOMAIN schema /\ Written(schema, m, k) /\ k \in 1..31 /\ n \in Nat /\ n < k
      /\ \A i \in DOMAIN schema : n < i /\ i < k => ~Written(schema, m, i)
  <2>1. PICK t \in Nat : t = Top(schema)
    BY TopInNat
  <2>2. n \in 0..t /\ k \in (n + 1)..t
    BY <2>1 DEF Continues
  <2>3. k \in DOMAIN schema /\ k \in 1..31
    BY DEF Continues, SchemaOK
  <2>4. ASSUME NEW i \in DOMAIN schema, n < i, i < k PROVE ~Written(schema, m, i)
    <3>1. i \in (n + 1)..(k - 1)
      BY <2>2, <2>3, <2>4 DEF SchemaOK
    <3> QED
      BY <2>4, <3>1 DEF Continues
  <2> QED
    BY <2>2, <2>3, <2>4 DEF Continues
<1>2. f.number = k /\ f.wireType = WireTypeOf(schema[k].kind) /\ f.value = m[k]
  BY DEF FieldOf, Field
<1>3. Narrow(schema[k].kind, m[k]) = m[k]
  BY <1>1, WrittenIs
<1>4. Arrivals(gs) /\ BytesOf(gs) = BytesOf(fs) \o WriteField(f)
  BY AppendBytes
<1>5. /\ c \in Nat /\ Len(gs) = c + 1 /\ gs[c + 1] = f
      /\ \A i \in 1..c : gs[i] = fs[i]
  <2> DEFINE S == FieldSet
  <2>1. fs \in Seq(S) /\ gs \in Seq(S)
    BY <1>4 DEF Arrivals
  <2> HIDE DEF S, f
  <2> QED
    BY <2>1
<1>6. LastOf(gs) = k
  BY <1>2, <1>5 DEF LastOf
<1>7. Len(BytesOf(gs)) = Len(Sums(schema, m)[k])
  <2>1. FieldBytes(schema, m, k) = WriteField(f)
    BY <1>1 DEF FieldBytes, FieldOf
  <2>2. BytesOf(fs) \in Seq(Byte) /\ WriteField(f) \in Seq(Byte)
    BY BytesOfIs, FieldIsBytes
  <2> HIDE DEF f
  <2>3. Len(BytesOf(fs) \o WriteField(f)) = Len(BytesOf(fs)) + Len(WriteField(f))
    BY <2>2
  <2> QED
    BY <1>4, <2>1, <2>3 DEF Continues, Retraced
<1> HIDE DEF f, gs
<1>8. CanonSoFar(schema, gs)
  <2> SUFFICES ASSUME NEW i \in 1..(c + 1)
               PROVE  /\ gs[i].number \in DOMAIN schema
                      /\ gs[i].wireType = WireTypeOf(schema[gs[i].number].kind)
                      /\ gs[i].wireType = VARINT =>
                           gs[i].value = Narrow(schema[gs[i].number].kind, gs[i].value)
                      /\ schema[gs[i].number].written = "nonDefault" =>
                           gs[i].value # Default(schema[gs[i].number].kind)
                      /\ i > 1 => gs[i - 1].number < gs[i].number
    BY <1>5 DEF CanonSoFar
  <2>1. CASE i \in 1..c
    <3>1. gs[i] = fs[i] /\ (i > 1 => i - 1 \in 1..c)
      BY <1>5, <2>1
    <3>2. i > 1 => gs[i - 1] = fs[i - 1]
      BY <1>5, <3>1
    <3> QED
      BY <2>1, <3>1, <3>2 DEF Retraced, CanonSoFar, c
  <2>2. CASE i = c + 1
    <3>1. gs[i] = f
      BY <1>5, <2>2
    <3>2. schema[k].written = "nonDefault" => m[k] # Default(schema[k].kind)
      BY <1>1 DEF Written
    <3>3. i > 1 => gs[i - 1].number < k
      <4> SUFFICES ASSUME i > 1 PROVE gs[i - 1].number < k
        OBVIOUS
      <4>1. i - 1 = c /\ c \in 1..c /\ c # 0
        BY <1>5, <2>2
      <4>2. gs[i - 1].number = LastOf(fs)
        BY <1>5, <4>1 DEF LastOf, c
      <4>3. LastOf(fs) \in Nat
        <5>1. LastOf(fs) \in 0..Top(schema)
          BY <1>5, Ascending DEF Retraced, c
        <5> QED
          BY <5>1, TopInNat
      <4>4. PICK a \in Nat : a = LastOf(fs)
        BY <4>3
      <4>5. LastOf(fs) <= n
        BY DEF Retraced
      <4>6. n \in Nat /\ n < k /\ k \in 1..31
        BY <1>1
      <4>7. a < k
        BY <4>4, <4>5, <4>6
      <4> QED
        BY <4>2, <4>4, <4>7
    <3> QED
      BY <1>1, <1>2, <1>3, <3>1, <3>2, <3>3
  <2> QED
    BY <1>5, <2>1, <2>2
<1>9. AlwaysUpto(schema, gs, k)
  <2> SUFFICES ASSUME NEW i \in DOMAIN schema, i <= k, schema[i].written = "always"
               PROVE  \E j \in 1..(c + 1) : gs[j].number = i
    BY <1>5 DEF AlwaysUpto
  <2>1. CASE i = k
    BY <1>2, <1>5, <2>1
  <2>2. CASE i # k
    <3>1. i \in 1..31 /\ i < k
      BY <1>1, <2>2 DEF SchemaOK
    <3>2. Written(schema, m, i)
      BY DEF Written
    <3>3. i <= n
      BY <1>1, <3>1, <3>2
    <3>4. PICK j \in 1..c : fs[j].number = i
      BY <3>3 DEF Retraced, AlwaysUpto, c
    <3> QED
      BY <1>5, <3>4
  <2> QED
    BY <2>1, <2>2
<1>10. LastOf(gs) <= k
  BY <1>1, <1>6
<1> QED
  BY <1>7, <1>8, <1>9, <1>10 DEF Retraced, gs, f

\* Bytes that are the encoding of a message are canonical, and the first node has
\* read a prefix of them.
Retraces(m) ==
  \E n \in 0..Top(Schema[name]) :
     /\ pos = Len(Sums(Schema[name], m)[n]) /\ message = Upto(Schema[name], m, n)
     /\ Retraced(Schema[name], fields, m, n) /\ ~overflowed

\* While the first node reads, the bytes it has read are at least those of the
\* fields that arrived, and the message it holds is that of canonical ones; when
\* it has read them all, the bytes are canonical if and only if they are the
\* encoding of what it decoded.
FieldsInv ==
  /\ Arrivals(fields) /\ overflowed \in BOOLEAN
  /\ hop = 0 /\ status = "reading" =>
       /\ ~overflowed => Fits(origin, 0, BytesOf(fields), pos)
       /\ CanonSoFar(Schema[name], fields) /\ AlwaysUpto(Schema[name], fields, LastOf(fields))
            => Holds(Schema[name], fields, message)
       /\ \A m : Typed(Schema[name], m) /\ origin = Encoding(Schema[name], m) => Retraces(m)
  /\ hop # 0 \/ status = "decoded" =>
       (Canonical(Schema[name]) <=> Encoding(Schema[name], arrived) = origin)

\* Before anything is read, no field has arrived.
THEOREM InitFields == Init => FieldsInv
<1> SUFFICES ASSUME Init PROVE FieldsInv
  OBVIOUS
<1>1. /\ fields = <<>> /\ hop = 0 /\ status = "reading" /\ pos = 0 /\ overflowed = FALSE
      /\ message = Blank(Schema[name]) /\ SchemaOK(Schema[name])
  BY SchemasOK DEF Init
<1>2. Arrivals(<<>>) /\ BytesOf(<<>>) = <<>> /\ Len(<<>>) = 0 /\ LastOf(<<>>) = 0
  BY NoBytes DEF LastOf
<1>3. Fits(origin, 0, <<>>, 0)
  <2>1. origin \in Seq(Byte)
    BY ValuesAssumption DEF Init, ValuesAssumption
  <2> QED
    BY <2>1 DEF Fits, At
<1>4. Holds(Schema[name], <<>>, message)
  <2>1. Sums(Schema[name], message)[0] = <<>>
    <3>1. Builds(Sums(Schema[name], message), Top(Schema[name]), Parts(Schema[name], message))
      BY <1>1, BlankTyped, SumsAre
    <3> QED
      BY <3>1 DEF Builds
  <2> QED
    BY <1>1, <1>2, <2>1 DEF Holds
<1>5. ASSUME NEW m, Typed(Schema[name], m) PROVE Retraces(m)
  <2> DEFINE schema == Schema[name]
  <2> HIDE DEF schema
  <2>1. /\ 0 \in 0..Top(schema) /\ Len(Sums(schema, m)[0]) = 0
        /\ Upto(schema, m, 0) = Blank(schema)
    BY <1>1, <1>5, FollowsFromStart DEF schema
  <2>2. Retraced(schema, <<>>, m, 0)
    <3>1. \A k \in DOMAIN schema : ~(k <= 0)
      <4>1. SchemaOK(schema)
        BY <1>1 DEF schema
      <4> QED
        BY <4>1 DEF SchemaOK
    <3>2. Len(BytesOf(<<>>)) = 0
      BY <1>2
    <3> QED
      BY <1>2, <2>1, <3>1, <3>2 DEF Retraced, CanonSoFar, AlwaysUpto
  <2> QED
    BY <1>1, <2>1, <2>2 DEF Retraces, schema
<1> QED
  BY <1>1, <1>2, <1>3, <1>4, <1>5 DEF FieldsInv

LEMMA ReadKeepsFields == ASSUME IInv, FieldsInv, Read PROVE FieldsInv'
<1> DEFINE schema == Schema[name]
           r == NextField(wire, pos)
<1>1. /\ TypeOK /\ OnItsWay /\ Arrivals(fields) /\ overflowed \in BOOLEAN
      /\ status = "reading" /\ pos < Len(wire)
      /\ name' = name /\ origin' = origin /\ wire' = wire /\ hop' = hop /\ arrived' = arrived
      /\ r.ok => /\ message' = Stored(schema, message, r.value)
                 /\ pos' = r.next /\ status' = status
                 /\ fields' = IF hop = 0 THEN Append(fields, r.value) ELSE fields
                 /\ overflowed' = (overflowed \/ (hop = 0 /\ OverflowsIn(wire, pos)))
      /\ ~r.ok => status' = r.error /\ fields' = fields /\ overflowed' = overflowed
  BY DEF IInv, FieldsInv, Read
<1>2. SchemaOK(schema) /\ wire \in Seq(Byte) /\ pos \in Nat /\ Typed(schema, message)
  BY <1>1, SchemaIs DEF TypeOK
<1> HIDE DEF schema, r
<1>3. CASE hop # 0
  <2>1. fields' = fields /\ overflowed' = overflowed
    <3>1. CASE r.ok
      BY <1>1, <1>3, <3>1
    <3>2. CASE ~r.ok
      BY <1>1, <3>2
    <3> QED
      BY <3>1, <3>2
  <2>2. Canonical(Schema[name])' <=> Canonical(Schema[name])
    BY <1>1, <2>1 DEF Canonical
  <2> QED
    BY <1>1, <1>3, <2>1, <2>2 DEF FieldsInv
<1>4. CASE hop = 0 /\ Refused(r)
  <2>1. status' \in Errors /\ fields' = fields /\ overflowed' = overflowed
    BY <1>1, <1>4 DEF Refused
  <2>2. status' \notin {"reading", "decoded"}
    BY <2>1 DEF Errors
  <2> QED
    BY <1>1, <1>4, <2>1, <2>2 DEF FieldsInv
<1>5. ASSUME hop = 0, NEW number, NEW wireType, NEW value, NEW next, NEW n,
             ReadAs(wire, pos, number, wireType, value, next, n)
      PROVE  FieldsInv'
  <2> DEFINE f == Field(number, wireType, value)
  <2>1. r = Ok(f, next) /\ next \in Nat
    BY <1>5 DEF ReadAs, r
  <2>2. Taking(f) /\ (~OverflowsIn(wire, pos) => Fits(wire, pos, WriteField(f), next))
    BY <1>2, <1>5, FieldFits
  <2> HIDE DEF f
  <2>3. /\ fields' = Append(fields, f) /\ message' = Stored(schema, message, f) /\ pos' = next
        /\ status' = "reading" /\ overflowed' = (overflowed \/ OverflowsIn(wire, pos))
    BY <1>1, <1>5, <2>1 DEF Ok
  <2>4. Arrivals(fields') /\ BytesOf(fields') = BytesOf(fields) \o WriteField(f)
    BY <1>1, <2>2, <2>3, AppendBytes
  <2>5. overflowed' \in BOOLEAN
    BY <1>1, <2>3
  <2>6. ASSUME ~overflowed' PROVE Fits(origin', 0, BytesOf(fields'), pos')
    <3>1. ~overflowed /\ ~OverflowsIn(wire, pos)
      BY <2>3, <2>6
    <3>2. Fits(wire, 0, BytesOf(fields), pos) /\ wire = origin
      BY <1>1, <1>5, <3>1 DEF FieldsInv, OnItsWay
    <3>3. Fits(wire, pos, WriteField(f), next)
      BY <2>2, <3>1
    <3>4. BytesOf(fields) \in Seq(Byte) /\ WriteField(f) \in Seq(Byte)
      BY <1>1, <2>2, BytesOfIs, FieldIsBytes
    <3>5. Fits(wire, 0, BytesOf(fields) \o WriteField(f), next)
      BY <1>2, <2>1, <3>2, <3>3, <3>4, FitsConcat
    <3> QED
      BY <1>1, <2>3, <2>4, <3>2, <3>5
  <2>7. ASSUME CanonSoFar(schema, fields'), AlwaysUpto(schema, fields', LastOf(fields'))
        PROVE  Holds(schema, fields', message')
    <3>1. LastOf(fields') = f.number
      <4> DEFINE S == FieldSet
      <4>1. fields \in Seq(S)
        BY <1>1 DEF Arrivals
      <4>2. fields' \in Seq(S)
        BY <2>4 DEF Arrivals
      <4> HIDE DEF S
      <4>3. Len(fields') = Len(fields) + 1 /\ Len(fields) \in Nat /\ fields'[Len(fields) + 1] = f
        BY <2>3, <4>1, <4>2
      <4>4. Len(fields') # 0 /\ fields'[Len(fields')] = f
        BY <4>3
      <4> QED
        BY <4>4 DEF LastOf
    <3>2. CanonSoFar(schema, fields) /\ AlwaysUpto(schema, fields, LastOf(fields))
            => Holds(schema, fields, message)
      BY <1>1, <1>5 DEF FieldsInv, schema
    <3> QED
      BY <1>1, <1>2, <2>2, <2>3, <2>7, <3>1, <3>2, HoldsOneMore
  <2>8. ASSUME NEW m, Typed(schema, m), origin = Encoding(schema, m) PROVE Retraces(m)'
    <3>1. wire = Encoding(schema, m)
      BY <1>1, <1>5, <2>8 DEF OnItsWay
    <3>2. PICK i \in 0..Top(schema) :
             /\ pos = Len(Sums(schema, m)[i]) /\ message = Upto(schema, m, i)
             /\ Retraced(schema, fields, m, i) /\ ~overflowed
      BY <1>1, <1>5, <2>8 DEF FieldsInv, Retraces, schema
    <3>3. ~Complete(schema, m, i)
      BY <1>1, <1>2, <3>1, <3>2 DEF Complete
    <3>4. PICK k : Continues(schema, m, i, k)
      BY <1>2, <2>8, <3>3, AfterPrefix
    <3>5. /\ NextField(wire, pos) = Ok(FieldOf(schema, m, k), Len(Sums(schema, m)[k]))
          /\ Stored(schema, message, FieldOf(schema, m, k)) = Upto(schema, m, k)
          /\ ~OverflowsIn(wire, pos)
      BY <1>2, <2>8, <3>1, <3>2, <3>4, ReadStep
    <3>6. f = FieldOf(schema, m, k) /\ next = Len(Sums(schema, m)[k])
      BY <2>1, <3>5 DEF Ok, r
    <3>7. Retraced(schema, fields', m, k)
      BY <1>1, <1>2, <2>2, <2>3, <2>8, <3>2, <3>4, <3>6, RetracedOneMore
    <3>8. k \in 0..Top(schema)
      <4>1. PICK t \in Nat : t = Top(schema)
        BY <1>2, TopInNat
      <4>2. i \in 0..t /\ k \in (i + 1)..t
        BY <3>4, <4>1 DEF Continues
      <4> QED
        BY <4>1, <4>2
    <3> QED
      BY <1>1, <2>3, <3>2, <3>5, <3>6, <3>7, <3>8 DEF Retraces, schema
  <2> QED
    BY <1>1, <1>5, <2>3, <2>4, <2>5, <2>6, <2>7, <2>8 DEF FieldsInv, schema
<1> QED
  BY <1>2, <1>3, <1>4, <1>5, NextFieldIs DEF r

LEMMA DecodedKeepsFields == ASSUME IInv, FieldsInv, Decoded PROVE FieldsInv'
<1> DEFINE schema == Schema[name]
<1>1. /\ TypeOK /\ OnItsWay /\ Arrivals(fields) /\ overflowed \in BOOLEAN
      /\ status = "reading" /\ pos >= Len(wire) /\ status' = "decoded"
      /\ arrived' = IF hop = 0 THEN message ELSE arrived
      /\ name' = name /\ origin' = origin /\ wire' = wire /\ hop' = hop
      /\ fields' = fields /\ overflowed' = overflowed /\ message' = message
  BY DEF IInv, FieldsInv, Decoded
<1>2. SchemaOK(schema) /\ Typed(schema, message)
  BY <1>1, SchemaIs DEF TypeOK
<1>3. Canonical(Schema[name])' <=> Canonical(Schema[name])
  BY <1>1 DEF Canonical
<1>4. CASE hop # 0
  BY <1>1, <1>3, <1>4 DEF FieldsInv
<1>5. ASSUME hop = 0, Canonical(schema) PROVE Encoding(schema, message) = origin
  <2> DEFINE B == BytesOf(fields)
  <2> HIDE DEF schema
  <2>1. /\ CanonSoFar(schema, fields) /\ AlwaysUpto(schema, fields, 31)
        /\ Len(origin) = LeastSum(fields) /\ ~overflowed
    BY <1>1, <1>2, <1>5, CanonicalIs
  <2>2. AlwaysUpto(schema, fields, LastOf(fields))
    <3>1. \A k \in DOMAIN schema : k <= 31
      BY <1>2 DEF SchemaOK
    <3> QED
      BY <2>1, <3>1 DEF AlwaysUpto
  <2>3. Holds(schema, fields, message) /\ Fits(origin, 0, B, pos)
    BY <1>1, <1>5, <2>1, <2>2 DEF FieldsInv, schema
  <2>4. Encoding(schema, message) = B
    BY <1>1, <1>2, <2>1, <2>3, HeldIsEncoded
  <2>5. B \in Seq(Byte) /\ Len(origin) = Len(B)
    BY <1>1, <2>1, BytesOfIs, LeastSumIs
  <2> HIDE DEF B
  <2>6. wire = origin /\ origin \in Seq(Byte) /\ pos = Len(origin)
    <3>1. wire = origin /\ wire \in Seq(Byte) /\ pos \in Nat /\ pos <= Len(wire)
      BY <1>1, <1>5 DEF OnItsWay, TypeOK
    <3>2. Len(wire) \in Nat
      BY <3>1
    <3> QED
      BY <1>1, <3>1, <3>2
  <2>7. At(origin, 0, B)
    <3>1. 0 + Len(B) = pos
      BY <2>5, <2>6
    <3> QED
      BY <2>3, <3>1 DEF Fits
  <2>8. \A i \in 1..Len(origin) : origin[i] = B[i]
    <3>1. \A i \in 1..Len(B) : origin[0 + i] = B[i]
      BY <2>7 DEF At
    <3>2. \A i \in 1..Len(B) : 0 + i = i
      OBVIOUS
    <3> QED
      BY <2>5, <3>1, <3>2
  <2>9. origin = B
    BY <2>5, <2>6, <2>8, SameSeq
  <2> QED
    BY <2>4, <2>9
<1>6. ASSUME hop = 0, Encoding(schema, message) = origin PROVE Canonical(schema)
  <2> HIDE DEF schema
  <2>1. PICK i \in 0..Top(schema) :
           /\ pos = Len(Sums(schema, message)[i])
           /\ Retraced(schema, fields, message, i) /\ ~overflowed
    BY <1>1, <1>2, <1>6 DEF FieldsInv, Retraces, schema
  <2>2. wire = origin
    BY <1>1, <1>6 DEF OnItsWay
  <2>3. ASSUME NEW k, Continues(schema, message, i, k) PROVE FALSE
    <3>1. pos < Len(wire)
      BY <1>2, <1>6, <2>1, <2>2, <2>3, ReadStep
    <3> QED
      BY <1>1, <3>1 DEF TypeOK
  <2>4. Complete(schema, message, i)
    BY <1>2, <2>3, AfterPrefix
  <2>5. AlwaysUpto(schema, fields, 31)
    <3> SUFFICES ASSUME NEW k \in DOMAIN schema, schema[k].written = "always"
                 PROVE  \E j \in 1..Len(fields) : fields[j].number = k
      BY DEF AlwaysUpto
    <3>1. Written(schema, message, k)
      BY DEF Written
    <3>2. k \in Nat /\ i \in Nat
      BY <1>2, TopInNat DEF SchemaOK
    <3>3. k <= i
      BY <2>4, <3>1, <3>2 DEF Complete
    <3> QED
      BY <2>1, <3>3 DEF Retraced, AlwaysUpto
  <2>6. Len(origin) = LeastSum(fields)
    BY <1>1, <1>6, <2>1, <2>4, LeastSumIs DEF Retraced, Complete
  <2> QED
    BY <1>1, <1>2, <2>1, <2>5, <2>6, CanonicalIs DEF Retraced
<1>7. CASE hop = 0
  BY <1>1, <1>3, <1>5, <1>6, <1>7 DEF FieldsInv
<1> QED
  BY <1>4, <1>7

\* Every step keeps what is known of the fields.
THEOREM NextFields == IInv /\ FieldsInv /\ [Next]_vars => FieldsInv'
<1> SUFFICES ASSUME IInv, FieldsInv, [Next]_vars PROVE FieldsInv'
  OBVIOUS
<1>1. CASE UNCHANGED vars
  BY <1>1 DEF vars, ghosts, FieldsInv, Retraces, Canonical
<1>2. CASE Reencode \/ Forward
  <2>1. /\ name' = name /\ origin' = origin /\ fields' = fields
        /\ overflowed' = overflowed /\ arrived' = arrived
    BY <1>2 DEF Reencode, Forward, ghosts
  <2>2. hop' # 0 \/ status' = "decoded" => hop # 0 \/ status = "decoded"
    BY <1>2 DEF Reencode, Forward
  <2>3. hop' # 0
    <3>1. CASE Reencode
      BY <3>1 DEF Reencode, IInv, TypeOK
    <3>2. CASE Forward
      BY <3>2 DEF Forward, IInv, OnItsWay
    <3> QED
      BY <1>2, <3>1, <3>2
  <2>4. Canonical(Schema[name])' <=> Canonical(Schema[name])
    BY <2>1 DEF Canonical
  <2> QED
    BY <2>1, <2>2, <2>3, <2>4 DEF FieldsInv
<1> QED
  BY <1>1, <1>2, ReadKeepsFields, DecodedKeepsFields DEF Next

\* Bytes a canonical encoder emits are passed on as they are: whatever canonical
\* bytes arrive, a node that encodes again what it decoded emits them byte for
\* byte, the empty submessage and the explicit zero status included
\* (message.rs:29-35, message.rs:541-546, message.rs:606-609); and no other bytes
\* are, whichever of their bits decoding cuts off (protobuf.rs:143,
\* message.rs:448-460).
THEOREM CanonicalIsAlwaysIdentical == Spec => []CanonicalIsBitIdentical
<1>1. IInv /\ FieldsInv => CanonicalIsBitIdentical
  BY DEF IInv, OnItsWay, FieldsInv, CanonicalIsBitIdentical
<1>2. Spec => []FieldsInv
  BY InitFields, NextFields, Invariance, PTL DEF Spec
<1> QED
  BY <1>1, <1>2, Invariance, PTL
=============================================================================
