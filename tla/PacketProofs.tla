---------------------------- MODULE PacketProofs ----------------------------
(***************************************************************************)
(* Proofs about Packet for any base, widths, numbers, strings and any      *)
(* number of packets.  The invariant, Laid, says that a body is the bytes  *)
(* of its values one after the other; its proof needs that an integer is   *)
(* determined by its bytes, and that is an induction over their number.    *)
(***************************************************************************)
EXTENDS Packet, SequenceTheorems, WellFoundedInduction, TLAPS

-----------------------------------------------------------------------------
(* Induction over the naturals, as a statement about a set, and the powers  *)
(* of Base, which are defined by recursion.                                 *)

\* Every nonempty set of naturals has a least element.
LEMMA Least ==
    ASSUME NEW T \in SUBSET Nat, T # {}
    PROVE  \E x \in T : \A y \in T : x <= y
  <1> DEFINE R == OpToRel(<, Nat)
  <1>1. IsWellFoundedOn(R, Nat)
    BY NatLessThanWellFounded, Zenon
  <1>2. \A x, y : <<x, y>> \in R <=> x \in Nat /\ y \in Nat /\ x < y
    BY DEF OpToRel
  <1> HIDE DEF R
  <1>3. PICK x \in T : \A y \in T : ~(<<y, x>> \in R)
    BY <1>1, WFMin
  <1>4. ASSUME NEW y \in T PROVE x <= y
    <2>1. x \in Nat /\ y \in Nat /\ ~(<<y, x>> \in R)
      BY <1>3, <1>4
    <2>2. ~(y < x)
      BY <2>1, <1>2
    <2>. QED  BY <2>1, <2>2
  <1>5. x \in T
    BY <1>3
  <1>. QED  BY <1>4, <1>5

\* A set that has 0, and with each number the next one, has all of them.
LEMMA SetInduction ==
    ASSUME NEW S, 0 \in S, \A n \in Nat : n \in S => n + 1 \in S
    PROVE  Nat \subseteq S
  <1>. SUFFICES ASSUME NEW m \in Nat, m \notin S PROVE FALSE
    OBVIOUS
  <1> DEFINE T == Nat \ S
  <1>1. T \in SUBSET Nat /\ T # {}
    OBVIOUS
  <1> HIDE DEF T
  <1>2. PICK x \in T : \A y \in T : x <= y
    BY <1>1, Least
  <1>3. x \in Nat /\ x \notin S
    BY <1>2 DEF T
  <1>4. x # 0
    BY <1>3
  <1>5. x - 1 \in Nat /\ x - 1 \notin T
    BY <1>1, <1>2, <1>3, <1>4
  <1>6. x - 1 \in S
    BY <1>5 DEF T
  <1>7. (x - 1) + 1 \in S
    BY <1>5, <1>6
  <1>. QED  BY <1>3, <1>7

\* g is the first n powers of Base.
Begins(g, n) == /\ g \in [0..n -> Nat \ {0}] /\ g[0] = 1
                /\ \A i \in 1..n : g[i] = Base * g[i - 1]

LEMMA Times ==
    ASSUME NEW k \in Nat \ {0}
    PROVE  Base * k \in Nat \ {0}
  BY PacketAssumption DEF PacketAssumption

LEMMA BeginsExists == \A n \in Nat : \E g : Begins(g, n)
  <1> DEFINE S == {n \in Nat : \E g : Begins(g, n)}
  <1>1. 0 \in S
    <2>1. Begins([i \in 0..0 |-> 1], 0)
      BY DEF Begins
    <2>. QED  BY <2>1
  <1>2. ASSUME NEW n \in Nat, n \in S PROVE n + 1 \in S
    <2>1. PICK g : Begins(g, n)
      BY <1>2
    <2> DEFINE h == [i \in 0..(n + 1) |-> IF i = n + 1 THEN Base * g[n] ELSE g[i]]
    <2>2. g[n] \in Nat \ {0} /\ \A i \in 0..n : g[i] \in Nat \ {0}
      BY <2>1 DEF Begins
    <2>3. h[0] = 1
      BY <2>1 DEF Begins
    <2>4. h \in [0..(n + 1) -> Nat \ {0}]
      <3>1. Base * g[n] \in Nat \ {0}
        BY <2>2, Times
      <3>. QED  BY <2>2, <3>1
    <2>5. ASSUME NEW i \in 1..(n + 1) PROVE h[i] = Base * h[i - 1]
      <3>1. CASE i = n + 1
        <4>1. i - 1 = n /\ i - 1 \in 0..(n + 1) /\ i \in 0..(n + 1)
          BY <3>1
        <4>. QED  BY <3>1, <4>1
      <3>2. CASE i # n + 1
        <4>1. i \in 1..n /\ i - 1 \in 0..(n + 1) /\ i \in 0..(n + 1) /\ i - 1 # n + 1
          BY <3>2
        <4>2. g[i] = Base * g[i - 1]
          BY <2>1, <4>1 DEF Begins
        <4>. QED  BY <3>2, <4>1, <4>2
      <3>. QED  BY <3>1, <3>2
    <2> HIDE DEF h
    <2>6. Begins(h, n + 1)
      BY <2>3, <2>4, <2>5 DEF Begins
    <2>. QED  BY <2>6
  <1>3. Nat \subseteq S
    <2> HIDE DEF S
    <2>. QED  BY <1>1, <1>2, SetInduction
  <1>. QED  BY <1>3

\* They are the same in every such g.
LEMMA BeginsAgree ==
    ASSUME NEW n \in Nat, NEW m \in Nat, NEW g, NEW h, Begins(g, n), Begins(h, m)
    PROVE  \A i \in Nat : i <= n /\ i <= m => g[i] = h[i]
  <1> DEFINE S == {i \in Nat : i <= n /\ i <= m => g[i] = h[i]}
  <1>1. 0 \in S
    BY DEF Begins
  <1>2. ASSUME NEW i \in Nat, i \in S PROVE i + 1 \in S
    <2>1. SUFFICES ASSUME i + 1 <= n, i + 1 <= m PROVE g[i + 1] = h[i + 1]
      BY <1>2
    <2>2. g[i] = h[i] /\ i + 1 \in 1..n /\ i + 1 \in 1..m /\ (i + 1) - 1 = i
      BY <1>2, <2>1
    <2>3. g[i + 1] = Base * g[i] /\ h[i + 1] = Base * h[i]
      BY <2>2 DEF Begins
    <2>. QED  BY <2>2, <2>3
  <1>3. Nat \subseteq S
    <2> HIDE DEF S
    <2>. QED  BY <1>1, <1>2, SetInduction
  <1>. QED  BY <1>3

\* So a function with the defining equation of Power exists.
LEMMA PowerIsDefined == Power = [n \in Nat |-> IF n = 0 THEN 1 ELSE Base * Power[n - 1]]
  <1> DEFINE G(n) == CHOOSE g : Begins(g, n)
             f == [n \in Nat |-> G(n)[n]]
  <1>1. \A n \in Nat : Begins(G(n), n)
    BY BeginsExists
  <1> HIDE DEF G
  <1>2. f[0] = 1
    BY <1>1 DEF Begins
  <1>3. ASSUME NEW n \in Nat, n # 0 PROVE f[n] = Base * f[n - 1]
    <2>1. n - 1 \in Nat /\ n \in 1..n /\ n - 1 <= n /\ n - 1 <= n - 1
      BY <1>3
    <2>2. Begins(G(n), n) /\ Begins(G(n - 1), n - 1)
      BY <1>1, <2>1
    <2>3. G(n)[n] = Base * G(n)[n - 1]
      BY <2>1, <2>2 DEF Begins
    <2>4. G(n)[n - 1] = G(n - 1)[n - 1]
      BY <2>1, <2>2, BeginsAgree
    <2>. QED  BY <2>1, <2>3, <2>4
  <1>4. f = [n \in Nat |-> IF n = 0 THEN 1 ELSE Base * f[n - 1]]
    <2> DEFINE F == [n \in Nat |-> IF n = 0 THEN 1 ELSE Base * f[n - 1]]
    <2>1. \A n \in Nat : f[n] = F[n]
      BY <1>2, <1>3
    <2>2. DOMAIN f = Nat /\ f = [n \in Nat |-> f[n]]
      OBVIOUS
    <2> HIDE DEF f
    <2>. QED  BY <2>1, <2>2
  <1> HIDE DEF f
  <1>. QED  BY <1>4 DEF Power

LEMMA PowerFacts ==
    /\ Power[0] = 1
    /\ \A n \in Nat : Power[n + 1] = Base * Power[n] /\ Power[n] \in Nat \ {0}
  <1>1. Power[0] = 1
    BY PowerIsDefined
  <1>2. ASSUME NEW n \in Nat PROVE Power[n + 1] = Base * Power[n]
    <2>1. n + 1 \in Nat /\ n + 1 # 0 /\ (n + 1) - 1 = n
      OBVIOUS
    <2>. QED  BY <2>1, PowerIsDefined
  <1> DEFINE S == {n \in Nat : Power[n] \in Nat \ {0}}
  <1>3. 0 \in S
    BY <1>1
  <1>4. ASSUME NEW n \in Nat, n \in S PROVE n + 1 \in S
    BY <1>2, <1>4, Times
  <1>5. Nat \subseteq S
    <2> HIDE DEF S
    <2>. QED  BY <1>3, <1>4, SetInduction
  <1>. QED  BY <1>1, <1>2, <1>5

-----------------------------------------------------------------------------
(* The bytes of an integer determine it. *)

LEMMA Division ==
    ASSUME NEW n \in Nat, NEW m \in Nat \ {0}
    PROVE  /\ n \div m \in Nat /\ n % m \in 0..(m - 1)
           /\ n = m * (n \div m) + (n % m)
  <1>1. n \div m \in Nat
    OBVIOUS
  <1>2. n % m \in 0..(m - 1)
    OBVIOUS
  <1>3. n = m * (n \div m) + (n % m)
    OBVIOUS
  <1>. QED  BY <1>1, <1>2, <1>3

LEMMA Product ==
    ASSUME NEW x \in Nat, NEW y \in Nat PROVE x * y \in Nat
  OBVIOUS

LEMMA Monotone ==
    ASSUME NEW m \in Nat, NEW x \in Nat, NEW y \in Nat, x <= y
    PROVE  m * x <= m * y
  <1>1. y - x \in Nat
    OBVIOUS
  <1>2. m * (y - x) \in Nat
    BY <1>1, Product
  <1>3. m * y = m * x + m * (y - x)
    OBVIOUS
  <1>. QED  BY <1>2, <1>3

\* Quotient and remainder are unique.
LEMMA OneRemainder ==
    ASSUME NEW m \in Nat \ {0}, NEW b \in Nat, NEW c \in Nat,
           NEW t \in 0..(m - 1), NEW u \in 0..(m - 1), m * b + t = m * c + u
    PROVE  t = u
  <1>1. ASSUME NEW x \in Nat, NEW y \in Nat, NEW v \in 0..(m - 1), NEW w \in 0..(m - 1),
               x < y, m * x + v = m * y + w
        PROVE  FALSE
    <2>1. m * (x + 1) <= m * y
      BY <1>1, Monotone
    <2>2. m * (x + 1) = m * x + m
      OBVIOUS
    <2>3. m * x \in Nat /\ m * y \in Nat
      BY Product
    <2>. QED  BY <1>1, <2>1, <2>2, <2>3
  <1>2. ~(b < c) /\ ~(c < b)
    BY <1>1
  <1>3. b = c
    BY <1>2
  <1>4. m * b \in Nat
    BY Product
  <1>. QED  BY <1>3, <1>4

\* A digit more: the remainder modulo Base * p, from the digit and the remainder modulo p.
LEMMA RemainderGrows ==
    ASSUME NEW n \in Nat, NEW p \in Nat \ {0}
    PROVE  n % (Base * p) = p * ((n \div p) % Base) + (n % p)
  <1>1. Base \in Nat \ {0, 1}
    BY PacketAssumption DEF PacketAssumption
  <1> DEFINE a == n \div p
             r == n % p
             b == a \div Base
             s == a % Base
  <1>2. a \in Nat /\ r \in 0..(p - 1) /\ n = p * a + r
    BY Division
  <1> HIDE DEF a, r
  <1>3. b \in Nat /\ s \in 0..(Base - 1) /\ a = Base * b + s
    BY <1>1, <1>2, Division
  <1> HIDE DEF b, s
  <1>4. p * (Base * b + s) = (Base * p) * b + p * s
    BY <1>1, <1>2, <1>3
  <1>5. p * s <= p * (Base - 1) /\ p * s \in Nat
    BY <1>1, <1>3, Monotone, Product
  <1>6. p * (Base - 1) = Base * p - p /\ Base * p \in Nat \ {0}
    BY <1>1
  <1>7. p * s + r \in 0..(Base * p - 1)
    BY <1>2, <1>5, <1>6
  <1> DEFINE q == Base * p
  <1>8. q \in Nat \ {0}
    BY <1>6
  <1>9. n = q * b + (p * s + r)
    <2>1. n = ((Base * p) * b + p * s) + r
      BY <1>2, <1>3, <1>4
    <2>2. (Base * p) * b \in Nat /\ r \in Nat
      BY <1>2, <1>3, <1>6, Product
    <2>. QED  BY <2>1, <2>2, <1>5
  <1>10. p * s + r \in 0..(q - 1)
    BY <1>7
  <1> DEFINE k == p * s + r
             l == n % q
             h == n \div q
  <1> HIDE DEF q
  <1>11. h \in Nat /\ l \in 0..(q - 1) /\ n = q * h + l
    BY <1>8, Division
  <1>12. k \in 0..(q - 1) /\ n = q * b + k
    BY <1>9, <1>10
  <1> HIDE DEF k, l, h
  <1>13. l = k
    <2>1. q * h + l = q * b + k
      BY <1>11, <1>12
    <2>. QED  BY <1>3, <1>8, <1>11, <1>12, <2>1, OneRemainder
  <1>14. s = (n \div p) % Base
    BY DEF s, a
  <1>15. n % q = p * ((n \div p) % Base) + (n % p)
    BY <1>13, <1>14 DEF l, k, r
  <1>. QED  BY <1>15 DEF q

LEMMA BytesType ==
    ASSUME NEW n \in Nat, NEW w \in Nat
    PROVE  Bytes(n, w) \in [1..w -> Byte]
  <1>1. ASSUME NEW i \in 1..w PROVE (n \div Power[i - 1]) % Base \in Byte
    <2>1. i - 1 \in Nat
      OBVIOUS
    <2>2. Power[i - 1] \in Nat \ {0}
      BY <2>1, PowerFacts
    <2>3. n \div Power[i - 1] \in Nat
      BY <2>2, Division
    <2>4. Base \in Nat \ {0}
      BY PacketAssumption DEF PacketAssumption
    <2>. QED  BY <2>3, <2>4, Division DEF Byte
  <1>. QED  BY <1>1 DEF Bytes

\* Numbers with the same bytes are equal, modulo Power[i], for every i.
LEMMA BytesDetermineRemainders ==
    ASSUME NEW n \in Nat, NEW m \in Nat, NEW w \in Nat, Bytes(n, w) = Bytes(m, w)
    PROVE  \A i \in 0..w : n % Power[i] = m % Power[i]
  <1> DEFINE S == {i \in Nat : i <= w => n % Power[i] = m % Power[i]}
  <1>1. 0 \in S
    BY PowerFacts
  <1>2. ASSUME NEW i \in Nat, i \in S PROVE i + 1 \in S
    <2>1. SUFFICES ASSUME i + 1 <= w PROVE n % Power[i + 1] = m % Power[i + 1]
      OBVIOUS
    <2>2. i + 1 \in 1..w /\ (i + 1) - 1 = i
      BY <2>1
    <2>3. Bytes(n, w)[i + 1] = (n \div Power[i]) % Base /\ Bytes(m, w)[i + 1] = (m \div Power[i]) % Base
      BY <2>2 DEF Bytes
    <2>4. n % Power[i] = m % Power[i]
      BY <1>2, <2>1
    <2>5. Power[i + 1] = Base * Power[i] /\ Power[i] \in Nat \ {0}
      BY PowerFacts
    <2>6. /\ n % (Base * Power[i]) = Power[i] * ((n \div Power[i]) % Base) + (n % Power[i])
          /\ m % (Base * Power[i]) = Power[i] * ((m \div Power[i]) % Base) + (m % Power[i])
      BY <2>5, RemainderGrows
    <2>7. (n \div Power[i]) % Base = (m \div Power[i]) % Base
      BY <2>3
    <2>. QED  BY <2>4, <2>5, <2>6, <2>7
  <1>3. Nat \subseteq S
    <2> HIDE DEF S
    <2>. QED  BY <1>1, <1>2, SetInduction
  <1>. QED  BY <1>3

\* memcpy back.
LEMMA NumberOfBytes ==
    ASSUME NEW w \in Nat, NEW n \in 0..(Power[w] - 1)
    PROVE  Number(Bytes(n, w)) = n
  <1>1. Power[w] \in Nat \ {0}
    BY PowerFacts
  <1>2. Bytes(n, w) \in [1..w -> Byte]
    BY BytesType, <1>1
  <1>3. Len(Bytes(n, w)) = w
    BY <1>2
  <1>4. ASSUME NEW m \in 0..(Power[w] - 1), Bytes(m, w) = Bytes(n, w) PROVE m = n
    <2>1. m \in Nat /\ n \in Nat /\ w \in 0..w
      BY <1>1
    <2>2. m % Power[w] = n % Power[w]
      BY <1>4, <2>1, BytesDetermineRemainders
    <2>3. m % Power[w] = m /\ n % Power[w] = n
      BY <1>1
    <2>. QED  BY <2>2, <2>3
  <1>5. Number(Bytes(n, w)) = CHOOSE m \in 0..(Power[w] - 1) : Bytes(m, w) = Bytes(n, w)
    BY <1>3 DEF Number
  <1>. QED  BY <1>4, <1>5

-----------------------------------------------------------------------------
(* Where a sequence ends and another begins. *)

LEMMA ConcatFront ==
    ASSUME NEW S, NEW s \in Seq(S), NEW t \in Seq(S)
    PROVE  SubSeq(s \o t, 1, Len(s)) = s
  <1>1. /\ s \o t \in Seq(S) /\ Len(s \o t) = Len(s) + Len(t)
        /\ \A i \in 1..Len(s) + Len(t) : (s \o t)[i] = IF i <= Len(s) THEN s[i] ELSE t[i - Len(s)]
        /\ Len(s) \in Nat /\ Len(t) \in Nat
    BY ConcatProperties, LenProperties
  <1> DEFINE c == s \o t
  <1> HIDE DEF c
  <1>2. \A i \in 1..Len(s) : c[i] \in S /\ c[i] = s[i]
    BY <1>1, ElementOfSeq DEF c
  <1> DEFINE f == SubSeq(c, 1, Len(s))
  <1>3. /\ f \in Seq(S) /\ Len(f) = IF 1 <= Len(s) THEN Len(s) - 1 + 1 ELSE 0
        /\ \A i \in 1..(Len(s) - 1 + 1) : f[i] = c[1 + i - 1]
    BY <1>1, <1>2, SubSeqProperties
  <1> HIDE DEF f
  <1>4. Len(f) = Len(s) /\ \A i \in 1..Len(s) : f[i] = s[i]
    BY <1>1, <1>2, <1>3
  <1>5. f = s
    BY <1>3, <1>4, SeqEqual
  <1>. QED  BY <1>5 DEF f, c

LEMMA ConcatBack ==
    ASSUME NEW S, NEW s \in Seq(S), NEW t \in Seq(S)
    PROVE  SubSeq(s \o t, Len(s) + 1, Len(s \o t)) = t
  <1>1. /\ s \o t \in Seq(S) /\ Len(s \o t) = Len(s) + Len(t)
        /\ \A i \in 1..Len(s) + Len(t) : (s \o t)[i] = IF i <= Len(s) THEN s[i] ELSE t[i - Len(s)]
        /\ Len(s) \in Nat /\ Len(t) \in Nat
    BY ConcatProperties, LenProperties
  <1> DEFINE c == s \o t
  <1> HIDE DEF c
  <1> DEFINE m == Len(s) + 1
             n == Len(s) + Len(t)
  <1>2. \A i \in m..n : c[i] \in S
    BY <1>1, ElementOfSeq DEF c
  <1>3. m \in Int /\ n \in Int
    BY <1>1
  <1> DEFINE f == SubSeq(c, m, n)
  <1> HIDE DEF m, n
  <1>4. /\ f \in Seq(S) /\ Len(f) = IF m <= n THEN n - m + 1 ELSE 0
        /\ \A i \in 1..(n - m + 1) : f[i] = c[m + i - 1]
    BY <1>2, <1>3, SubSeqProperties
  <1> HIDE DEF f
  <1>5. Len(f) = Len(t)
    BY <1>1, <1>4 DEF m, n
  <1>6. ASSUME NEW i \in 1..Len(t) PROVE f[i] = t[i]
    <2>1. i \in 1..(n - m + 1) /\ m + i - 1 = Len(s) + i
      BY <1>1 DEF m, n
    <2>2. Len(s) + i \in 1..Len(s) + Len(t) /\ ~(Len(s) + i <= Len(s)) /\ (Len(s) + i) - Len(s) = i
      BY <1>1
    <2>3. c[Len(s) + i] = t[(Len(s) + i) - Len(s)]
      BY <1>1, <2>2 DEF c
    <2>. QED  BY <1>4, <2>1, <2>2, <2>3
  <1>7. f = t
    BY <1>4, <1>5, <1>6, SeqEqual
  <1>. QED  BY <1>1, <1>7 DEF f, c, m, n

-----------------------------------------------------------------------------
(* A body as the values in it. *)

\* The bytes of a value.
Enc(v) == IF v.type = "string" THEN <<0>> \o v.val ELSE Bytes(v.val[1], Width[v.type])

\* Body b is the values vals, one after the other.
Lays(vals, b) ==
    \E pre \in [0..Len(vals) -> Seq(Byte)] :
        /\ pre[0] = <<>> /\ pre[Len(vals)] = b
        /\ \A i \in 1..Len(vals) : pre[i] = pre[i - 1] \o Enc(vals[i])

LEMMA ModulusType ==
    ASSUME NEW t \in IntTypes
    PROVE  /\ Width[t] \in Nat \ {0} /\ Modulus(t) = Power[Width[t]] /\ Modulus(t) \in Nat \ {0}
           /\ t # "string"
  <1>1. Width[t] \in Nat \ {0} /\ t # "string"
    BY PacketAssumption DEF PacketAssumption, IntTypes
  <1>. QED  BY <1>1, PowerFacts DEF Modulus

\* An integer that is written fits its type.
LEMMA Fits ==
    ASSUME NEW t \in IntTypes, NEW n \in Numbers
    PROVE  n \in Nat /\ n % Modulus(t) \in 0..(Modulus(t) - 1) /\ n % Modulus(t) \in Nat
  <1>1. n \in Nat
    BY PacketAssumption DEF PacketAssumption
  <1>2. n % Modulus(t) \in 0..(Modulus(t) - 1)
    BY <1>1, ModulusType, Division
  <1>. QED  BY <1>1, <1>2, ModulusType

\* A value is a string or an integer of its type.
LEMMA Kinds ==
    ASSUME NEW v \in Value
    PROVE  \/ v.type = "string" /\ v = StringValue(v.val) /\ \E s \in Strings : v.val = Copied(s)
           \/ /\ v.type \in IntTypes /\ v.type # "string"
              /\ \E n \in 0..(Modulus(v.type) - 1) : v = IntValue(v.type, n)
  <1>1. CASE \E s \in Strings : v = StringValue(Copied(s))
    <2>1. PICK s \in Strings : v = StringValue(Copied(s))
      BY <1>1
    <2> HIDE DEF Copied
    <2>2. v.type = "string" /\ v.val = Copied(s)
      BY <2>1 DEF StringValue
    <2>. QED  BY <2>1, <2>2
  <1>2. CASE \E t \in IntTypes, n \in Numbers : v = IntValue(t, n % Modulus(t))
    <2>1. PICK t \in IntTypes, n \in Numbers : v = IntValue(t, n % Modulus(t))
      BY <1>2
    <2>2. v.type = t
      BY <2>1 DEF IntValue
    <2>3. n % Modulus(t) \in 0..(Modulus(t) - 1)
      BY Fits
    <2>4. t # "string"
      BY ModulusType
    <2>. QED  BY <2>1, <2>2, <2>3, <2>4
  <1>. QED  BY <1>1, <1>2 DEF Value

LEMMA EncOfInt ==
    ASSUME NEW t \in IntTypes, NEW n \in 0..(Modulus(t) - 1)
    PROVE  /\ Enc(IntValue(t, n)) = Bytes(n, Width[t])
           /\ Bytes(n, Width[t]) \in Seq(Byte) /\ Len(Bytes(n, Width[t])) = Width[t]
           /\ Number(Bytes(n, Width[t])) = n
  <1>1. Width[t] \in Nat /\ Modulus(t) = Power[Width[t]] /\ Modulus(t) \in Nat /\ t # "string"
    BY ModulusType
  <1>2. n \in Nat /\ n \in 0..(Power[Width[t]] - 1)
    BY <1>1
  <1>3. Bytes(n, Width[t]) \in [1..Width[t] -> Byte]
    BY <1>1, <1>2, BytesType
  <1>4. Number(Bytes(n, Width[t])) = n
    BY <1>1, <1>2, NumberOfBytes
  <1>5. Enc(IntValue(t, n)) = Bytes(n, Width[t])
    BY <1>1 DEF Enc, IntValue
  <1> DEFINE bs == Bytes(n, Width[t])
  <1> HIDE DEF bs
  <1>6. bs \in Seq(Byte) /\ Len(bs) = Width[t]
    BY <1>1, <1>3 DEF bs
  <1>. QED  BY <1>4, <1>5, <1>6 DEF bs

LEMMA EncOfString ==
    ASSUME NEW s \in Strings
    PROVE  /\ Enc(StringValue(Copied(s))) = <<0>> \o Copied(s)
           /\ <<0>> \in Seq(Byte) /\ Copied(s) \in Seq(Byte) /\ <<0>> \o Copied(s) \in Seq(Byte)
           /\ Copied(s) \in Seq(Byte \ {0})
  <1>1. Copied(s) \in Seq(Byte \ {0})
    BY StringAssumption DEF StringAssumption
  <1> DEFINE c == Copied(s)
  <1> HIDE DEF c
  <1>2. c \in Seq(Byte \ {0})
    BY <1>1 DEF c
  <1>3. c \in Seq(Byte)
    BY <1>2
  <1>4. 0 \in Byte
    BY PacketAssumption DEF PacketAssumption, Byte
  <1>5. <<0>> \in Seq(Byte)
    BY <1>4
  <1>6. <<0>> \o c \in Seq(Byte)
    BY <1>3, <1>5, ConcatProperties
  <1>7. Enc(StringValue(c)) = <<0>> \o c
    BY DEF Enc, StringValue
  <1>. QED  BY <1>2, <1>3, <1>5, <1>6, <1>7 DEF c

LEMMA EncType ==
    ASSUME NEW v \in Value
    PROVE  Enc(v) \in Seq(Byte)
  <1>1. CASE v.type = "string"
    <2>1. PICK s \in Strings : v.val = Copied(s)
      BY <1>1, Kinds
    <2>2. v = StringValue(Copied(s))
      BY <1>1, <2>1, Kinds
    <2>. QED  BY <2>2, EncOfString
  <1>2. CASE v.type # "string"
    <2>1. v.type \in IntTypes
      BY <1>2, Kinds
    <2>2. PICK n \in 0..(Modulus(v.type) - 1) : v = IntValue(v.type, n)
      BY <1>2, Kinds
    <2>. QED  BY <2>1, <2>2, EncOfInt
  <1>. QED  BY <1>1, <1>2

LEMMA LaysNothing == Lays(<<>>, <<>>)
  <1> DEFINE pre == [i \in 0..0 |-> <<>>]
  <1>1. Len(<<>>) = 0 /\ <<>> \in Seq(Byte)
    OBVIOUS
  <1>2. pre \in [0..0 -> Seq(Byte)] /\ pre[0] = <<>> /\ 1..0 = {}
    BY <1>1
  <1> HIDE DEF pre
  <1>. QED  BY <1>1, <1>2 DEF Lays

\* A value is written at the end.
LEMMA LaysMore ==
    ASSUME NEW vals \in Seq(Value), NEW b \in Seq(Byte), NEW v \in Value, Lays(vals, b)
    PROVE  Lays(Append(vals, v), b \o Enc(v))
  <1>1. PICK pre \in [0..Len(vals) -> Seq(Byte)] :
           /\ pre[0] = <<>> /\ pre[Len(vals)] = b
           /\ \A i \in 1..Len(vals) : pre[i] = pre[i - 1] \o Enc(vals[i])
    BY DEF Lays
  <1> DEFINE n == Len(vals)
             e == Enc(v)
             w == Append(vals, v)
             q == [i \in 0..(n + 1) |-> IF i = n + 1 THEN b \o e ELSE pre[i]]
  <1>2. /\ n \in Nat /\ Len(w) = n + 1 /\ w[n + 1] = v
        /\ \A i \in 1..n : w[i] = vals[i]
    BY AppendProperties, LenProperties
  <1>3. b \o e \in Seq(Byte)
    BY EncType, ConcatProperties
  <1> HIDE DEF e, w, n
  <1>4. q \in [0..(n + 1) -> Seq(Byte)]
    <2>1. \A i \in 0..(n + 1) : i # n + 1 => i \in 0..n
      BY <1>2
    <2>. QED  BY <1>1, <1>3, <2>1 DEF n
  <1>5. q[0] = <<>> /\ q[n + 1] = b \o e
    BY <1>1, <1>2
  <1>6. ASSUME NEW i \in 1..(n + 1) PROVE q[i] = q[i - 1] \o Enc(w[i])
    <2>1. CASE i = n + 1
      <3>1. i - 1 = n /\ n \in 0..(n + 1) /\ n # n + 1
        BY <1>2, <2>1
      <3>2. q[i - 1] = b
        BY <1>1, <3>1 DEF n
      <3>3. q[i] = b \o e
        BY <1>5, <2>1
      <3>. QED  BY <1>2, <2>1, <3>2, <3>3 DEF e
    <2>2. CASE i # n + 1
      <3>1. i \in 1..n /\ i \in 0..(n + 1) /\ i - 1 \in 0..(n + 1) /\ i - 1 # n + 1
        BY <1>2, <2>2
      <3>2. q[i] = pre[i] /\ q[i - 1] = pre[i - 1]
        BY <2>2, <3>1
      <3>3. pre[i] = pre[i - 1] \o Enc(vals[i])
        BY <1>1, <3>1 DEF n
      <3>. QED  BY <1>2, <3>1, <3>2, <3>3
    <2>. QED  BY <2>1, <2>2
  <1> HIDE DEF q
  <1>7. Lays(w, b \o e)
    BY <1>2, <1>4, <1>5, <1>6 DEF Lays
  <1>. QED  BY <1>7 DEF w, e

\* The value at the end is taken away.
LEMMA LaysLess ==
    ASSUME NEW vals \in Seq(Value), vals # <<>>, NEW b, Lays(vals, b)
    PROVE  /\ Len(vals) \in Nat \ {0} /\ vals[Len(vals)] \in Value
           /\ SubSeq(vals, 1, Len(vals) - 1) \in Seq(Value)
           /\ \E rest \in Seq(Byte) :
                 /\ b = rest \o Enc(vals[Len(vals)])
                 /\ Lays(SubSeq(vals, 1, Len(vals) - 1), rest)
  <1>1. PICK pre \in [0..Len(vals) -> Seq(Byte)] :
           /\ pre[0] = <<>> /\ pre[Len(vals)] = b
           /\ \A i \in 1..Len(vals) : pre[i] = pre[i - 1] \o Enc(vals[i])
    BY DEF Lays
  <1> DEFINE n == Len(vals)
             w == SubSeq(vals, 1, n - 1)
             rest == pre[n - 1]
             q == [i \in 0..(n - 1) |-> pre[i]]
  <1>2. n \in Nat \ {0} /\ \A i \in 1..n : vals[i] \in Value
    BY EmptySeq, LenProperties, ElementOfSeq
  <1>3. vals[n] \in Value
    BY <1>2
  <1> HIDE DEF n
  <1>4. w \in Seq(Value) /\ Len(w) = n - 1 /\ \A i \in 1..(n - 1) : w[i] = vals[i]
    <2>1. 1 \in Int /\ n - 1 \in Int /\ \A i \in 1..(n - 1) : vals[i] \in Value
      BY <1>2
    <2>2. /\ w \in Seq(Value) /\ Len(w) = IF 1 <= n - 1 THEN n - 1 - 1 + 1 ELSE 0
          /\ \A i \in 1..(n - 1 - 1 + 1) : w[i] = vals[1 + i - 1]
      BY <2>1, SubSeqProperties
    <2> HIDE DEF w
    <2>. QED  BY <1>2, <2>2
  <1> HIDE DEF w
  <1>5. rest \in Seq(Byte) /\ b = rest \o Enc(vals[n])
    <2>1. n - 1 \in 0..n /\ n \in 1..n
      BY <1>2
    <2>. QED  BY <1>1, <2>1 DEF n
  <1>6. q \in [0..(n - 1) -> Seq(Byte)]
    <2>1. \A i \in 0..(n - 1) : i \in 0..n
      BY <1>2
    <2>. QED  BY <1>1, <2>1 DEF n
  <1>7. q[0] = <<>> /\ q[n - 1] = rest
    BY <1>1, <1>2
  <1>8. ASSUME NEW i \in 1..(n - 1) PROVE q[i] = q[i - 1] \o Enc(w[i])
    <2>1. i \in 1..n /\ i \in 0..(n - 1) /\ i - 1 \in 0..(n - 1)
      BY <1>2
    <2>2. pre[i] = pre[i - 1] \o Enc(vals[i])
      BY <1>1, <2>1 DEF n
    <2>. QED  BY <1>4, <2>1, <2>2
  <1> HIDE DEF q, rest
  <1>9. Lays(w, rest)
    BY <1>4, <1>6, <1>7, <1>8 DEF Lays
  <1>. QED  BY <1>2, <1>3, <1>4, <1>5, <1>9 DEF w, n

-----------------------------------------------------------------------------
(* The invariant. *)

\* The bodies of the sender's packet, of the packets on their way and of the
\* receiver's packet are those of the values that were written and not yet read.
Laid ==
    /\ out \in Seq(Value) /\ m_pktOut \in Pkt /\ Lays(out, m_pktOut.body)
    /\ in \in Seq(Value) /\ m_pktIn \in Pkt /\ Lays(in, m_pktIn.body)
    /\ sent \in Seq(Seq(Value)) /\ stream \in Seq(Pkt) /\ Len(sent) = Len(stream)
    /\ \A i \in 1..Len(stream) : Lays(sent[i], stream[i].body)

LEMMA WritesKeepLaid ==
    ASSUME Laid, NEW v \in Value, m_pktOut' = Appended(m_pktOut, Enc(v)), out' = Append(out, v),
           UNCHANGED <<stream, sent, m_pktIn, in>>
    PROVE  Laid'
  <1>1. m_pktOut.body \in Seq(Byte) /\ Enc(v) \in Seq(Byte)
    BY EncType DEF Laid, Pkt
  <1>2. m_pktOut' \in Pkt /\ m_pktOut'.body = m_pktOut.body \o Enc(v)
    <2>1. m_pktOut.body \o Enc(v) \in Seq(Byte)
      BY <1>1, ConcatProperties
    <2>2. Len(m_pktOut.body) + Len(Enc(v)) \in Nat
      BY <1>1, LenProperties
    <2>. QED  BY <2>1, <2>2 DEF Appended, Pkt
  <1>3. out' \in Seq(Value) /\ Lays(out', m_pktOut'.body)
    <2>1. Lays(Append(out, v), m_pktOut.body \o Enc(v)) /\ Append(out, v) \in Seq(Value)
      BY <1>1, LaysMore, AppendProperties DEF Laid
    <2>. QED  BY <1>2, <2>1
  <1>. QED  BY <1>2, <1>3 DEF Laid

LEMMA WriteIntIsWrite ==
    ASSUME NEW t \in IntTypes, NEW n \in Numbers, WriteInt(t, n)
    PROVE  \E v \in Value : /\ m_pktOut' = Appended(m_pktOut, Enc(v)) /\ out' = Append(out, v)
                           /\ UNCHANGED <<stream, sent, packets, m_pktIn, in, got, fault>>
  <1> DEFINE k == n % Modulus(t)
             v == IntValue(t, k)
  <1>1. v \in Value
    BY DEF Value
  <1>2. k \in 0..(Modulus(t) - 1)
    BY Fits
  <1>3. /\ m_pktOut' = Appended(m_pktOut, Bytes(k, Width[t])) /\ out' = Append(out, v)
        /\ UNCHANGED <<stream, sent, packets, m_pktIn, in, got, fault>>
    BY DEF WriteInt, receiver
  <1> HIDE DEF k
  <1>4. Enc(v) = Bytes(k, Width[t])
    BY <1>2, EncOfInt
  <1> HIDE DEF v
  <1>. QED  BY <1>1, <1>3, <1>4

LEMMA WriteStringIsWrite ==
    ASSUME NEW s \in Strings, WriteString(s)
    PROVE  \E v \in Value : /\ m_pktOut' = Appended(m_pktOut, Enc(v)) /\ out' = Append(out, v)
                           /\ UNCHANGED <<stream, sent, packets, m_pktIn, in, got, fault>>
  <1> DEFINE v == StringValue(Copied(s))
  <1>1. v \in Value
    BY DEF Value
  <1>2. /\ m_pktOut' = Appended(m_pktOut, <<0>> \o Copied(s)) /\ out' = Append(out, v)
        /\ UNCHANGED <<stream, sent, packets, m_pktIn, in, got, fault>>
    BY DEF WriteString, receiver
  <1>3. Enc(v) = <<0>> \o Copied(s)
    BY EncOfString
  <1> HIDE DEF v
  <1>. QED  BY <1>1, <1>2, <1>3

\* What a read that stays within the body does: the value at the end of in is
\* read and taken away, from in and from the body.
Popped ==
    /\ in # <<>>
    /\ got' = <<in[Len(in)]>> /\ in' = SubSeq(in, 1, Len(in) - 1)
    /\ m_pktIn' \in Pkt /\ in' \in Seq(Value) /\ Lays(in', m_pktIn'.body)
    /\ UNCHANGED <<m_pktOut, stream, packets, out, sent, fault>>

LEMMA TookIsPopped ==
    ASSUME Laid, in # <<>>, NEW rest \in Seq(Byte),
           m_pktIn.body = rest \o Enc(in[Len(in)]), Lays(SubSeq(in, 1, Len(in) - 1), rest),
           Took(in[Len(in)], Len(rest)), UNCHANGED sender
    PROVE  Popped
  <1> DEFINE v == in[Len(in)]
             e == Enc(v)
  <1>1. v \in Value /\ SubSeq(in, 1, Len(in) - 1) \in Seq(Value)
    BY LaysLess DEF Laid
  <1>2. e \in Seq(Byte)
    BY <1>1, EncType
  <1> HIDE DEF v, e
  <1>3. SubSeq(rest \o e, 1, Len(rest)) = rest
    BY <1>2, ConcatFront
  <1>4. m_pktIn.body = rest \o e /\ m_pktIn \in Pkt
    BY DEF e, v, Laid
  <1>5. m_pktIn' = [m_pktIn EXCEPT !.body = SubSeq(@, 1, Len(rest))]
    BY DEF Took
  <1>6. m_pktIn' \in Pkt /\ m_pktIn'.body = rest
    BY <1>3, <1>4, <1>5 DEF Pkt
  <1>7. got' = <<v>> /\ in' = SubSeq(in, 1, Len(in) - 1) /\ UNCHANGED fault
    BY DEF Took, v
  <1>. QED  BY <1>1, <1>6, <1>7 DEF Popped, sender, v

\* operator>>.
LEMMA ReadIntPops ==
    ASSUME Laid, NEW t \in IntTypes, ReadInt(t)
    PROVE  Popped
  <1> DEFINE v == in[Len(in)]
             b == m_pktIn.body
  <1>1. in # <<>> /\ v.type = t /\ UNCHANGED sender
    BY DEF ReadInt, Expects
  <1>2. PICK rest \in Seq(Byte) : b = rest \o Enc(v) /\ Lays(SubSeq(in, 1, Len(in) - 1), rest)
    BY <1>1, LaysLess DEF Laid
  <1>3. v \in Value
    BY <1>1, LaysLess DEF Laid
  <1>4. t # "string"
    BY ModulusType
  <1>5. PICK n \in 0..(Modulus(t) - 1) : v = IntValue(t, n)
    BY <1>1, <1>3, <1>4, Kinds
  <1> DEFINE w == Width[t]
             e == Bytes(n, w)
             i == Len(b) - w
  <1>6. Enc(v) = e /\ e \in Seq(Byte) /\ Len(e) = w /\ Number(e) = n
    BY <1>5, EncOfInt
  <1>7. w \in Nat
    BY ModulusType
  <1>8. IF i < 0 THEN Beyond ELSE Took(IntValue(t, Number(SubSeq(b, i + 1, Len(b)))), i)
    BY DEF ReadInt
  <1> HIDE DEF e, w, b
  <1>9. b = rest \o e
    BY <1>2, <1>6
  <1>10. Len(b) = Len(rest) + w /\ Len(rest) \in Nat /\ SubSeq(b, Len(rest) + 1, Len(b)) = e
    BY <1>6, <1>7, <1>9, ConcatProperties, ConcatBack, LenProperties
  <1>11. i = Len(rest) /\ ~(i < 0)
    BY <1>7, <1>10
  <1> HIDE DEF i
  <1>12. Took(IntValue(t, Number(SubSeq(b, i + 1, Len(b)))), i)
    BY <1>8, <1>11
  <1>13. Took(v, Len(rest))
    BY <1>5, <1>6, <1>10, <1>11, <1>12
  <1>14. m_pktIn.body = rest \o Enc(in[Len(in)])
    BY <1>2 DEF b
  <1>. QED  BY <1>1, <1>2, <1>13, <1>14, TookIsPopped

\* The last zero byte of f \o c, where f ends with one and c has none.
LEMMA LastZero ==
    ASSUME NEW f \in Seq(Byte), f # <<>>, f[Len(f)] = 0, NEW c \in Seq(Byte \ {0})
    PROVE  /\ Zeros(f \o c) # {} /\ Max(Zeros(f \o c)) = Len(f)
           /\ SubSeq(f \o c, Len(f) + 1, Len(f \o c)) = c
  <1> DEFINE b == f \o c
  <1>1. c \in Seq(Byte) /\ Len(c) \in Nat /\ \A i \in 1..Len(c) : c[i] # 0
    <2>1. \A i \in 1..Len(c) : c[i] \in Byte \ {0}
      BY ElementOfSeq
    <2>. QED  BY <2>1, LenProperties
  <1>2. Len(f) \in Nat \ {0}
    BY EmptySeq, LenProperties
  <1>3. /\ b \in Seq(Byte) /\ Len(b) = Len(f) + Len(c)
        /\ \A i \in 1..Len(f) + Len(c) : b[i] = IF i <= Len(f) THEN f[i] ELSE c[i - Len(f)]
        /\ DOMAIN b = 1..Len(b)
    BY <1>1, ConcatProperties, LenProperties
  <1> HIDE DEF b
  <1>4. Len(f) \in Zeros(b)
    <2>1. Len(f) \in 1..Len(f) + Len(c) /\ Len(f) <= Len(f)
      BY <1>1, <1>2
    <2>. QED  BY <1>2, <1>3, <2>1 DEF Zeros
  <1>5. ASSUME NEW i \in Zeros(b) PROVE i <= Len(f)
    <2>1. i \in 1..Len(f) + Len(c) /\ b[i] = 0
      BY <1>3 DEF Zeros
    <2>2. CASE ~(i <= Len(f))
      <3>1. i - Len(f) \in 1..Len(c)
        BY <1>1, <1>2, <2>1, <2>2
      <3>2. b[i] = c[i - Len(f)]
        BY <1>3, <2>1, <2>2
      <3>. QED  BY <1>1, <2>1, <3>1, <3>2
    <2>. QED  BY <2>2
  <1>6. Max(Zeros(b)) = Len(f)
    <2>1. Zeros(b) \subseteq Nat
      BY <1>3 DEF Zeros
    <2> DEFINE Z == Zeros(b)
    <2> HIDE DEF Z
    <2>2. Len(f) \in Z /\ Z \subseteq Nat /\ \A i \in Z : i <= Len(f)
      BY <1>4, <1>5, <2>1 DEF Z
    <2>3. \A x \in Z : (\A y \in Z : x >= y) => x = Len(f)
      BY <2>2
    <2>4. \A y \in Z : Len(f) >= y
      BY <2>2
    <2>5. Max(Z) = Len(f)
      BY <2>2, <2>3, <2>4 DEF Max
    <2>. QED  BY <2>5 DEF Z
  <1>7. SubSeq(b, Len(f) + 1, Len(b)) = c
    BY <1>1, ConcatBack DEF b
  <1>. QED  BY <1>4, <1>6, <1>7 DEF b

\* The string to be read next does not fit the buffer.
TooLong ==
    in # <<>> /\ in[Len(in)].type = "string" /\ Len(in[Len(in)].val) >= MAX_LEN

\* ReadString reads a string right, or, if it does not fit the buffer, beyond it.
LEMMA ReadStringPops ==
    ASSUME Laid, ReadString
    PROVE  \/ Popped
           \/ TooLong /\ fault' = TRUE /\ UNCHANGED <<m_pktIn, got, in, sender>>
  <1> DEFINE v == in[Len(in)]
             b == m_pktIn.body
  <1>1. in # <<>> /\ v.type = "string" /\ UNCHANGED sender
    BY DEF ReadString, Expects
  <1>2. PICK rest \in Seq(Byte) : b = rest \o Enc(v) /\ Lays(SubSeq(in, 1, Len(in) - 1), rest)
    BY <1>1, LaysLess DEF Laid
  <1>3. v \in Value
    BY <1>1, LaysLess DEF Laid
  <1>4. PICK s \in Strings : v.val = Copied(s)
    BY <1>1, <1>3, Kinds
  <1>5. v = StringValue(Copied(s))
    BY <1>1, <1>3, <1>4, Kinds
  <1> DEFINE c == Copied(s)
             z == Max(Zeros(b))
  <1>6. Enc(v) = <<0>> \o c /\ c \in Seq(Byte \ {0})
    BY <1>5, EncOfString
  <1>7. IF Zeros(b) = {} \/ Len(b) - z >= MAX_LEN THEN Beyond
        ELSE Took(StringValue(SubSeq(b, z + 1, Len(b))), z - 1)
    BY DEF ReadString
  <1> HIDE DEF c, b
  <1>8. /\ Len(rest) \in Nat /\ Len(b) = Len(rest) + 1 + Len(c) /\ Len(c) \in Nat
        /\ Zeros(b) # {} /\ z = Len(rest) + 1
        /\ SubSeq(b, Len(rest) + 2, Len(b)) = c
    <2> DEFINE f == rest \o <<0>>
    <2>1. c \in Seq(Byte) /\ <<0>> \in Seq(Byte) /\ Len(<<0>>) = 1 /\ <<0>>[1] = 0
      BY EncOfString DEF c
    <2>2. Len(rest) \in Nat /\ Len(c) \in Nat
      BY <2>1, LenProperties
    <2>3. f \in Seq(Byte) /\ Len(f) = Len(rest) + 1 /\ f[Len(rest) + 1] = 0
      <3>1. /\ Len(rest) + 1 \in 1..Len(rest) + Len(<<0>>) /\ ~(Len(rest) + 1 <= Len(rest))
            /\ (Len(rest) + 1) - Len(rest) = 1
        BY <2>1, <2>2
      <3>. QED  BY <2>1, <3>1, ConcatProperties
    <2>4. b = f \o c
      <3>1. (rest \o <<0>>) \o c = rest \o (<<0>> \o c)
        BY <2>1, ConcatAssociative
      <3>2. b = rest \o (<<0>> \o c)
        BY <1>2, <1>6
      <3>. QED  BY <3>1, <3>2
    <2> HIDE DEF f
    <2>5. f # <<>> /\ f[Len(f)] = 0
      BY <2>2, <2>3
    <2>6. Len(b) = Len(f) + Len(c)
      BY <2>1, <2>3, <2>4, ConcatProperties
    <2>7. Zeros(b) # {} /\ Max(Zeros(b)) = Len(f) /\ SubSeq(b, Len(f) + 1, Len(b)) = c
      <3>1. f \in Seq(Byte) /\ c \in Seq(Byte \ {0}) /\ b = f \o c
        BY <1>6, <2>3, <2>4
      <3>2. /\ Zeros(f \o c) # {} /\ Max(Zeros(f \o c)) = Len(f)
            /\ SubSeq(f \o c, Len(f) + 1, Len(f \o c)) = c
        BY <2>5, <3>1, LastZero
      <3>. QED  BY <3>1, <3>2
    <2>8. Len(f) + 1 = Len(rest) + 2
      BY <2>2, <2>3
    <2>. QED  BY <2>2, <2>3, <2>6, <2>7, <2>8
  <1> HIDE DEF z
  <1>9. Len(b) - z = Len(c) /\ z + 1 = Len(rest) + 2 /\ z - 1 = Len(rest)
    BY <1>8
  <1>10. CASE Len(c) >= MAX_LEN
    <2>1. Beyond
      BY <1>7, <1>9, <1>10
    <2>2. Len(v.val) >= MAX_LEN
      BY <1>4, <1>10 DEF c
    <2>. QED  BY <1>1, <2>1, <2>2 DEF Beyond, TooLong
  <1>11. CASE ~(Len(c) >= MAX_LEN)
    <2>1. Took(StringValue(SubSeq(b, z + 1, Len(b))), z - 1)
      BY <1>7, <1>8, <1>9, <1>11
    <2>2. Took(v, Len(rest))
      BY <1>5, <1>8, <1>9, <2>1 DEF c
    <2>3. m_pktIn.body = rest \o Enc(in[Len(in)])
      BY <1>2 DEF b
    <2>4. Popped
      BY <1>1, <1>2, <2>2, <2>3, TookIsPopped
    <2>. QED  BY <2>4
  <1>. QED  BY <1>10, <1>11
LEMMA SendKeepsLaid ==
    ASSUME Laid, SendPacket
    PROVE  Laid'
  <1>1. /\ stream' = Append(stream, m_pktOut) /\ sent' = Append(sent, out)
        /\ UNCHANGED <<m_pktOut, out, m_pktIn, in>>
    BY DEF SendPacket, receiver
  <1>2. /\ stream' \in Seq(Pkt) /\ Len(stream') = Len(stream) + 1 /\ Len(stream) \in Nat
        /\ \A i \in 1..Len(stream) : stream'[i] = stream[i]
        /\ stream'[Len(stream) + 1] = m_pktOut
    BY <1>1, AppendProperties, LenProperties DEF Laid
  <1>3. /\ sent' \in Seq(Seq(Value)) /\ Len(sent') = Len(sent) + 1
        /\ \A i \in 1..Len(sent) : sent'[i] = sent[i]
        /\ sent'[Len(sent) + 1] = out
    BY <1>1, AppendProperties DEF Laid
  <1>4. ASSUME NEW i \in 1..Len(stream') PROVE Lays(sent'[i], stream'[i].body)
    <2>1. CASE i = Len(stream) + 1
      <3>1. sent'[i] = out /\ stream'[i] = m_pktOut
        BY <1>2, <1>3, <2>1 DEF Laid
      <3>. QED  BY <3>1 DEF Laid
    <2>2. CASE i # Len(stream) + 1
      <3>1. i \in 1..Len(stream)
        BY <1>2, <2>2
      <3>2. sent'[i] = sent[i] /\ stream'[i] = stream[i]
        BY <1>2, <1>3, <3>1 DEF Laid
      <3>. QED  BY <3>1, <3>2 DEF Laid
    <2>. QED  BY <2>1, <2>2
  <1>. QED  BY <1>1, <1>2, <1>3, <1>4 DEF Laid

LEMMA ReceiveKeepsLaid ==
    ASSUME Laid, Receive
    PROVE  Laid' /\ sent # <<>>
  <1>1. /\ stream # <<>> /\ m_pktIn' = Head(stream) /\ stream' = Tail(stream)
        /\ in' = Head(sent) /\ sent' = Tail(sent) /\ UNCHANGED <<m_pktOut, out>>
    BY DEF Receive
  <1>2. Len(stream) \in Nat \ {0}
    BY <1>1, EmptySeq, LenProperties DEF Laid
  <1>3. sent # <<>>
    BY <1>2 DEF Laid
  <1>4. /\ m_pktIn' \in Pkt /\ stream' \in Seq(Pkt) /\ Len(stream') = Len(stream) - 1
        /\ \A i \in 1..Len(stream') : stream'[i] = stream[i + 1]
        /\ m_pktIn' = stream[1]
    BY <1>1, HeadTailProperties DEF Laid
  <1>5. /\ in' \in Seq(Value) /\ sent' \in Seq(Seq(Value)) /\ Len(sent') = Len(sent) - 1
        /\ \A i \in 1..Len(sent') : sent'[i] = sent[i + 1]
        /\ in' = sent[1]
    BY <1>1, <1>3, HeadTailProperties DEF Laid
  <1>6. ASSUME NEW i \in 1..Len(stream') PROVE Lays(sent'[i], stream'[i].body)
    <2>1. i + 1 \in 1..Len(stream) /\ i \in 1..Len(sent')
      BY <1>2, <1>4, <1>5 DEF Laid
    <2>. QED  BY <1>4, <1>5, <2>1 DEF Laid
  <1>7. Lays(in', m_pktIn'.body)
    <2>1. 1 \in 1..Len(stream)
      BY <1>2
    <2>. QED  BY <1>4, <1>5, <2>1 DEF Laid
  <1>8. Len(sent') = Len(stream')
    BY <1>4, <1>5 DEF Laid
  <1>. QED  BY <1>1, <1>3, <1>4, <1>5, <1>6, <1>7, <1>8 DEF Laid

LEMMA StepKeepsLaid ==
    ASSUME Laid, [Next]_vars
    PROVE  Laid'
  <1>1. CASE PreparePacket
    <2>1. /\ m_pktOut' = [m_pktOut EXCEPT !.body = <<>>] /\ out' = <<>>
          /\ UNCHANGED <<stream, sent, m_pktIn, in>>
      BY <1>1 DEF PreparePacket, receiver
    <2>2. <<>> \in Seq(Byte) /\ <<>> \in Seq(Value) /\ m_pktOut \in Pkt
      BY DEF Laid
    <2>3. m_pktOut' \in Pkt /\ m_pktOut'.body = <<>>
      BY <2>1, <2>2 DEF Pkt
    <2>. QED  BY <2>1, <2>2, <2>3, LaysNothing DEF Laid
  <1>2. CASE SendPacket
    BY <1>2, SendKeepsLaid
  <1>3. CASE Receive
    BY <1>3, ReceiveKeepsLaid
  <1>4. CASE Popped
    BY <1>4 DEF Popped, Laid
  <1>5. CASE ReadString
    <2>1. CASE UNCHANGED <<m_pktIn, in, sender>>
      BY <2>1 DEF Laid, sender
    <2>. QED  BY <1>4, <1>5, <2>1, ReadStringPops
  <1>6. CASE \E t \in IntTypes : ReadInt(t)
    BY <1>4, <1>6, ReadIntPops
  <1>7. ASSUME NEW v \in Value, m_pktOut' = Appended(m_pktOut, Enc(v)), out' = Append(out, v),
               UNCHANGED <<stream, sent, packets, m_pktIn, in, got, fault>>
        PROVE  Laid'
    BY <1>7, WritesKeepLaid
  <1>8. CASE \E t \in IntTypes, n \in Numbers : WriteInt(t, n)
    BY <1>7, <1>8, WriteIntIsWrite
  <1>9. CASE \E s \in Strings : WriteString(s)
    BY <1>7, <1>9, WriteStringIsWrite
  <1>10. CASE UNCHANGED vars
    BY <1>10 DEF Laid, vars
  <1>. QED  BY <1>1, <1>2, <1>3, <1>5, <1>6, <1>8, <1>9, <1>10 DEF Next

LEMMA LaidInitially == Init => Laid
  <1>1. <<>> \in Seq(Byte) /\ <<>> \in Seq(Value) /\ <<>> \in Seq(Pkt) /\ <<>> \in Seq(Seq(Value))
        /\ Len(<<>>) = 0
    OBVIOUS
  <1>2. EmptyPkt \in Pkt /\ EmptyPkt.body = <<>>
    BY <1>1 DEF EmptyPkt, Pkt
  <1>. QED  BY <1>1, <1>2, LaysNothing DEF Init, Laid

LEMMA StepIsOfStack ==
    ASSUME Laid, [Next]_vars
    PROVE  [Stack!Next]_(Stack!stack)
  <1>1. CASE PreparePacket
    BY <1>1 DEF PreparePacket, receiver, Stack!Next, Stack!Prepare
  <1>2. CASE SendPacket
    BY <1>2 DEF SendPacket, receiver, Stack!Next, Stack!Send
  <1>3. CASE Receive
    <2>1. /\ in' = Head(sent) /\ sent' = Tail(sent) /\ got' = <<>> /\ UNCHANGED out
      BY <1>3 DEF Receive
    <2>. QED  BY <1>3, <2>1, ReceiveKeepsLaid DEF Stack!Next, Stack!Receive
  <1>4. CASE Popped
    BY <1>4 DEF Popped, Stack!Next, Stack!Read
  <1>5. CASE ReadString
    <2>1. CASE UNCHANGED <<got, in, sender>>
      BY <2>1 DEF sender, Stack!stack
    <2>. QED  BY <1>4, <1>5, <2>1, ReadStringPops
  <1>6. CASE \E t \in IntTypes : ReadInt(t)
    BY <1>4, <1>6, ReadIntPops
  <1>7. ASSUME NEW v \in Value, out' = Append(out, v),
               UNCHANGED <<stream, sent, packets, m_pktIn, in, got, fault>>
        PROVE  Stack!Next
    BY <1>7 DEF Stack!Next, Stack!Write
  <1>8. CASE \E t \in IntTypes, n \in Numbers : WriteInt(t, n)
    BY <1>7, <1>8, WriteIntIsWrite
  <1>9. CASE \E s \in Strings : WriteString(s)
    BY <1>7, <1>9, WriteStringIsWrite
  <1>10. CASE UNCHANGED vars
    BY <1>10 DEF vars, Stack!stack
  <1>. QED  BY <1>1, <1>2, <1>3, <1>5, <1>6, <1>8, <1>9, <1>10 DEF Next

-----------------------------------------------------------------------------
(* The theorems. *)

\* A packet is a stack: operator<< and WriteString push a value, operator>> and
\* ReadString pop the one written last, unchanged, whatever its bytes are.
THEOREM Refinement == Spec => ImplementsValueStack
  <1>1. Init => Stack!Init
    BY DEF Init, Stack!Init
  <1>2. Laid /\ [Next]_vars => Laid'
    BY StepKeepsLaid
  <1>3. Laid /\ [Next]_vars => [Stack!Next]_(Stack!stack)
    BY StepIsOfStack
  <1>. QED  BY <1>1, <1>2, <1>3, LaidInitially, PTL DEF Spec, ImplementsValueStack, Stack!Spec

\* Once something was written, the size is that of the body: operator<< and
\* WriteString end with the same assignment, PreparePacket leaves the size alone.
Sized ==
    /\ out # <<>> => m_pktOut.size = Len(m_pktOut.body)
    /\ WrittenSizeIsBodyLength

LEMMA SendKeepsSized ==
    ASSUME Laid, Sized, SendPacket
    PROVE  Sized'
  <1>1. /\ stream' = Append(stream, m_pktOut) /\ sent' = Append(sent, out)
        /\ UNCHANGED <<m_pktOut, out>>
    BY DEF SendPacket
  <1>2. /\ DOMAIN stream' = 1..(Len(stream) + 1) /\ DOMAIN stream = 1..Len(stream)
        /\ \A i \in 1..Len(stream) : stream'[i] = stream[i]
        /\ stream'[Len(stream) + 1] = m_pktOut
        /\ Len(stream) \in Nat
    BY <1>1, AppendProperties DEF Laid
  <1>3. /\ \A i \in 1..Len(stream) : sent'[i] = sent[i]
        /\ sent'[Len(stream) + 1] = out
    BY <1>1, AppendProperties DEF Laid
  <1>4. ASSUME NEW i \in DOMAIN stream', sent'[i] # <<>>
        PROVE  stream'[i].size = Len(stream'[i].body)
    <2>1. CASE i = Len(stream) + 1
      BY <1>2, <1>3, <1>4, <2>1 DEF Sized
    <2>2. CASE i # Len(stream) + 1
      <3>1. i \in 1..Len(stream)
        BY <1>2, <2>2
      <3>2. sent[i] # <<>> /\ stream'[i] = stream[i]
        BY <1>2, <1>3, <1>4, <3>1
      <3>. QED  BY <1>2, <3>1, <3>2 DEF Sized, WrittenSizeIsBodyLength
    <2>. QED  BY <2>1, <2>2
  <1>. QED  BY <1>1, <1>4 DEF Sized, WrittenSizeIsBodyLength

LEMMA ReceiveKeepsSized ==
    ASSUME Laid, Sized, Receive
    PROVE  Sized'
  <1>1. /\ stream # <<>> /\ stream' = Tail(stream) /\ sent' = Tail(sent)
        /\ UNCHANGED <<m_pktOut, out>>
    BY DEF Receive
  <1>2. /\ DOMAIN stream' = 1..(Len(stream) - 1) /\ DOMAIN stream = 1..Len(stream)
        /\ \A i \in 1..(Len(stream) - 1) : stream'[i] = stream[i + 1]
        /\ Len(stream) \in Nat
    BY <1>1, HeadTailProperties DEF Laid
  <1>3. \A i \in 1..(Len(stream) - 1) : sent'[i] = sent[i + 1]
    <2>1. sent # <<>>
      BY ReceiveKeepsLaid
    <2>. QED  BY <1>1, <2>1, HeadTailProperties DEF Laid
  <1>4. \A i \in 1..(Len(stream) - 1) : i + 1 \in 1..Len(stream)
    BY <1>2
  <1>5. ASSUME NEW i \in DOMAIN stream', sent'[i] # <<>>
        PROVE  stream'[i].size = Len(stream'[i].body)
    BY <1>2, <1>3, <1>4, <1>5 DEF Sized, WrittenSizeIsBodyLength
  <1>. QED  BY <1>1, <1>5 DEF Sized, WrittenSizeIsBodyLength

LEMMA StepKeepsSized ==
    ASSUME Laid, Sized, [Next]_vars
    PROVE  Sized'
  <1>1. CASE UNCHANGED <<stream, sent>> /\ out' = <<>>
    BY <1>1 DEF Sized, WrittenSizeIsBodyLength
  <1>2. CASE UNCHANGED <<m_pktOut, out, stream, sent>>
    BY <1>2 DEF Sized, WrittenSizeIsBodyLength
  <1>3. ASSUME NEW v \in Value, m_pktOut' = Appended(m_pktOut, Enc(v)), UNCHANGED <<stream, sent>>
        PROVE  Sized'
    <2>1. m_pktOut.body \in Seq(Byte) /\ Enc(v) \in Seq(Byte)
      BY EncType DEF Laid, Pkt
    <2>2. m_pktOut'.size = Len(m_pktOut'.body)
      BY <1>3, <2>1, ConcatProperties DEF Appended
    <2>. QED  BY <1>3, <2>2 DEF Sized, WrittenSizeIsBodyLength
  <1>4. CASE PreparePacket
    BY <1>1, <1>4 DEF PreparePacket
  <1>5. CASE \E t \in IntTypes, n \in Numbers : WriteInt(t, n)
    BY <1>3, <1>5, WriteIntIsWrite
  <1>6. CASE \E s \in Strings : WriteString(s)
    BY <1>3, <1>6, WriteStringIsWrite
  <1>7. CASE ReadString \/ (\E t \in IntTypes : ReadInt(t)) \/ UNCHANGED vars
    <2>1. UNCHANGED <<m_pktOut, out, stream, sent>>
      BY <1>7 DEF ReadString, ReadInt, sender, vars
    <2>. QED  BY <1>2, <2>1
  <1>. QED  BY <1>4, <1>5, <1>6, <1>7, SendKeepsSized, ReceiveKeepsSized DEF Next

\* A packet something was written into announces the length of its body, also
\* after packets nothing was written into, whose size is that of another body.
THEOREM SentSize == Spec => []WrittenSizeIsBodyLength
  <1>1. Init => Sized
    BY DEF Init, Sized, EmptyPkt, WrittenSizeIsBodyLength
  <1>2. Laid /\ [Next]_vars => Laid'
    BY StepKeepsLaid
  <1>3. Laid /\ Sized /\ [Next]_vars => Sized'
    BY StepKeepsSized
  <1>4. Sized => WrittenSizeIsBodyLength
    BY DEF Sized
  <1>. QED  BY <1>1, <1>2, <1>3, <1>4, LaidInitially, PTL DEF Spec

\* What a step does to the rest of the state.
Counted ==
    /\ packets \in 0..MaxPackets /\ fault \in BOOLEAN /\ Len(got) <= 1
    /\ OnlyLongStringsFail

LEMMA StepKeepsCounted ==
    ASSUME Laid, Counted, [Next]_vars
    PROVE  Counted'
  <1>1. ASSUME packets' \in 0..MaxPackets, UNCHANGED <<fault, got, in>>
        PROVE  Counted'
    BY <1>1 DEF Counted, OnlyLongStringsFail
  <1>2. CASE SendPacket
    <2>1. packets < MaxPackets /\ packets' = packets + 1 /\ UNCHANGED <<fault, got, in>>
      BY <1>2 DEF SendPacket, receiver
    <2>2. MaxPackets \in Nat
      BY PacketAssumption DEF PacketAssumption
    <2>. QED  BY <1>1, <2>1, <2>2 DEF Counted
  <1>3. CASE Receive
    <2>1. got' = <<>> /\ ~fault /\ UNCHANGED <<packets, fault>>
      BY <1>3 DEF Receive
    <2>. QED  BY <2>1 DEF Counted, OnlyLongStringsFail
  <1>4. CASE Popped /\ ~fault
    <2>1. PICK v : got' = <<v>>
      BY <1>4 DEF Popped
    <2>2. Len(got') = 1
      BY <2>1
    <2>. QED  BY <1>4, <2>2 DEF Popped, Counted, OnlyLongStringsFail
  <1>5. CASE ReadString
    <2>1. ~fault
      BY <1>5 DEF ReadString, Expects
    <2>2. CASE TooLong /\ fault' = TRUE /\ UNCHANGED <<m_pktIn, got, in, sender>>
      <3>1. OnlyLongStringsFail'
        BY <2>2 DEF TooLong, OnlyLongStringsFail
      <3>2. UNCHANGED <<packets, got>> /\ fault' \in BOOLEAN
        BY <2>2 DEF sender
      <3>. QED  BY <3>1, <3>2 DEF Counted
    <2>. QED  BY <1>4, <1>5, <2>1, <2>2, ReadStringPops
  <1>6. CASE \E t \in IntTypes : ReadInt(t)
    <2>1. ~fault
      BY <1>6 DEF ReadInt, Expects
    <2>. QED  BY <1>4, <1>6, <2>1, ReadIntPops
  <1>7. CASE UNCHANGED <<packets, fault, got, in>>
    BY <1>1, <1>7 DEF Counted
  <1>8. CASE PreparePacket
    BY <1>7, <1>8 DEF PreparePacket, receiver
  <1>9. CASE \E t \in IntTypes, n \in Numbers : WriteInt(t, n)
    BY <1>7, <1>9, WriteIntIsWrite
  <1>10. CASE \E s \in Strings : WriteString(s)
    BY <1>7, <1>10, WriteStringIsWrite
  <1>11. CASE UNCHANGED vars
    BY <1>7, <1>11 DEF vars
  <1>. QED  BY <1>2, <1>3, <1>5, <1>6, <1>8, <1>9, <1>10, <1>11 DEF Next

LEMMA CountedInvariant == Spec => [](Laid /\ Counted)
  <1>1. Init => Counted
    <2>1. 0 \in 0..MaxPackets /\ Len(<<>>) <= 1
      BY PacketAssumption DEF PacketAssumption
    <2>. QED  BY <2>1 DEF Init, Counted, OnlyLongStringsFail
  <1>2. Laid /\ [Next]_vars => Laid'
    BY StepKeepsLaid
  <1>3. Laid /\ Counted /\ [Next]_vars => Counted'
    BY StepKeepsCounted
  <1>. QED  BY <1>1, <1>2, <1>3, LaidInitially, PTL DEF Spec

\* Types of the state: what WriteString and operator<< append are bytes, and
\* reading leaves the front of a body.
THEOREM TypeCorrect == Spec => []TypeOK
  <1>1. Laid /\ Counted => TypeOK
    BY DEF Laid, Counted, TypeOK
  <1>. QED  BY <1>1, CountedInvariant, PTL

\* No read goes beyond the beginning of a body: operator>> finds as many bytes as
\* it takes, ReadString a zero byte.  Only a string that is too long for
\* data[MAX_LEN] is copied beyond its end.
THEOREM ReadsStayInside == Spec => []OnlyLongStringsFail
  <1>1. Counted => OnlyLongStringsFail
    BY DEF Counted
  <1>. QED  BY <1>1, CountedInvariant, PTL
=============================================================================
