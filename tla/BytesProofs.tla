----------------------------- MODULE BytesProofs ------------------------------
(***************************************************************************)
(* Theorems about the two programs that take packets apart byte by byte,    *)
(* and in_cksum(), which they share.  For any packet it finds the checksum  *)
(* right exactly when RFC 1071 does; hence the packet tracer's verdicts are *)
(* right, and a packet of the remote copy that was damaged is found out,    *)
(* but for the low byte of its size, which also is all that makes memcpy()  *)
(* leave its buffers.  For any capture the tracer frees what it allocates   *)
(* but for two buffers a packet, and does nothing undefined with a packet   *)
(* that is complete.                                                        *)
(***************************************************************************)
EXTENDS PacketBytes, Tracer, WellFoundedInduction, SequenceTheorems, FiniteSetTheorems, TLAPS

-----------------------------------------------------------------------------
(* Induction, over a set: the library's theorems for it are about operators.*)
LEMMA LeastNatural ==
  ASSUME NEW S \in SUBSET Nat, S # {}
  PROVE  \E m \in S : \A k \in S : m <= k
<1> DEFINE R == StrictSubsetOrdering(Nat)
           T == {1..k : k \in S}
<1>1. IsWellFoundedOn(R, FiniteSubsetsOf(Nat))
  BY FS_StrictSubsetOrderingWellFounded
<1>2. T \subseteq FiniteSubsetsOf(Nat) /\ T # {}
  <2>1. \A k \in S : 1..k \in SUBSET Nat /\ IsFiniteSet(1..k)
    <3>1. \A k \in Nat : 1 \in Int /\ k \in Int
      OBVIOUS
    <3> QED BY <3>1, FS_Interval
  <2> QED BY <2>1 DEF FiniteSubsetsOf
<1> HIDE DEF R
<1>3. PICK x \in T : \A y \in T : ~(<<y, x>> \in R)
  <2> HIDE DEF T
  <2> QED BY <1>1, <1>2, WFMin
<1>4. PICK m \in S : x = 1..m
  BY <1>3
<1>5. \A k \in S : m <= k
  <2> SUFFICES ASSUME NEW k \in S, k < m PROVE FALSE
    OBVIOUS
  <2>1. 1..k \in T /\ 1..k \subseteq 1..m /\ m \in 1..m /\ m \notin 1..k
    OBVIOUS
  <2>2. <<1..k, 1..m>> \in R
    BY <2>1 DEF R, StrictSubsetOrdering
  <2> QED BY <1>3, <1>4, <2>1, <2>2
<1> QED BY <1>5

\* One step of Total.
Half(terms, sum, n, i) ==
  CASE n = 0 -> 0
    [] n = 1 -> terms[i + 1]
    [] OTHER -> sum[n \div 2][i] + sum[n - n \div 2][i + n \div 2]

Sums(terms) ==
  CHOOSE sum : sum =
    [n \in 0..Len(terms) |->
      [i \in Nat |->
         CASE n = 0 -> 0
           [] n = 1 -> terms[i + 1]
           [] OTHER -> sum[n \div 2][i] + sum[n - n \div 2][i + n \div 2]]]

LEMMA TotalSums ==
  ASSUME NEW terms
  PROVE  Total(terms) = Sums(terms)[Len(terms)][0]
BY DEF Total, Sums

AreSums(terms, sum, L) == sum = [n \in 0..L |-> [i \in Nat |-> Half(terms, sum, n, i)]]

LEMMA SumsPointwise ==
  ASSUME NEW terms, NEW L \in Int, NEW g, AreSums(terms, g, L)
  PROVE  \A m \in 0..L, k \in Nat : g[m][k] = Half(terms, g, m, k)
<1> SUFFICES ASSUME NEW n \in 0..L, NEW i \in Nat PROVE g[n][i] = Half(terms, g, n, i)
  OBVIOUS
<1>1. [m \in 0..L |-> [k \in Nat |-> Half(terms, g, m, k)]][n] = [k \in Nat |-> Half(terms, g, n, k)]
  OBVIOUS
<1> QED BY <1>1 DEF AreSums

LEMMA HalvesExist ==
  ASSUME NEW terms, NEW L \in Nat
  PROVE  \E sum : AreSums(terms, sum, L)
<1> DEFINE Good(k) == \E sum : AreSums(terms, sum, k)
           Bad == {k \in Nat : ~Good(k)}
<1> SUFFICES ASSUME Bad # {} PROVE FALSE
  OBVIOUS
<1>1. PICK m \in Bad : \A k \in Bad : m <= k
  <2> HIDE DEF Good
  <2> QED BY LeastNatural
<1>2. m # 0
  <2> DEFINE g == [n \in 0..0 |-> [i \in Nat |-> 0]]
  <2>1. AreSums(terms, g, 0)
    BY DEF AreSums, Half
  <2>2. Good(0)
    BY <2>1
  <2>3. ~Good(m)
    BY <1>1
  <2> HIDE DEF Good
  <2> QED BY <2>2, <2>3
<1>3. PICK g : AreSums(terms, g, m - 1)
  <2>1. m - 1 \in Nat /\ ~(m <= m - 1)
    BY <1>1, <1>2
  <2>2. Good(m - 1)
    <3> HIDE DEF Good
    <3> QED BY <1>1, <2>1
  <2> QED BY <2>2
<1> DEFINE h == [n \in 0..m |-> [i \in Nat |-> IF n < m THEN g[n][i] ELSE Half(terms, g, n, i)]]
<1>4. \A n \in 0..m, i \in Nat : h[n][i] = IF n < m THEN g[n][i] ELSE Half(terms, g, n, i)
  OBVIOUS
<1>5. \A n \in 0..m, i \in Nat : h[n][i] = Half(terms, g, n, i)
  <2>1. \A n \in 0..(m - 1), i \in Nat : g[n][i] = Half(terms, g, n, i)
    <3>1. m - 1 \in Int
      BY <1>1
    <3> QED BY <1>3, <3>1, SumsPointwise
  <2>2. \A n \in 0..m : n < m => n \in 0..(m - 1)
    BY <1>1
  <2> HIDE DEF h
  <2> QED BY <1>4, <2>1, <2>2
<1>6. \A n \in 0..m, i \in Nat : Half(terms, g, n, i) = Half(terms, h, n, i)
  <2> SUFFICES ASSUME NEW n \in 0..m, NEW i \in Nat, n # 0, n # 1
               PROVE  g[n \div 2][i] + g[n - n \div 2][i + n \div 2]
                        = h[n \div 2][i] + h[n - n \div 2][i + n \div 2]
    BY DEF Half
  <2> DEFINE a == n \div 2
             b == n - n \div 2
             j == i + n \div 2
  <2>1. a \in 0..m /\ a < m /\ b \in 0..m /\ b < m /\ j \in Nat
    BY <1>1
  <2> HIDE DEF a, b, j, h
  <2>2. g[a][i] = h[a][i] /\ g[b][j] = h[b][j]
    BY <1>4, <2>1
  <2> QED BY <2>2 DEF a, b, j
<1>7. AreSums(terms, h, m)
  <2>1. h = [n \in 0..m |-> [i \in Nat |-> h[n][i]]]
    OBVIOUS
  <2> HIDE DEF h
  <2>2. \A n \in 0..m : \A i \in Nat : h[n][i] = Half(terms, h, n, i)
    BY <1>5, <1>6
  <2> QED BY <2>1, <2>2 DEF AreSums
<1>8. Good(m)
  BY <1>7
<1> QED BY <1>1, <1>8

LEMMA SumsByHalves ==
  ASSUME NEW terms, Len(terms) \in Nat
  PROVE  \A n \in 0..Len(terms), i \in Nat : Sums(terms)[n][i] = Half(terms, Sums(terms), n, i)
<1>1. \E sum : AreSums(terms, sum, Len(terms))
  BY HalvesExist
<1>2. AreSums(terms, Sums(terms), Len(terms))
  BY <1>1 DEF Sums, Half, AreSums
<1> QED BY <1>2, SumsPointwise

LEMMA SumsSteps ==
  ASSUME NEW terms \in Seq(Int)
  PROVE  /\ Len(terms) \in Nat
         /\ \A i \in Nat : Sums(terms)[0][i] = 0
         /\ 1 <= Len(terms) => \A i \in Nat : Sums(terms)[1][i] = terms[i + 1]
         /\ \A n \in 0..Len(terms), i \in Nat :
              n >= 2 => Sums(terms)[n][i] =
                          Sums(terms)[n \div 2][i] + Sums(terms)[n - n \div 2][i + n \div 2]
<1>1. Len(terms) \in Nat
  OBVIOUS
<1>2. \A n \in 0..Len(terms), i \in Nat : Sums(terms)[n][i] = Half(terms, Sums(terms), n, i)
  BY <1>1, SumsByHalves
<1> DEFINE s == Sums(terms)
<1> HIDE DEF s
<1>3. \A n \in 0..Len(terms), i \in Nat : s[n][i] = Half(terms, s, n, i)
  BY <1>2 DEF s
<1>4. \A i \in Nat : s[0][i] = 0
  BY <1>1, <1>3 DEF Half
<1>5. 1 <= Len(terms) => \A i \in Nat : s[1][i] = terms[i + 1]
  BY <1>1, <1>3 DEF Half
<1>6. \A n \in 0..Len(terms), i \in Nat :
        n >= 2 => s[n][i] = s[n \div 2][i] + s[n - n \div 2][i + n \div 2]
  <2> SUFFICES ASSUME NEW n \in 0..Len(terms), NEW i \in Nat, n >= 2
               PROVE  s[n][i] = s[n \div 2][i] + s[n - n \div 2][i + n \div 2]
    OBVIOUS
  <2>1. s[n][i] = Half(terms, s, n, i) /\ n # 0 /\ n # 1
    BY <1>1, <1>3
  <2> QED BY <2>1 DEF Half
<1> QED BY <1>1, <1>4, <1>5, <1>6 DEF s

LEMMA PrefixInduction ==
  ASSUME NEW L \in Nat, NEW S, 0 \in S, \A n \in 1..L : n - 1 \in S => n \in S
  PROVE  0..L \subseteq S
<1> DEFINE Bad == (0..L) \ S
<1> SUFFICES ASSUME Bad # {} PROVE FALSE
  OBVIOUS
<1>1. PICK n \in Bad : \A k \in Bad : n <= k
  <2>1. Bad \in SUBSET Nat
    OBVIOUS
  <2> HIDE DEF Bad
  <2> QED BY <2>1, LeastNatural
<1>2. n \in 0..L /\ n \notin S /\ n # 0
  BY <1>1
<1>3. n \in 1..L /\ n - 1 \in 0..L /\ ~(n <= n - 1)
  BY <1>2
<1>4. n - 1 \in S
  BY <1>1, <1>3
<1> QED BY <1>2, <1>3, <1>4

\* s[n][i] is the sum of the n terms after the first i, when s splits it in halves.
Splits(s, terms, L) ==
  /\ \A i \in Nat : s[0][i] = 0
  /\ \A i \in Nat : i + 1 <= L => s[1][i] = terms[i + 1]
  /\ \A a, b, i \in Nat : a >= 1 /\ (b = a \/ b = a + 1) /\ a + b <= L =>
       s[a + b][i] = s[a][i] + s[b][i + a]

LEMMA SplitsAt ==
  ASSUME NEW L \in Nat, NEW terms, NEW s, Splits(s, terms, L)
  PROVE  /\ \A a, i \in Nat : a >= 1 /\ a + a <= L => s[a + a][i] = s[a][i] + s[a][i + a]
         /\ \A a, i \in Nat : a >= 1 /\ a + (a + 1) <= L =>
              s[a + (a + 1)][i] = s[a][i] + s[a + 1][i + a]
<1>1. \A a, b, i \in Nat : a >= 1 /\ (b = a \/ b = a + 1) /\ a + b <= L =>
        s[a + b][i] = s[a][i] + s[b][i + a]
  BY DEF Splits
<1>2. \A a, i \in Nat : a >= 1 /\ a + a <= L => s[a + a][i] = s[a][i] + s[a][i + a]
  BY <1>1, Zenon
<1>3. ASSUME NEW a \in Nat, NEW i \in Nat, a >= 1, a + (a + 1) <= L
      PROVE  s[a + (a + 1)][i] = s[a][i] + s[a + 1][i + a]
  <2>1. a + 1 \in Nat
    OBVIOUS
  <2>2. PICK b \in Nat : b = a + 1
    BY <2>1
  <2>3. s[a + b][i] = s[a][i] + s[b][i + a]
    BY <1>1, <1>3, <2>2, ZenonT(30)
  <2> QED BY <2>2, <2>3
<1> QED BY <1>2, <1>3

LEMMA SumsType ==
  ASSUME NEW L \in Nat, NEW terms, NEW s, Splits(s, terms, L), \A i \in 1..L : terms[i] \in Int
  PROVE  \A n, i \in Nat : i + n <= L => s[n][i] \in Int
<1> DEFINE Good(n) == \A i \in Nat : i + n <= L => s[n][i] \in Int
           Bad == {n \in Nat : ~Good(n)}
<1> SUFFICES ASSUME Bad # {} PROVE FALSE
  OBVIOUS
<1>1. PICK n \in Bad : \A k \in Bad : n <= k
  <2>1. Bad \in SUBSET Nat
    OBVIOUS
  <2> HIDE DEF Bad
  <2> QED BY <2>1, LeastNatural
<1>2. n \in Nat /\ ~Good(n) /\ \A k \in Nat : k < n => Good(k)
  <2> HIDE DEF Good
  <2> QED BY <1>1
<1>3. PICK i \in Nat : i + n <= L /\ s[n][i] \notin Int
  BY <1>2
<1>4. n # 0
  BY <1>3 DEF Splits
<1>5. n # 1
  <2> SUFFICES ASSUME n = 1 PROVE FALSE
    OBVIOUS
  <2>1. i + 1 \in 1..L /\ i + 1 <= L
    BY <1>3
  <2> QED BY <1>3, <2>1 DEF Splits
<1> DEFINE a == n \div 2
           b == n - n \div 2
<1>6. a \in Nat /\ b \in Nat /\ a >= 1 /\ (b = a \/ b = a + 1) /\ n = a + b /\ a < n /\ b < n
  BY <1>2, <1>4, <1>5
<1> HIDE DEF a, b
<1>7. i + a <= L /\ (i + a) + b <= L /\ a + b <= L /\ i + a \in Nat
  BY <1>2, <1>3, <1>6
<1>8. s[a][i] \in Int /\ s[b][i + a] \in Int
  BY <1>2, <1>6, <1>7
<1>9. s[a + b][i] = s[a][i] + s[b][i + a]
  <2>1. CASE b = a
    BY <1>6, <1>7, <2>1, SplitsAt
  <2>2. CASE b = a + 1
    BY <1>6, <1>7, <2>2, SplitsAt
  <2> QED BY <1>6, <2>1, <2>2
<1>10. s[n][i] \in Int
  BY <1>6, <1>8, <1>9
<1> QED BY <1>3, <1>10

\* A term is added to a sum at its end, or at its beginning.
Back(s, terms, n, i) == s[n + 1][i] = s[n][i] + terms[i + n + 1]
Front(s, terms, n, i) == s[n + 1][i] = terms[i + 1] + s[n][i + 1]

LEMMA SumsGrow ==
  ASSUME NEW L \in Nat, NEW terms, NEW s, Splits(s, terms, L), \A i \in 1..L : terms[i] \in Int
  PROVE  \A n, i \in Nat : i + n + 1 <= L => Back(s, terms, n, i) /\ Front(s, terms, n, i)
<1> DEFINE Good(n) == \A i \in Nat : i + n + 1 <= L => Back(s, terms, n, i) /\ Front(s, terms, n, i)
           Bad == {n \in Nat : ~Good(n)}
<1> SUFFICES ASSUME Bad # {} PROVE FALSE
  OBVIOUS
<1>1. PICK n \in Bad : \A k \in Bad : n <= k
  <2>1. Bad \in SUBSET Nat
    OBVIOUS
  <2> HIDE DEF Bad
  <2> QED BY <2>1, LeastNatural
<1>2. n \in Nat /\ ~Good(n) /\ \A k \in Nat : k < n => Good(k)
  <2> HIDE DEF Good
  <2> QED BY <1>1
<1>3. PICK i \in Nat : i + n + 1 <= L /\ ~(Back(s, terms, n, i) /\ Front(s, terms, n, i))
  BY <1>2
<1>4. \A k, j \in Nat : j + k <= L => s[k][j] \in Int
  BY SumsType
<1>5. \A j \in 0..(L - 1) : terms[j + 1] \in Int
  OBVIOUS
<1>6. n # 0
  <2> SUFFICES ASSUME n = 0 PROVE FALSE
    OBVIOUS
  <2>1. s[0][i] = 0 /\ s[0][i + 1] = 0 /\ s[1][i] = terms[i + 1] /\ terms[i + 1] \in Int
    BY <1>3, <1>5 DEF Splits
  <2>2. Back(s, terms, 0, i) /\ Front(s, terms, 0, i)
    BY <2>1 DEF Back, Front
  <2> QED BY <1>3, <2>2
<1> DEFINE h == n \div 2
           j == i + h
<1>7. h \in Nat /\ (n = h + h \/ n = h + h + 1) /\ h < n /\ j \in Nat
  BY <1>2, <1>6
<1> HIDE DEF Good
<1>8. Good(h)
  BY <1>2, <1>7
<1> HIDE DEF h
<1>9. CASE n = 1
  <2>1. h = 0
    BY <1>7, <1>9
  <2>2. s[1 + 1][i] = s[1][i] + s[1][i + 1]
    BY <1>3, <1>9 DEF Splits
  <2>3. /\ s[1][i] = terms[i + 1] /\ s[1][i + 1] = terms[i + 2]
        /\ terms[i + 1] \in Int /\ terms[i + 2] \in Int
    BY <1>3, <1>5, <1>9 DEF Splits
  <2>4. Back(s, terms, 1, i) /\ Front(s, terms, 1, i)
    BY <2>2, <2>3 DEF Back, Front
  <2> QED BY <1>3, <1>9, <2>4
<1>10. CASE n = h + h /\ h >= 1
  <2>1. s[h + h][i] = s[h][i] + s[h][i + h]
    <3>1. h >= 1 /\ h + h <= L
      BY <1>3, <1>7, <1>10
    <3> QED BY <1>3, <1>7, <3>1, SplitsAt
  <2>2. s[h + (h + 1)][i] = s[h][i] + s[h + 1][i + h]
    <3>1. h >= 1 /\ h + (h + 1) <= L
      BY <1>3, <1>7, <1>10
    <3> QED BY <1>3, <1>7, <3>1, SplitsAt
  <2>3. s[h + h][i + 1] = s[h][i + 1] + s[h][(i + 1) + h]
    <3>1. h >= 1 /\ h + h <= L /\ i + 1 \in Nat
      BY <1>3, <1>7, <1>10
    <3> QED BY <1>3, <1>7, <3>1, SplitsAt, SMTT(30)
  <2>4. /\ s[h + 1][i + h] = s[h][i + h] + terms[(i + h) + h + 1]
        /\ s[h + 1][i + h] = terms[(i + h) + 1] + s[h][(i + h) + 1]
        /\ s[h + 1][i] = s[h][i] + terms[i + h + 1]
        /\ s[h + 1][i] = terms[i + 1] + s[h][i + 1]
    <3>1. i + h \in Nat /\ (i + h) + h + 1 <= L /\ i + h + 1 <= L
      BY <1>3, <1>7, <1>10
    <3> QED BY <1>8, <3>1 DEF Good, Back, Front
  <2>5. /\ s[h][i] \in Int /\ s[h][i + h] \in Int /\ s[h][(i + h) + 1] \in Int /\ s[h][i + 1] \in Int
        /\ terms[i + 1] \in Int /\ terms[i + h + 1] \in Int /\ terms[(i + h) + h + 1] \in Int
    BY <1>3, <1>4, <1>5, <1>7, <1>10
  <2>6. /\ n + 1 = h + (h + 1) /\ i + n + 1 = (i + h) + h + 1 /\ (i + 1) + h = (i + h) + 1
    BY <1>7, <1>10
  <2>7. Back(s, terms, n, i)
    BY <1>10, <2>1, <2>2, <2>4, <2>5, <2>6 DEF Back
  <2>8. Front(s, terms, n, i)
    BY <1>10, <2>1, <2>2, <2>3, <2>4, <2>5, <2>6 DEF Front
  <2> QED BY <1>3, <2>7, <2>8
<1>11. CASE n = h + h + 1 /\ h >= 1
  <2>1. s[(h + 1) + (h + 1)][i] = s[h + 1][i] + s[h + 1][i + (h + 1)]
    <3> DEFINE k == h + 1
    <3>1. k \in Nat /\ k >= 1 /\ k + k <= L
      BY <1>3, <1>7, <1>11
    <3> HIDE DEF k
    <3>2. s[k + k][i] = s[k][i] + s[k][i + k]
      BY <1>3, <3>1, SplitsAt
    <3> QED BY <3>2 DEF k
  <2>2. s[h + (h + 1)][i] = s[h][i] + s[h + 1][i + h]
    <3>1. h >= 1 /\ h + (h + 1) <= L
      BY <1>3, <1>7, <1>11
    <3> QED BY <1>3, <1>7, <3>1, SplitsAt
  <2>3. s[h + (h + 1)][i + 1] = s[h][i + 1] + s[h + 1][(i + 1) + h]
    <3>1. h >= 1 /\ h + (h + 1) <= L /\ h + 1 \in Nat /\ i + 1 \in Nat
      BY <1>3, <1>7, <1>11
    <3> QED BY <1>3, <1>7, <3>1, SplitsAt
  <2>4. /\ s[h + 1][i] = s[h][i] + terms[i + h + 1]
        /\ s[h + 1][i] = terms[i + 1] + s[h][i + 1]
        /\ s[h + 1][i + h] = terms[(i + h) + 1] + s[h][(i + h) + 1]
        /\ s[h + 1][(i + h) + 1] = s[h][(i + h) + 1] + terms[((i + h) + 1) + h + 1]
    <3>1. /\ i + h \in Nat /\ (i + h) + 1 \in Nat /\ ((i + h) + 1) + h + 1 <= L
          /\ (i + h) + h + 1 <= L /\ i + h + 1 <= L
      BY <1>3, <1>7, <1>11
    <3> QED BY <1>8, <3>1 DEF Good, Back, Front
  <2>5. /\ s[h][i] \in Int /\ s[h][(i + h) + 1] \in Int /\ s[h][i + 1] \in Int
        /\ s[h + 1][(i + h) + 1] \in Int
        /\ terms[i + 1] \in Int /\ terms[i + h + 1] \in Int /\ terms[((i + h) + 1) + h + 1] \in Int
    BY <1>3, <1>4, <1>5, <1>7, <1>11
  <2>6. /\ n + 1 = (h + 1) + (h + 1) /\ n = h + (h + 1) /\ i + n + 1 = ((i + h) + 1) + h + 1
        /\ (i + 1) + h = (i + h) + 1 /\ i + (h + 1) = (i + h) + 1 /\ i + h + 1 = (i + h) + 1
    BY <1>7, <1>11
  <2>7. Back(s, terms, n, i)
    BY <2>1, <2>2, <2>4, <2>5, <2>6 DEF Back
  <2>8. Front(s, terms, n, i)
    BY <2>1, <2>3, <2>4, <2>5, <2>6 DEF Front
  <2> QED BY <1>3, <2>7, <2>8
<1> QED BY <1>2, <1>6, <1>7, <1>9, <1>10, <1>11

\* A sum is built up term by term.
AddsUp(p, terms, L) ==
  /\ \A n \in 0..L : p[n] \in Int
  /\ p[0] = 0 /\ p[L] = Total(terms)
  /\ \A n \in 1..L : p[n] = p[n - 1] + terms[n]

LEMMA TotalByTerms ==
  ASSUME NEW terms \in Seq(Int)
  PROVE  Len(terms) \in Nat /\ \E p : AddsUp(p, terms, Len(terms))
<1> DEFINE L == Len(terms)
           s == Sums(terms)
           p == [n \in 0..L |-> s[n][0]]
<1>1. L \in Nat /\ \A i \in 1..L : terms[i] \in Int
  OBVIOUS
<1> HIDE DEF s, L
<1>2. Splits(s, terms, L)
  <2>1. /\ \A i \in Nat : s[0][i] = 0
        /\ 1 <= L => \A i \in Nat : s[1][i] = terms[i + 1]
        /\ \A n \in 0..L, i \in Nat :
             n >= 2 => s[n][i] = s[n \div 2][i] + s[n - n \div 2][i + n \div 2]
    BY SumsSteps DEF s, L
  <2>2. ASSUME NEW a \in Nat, NEW b \in Nat, NEW i \in Nat, a >= 1, b = a \/ b = a + 1, a + b <= L
        PROVE  s[a + b][i] = s[a][i] + s[b][i + a]
    <3>1. a + b \in 0..L /\ a + b >= 2 /\ (a + b) \div 2 = a /\ (a + b) - a = b
      BY <1>1, <2>2
    <3> DEFINE n == a + b
    <3>2. s[n][i] = s[n \div 2][i] + s[n - n \div 2][i + n \div 2]
      <4> HIDE DEF n
      <4>1. n \in 0..L /\ n >= 2
        BY <3>1 DEF n
      <4> QED BY <2>1, <4>1
    <3> QED BY <3>1, <3>2
  <2>3. ASSUME NEW i \in Nat, i + 1 <= L PROVE s[1][i] = terms[i + 1]
    <3>1. 1 <= L
      BY <1>1, <2>3
    <3> QED BY <2>1, <3>1
  <2> QED BY <2>1, <2>2, <2>3 DEF Splits
<1>3. \A n \in 0..L : p[n] \in Int
  <2>1. \A n, i \in Nat : i + n <= L => s[n][i] \in Int
    BY <1>1, <1>2, SumsType
  <2> QED BY <1>1, <2>1
<1>4. p[0] = 0 /\ p[L] = Total(terms)
  BY <1>1, <1>2, TotalSums, SMTT(30) DEF Splits, s, L
<1>5. \A n \in 1..L : p[n] = p[n - 1] + terms[n]
  <2> SUFFICES ASSUME NEW n \in 1..L PROVE s[n][0] = s[n - 1][0] + terms[n]
    BY <1>1
  <2>1. \A m, i \in Nat : i + m + 1 <= L => Back(s, terms, m, i)
    BY <1>1, <1>2, SumsGrow
  <2>2. n - 1 \in Nat /\ 0 + (n - 1) + 1 <= L /\ (n - 1) + 1 = n /\ 0 + (n - 1) + 1 = n
    BY <1>1
  <2>3. Back(s, terms, n - 1, 0)
    BY <2>1, <2>2
  <2> QED BY <2>2, <2>3 DEF Back
<1>6. AddsUp(p, terms, L)
  <2> HIDE DEF p
  <2> QED BY <1>3, <1>4, <1>5 DEF AddsUp
<1> QED BY <1>1, <1>6 DEF L

LEMMA TotalBounded ==
  ASSUME NEW t \in Seq(Int), \A i \in 1..Len(t) : 0 <= t[i] /\ t[i] <= 65280
  PROVE  Total(t) \in Int /\ 0 <= Total(t) /\ Total(t) <= 65280 * Len(t)
<1> DEFINE L == Len(t)
<1>1. L \in Nat /\ \A n \in 1..L : t[n] \in Int
  OBVIOUS
<1>2. PICK p : AddsUp(p, t, L)
  BY TotalByTerms
<1> HIDE DEF L
<1> DEFINE S == {n \in 0..L : 0 <= p[n] /\ p[n] <= 65280 * n}
<1>3. 0 \in S
  BY <1>1, <1>2, SMT DEF AddsUp
<1>4. \A n \in 1..L : n - 1 \in S => n \in S
  <2> SUFFICES ASSUME NEW n \in 1..L, 0 <= p[n - 1], p[n - 1] <= 65280 * (n - 1)
               PROVE  0 <= p[n] /\ p[n] <= 65280 * n
    BY <1>1, SMT
  <2>1. /\ p[n] = p[n - 1] + t[n] /\ p[n - 1] \in Int /\ t[n] \in Int
        /\ 0 <= t[n] /\ t[n] <= 65280 /\ n \in Int
    BY <1>1, <1>2, SMT DEF L, AddsUp
  <2> QED BY <2>1, SMT
<1>5. 0..L \subseteq S
  <2> HIDE DEF S
  <2>1. L \in Nat
    BY <1>1
  <2> QED BY <2>1, <1>3, <1>4, PrefixInduction, SMTT(30)
<1>6. 0 <= p[L] /\ p[L] <= 65280 * L /\ p[L] \in Int
  <2>1. L \in 0..L
    BY <1>1
  <2>2. L \in S
    <3> HIDE DEF S
    <3> QED BY <1>5, <2>1
  <2> QED BY <1>2, <2>1, <2>2 DEF AddsUp
<1> QED BY <1>2, <1>6 DEF L, AddsUp

\* Modulo 2^16 - 1, a sum of bytes times 256 is the sum of the bytes swapped.
Scaled(a, b, c) == 256 * a = b + 65535 * c

LEMMA ScaledSum ==
  /\ Scaled(0, 0, 0)
  /\ \A a, b, c, x, y, z \in Int :
       Scaled(a, b, c) /\ Scaled(x, y, z) => Scaled(a + x, b + y, c + z)
BY SMT DEF Scaled

LEMMA TotalScaled ==
  ASSUME NEW t \in Seq(Int), NEW u \in Seq(Int), NEW v \in Seq(Int),
         Len(u) = Len(t), Len(v) = Len(t),
         \A i \in 1..Len(t) : Scaled(t[i], u[i], v[i])
  PROVE  Scaled(Total(t), Total(u), Total(v))
<1> DEFINE L == Len(t)
<1>1. L \in Nat /\ \A n \in 1..L : t[n] \in Int /\ u[n] \in Int /\ v[n] \in Int
  OBVIOUS
<1>2. PICK p : AddsUp(p, t, L)
  BY TotalByTerms
<1>3. PICK q : AddsUp(q, u, L)
  BY TotalByTerms
<1>4. PICK r : AddsUp(r, v, L)
  BY TotalByTerms
<1>5. \A i \in 1..L : Scaled(t[i], u[i], v[i])
  OBVIOUS
<1> HIDE DEF L
<1> DEFINE S == {n \in 0..L : Scaled(p[n], q[n], r[n])}
<1>6. 0 \in S
  BY <1>1, <1>2, <1>3, <1>4, ScaledSum DEF AddsUp
<1>7. \A n \in 1..L : n - 1 \in S => n \in S
  <2> SUFFICES ASSUME NEW n \in 1..L, Scaled(p[n - 1], q[n - 1], r[n - 1])
               PROVE  Scaled(p[n], q[n], r[n])
    BY <1>1
  <2>1. /\ p[n] = p[n - 1] + t[n] /\ q[n] = q[n - 1] + u[n] /\ r[n] = r[n - 1] + v[n]
        /\ p[n - 1] \in Int /\ q[n - 1] \in Int /\ r[n - 1] \in Int
        /\ t[n] \in Int /\ u[n] \in Int /\ v[n] \in Int
        /\ Scaled(t[n], u[n], v[n])
    BY <1>1, <1>2, <1>3, <1>4, <1>5 DEF AddsUp
  <2>2. Scaled(p[n - 1] + t[n], q[n - 1] + u[n], r[n - 1] + v[n])
    BY <2>1, ScaledSum
  <2> QED BY <2>1, <2>2
<1>8. 0..L \subseteq S
  <2> HIDE DEF S
  <2>1. L \in Nat
    BY <1>1
  <2> QED BY <2>1, <1>6, <1>7, PrefixInduction
<1>9. Scaled(p[L], q[L], r[L])
  <2>1. L \in 0..L
    BY <1>1
  <2>2. L \in S
    <3> HIDE DEF S
    <3> QED BY <1>8, <2>1
  <2> QED BY <2>2
<1> QED BY <1>2, <1>3, <1>4, <1>9 DEF AddsUp

LEMMA TotalChanged ==
  ASSUME NEW t \in Seq(Int), NEW v \in Seq(Int), Len(v) = Len(t), NEW k \in 1..Len(t), NEW d \in Int,
         \A i \in 1..Len(t) : v[i] = IF i = k THEN t[i] + d ELSE t[i]
  PROVE  Total(v) = Total(t) + d
<1> DEFINE L == Len(t)
<1>1. L \in Nat /\ (\A n \in 1..L : t[n] \in Int /\ v[n] \in Int) /\ k \in 1..L
  OBVIOUS
<1>2. PICK p : AddsUp(p, t, L)
  BY TotalByTerms
<1>3. PICK q : AddsUp(q, v, L)
  BY TotalByTerms
<1>4. \A i \in 1..L : v[i] = IF i = k THEN t[i] + d ELSE t[i]
  OBVIOUS
<1> HIDE DEF L
<1> DEFINE S == {n \in 0..L : q[n] = IF n < k THEN p[n] ELSE p[n] + d}
<1>5. 0 \in S
  BY <1>1, <1>2, <1>3, SMTT(30) DEF AddsUp
<1>6. \A n \in 1..L : n - 1 \in S => n \in S
  <2> SUFFICES ASSUME NEW n \in 1..L, q[n - 1] = IF n - 1 < k THEN p[n - 1] ELSE p[n - 1] + d
               PROVE  q[n] = IF n < k THEN p[n] ELSE p[n] + d
    BY <1>1
  <2>1. /\ p[n] = p[n - 1] + t[n] /\ q[n] = q[n - 1] + v[n]
        /\ p[n - 1] \in Int /\ t[n] \in Int /\ n \in Int /\ k \in Int
    <3>1. n \in Int /\ k \in Int /\ n - 1 \in 0..L /\ t[n] \in Int
      BY <1>1
    <3> QED BY <1>2, <1>3, <3>1 DEF AddsUp
  <2>5. v[n] = IF n = k THEN t[n] + d ELSE t[n]
    BY <1>4
  <2>2. CASE n < k
    BY <2>1, <2>5, <2>2
  <2>3. CASE n = k
    BY <2>1, <2>5, <2>3
  <2>4. CASE n > k
    BY <2>1, <2>5, <2>4, SMTT(30)
  <2> QED BY <2>1, <2>2, <2>3, <2>4
<1>7. 0..L \subseteq S
  <2> HIDE DEF S
  <2>1. L \in Nat
    BY <1>1
  <2> QED BY <2>1, <1>5, <1>6, PrefixInduction
<1>8. q[L] = p[L] + d
  <2>1. L \in 0..L /\ ~(L < k)
    BY <1>1
  <2>2. L \in S
    <3> HIDE DEF S
    <3> QED BY <1>7, <2>1
  <2> QED BY <2>1, <2>2
<1> QED BY <1>2, <1>3, <1>8 DEF AddsUp

-----------------------------------------------------------------------------
(* The checksum, against its definition.                                    *)

\* The carries added back, twice.
Folded(sum) ==
  LET once == (sum \div 65536) + (sum % 65536)
  IN  (once + once \div 65536) % 65536

\* A sum of as many words as a packet may have.
IsSum(sum) == 0 <= sum /\ sum \div 65536 <= 65535

\* A sum of one's complement numbers that is -0.
IsMultiple(sum) == \E k \in Int : sum = 65535 * k
IsZeroSum(sum) == sum > 0 /\ IsMultiple(sum)

LEMMA FoldedValue ==
  ASSUME NEW sum \in Int, IsSum(sum)
  PROVE  /\ Folded(sum) \in Int /\ 0 <= Folded(sum) /\ Folded(sum) <= 65535
         /\ \E k \in Int : sum = Folded(sum) + 65535 * k
         /\ Folded(sum) = 0 <=> sum = 0
<1> DEFINE q == sum \div 65536
           r == sum % 65536
<1>1. q \in Int /\ r \in Int /\ 0 <= q /\ q <= 65535 /\ 0 <= r /\ r <= 65535 /\ sum = 65536 * q + r
  BY SMT DEF IsSum
<1> DEFINE once == q + r
           f == (once + once \div 65536) % 65536
<1>2. Folded(sum) = f
  BY SMT DEF Folded
<1> HIDE DEF q, r
<1>3. once \in Int /\ 0 <= once /\ once <= 131070 /\ sum = once + 65535 * q
  BY <1>1, SMT
<1> HIDE DEF once
<1>4. CASE once <= 65535
  <2>1. once \div 65536 = 0 /\ once % 65536 = once
    BY <1>3, <1>4, SMT
  <2>2. f = once
    BY <1>3, <2>1, SMT
  <2>3. once = 0 <=> sum = 0
    BY <1>1, <1>3, SMT DEF once
  <2> QED BY <1>1, <1>2, <1>3, <1>4, <2>2, <2>3, SMT
<1>5. CASE once > 65535
  <2>1. once \div 65536 = 1
    BY <1>3, <1>5, SMT
  <2>2. f = once - 65535
    <3>1. (once + 1) % 65536 = once + 1 - 65536
      BY <1>3, <1>5, SMT
    <3> QED BY <1>3, <2>1, <3>1, SMT
  <2>3. f \in Int /\ 0 < f /\ f <= 65535 /\ sum # 0
    BY <1>1, <1>3, <1>5, <2>2, SMT
  <2>4. q + 1 \in Int /\ sum = f + 65535 * (q + 1)
    BY <1>1, <1>3, <2>2, SMT
  <2> HIDE DEF f
  <2>5. \E k \in Int : sum = f + 65535 * k
    BY <2>4, SMT
  <2> QED BY <1>2, <2>3, <2>5, SMT
<1> QED BY <1>3, <1>4, <1>5, SMT

LEMMA FoldedFull ==
  ASSUME NEW sum \in Int, IsSum(sum)
  PROVE  Folded(sum) = 65535 <=> IsZeroSum(sum)
<1> DEFINE f == Folded(sum)
<1>1. /\ f \in Int /\ 0 <= f /\ f <= 65535 /\ (f = 0 <=> sum = 0)
      /\ \E k \in Int : sum = f + 65535 * k
  BY FoldedValue
<1> HIDE DEF f
<1>2. PICK k \in Int : sum = f + 65535 * k
  BY <1>1, SMT
<1>3. ASSUME f = 65535 PROVE IsZeroSum(sum)
  <2>1. k + 1 \in Int /\ sum = 65535 * (k + 1)
    BY <1>2, <1>3, SMT
  <2>2. sum > 0
    BY <1>1, <1>3, SMT DEF IsSum
  <2> QED BY <2>1, <2>2, SMT DEF IsZeroSum, IsMultiple
<1>4. ASSUME IsZeroSum(sum) PROVE f = 65535
  <2>1. PICK m \in Int : sum = 65535 * m
    BY <1>4, SMT DEF IsZeroSum, IsMultiple
  <2>2. f # 0
    BY <1>1, <1>4, SMT DEF IsZeroSum
  <2>3. m - k \in Int /\ f = 65535 * (m - k)
    BY <1>1, <1>2, <2>1, SMT
  <2> QED BY <1>1, <2>2, <2>3, SMT
<1> QED BY <1>3, <1>4, SMT DEF f

LEMMA Remainder ==
  ASSUME NEW n \in Int
  PROVE  n % 65535 = 0 <=> IsMultiple(n)
<1>1. n \div 65535 \in Int /\ n = 65535 * (n \div 65535) + (n % 65535)
  BY SMT
<1>2. ASSUME n % 65535 = 0 PROVE \E k \in Int : n = 65535 * k
  BY <1>1, <1>2, SMT
<1>3. ASSUME NEW k \in Int, n = 65535 * k PROVE n % 65535 = 0
  BY <1>3, SMT
<1> QED BY <1>2, <1>3, SMT DEF IsMultiple

\* 256 has an inverse modulo 2^16 - 1: swapping bytes keeps a sum that is -0.
LEMMA ScaledZero ==
  ASSUME NEW w \in Int, NEW n \in Int, NEW c \in Int, Scaled(w, n, c)
  PROVE  IsMultiple(w) <=> IsMultiple(n)
<1>1. 256 * w = n + 65535 * c
  BY SMT DEF Scaled
<1>2. ASSUME NEW k \in Int, w = 65535 * k PROVE \E j \in Int : n = 65535 * j
  <2>1. 256 * k - c \in Int /\ n = 65535 * (256 * k - c)
    BY <1>1, <1>2, SMT
  <2> QED BY <2>1, SMT
<1>3. ASSUME NEW k \in Int, n = 65535 * k PROVE \E j \in Int : w = 65535 * j
  <2> DEFINE j == 256 * (k + c) - w
  <2>1. j \in Int /\ w = 65535 * j
    BY <1>1, <1>3, SMT
  <2> HIDE DEF j
  <2> QED BY <2>1, SMT
<1> QED BY <1>2, <1>3, SMT DEF IsMultiple

\* The terms of both sums, and of what makes up for the bytes' places.
WordTerms(bytes) == [i \in 1..Len(bytes) |-> IF i % 2 = 1 THEN bytes[i] ELSE 256 * bytes[i]]
NetworkTerms(bytes) == [i \in 1..Len(bytes) |-> IF i % 2 = 1 THEN 256 * bytes[i] ELSE bytes[i]]
EvenTerms(bytes) == [i \in 1..Len(bytes) |-> IF i % 2 = 1 THEN 0 ELSE bytes[i]]
OddTerms(bytes) == [i \in 1..Len(bytes) |-> IF i % 2 = 1 THEN bytes[i] ELSE 0]

IsTerms(t, n) ==
  /\ t \in Seq(Int) /\ Len(t) = n
  /\ \A i \in 1..Len(t) : 0 <= t[i] /\ t[i] <= 65280

LEMMA SequenceOf ==
  ASSUME NEW n \in Nat, NEW t, t = [i \in 1..n |-> t[i]], \A i \in 1..n : t[i] \in Int
  PROVE  t \in Seq(Int) /\ Len(t) = n
<1>1. t \in [1..n -> Int]
  BY Zenon
<1> QED BY <1>1

LEMMA ByteTerms ==
  ASSUME NEW bytes \in Seq(Byte)
  PROVE  /\ IsTerms(WordTerms(bytes), Len(bytes)) /\ IsTerms(NetworkTerms(bytes), Len(bytes))
         /\ IsTerms(EvenTerms(bytes), Len(bytes)) /\ IsTerms(OddTerms(bytes), Len(bytes))
<1>1. Len(bytes) \in Nat /\ \A i \in 1..Len(bytes) : bytes[i] \in Int /\ 0 <= bytes[i] /\ bytes[i] <= 255
  <2>1. Len(bytes) \in Nat /\ \A i \in 1..Len(bytes) : bytes[i] \in Byte
    OBVIOUS
  <2>2. \A x \in Byte : x \in Int /\ 0 <= x /\ x <= 255
    BY DEF Byte
  <2> QED BY <2>1, <2>2
<1> DEFINE n == Len(bytes)
<1>2. ASSUME NEW t, t = [i \in 1..n |-> t[i]],
             \A i \in 1..n : t[i] = 0 \/ t[i] = bytes[i] \/ t[i] = 256 * bytes[i]
      PROVE  IsTerms(t, n)
  <2>1. \A i \in 1..n : t[i] \in Int /\ 0 <= t[i] /\ t[i] <= 65280
    BY <1>1, <1>2, SMT
  <2>2. t \in Seq(Int) /\ Len(t) = n
    BY <1>1, <1>2, <2>1, SequenceOf
  <2> QED BY <2>1, <2>2 DEF IsTerms
<1>3. IsTerms(WordTerms(bytes), n)
  BY <1>2 DEF WordTerms
<1>4. IsTerms(NetworkTerms(bytes), n)
  BY <1>2 DEF NetworkTerms
<1>5. IsTerms(EvenTerms(bytes), n)
  BY <1>2 DEF EvenTerms
<1>6. IsTerms(OddTerms(bytes), n)
  BY <1>2 DEF OddTerms
<1> QED BY <1>3, <1>4, <1>5, <1>6

\* Lengths of which the sum of the words fits into 32 bits: 65792 * 65280 < 2^32.
Summable(bytes) == Len(bytes) <= 65792

LEMMA ChecksumSums ==
  ASSUME NEW bytes \in Seq(Byte), Summable(bytes)
  PROVE  /\ WordSum(bytes) \in Int /\ IsSum(WordSum(bytes))
         /\ NetworkSum(bytes) \in Int /\ NetworkSum(bytes) >= 0
         /\ WordSum(bytes) = 0 <=> NetworkSum(bytes) = 0
         /\ \E c \in Int : Scaled(WordSum(bytes), NetworkSum(bytes), c)
<1> DEFINE n == Len(bytes)
           tw == WordTerms(bytes)
           tn == NetworkTerms(bytes)
           te == EvenTerms(bytes)
           to == OddTerms(bytes)
           w == Total(tw)
           m == Total(tn)
           e == Total(te)
           o == Total(to)
<1>1. IsTerms(tw, n) /\ IsTerms(tn, n) /\ IsTerms(te, n) /\ IsTerms(to, n)
  BY ByteTerms
<1>2. n \in Nat /\ n <= 65792 /\ \A i \in 1..n : bytes[i] \in Int
  <2>1. n \in Nat /\ \A i \in 1..n : bytes[i] \in Byte
    OBVIOUS
  <2>2. \A x \in Byte : x \in Int
    BY DEF Byte
  <2> QED BY <2>1, <2>2, SMT DEF Summable
<1>3. WordSum(bytes) = w /\ NetworkSum(bytes) = m
  BY DEF WordSum, NetworkSum, WordTerms, NetworkTerms
<1>4. \A i \in 1..n : Scaled(tw[i], tn[i], te[i]) /\ Scaled(tn[i], tw[i], to[i])
  <2> SUFFICES ASSUME NEW i \in 1..n
               PROVE  Scaled(tw[i], tn[i], te[i]) /\ Scaled(tn[i], tw[i], to[i])
    OBVIOUS
  <2>1. /\ tw[i] = IF i % 2 = 1 THEN bytes[i] ELSE 256 * bytes[i]
        /\ tn[i] = IF i % 2 = 1 THEN 256 * bytes[i] ELSE bytes[i]
        /\ te[i] = IF i % 2 = 1 THEN 0 ELSE bytes[i]
        /\ to[i] = IF i % 2 = 1 THEN bytes[i] ELSE 0
    BY DEF WordTerms, NetworkTerms, EvenTerms, OddTerms
  <2> DEFINE x == bytes[i]
  <2>2. x \in Int
    BY <1>2
  <2> HIDE DEF x, tw, tn, te, to
  <2>3. CASE i % 2 = 1
    <3>1. tw[i] = x /\ tn[i] = 256 * x /\ te[i] = 0 /\ to[i] = x
      BY <2>1, <2>3 DEF x
    <3>2. Scaled(x, 256 * x, 0) /\ Scaled(256 * x, x, x)
      BY <2>2, SMT DEF Scaled
    <3> QED BY <3>1, <3>2
  <2>4. CASE i % 2 # 1
    <3>1. tw[i] = 256 * x /\ tn[i] = x /\ te[i] = x /\ to[i] = 0
      BY <2>1, <2>4 DEF x
    <3>2. Scaled(256 * x, x, x) /\ Scaled(x, 256 * x, 0)
      BY <2>2, SMT DEF Scaled
    <3> QED BY <3>1, <3>2
  <2> QED BY <2>3, <2>4
<1> HIDE DEF n, tw, tn, te, to
<1>5. Scaled(w, m, e) /\ Scaled(m, w, o)
  <2>1. tw \in Seq(Int) /\ tn \in Seq(Int) /\ te \in Seq(Int) /\ to \in Seq(Int)
    BY <1>1 DEF IsTerms
  <2>2. Len(tw) = n /\ Len(tn) = n /\ Len(te) = n /\ Len(to) = n
    BY <1>1 DEF IsTerms
  <2>3. Scaled(w, m, e)
    BY <1>4, <2>1, <2>2, TotalScaled
  <2>4. Scaled(m, w, o)
    BY <1>4, <2>1, <2>2, TotalScaled
  <2> QED BY <2>3, <2>4
<1>6. /\ w \in Int /\ 0 <= w /\ w <= 65280 * n /\ m \in Int /\ 0 <= m
      /\ e \in Int /\ 0 <= e /\ o \in Int /\ 0 <= o
  BY <1>1, TotalBounded DEF IsTerms
<1> HIDE DEF w, m, e, o
<1>7. IsSum(w)
  BY <1>2, <1>6, SMT DEF IsSum
<1>8. w = 0 <=> m = 0
  BY <1>5, <1>6, SMT DEF Scaled
<1> QED BY <1>3, <1>5, <1>6, <1>7, <1>8

\* in_cksum() is a number of 16 bits, and 0 exactly when the sum is -0.
LEMMA InCksumValue ==
  ASSUME NEW bytes \in Seq(Byte), Summable(bytes)
  PROVE  /\ InCksum(bytes) = 65535 - Folded(WordSum(bytes))
         /\ InCksum(bytes) \in Int /\ 0 <= InCksum(bytes) /\ InCksum(bytes) <= 65535
         /\ InCksum(bytes) = 0 <=> IsZeroSum(WordSum(bytes))
<1> DEFINE w == WordSum(bytes)
<1>1. w \in Int /\ IsSum(w)
  BY ChecksumSums
<1>2. InCksum(bytes) = 65535 - Folded(w)
  BY SMT DEF InCksum, Folded
<1> HIDE DEF w
<1>3. Folded(w) \in Int /\ 0 <= Folded(w) /\ Folded(w) <= 65535
  BY <1>1, FoldedValue
<1>4. Folded(w) = 65535 <=> IsZeroSum(w)
  BY <1>1, FoldedFull
<1>5. 65535 - Folded(w) = 0 <=> IsZeroSum(w)
  BY <1>3, <1>4, SMT
<1> QED BY <1>2, <1>3, <1>5, SMT DEF w

(* in_cksum() finds the checksum of a packet right exactly when RFC 1071    *)
(* does, on a little-endian machine and for odd lengths.                    *)
THEOREM InCksumCorrect ==
  \A bytes \in Seq(Byte) : Summable(bytes) => (InCksum(bytes) = 0 <=> IsValidSum(bytes))
<1> SUFFICES ASSUME NEW bytes \in Seq(Byte), Summable(bytes)
             PROVE  InCksum(bytes) = 0 <=> IsValidSum(bytes)
  OBVIOUS
<1> DEFINE w == WordSum(bytes)
           m == NetworkSum(bytes)
<1>1. /\ w \in Int /\ IsSum(w) /\ m \in Int /\ m >= 0 /\ (w = 0 <=> m = 0)
      /\ \E c \in Int : Scaled(w, m, c)
  BY ChecksumSums
<1>2. InCksum(bytes) = 0 <=> IsZeroSum(w)
  BY InCksumValue
<1>3. IsValidSum(bytes) <=> m > 0 /\ m % 65535 = 0
  BY SMT DEF IsValidSum
<1> HIDE DEF w, m
<1>4. IsMultiple(w) <=> IsMultiple(m)
  BY <1>1, ScaledZero
<1>5. m % 65535 = 0 <=> IsMultiple(m)
  BY <1>1, Remainder
<1>6. w > 0 <=> m > 0
  BY <1>1, SMT DEF IsSum
<1>7. IsZeroSum(w) <=> w > 0 /\ IsMultiple(w)
  BY DEF IsZeroSum
<1> DEFINE C == m % 65535 = 0
<1>8. (C <=> IsMultiple(m)) /\ (IsValidSum(bytes) <=> m > 0 /\ C)
  BY <1>3, <1>5
<1> HIDE DEF C
<1> QED BY <1>2, <1>4, <1>6, <1>7, <1>8

-----------------------------------------------------------------------------
(* The size in the bytes of a packet.                                       *)

SizeOf(p) == Len(p.payload) + HeaderLength

Sizes == {n \in Nat : 11 <= n /\ n < 65280}

LEMMA FieldsType ==
  ASSUME NEW p \in PacketFields
  PROVE  /\ p.seq = 258 /\ p.flag = 3 /\ Len(p.payload) \in Nat
         /\ SizeOf(p) \in Sizes
         /\ \E b \in Fills : p.payload \in Seq({b})
<1>1. PICK n \in Lengths, b \in Fills : p = [seq |-> 258, flag |-> 3, payload |-> [i \in 1..n |-> b]]
  BY DEF PacketFields
<1>2. n \in Nat /\ n + 11 \in Sizes
  <2>1. n \in 0..MaxPacketLength /\ MaxPacketLength \in Nat /\ MaxPacketLength + 11 < 65280
    BY LengthsAssumption, SMT
  <2> QED BY <2>1, SMT DEF Sizes
<1>3. p.payload \in Seq({b}) /\ Len(p.payload) = n
  <2>1. p.payload = [i \in 1..n |-> b]
    BY <1>1
  <2> QED BY <1>2, <2>1, IsASeq, LenProperties
<1> QED BY <1>1, <1>2, <1>3 DEF SizeOf, HeaderLength

\* The checksum is put into a packet without moving anything.
LEMMA ExceptLength ==
  ASSUME NEW S, NEW s \in Seq(S), NEW i, NEW k, NEW x, NEW y
  PROVE  LET u == [s EXCEPT ![i] = x, ![k] = y] IN
         /\ u \in Seq(S \cup {x, y}) /\ Len(u) = Len(s)
         /\ \A j \in 1..Len(s) : j \notin {i, k} => u[j] = s[j]
<1> DEFINE u == [s EXCEPT ![i] = x, ![k] = y]
           n == Len(s)
<1>1. n \in Nat /\ DOMAIN s = 1..n /\ \A j \in 1..n : s[j] \in S
  OBVIOUS
<1>2. u = [j \in 1..n |-> IF j = k THEN y ELSE IF j = i THEN x ELSE s[j]]
  BY <1>1
<1> HIDE DEF u, n
<1>3. u \in Seq(S \cup {x, y}) /\ DOMAIN u = 1..n
  BY <1>1, <1>2, IsASeq
<1>4. Len(u) = n
  BY <1>1, <1>3, LenProperties
<1> QED BY <1>2, <1>3, <1>4 DEF u, n

LEMMA Bytes4Type ==
  ASSUME NEW n \in Int
  PROVE  Bytes4(n) \in Seq(Int) /\ Len(Bytes4(n)) = 4
<1>1. \A w, x, y, z \in Int : <<w, x, y, z>> \in Seq(Int) /\ Len(<<w, x, y, z>>) = 4
  OBVIOUS
<1>2. \A m \in Nat \ {0} : n \div m \in Int /\ (n \div m) % 256 \in Int
  OBVIOUS
<1>3. n % 256 \in Int
  OBVIOUS
<1> QED BY <1>1, <1>2, <1>3, SMT DEF Bytes4

LEMMA ConstructSize ==
  ASSUME NEW p \in PacketFields
  PROVE  /\ \E S : Construct(p) \in Seq(S)
         /\ Len(Construct(p)) = SizeOf(p)
         /\ \A i \in 1..4 : Construct(p)[i + 7] = Bytes4(SizeOf(p))[i]
<1> DEFINE size == Len(p.payload) + HeaderLength
           a == Bytes4(p.seq)
           b == <<0, 0, p.flag>>
           c == Bytes4(size)
           d == p.payload
           bytes == a \o b \o c \o d
           sum == InCksum(bytes)
<1>1. PICK f \in Fills : d \in Seq({f})
  BY FieldsType
<1>2. p.flag \in Int /\ p.seq \in Int /\ size \in Int /\ Len(d) \in Nat
      /\ size = SizeOf(p) /\ size = Len(d) + 11
  BY FieldsType, SMT DEF SizeOf, HeaderLength
<1> DEFINE S == Int \cup {f}
<1>3. /\ a \in Seq(S) /\ b \in Seq(S) /\ c \in Seq(S) /\ d \in Seq(S)
      /\ Len(a) = 4 /\ Len(b) = 3 /\ Len(c) = 4
  <2>1. a \in Seq(Int) /\ b \in Seq(Int) /\ c \in Seq(Int) /\ Len(a) = 4 /\ Len(b) = 3 /\ Len(c) = 4
    BY <1>2, Bytes4Type
  <2> QED BY <1>1, <2>1
<1> HIDE DEF a, b, c, d, S, size
<1>4. a \o b \in Seq(S) /\ Len(a \o b) = 7
  <2>1. a \o b \in Seq(S) /\ Len(a \o b) = Len(a) + Len(b)
    BY <1>3, ConcatProperties
  <2> QED BY <1>3, <2>1
<1>5. /\ a \o b \o c \in Seq(S) /\ Len(a \o b \o c) = 11
      /\ \A i \in 1..4 : (a \o b \o c)[i + 7] = c[i]
  <2> DEFINE ab == a \o b
  <2>1. ab \in Seq(S) /\ Len(ab) = 7
    BY <1>4
  <2> HIDE DEF ab
  <2>2. /\ ab \o c \in Seq(S) /\ Len(ab \o c) = Len(ab) + Len(c)
        /\ \A i \in 1..(Len(ab) + Len(c)) : (ab \o c)[i] = IF i <= Len(ab) THEN ab[i] ELSE c[i - Len(ab)]
    BY <1>3, <2>1, ConcatProperties
  <2>3. Len(ab) = 7 /\ Len(c) = 4
    BY <1>3, <2>1
  <2>4. ASSUME NEW i \in 1..4 PROVE (ab \o c)[i + 7] = c[i]
    <3> DEFINE j == i + 7
    <3>1. j \in 1..(7 + 4) /\ ~(j <= 7) /\ j - 7 = i
      OBVIOUS
    <3> HIDE DEF j
    <3>2. (ab \o c)[j] = c[j - 7]
      <4>1. j \in 1..(Len(ab) + Len(c)) /\ ~(j <= Len(ab)) /\ j - Len(ab) = j - 7
        BY <2>3, <3>1
      <4> QED BY <2>2, <4>1, Zenon
    <3> QED BY <3>1, <3>2 DEF j
  <2> QED BY <1>3, <2>1, <2>2, <2>3, <2>4 DEF ab
<1>6. /\ bytes \in Seq(S) /\ Len(bytes) = 11 + Len(d)
      /\ \A i \in 1..4 : bytes[i + 7] = c[i]
  <2> DEFINE abc == a \o b \o c
  <2>1. abc \in Seq(S) /\ Len(abc) = 11 /\ \A i \in 1..4 : abc[i + 7] = c[i]
    BY <1>5
  <2>2. bytes = abc \o d
    OBVIOUS
  <2> HIDE DEF abc, bytes
  <2>3. /\ abc \o d \in Seq(S) /\ Len(abc \o d) = Len(abc) + Len(d)
        /\ \A i \in 1..(Len(abc) + Len(d)) :
             (abc \o d)[i] = IF i <= Len(abc) THEN abc[i] ELSE d[i - Len(abc)]
    BY <1>3, <2>1, ConcatProperties
  <2>4. \A i \in 1..4 : i + 7 \in 1..(11 + Len(d)) /\ i + 7 <= 11
    BY <1>2
  <2>5. \A i \in 1..4 : (abc \o d)[i + 7] = c[i]
    BY <2>1, <2>3, <2>4
  <2> QED BY <2>1, <2>2, <2>3, <2>5
<1>7. Construct(p) = [bytes EXCEPT ![5] = sum % 256, ![6] = sum \div 256]
  BY DEF Construct, a, b, c, d, size
<1> HIDE DEF bytes, sum
<1> DEFINE w == Construct(p)
<1>8. /\ w \in Seq(S \cup {sum % 256, sum \div 256}) /\ Len(w) = Len(bytes)
      /\ \A j \in 1..Len(bytes) : j \notin {5, 6} => w[j] = bytes[j]
  BY <1>6, <1>7, ExceptLength, SMTT(30)
<1>9. \A i \in 1..4 : i + 7 \in 1..Len(bytes) /\ i + 7 \notin {5, 6}
  BY <1>2, <1>6
<1>10. \A i \in 1..4 : w[i + 7] = Bytes4(SizeOf(p))[i]
  <2>1. c = Bytes4(SizeOf(p))
    BY <1>2 DEF c
  <2> HIDE DEF w
  <2> QED BY <1>6, <1>8, <1>9, <2>1
<1> QED BY <1>2, <1>6, <1>8, <1>10

-----------------------------------------------------------------------------
(* memcpy() of deconstruct().                                               *)

LEMMA Bytes4Small ==
  ASSUME NEW n \in Sizes
  PROVE  /\ Bytes4(n)[1] = 0 /\ Bytes4(n)[2] = 0
         /\ Bytes4(n)[3] \in 0..254 /\ Bytes4(n)[4] \in 0..255
         /\ n = 256 * Bytes4(n)[3] + Bytes4(n)[4]
<1>1. n \in Nat /\ 11 <= n /\ n < 65280
  BY SMT DEF Sizes
<1>2. n \div 16777216 = 0 /\ n \div 65536 = 0 /\ 0 % 256 = 0
  BY <1>1, SMT
<1>3. n \div 256 \in 0..254 /\ (n \div 256) % 256 = n \div 256
  BY <1>1, SMT
<1>4. n % 256 \in 0..255 /\ n = 256 * (n \div 256) + (n % 256)
  BY <1>1, SMT
<1>5. Bytes4(n) = <<0, 0, n \div 256, n % 256>>
  BY <1>2, <1>3, SMT DEF Bytes4
<1> DEFINE x == n \div 256
           y == n % 256
<1> HIDE DEF x, y
<1>6. Bytes4(n) = <<0, 0, x, y>> /\ x \in 0..254 /\ y \in 0..255 /\ n = 256 * x + y
  <2>1. (n \div 256) \in 0..254
    BY <1>3
  <2> QED BY <1>4, <1>5, <2>1 DEF x, y
<1> QED BY <1>6

\* A byte of the size on the wire, when the byte f of the packet is flipped.
Carried(p, f, i) ==
  IF f = i + 7 THEN 255 - Bytes4(SizeOf(p))[i] ELSE Bytes4(SizeOf(p))[i]

LEMMA CrashSize ==
  ASSUME NEW p \in PacketFields, NEW f, NEW bytes, \A i \in 1..4 : bytes[i + 7] = Carried(p, f, i),
         Deconstruct(bytes) = "crash"
  PROVE  f = LowSizeByte /\ Len(p.payload) + HeaderLength \in 245..255
<1> DEFINE n == SizeOf(p)
           b(i) == Bytes4(n)[i]
<1>1. /\ b(1) = 0 /\ b(2) = 0 /\ b(3) \in 0..254 /\ b(4) \in 0..255
      /\ n = 256 * b(3) + b(4) /\ n \in Nat /\ 11 <= n
  <2>1. n \in Sizes
    BY FieldsType
  <2>2. n \in Nat /\ 11 <= n
    BY <2>1, SMT DEF Sizes
  <2> QED BY <2>1, <2>2, Bytes4Small
<1>2. /\ bytes[8] = IF f = 8 THEN 255 - b(1) ELSE b(1)
      /\ bytes[9] = IF f = 9 THEN 255 - b(2) ELSE b(2)
      /\ bytes[10] = IF f = 10 THEN 255 - b(3) ELSE b(3)
      /\ bytes[11] = IF f = 11 THEN 255 - b(4) ELSE b(4)
  <2>1. \A i \in 1..4 : bytes[i + 7] = IF f = i + 7 THEN 255 - b(i) ELSE b(i)
    BY DEF Carried
  <2> HIDE DEF b
  <2> QED BY <2>1
<1>3. Size(bytes) < HeaderLength /\ ~(Size(bytes) > MaxPacketLength + HeaderLength)
  BY DEF Deconstruct
<1>4. MaxPacketLength \in Nat
  BY LengthsAssumption
<1> HIDE DEF b, n
<1>5. /\ bytes[8] \in Int /\ bytes[9] \in Int /\ bytes[10] \in Int /\ bytes[11] \in Int
  BY <1>1, <1>2
<1>6. ~(bytes[8] + bytes[9] > 0) /\ 256 * bytes[10] + bytes[11] < 11
  BY <1>3, <1>4, <1>5 DEF Size, HeaderLength
<1> DEFINE b1 == b(1)
           b2 == b(2)
           b3 == b(3)
           b4 == b(4)
<1> HIDE DEF b1, b2, b3, b4
<1>7. /\ b1 = 0 /\ b2 = 0 /\ b3 \in 0..254 /\ b4 \in 0..255
      /\ n = 256 * b3 + b4 /\ n \in Nat /\ 11 <= n
      /\ bytes[8] = IF f = 8 THEN 255 - b1 ELSE b1
      /\ bytes[9] = IF f = 9 THEN 255 - b2 ELSE b2
      /\ bytes[10] = IF f = 10 THEN 255 - b3 ELSE b3
      /\ bytes[11] = IF f = 11 THEN 255 - b4 ELSE b4
  BY <1>1, <1>2 DEF b1, b2, b3, b4
<1>8. f = 11 /\ n \in 245..255
  <2>1. f # 8
    BY <1>6, <1>7
  <2>2. f # 9
    BY <1>6, <1>7
  <2>3. f # 10
    BY <1>6, <1>7
  <2>4. f = 11
    BY <1>6, <1>7, <2>3
  <2>5. b3 = 0 /\ b4 >= 245
    BY <1>6, <1>7, <2>4
  <2> QED BY <1>7, <2>4, <2>5
<1> QED BY <1>8 DEF n, SizeOf, LowSizeByte, HeaderLength

\* What is on the wire has the size of the packet it was made from, but for
\* the byte that was flipped.
MemcpyInv ==
  /\ DOMAIN raw = 1..(MaxPacketLength + HeaderLength)
  /\ wire # <<>> =>
       /\ sent \in PacketFields /\ Len(wire) = SizeOf(sent)
       /\ \A i \in 1..4 : wire[i + 7] = Carried(sent, flipped, i)
  /\ MemcpyInBounds

LEMMA FlipByteSize ==
  ASSUME NEW S, NEW s \in Seq(S), NEW i \in 1..Len(s)
  PROVE  /\ Len(FlipByte(s, i)) = Len(s)
         /\ \A j \in 1..Len(s) : FlipByte(s, i)[j] = IF j = i THEN 255 - s[j] ELSE s[j]
<1> DEFINE u == FlipByte(s, i)
           n == Len(s)
           T == S \cup {255 - s[i]}
<1>1. n \in Nat /\ DOMAIN s = 1..n /\ \A j \in 1..n : s[j] \in S
  OBVIOUS
<1>2. u = [j \in 1..n |-> IF j = i THEN 255 - s[i] ELSE s[j]]
  BY <1>1 DEF FlipByte
<1>3. \A j \in 1..n : (IF j = i THEN 255 - s[i] ELSE s[j]) \in T
  BY <1>1
<1> HIDE DEF u, n, T
<1>4. u \in Seq(T) /\ DOMAIN u = 1..n
  BY <1>1, <1>2, <1>3, IsASeq
<1>5. Len(u) = n
  BY <1>1, <1>4, LenProperties
<1> QED BY <1>2, <1>5 DEF u, n

LEMMA MemcpySend ==
  ASSUME MemcpyInv, NEW p \in PacketFields, SendPacket(p)
  PROVE  MemcpyInv'
<1> DEFINE w == Construct(p)
<1>1. /\ \E S : w \in Seq(S)
      /\ Len(w) = SizeOf(p) /\ \A i \in 1..4 : w[i + 7] = Bytes4(SizeOf(p))[i]
  BY ConstructSize
<1>2. SizeOf(p) = Len(p.payload) + HeaderLength /\ SizeOf(p) \in Nat /\ 11 <= SizeOf(p)
  BY FieldsType, SMT DEF SizeOf, Sizes
<1>3. sent' = p /\ verdict' = "none" /\ UNCHANGED raw
  BY DEF SendPacket
<1> HIDE DEF w
<1>4. Len(wire') = SizeOf(p) /\ \A i \in 1..4 : wire'[i + 7] = Carried(p, flipped', i)
  <2>1. CASE wire' = w /\ flipped' = 0
    <3>1. \A i \in 1..4 : i + 7 # 0
      OBVIOUS
    <3> QED BY <1>1, <2>1, <3>1 DEF Carried
  <2>2. CASE \E i \in 1..SizeOf(p) : wire' = FlipByte(w, i) /\ flipped' = i
    <3>1. PICK k \in 1..SizeOf(p) : wire' = FlipByte(w, k) /\ flipped' = k
      BY <2>2
    <3>2. Len(wire') = SizeOf(p) /\ \A j \in 1..SizeOf(p) : wire'[j] = IF j = k THEN 255 - w[j] ELSE w[j]
      BY <1>1, <3>1, FlipByteSize
    <3>3. \A i \in 1..4 : i + 7 \in 1..SizeOf(p)
      BY <1>2
    <3> QED BY <1>1, <3>1, <3>2, <3>3 DEF Carried
  <2> QED BY <1>2, <2>1, <2>2 DEF SendPacket, w
<1> QED BY <1>3, <1>4 DEF MemcpyInv, MemcpyInBounds

LEMMA MemcpyReceive ==
  ASSUME MemcpyInv, RecvPacket
  PROVE  MemcpyInv'
<1>1. /\ raw' = [i \in DOMAIN raw |-> IF i <= Len(wire) THEN wire[i] ELSE raw[i]]
      /\ verdict' = Deconstruct(raw') /\ wire' = <<>> /\ UNCHANGED <<sent, flipped>>
  BY DEF RecvPacket
<1>2. /\ sent \in PacketFields /\ Len(wire) = SizeOf(sent)
      /\ \A i \in 1..4 : wire[i + 7] = Carried(sent, flipped, i)
  BY DEF RecvPacket, MemcpyInv
<1>3. DOMAIN raw = 1..(MaxPacketLength + HeaderLength) /\ MaxPacketLength \in Nat
  BY LengthsAssumption DEF MemcpyInv
<1>4. SizeOf(sent) \in Nat /\ 11 <= SizeOf(sent)
  BY <1>2, FieldsType, SMT DEF Sizes
<1>5. \A i \in 1..4 : i + 7 \in DOMAIN raw /\ i + 7 <= Len(wire)
  BY <1>2, <1>3, <1>4 DEF HeaderLength
<1>6. \A i \in 1..4 : raw'[i + 7] = Carried(sent, flipped, i)
  BY <1>1, <1>2, <1>5
<1>7. MemcpyInBounds'
  <2> SUFFICES ASSUME verdict' = "crash"
               PROVE  /\ flipped' = LowSizeByte
                      /\ Len(sent'.payload) + HeaderLength \in 245..255
    BY DEF MemcpyInBounds
  <2> DEFINE bytes == raw'
  <2>1. Deconstruct(bytes) = "crash" /\ \A i \in 1..4 : bytes[i + 7] = Carried(sent, flipped, i)
    BY <1>1, <1>6
  <2> HIDE DEF bytes
  <2>2. flipped = LowSizeByte /\ Len(sent.payload) + HeaderLength \in 245..255
    BY <1>2, <2>1, CrashSize
  <2> QED BY <1>1, <2>2
<1> QED BY <1>1, <1>3, <1>7 DEF MemcpyInv

(* Whatever the payloads and the bytes left in the receiver's buffer, the   *)
(* size of a packet makes memcpy() leave its buffers in one case only: the  *)
(* low byte of a size of 245 to 255 was flipped.                            *)
THEOREM MemcpyBounded == PacketSpec => []MemcpyInBounds
<1>1. PacketInit => MemcpyInv
  BY DEF PacketInit, MemcpyInv, MemcpyInBounds
<1>2. MemcpyInv /\ [PacketNext]_packetVars => MemcpyInv'
  <2> SUFFICES ASSUME MemcpyInv, [PacketNext]_packetVars PROVE MemcpyInv'
    OBVIOUS
  <2>1. CASE UNCHANGED packetVars
    BY <2>1 DEF packetVars, MemcpyInv, MemcpyInBounds
  <2> QED BY <2>1, MemcpySend, MemcpyReceive DEF PacketNext
<1>3. MemcpyInv => MemcpyInBounds
  BY DEF MemcpyInv
<1> QED BY <1>1, <1>2, <1>3, PTL DEF PacketSpec

-----------------------------------------------------------------------------
(* The buffers of the packet tracer.                                        *)

\* One of the first n + 1 addresses is free when n are taken.
LEMMA FreshProperty ==
  ASSUME NEW used, IsFiniteSet(used)
  PROVE  Fresh(used) \in 1..(Cardinality(used) + 1) /\ Fresh(used) \notin used
<1> DEFINE n == Cardinality(used)
<1>1. n \in Nat
  BY FS_CardinalityType
<1>2. \E a \in 1..(n + 1) : a \notin used
  <2> SUFFICES ASSUME 1..(n + 1) \subseteq used PROVE FALSE
    OBVIOUS
  <2>1. Cardinality(1..(n + 1)) <= n
    BY FS_Subset
  <2>2. Cardinality(1..(n + 1)) = n + 1
    <3>1. 1 \in Int /\ n + 1 \in Int /\ ~(1 > n + 1) /\ (n + 1) - 1 + 1 = n + 1
      BY <1>1
    <3> HIDE DEF n
    <3> QED BY <3>1, FS_Interval
  <2> HIDE DEF n
  <2> QED BY <1>1, <2>1, <2>2
<1> HIDE DEF n
<1> QED BY <1>2 DEF Fresh, n

\* A buffer that is allocated.
LEMMA FreshAdded ==
  ASSUME NEW used, IsFiniteSet(used), NEW k \in Nat, Cardinality(used) <= k
  PROVE  /\ IsFiniteSet(used \cup {Fresh(used)})
         /\ Cardinality(used \cup {Fresh(used)}) <= k + 1
         /\ Fresh(used) \in 1..(k + 1) /\ Fresh(used) \notin used
<1>1. Cardinality(used) \in Nat
  BY FS_CardinalityType
<1>2. Fresh(used) \in 1..(Cardinality(used) + 1) /\ Fresh(used) \notin used
  BY FreshProperty
<1> DEFINE a == Fresh(used)
<1> HIDE DEF a
<1>3. IsFiniteSet(used \cup {a}) /\ Cardinality(used \cup {a}) = Cardinality(used) + 1
  BY <1>2, FS_AddElement DEF a
<1> QED BY <1>1, <1>2, <1>3 DEF a

Buffer == [at : Nat, bytes : Seq(Byte)]

\* A packet may leave two buffers behind; an IP packet has allocated one so far.
Allowance == IF next = "IP" THEN 2 * count - 1 ELSE 2 * count

TraceInv ==
  /\ count \in Nat /\ count <= MaxFrames /\ next \in Types \cup {"UNDEFINED"}
  /\ frame \in Seq(Byte) /\ pdu \in Buffer /\ psuedo \in Buffer
  /\ {ipVerdict, tcpVerdict} \subseteq Verdicts
  /\ next = "IP" => count >= 1
  /\ IsFiniteSet(live) /\ Cardinality(live) <= Allowance
  /\ \A a \in live : a \in Nat /\ 1 <= a /\ a <= 2 * MaxFrames + 1

LEMMA ByteSlices ==
  ASSUME NEW s \in Seq(Byte), NEW i \in Nat, NEW j \in Int, i >= 1, j <= Len(s)
  PROVE  SubSeq(s, i, j) \in Seq(Byte)
BY SubSeqProperties

LEMMA VerdictType ==
  \A bytes : Verdict(bytes) \in Verdicts /\ Verdict(bytes) # "none"
BY DEF Verdict, Verdicts

LEMMA BytesValues ==
  /\ \A x \in Byte : x \in Int /\ 0 <= x /\ x <= 255
  /\ \A x \in Int : x % 256 \in Byte
BY DEF Byte

LEMMA PsuedoHeaderType ==
  ASSUME NEW bytes \in Seq(Byte), Len(bytes) >= IpMinSize, NEW length \in Int
  PROVE  PsuedoHeader(bytes, length) \in Seq(Byte) /\ Len(PsuedoHeader(bytes, length)) = 12
<1> DEFINE a == SubSeq(bytes, 13, 20)
           b == <<0, bytes[10], (length \div 256) % 256, length % 256>>
<1>1. a \in Seq(Byte) /\ Len(a) = 8
  <2>1. \A i \in 13..20 : bytes[i] \in Byte
    BY DEF IpMinSize
  <2> QED BY <2>1, SubSeqProperties
<1>2. b \in Seq(Byte) /\ Len(b) = 4
  <2>1. \A w, x, y, z \in Byte : <<w, x, y, z>> \in Seq(Byte) /\ Len(<<w, x, y, z>>) = 4
    OBVIOUS
  <2>2. bytes[10] \in Byte
    BY DEF IpMinSize
  <2>3. length \div 256 \in Int /\ 0 \in Byte
    BY DEF Byte
  <2> QED BY <2>1, <2>2, <2>3, BytesValues
<1>3. PsuedoHeader(bytes, length) = a \o b
  BY DEF PsuedoHeader
<1> HIDE DEF a, b
<1>4. a \o b \in Seq(Byte) /\ Len(a \o b) = Len(a) + Len(b)
  BY <1>1, <1>2, ConcatProperties
<1>5. Len(a \o b) = 12
  BY <1>1, <1>2, <1>4
<1> QED BY <1>3, <1>4, <1>5

\* What is undefined changes nothing the invariant is about but next.
LEMMA UndefinedType ==
  ASSUME TraceInv, next # "UNDEFINED", Undefined, UNCHANGED <<frame, count>>
  PROVE  TraceInv'
<1>1. Allowance <= Allowance'
  BY DEF TraceInv, Undefined, Allowance
<1>2. Cardinality(live) \in Nat /\ Allowance \in Int /\ Allowance' \in Int
  BY FS_CardinalityType DEF TraceInv, Undefined, Allowance
<1> QED BY <1>1, <1>2 DEF TraceInv, Undefined

LEMMA EthrType ==
  ASSUME TraceInv, NEW bytes \in Frames, Ethr(bytes)
  PROVE  TraceInv'
<1>1. /\ next \in {"UNKNOWN", "PAYLOAD"} /\ count < MaxFrames /\ count' = count + 1
      /\ frame' = bytes /\ bytes \in Seq(Byte) /\ MaxFrames \in Nat
  BY FramesAssumption, MaxFramesAssumption DEF Ethr
<1>2. /\ IsFiniteSet(live) /\ Cardinality(live) <= 2 * count /\ 2 * count \in Nat /\ count \in Nat
      /\ Cardinality(live) \in Nat
  BY <1>1, FS_CardinalityType DEF TraceInv, Allowance
<1>3. CASE Undefined
  <2>1. Cardinality(live') <= Allowance'
    BY <1>1, <1>2, <1>3 DEF Undefined, Allowance
  <2> QED BY <1>1, <1>2, <1>3, <2>1 DEF TraceInv, Undefined
<1>4. CASE /\ Len(bytes) >= EthernetSize
           /\ pdu' = [at |-> Fresh(live), bytes |-> EthernetData(bytes)]
           /\ live' = live \cup {Fresh(live)}
           /\ next' = EtherType(bytes)
           /\ ipVerdict' = "none" /\ tcpVerdict' = "none"
           /\ UNCHANGED psuedo
  <2>1. /\ IsFiniteSet(live') /\ Cardinality(live') <= 2 * count + 1
        /\ Fresh(live) \in 1..(2 * count + 1)
    BY <1>2, <1>4, FreshAdded
  <2>2. EthernetData(bytes) \in Seq(Byte)
    <3>1. Len(bytes) \in Nat
      BY <1>1
    <3> QED BY <1>1, <3>1, ByteSlices DEF EthernetData, From, EthernetSize
  <2>3. EtherType(bytes) \in {"IP", "ARP", "UNKNOWN"}
    BY DEF EtherType
  <2>4. Cardinality(live') <= Allowance'
    <3>1. Allowance' = IF next' = "IP" THEN 2 * (count + 1) - 1 ELSE 2 * (count + 1)
      BY <1>1 DEF Allowance
    <3>2. Cardinality(live') \in Nat
      BY <2>1, FS_CardinalityType
    <3> QED BY <1>2, <2>1, <3>1, <3>2
  <2>5. \A a \in live' : a \in Nat /\ 1 <= a /\ a <= 2 * MaxFrames + 1
    <3>1. 2 * count + 1 <= 2 * MaxFrames + 1
      BY <1>1, <1>2
    <3>2. Fresh(live) \in Nat /\ 1 <= Fresh(live) /\ Fresh(live) <= 2 * MaxFrames + 1
      BY <1>1, <1>2, <2>1, <3>1
    <3> QED BY <1>4, <3>2 DEF TraceInv
  <2>6. pdu' \in Buffer
    BY <1>2, <1>4, <2>1, <2>2 DEF Buffer
  <2>7. count' \in Nat /\ count' <= MaxFrames /\ count' >= 1
    BY <1>1, <1>2
  <2>8. {ipVerdict', tcpVerdict'} \subseteq Verdicts
    BY <1>4 DEF Verdicts
  <2>9. next' \in Types
    BY <1>4, <2>3 DEF Types
  <2> QED BY <1>1, <1>4, <2>1, <2>4, <2>5, <2>6, <2>7, <2>8, <2>9 DEF TraceInv
<1> QED BY <1>1, <1>3, <1>4 DEF Ethr, EthernetSize

\* What a buffer taken away leaves.
LEMMA LiveRemoved ==
  ASSUME TraceInv, NEW at \in live
  PROVE  /\ IsFiniteSet(live \ {at}) /\ Cardinality(live \ {at}) = Cardinality(live) - 1
         /\ Cardinality(live) \in Nat /\ Cardinality(live \ {at}) \in Nat
BY FS_RemoveElement, FS_CardinalityType DEF TraceInv

LEMMA FreeType ==
  ASSUME TraceInv, NEW type \in {"ARP", "UDP", "ICMP"}, NEW size, FreePdu(type, size)
  PROVE  TraceInv'
<1>1. CASE Undefined
  BY <1>1, UndefinedType DEF FreePdu
<1>2. CASE /\ pdu.at \in live /\ live' = live \ {pdu.at} /\ next' = "PAYLOAD"
           /\ UNCHANGED <<pdu, psuedo, ipVerdict, tcpVerdict>>
  <2>1. /\ IsFiniteSet(live') /\ Cardinality(live') = Cardinality(live) - 1
        /\ Cardinality(live) \in Nat
    BY <1>2, LiveRemoved
  <2>2. Cardinality(live) <= 2 * count /\ count \in Nat /\ Allowance' = 2 * count
    BY <1>2 DEF FreePdu, Allowance, TraceInv
  <2>3. Cardinality(live') <= Allowance'
    BY <2>1, <2>2
  <2> QED BY <1>2, <2>1, <2>3 DEF TraceInv, FreePdu, Types
<1> QED BY <1>1, <1>2 DEF FreePdu

LEMMA IpType ==
  ASSUME TraceInv, Ip
  PROVE  TraceInv'
<1> DEFINE ihl == 4 * (pdu.bytes[1] % 16)
           length == Word(pdu.bytes, 3)
           data == Fresh(IpKeeps)
           header == Fresh(IpKeeps \cup {data})
<1>1. CASE Undefined
  BY <1>1, UndefinedType DEF Ip
<1>2. CASE /\ ~ReadsOutside(pdu.bytes) /\ pdu.at \in live
           /\ pdu' = [at |-> data, bytes |-> SubSeq(pdu.bytes, ihl + 1, length)]
           /\ psuedo' = [at |-> header, bytes |-> PsuedoHeader(pdu.bytes, length - ihl)]
           /\ live' = IpKeeps \cup {data, header}
           /\ ipVerdict' = IpSums(pdu.bytes)
           /\ next' = Protocol(pdu.bytes)
           /\ UNCHANGED tcpVerdict
  <2>1. pdu.bytes \in Seq(Byte) /\ count \in Nat /\ count >= 1 /\ count <= MaxFrames /\ MaxFrames \in Nat
    BY MaxFramesAssumption DEF Ip, TraceInv, Buffer
  <2>2. /\ IsFiniteSet(IpKeeps) /\ Cardinality(IpKeeps) <= 2 * count - 2
        /\ 2 * count - 2 \in Nat /\ IpKeeps \subseteq live
    <3>1. /\ IsFiniteSet(IpKeeps) /\ Cardinality(IpKeeps) = Cardinality(live) - 1
          /\ Cardinality(live) \in Nat
      BY <1>2, LiveRemoved DEF IpKeeps
    <3>2. Cardinality(live) <= 2 * count - 1
      BY DEF Ip, TraceInv, Allowance
    <3> QED BY <2>1, <3>1, <3>2 DEF IpKeeps
  <2>3. /\ IsFiniteSet(IpKeeps \cup {data}) /\ Cardinality(IpKeeps \cup {data}) <= 2 * count - 1
        /\ data \in 1..(2 * count - 1)
    <3>1. /\ IsFiniteSet(IpKeeps \cup {data}) /\ Cardinality(IpKeeps \cup {data}) <= (2 * count - 2) + 1
          /\ data \in 1..((2 * count - 2) + 1)
      BY <2>2, FreshAdded
    <3>2. (2 * count - 2) + 1 = 2 * count - 1
      BY <2>1
    <3> QED BY <3>1, <3>2
  <2> HIDE DEF data
  <2>4. /\ IsFiniteSet((IpKeeps \cup {data}) \cup {header})
        /\ Cardinality((IpKeeps \cup {data}) \cup {header}) <= 2 * count
        /\ header \in 1..(2 * count)
    <3>1. 2 * count - 1 \in Nat /\ (2 * count - 1) + 1 = 2 * count
      BY <2>1
    <3> DEFINE used == IpKeeps \cup {data}
               k == 2 * count - 1
    <3>2. IsFiniteSet(used) /\ Cardinality(used) <= k /\ k \in Nat /\ k + 1 = 2 * count
      BY <2>3, <3>1
    <3> HIDE DEF used, k
    <3>3. /\ IsFiniteSet(used \cup {Fresh(used)}) /\ Cardinality(used \cup {Fresh(used)}) <= k + 1
          /\ Fresh(used) \in 1..(k + 1)
      BY <3>2, FreshAdded
    <3> QED BY <3>2, <3>3 DEF used
  <2> HIDE DEF header
  <2>5. live' = (IpKeeps \cup {data}) \cup {header}
    BY <1>2
  <2>6. ~ReadsOutside(pdu.bytes) /\ Len(pdu.bytes) \in Nat
    BY <1>2, <2>1
  <2>7. ihl \in Nat /\ length \in Int /\ length <= Len(pdu.bytes) /\ Len(pdu.bytes) >= IpMinSize
    <3>1. Len(pdu.bytes) >= IpMinSize /\ ~(length > Len(pdu.bytes))
      BY <2>6 DEF ReadsOutside, IpMinSize
    <3>2. pdu.bytes[1] \in Byte /\ pdu.bytes[3] \in Byte /\ pdu.bytes[4] \in Byte
      BY <2>1, <3>1 DEF IpMinSize
    <3>3. pdu.bytes[1] \in Int /\ pdu.bytes[3] \in Int /\ pdu.bytes[4] \in Int
      BY <3>2, BytesValues
    <3>4. \A x \in Int : 4 * (x % 16) \in Nat
      OBVIOUS
    <3>5. \A x, y \in Int : 256 * x + y \in Int
      OBVIOUS
    <3>6. ihl \in Nat
      BY <3>3, <3>4
    <3>7. length \in Int
      BY <3>3, <3>5 DEF Word
    <3> HIDE DEF length, ihl
    <3> QED BY <2>6, <3>1, <3>6, <3>7
  <2> HIDE DEF ihl, length
  <2>8. SubSeq(pdu.bytes, ihl + 1, length) \in Seq(Byte)
    <3>1. ihl + 1 \in Nat /\ ihl + 1 >= 1
      BY <2>7
    <3> QED BY <2>1, <2>7, <3>1, ByteSlices
  <2>9. PsuedoHeader(pdu.bytes, length - ihl) \in Seq(Byte)
    <3>1. length - ihl \in Int
      BY <2>7
    <3> QED BY <2>1, <2>7, <3>1, PsuedoHeaderType
  <2>10. pdu' \in Buffer /\ psuedo' \in Buffer
    <3>1. data \in Nat /\ header \in Nat
      BY <2>1, <2>3, <2>4
    <3> QED BY <1>2, <2>8, <2>9, <3>1 DEF Buffer
  <2>11. next' \in {"ICMP", "TCP", "UDP", "PAYLOAD"}
    BY <1>2 DEF Protocol
  <2>12. Cardinality(live') <= Allowance'
    <3>1. Allowance' = 2 * count
      BY <2>11 DEF Ip, Allowance
    <3> QED BY <2>4, <2>5, <3>1
  <2>13. \A a \in live' : a \in Nat /\ 1 <= a /\ a <= 2 * MaxFrames + 1
    <3>1. /\ data \in Nat /\ 1 <= data /\ data <= 2 * MaxFrames + 1
          /\ header \in Nat /\ 1 <= header /\ header <= 2 * MaxFrames + 1
      BY <2>1, <2>3, <2>4
    <3> QED BY <2>2, <2>5, <3>1 DEF TraceInv
  <2>14. ipVerdict' \in Verdicts
    BY <1>2, VerdictType DEF IpSums
  <2> QED BY <1>2, <2>4, <2>5, <2>10, <2>11, <2>12, <2>13, <2>14 DEF TraceInv, Ip, Types
<1> QED BY <1>1, <1>2 DEF Ip

LEMMA TcpType ==
  ASSUME TraceInv, Tcp
  PROVE  TraceInv'
<1>1. CASE Undefined
  BY <1>1, UndefinedType DEF Tcp
<1>2. CASE /\ {pdu.at, psuedo.at} \subseteq live /\ pdu.at # psuedo.at
           /\ live' = (live \ {pdu.at, psuedo.at}) \cup {Fresh(live)}
           /\ tcpVerdict' = Verdict(TcpBytes)
           /\ next' = "PAYLOAD"
           /\ UNCHANGED <<pdu, psuedo, ipVerdict>>
  <2> DEFINE a == pdu.at
             b == psuedo.at
             c == Fresh(live)
             left == (live \ {a}) \ {b}
  <2>1. /\ IsFiniteSet(live) /\ Cardinality(live) \in Nat /\ count \in Nat /\ count <= MaxFrames
        /\ Cardinality(live) <= 2 * count /\ Allowance' = 2 * count /\ MaxFrames \in Nat
    BY <1>2, FS_CardinalityType, MaxFramesAssumption DEF TraceInv, Tcp, Allowance
  <2>2. /\ IsFiniteSet(live \ {a}) /\ Cardinality(live \ {a}) = Cardinality(live) - 1
        /\ b \in live \ {a}
    BY <1>2, <2>1, LiveRemoved
  <2>3. IsFiniteSet(left) /\ Cardinality(left) = Cardinality(live \ {a}) - 1
    BY <2>2, FS_RemoveElement
  <2>4. IsFiniteSet(left \cup {c}) /\ Cardinality(left \cup {c}) <= Cardinality(left) + 1
    <3>1. Cardinality(left) \in Nat
      BY <2>3, FS_CardinalityType
    <3> HIDE DEF left, c
    <3>2. /\ IsFiniteSet(left \cup {c})
          /\ Cardinality(left \cup {c}) = IF c \in left THEN Cardinality(left) ELSE Cardinality(left) + 1
      BY <2>3, FS_AddElement
    <3> QED BY <3>1, <3>2
  <2>5. live' = left \cup {c}
    BY <1>2
  <2>6. c \in 1..(2 * count + 1)
    <3>1. 2 * count \in Nat
      BY <2>1
    <3> QED BY <2>1, <3>1, FreshAdded
  <2>7. Cardinality(live') <= Allowance'
    <3>1. Cardinality(live') \in Nat
      BY <2>4, <2>5, FS_CardinalityType
    <3> HIDE DEF left, a, b, c
    <3> QED BY <2>1, <2>2, <2>3, <2>4, <2>5, <3>1
  <2>8. c \in Nat /\ 1 <= c /\ c <= 2 * MaxFrames + 1
    BY <2>1, <2>6
  <2>9. tcpVerdict' \in Verdicts
    BY <1>2, VerdictType
  <2> QED BY <1>2, <2>4, <2>5, <2>7, <2>8, <2>9 DEF TraceInv, Tcp, Types
<1> QED BY <1>1, <1>2 DEF Tcp

LEMMA TraceInvStep ==
  TraceInv /\ [TraceNext]_traceVars => TraceInv'
<1> SUFFICES ASSUME TraceInv, [TraceNext]_traceVars PROVE TraceInv'
  OBVIOUS
<1>1. CASE UNCHANGED traceVars
  BY <1>1 DEF traceVars, TraceInv, Allowance
<1>2. CASE Arp \/ Udp \/ Icmp
  BY <1>2, FreeType DEF Arp, Udp, Icmp
<1> QED BY <1>1, <1>2, EthrType, IpType, TcpType DEF TraceNext

LEMMA TraceInvInit == TraceInit => TraceInv
BY FS_EmptySet, MaxFramesAssumption
   DEF TraceInit, TraceInv, Allowance, Buffer, Types, Verdicts

LEMMA TraceInvTypes == TraceInv => TraceTypeOK /\ BuffersBounded
<1> SUFFICES ASSUME TraceInv PROVE TraceTypeOK /\ BuffersBounded
  OBVIOUS
<1>1. count \in 0..MaxFrames /\ live \subseteq 1..(2 * MaxFrames + 1)
  BY MaxFramesAssumption DEF TraceInv
<1>2. \A buffer \in {pdu, psuedo} :
        buffer.at \in Nat /\ \A i \in DOMAIN buffer.bytes : buffer.bytes[i] \in Byte
  BY DEF TraceInv, Buffer
<1>3. BuffersBounded
  BY FS_CardinalityType DEF TraceInv, Allowance, BuffersBounded
<1> QED BY <1>1, <1>2, <1>3 DEF TraceInv, TraceTypeOK

(* Whatever is captured, the buffers of the tracer have the types of the    *)
(* code: pcap's frame may be cut off or damaged anywhere.                   *)
THEOREM TraceTypeCorrect == TraceSpec => []TraceTypeOK
BY TraceInvInit, TraceInvStep, TraceInvTypes, PTL DEF TraceSpec

(* What main() forgets to free is at most two buffers for each packet.      *)
THEOREM BuffersFreed == TraceSpec => []BuffersBounded
BY TraceInvInit, TraceInvStep, TraceInvTypes, PTL DEF TraceSpec

-----------------------------------------------------------------------------
(* What the tracer holds is what the standards say of the frame it read.    *)

IsIp == Len(frame) >= EthernetSize /\ Word(frame, 13) = 2048

\* The bytes tcp_checksum() sums up, in terms of the frame.
Summed ==
  SubSeq(PsuedoHeader(IpPart, Word(IpPart, 3) - Ihl), 1, 11) \o <<Len(Segment) % 256>> \o Segment

\* The header that is to be taken off next.
HeaderInv ==
  /\ next = "IP" => pdu.at \in live /\ IsIp /\ pdu.bytes = IpPart
  /\ next = "ARP" => pdu.at \in live /\ Word(frame, 13) = 2054 /\ pdu.bytes = IpPart
  /\ next \in {"TCP", "UDP", "ICMP"} =>
       /\ IsIp /\ ~ReadsOutside(IpPart) /\ next = Protocol(IpPart) /\ pdu.bytes = Segment
       /\ pdu.at \in live /\ psuedo.at \in live /\ pdu.at # psuedo.at
       /\ psuedo.bytes = PsuedoHeader(IpPart, Word(IpPart, 3) - Ihl)

\* The checksums that have been printed.
SumsInv ==
  Len(frame) >= EthernetSize =>
    /\ ipVerdict # "none" => ~ReadsOutside(IpPart) /\ ipVerdict = IpSums(IpPart)
    /\ tcpVerdict # "none" =>
         ~ReadsOutside(IpPart) /\ Protocol(IpPart) = "TCP" /\ tcpVerdict = Verdict(Summed)

FrameInv == HeaderInv /\ SumsInv /\ DefinedOnComplete

LEMMA FrameUnchanged ==
  UNCHANGED frame => /\ UNCHANGED <<IpPart, Ihl, Segment, IsIp, Summed, IsComplete, IsShortUdp>>
BY DEF IpPart, Ihl, Segment, IsIp, Summed, IsComplete, IsShortUdp

LEMMA ProtocolCases ==
  ASSUME NEW bytes
  PROVE  /\ Protocol(bytes) = "TCP" => bytes[10] = 6
         /\ Protocol(bytes) = "UDP" => bytes[10] = 17
         /\ Protocol(bytes) = "ICMP" => bytes[10] = 1
         /\ Protocol(bytes) \in {"TCP", "UDP", "ICMP", "PAYLOAD"}
BY DEF Protocol

\* The lengths IsComplete asks for, by what is in the frame.
LEMMA CompleteLengths ==
  ASSUME TraceInv, IsComplete
  PROVE  /\ Len(frame) >= EthernetSize
         /\ Word(frame, 13) = 2054 => Len(IpPart) >= ArpMinSize
         /\ IsIp => /\ ~ReadsOutside(IpPart)
                    /\ IpPart[10] = 6 => Len(Segment) >= TcpRead
                    /\ IpPart[10] = 1 => Len(Segment) >= 1
                    /\ IpPart[10] = 17 /\ Len(Segment) < UdpMinSize => IsShortUdp
<1>1. frame \in Seq(Byte) /\ Len(frame) \in Nat
  BY DEF TraceInv
<1>2. Len(frame) >= EthernetSize
  BY DEF IsComplete, EthernetSize
<1>3. IpPart \in Seq(Byte) /\ Len(IpPart) = Len(frame) - 14 /\ Len(IpPart) \in Nat
  <2>1. \A i \in 15..Len(frame) : frame[i] \in Byte
    BY <1>1
  <2>2. /\ SubSeq(frame, 15, Len(frame)) \in Seq(Byte)
        /\ Len(SubSeq(frame, 15, Len(frame))) = IF 15 <= Len(frame) THEN Len(frame) - 15 + 1 ELSE 0
    BY <1>1, <2>1, SubSeqProperties
  <2>3. IpPart = SubSeq(frame, 15, Len(frame))
    BY DEF IpPart, From
  <2>4. Len(frame) >= 14
    BY <1>2 DEF EthernetSize
  <2>5. (IF 15 <= Len(frame) THEN Len(frame) - 15 + 1 ELSE 0) = Len(frame) - 14
    <3> DEFINE n == Len(frame)
    <3>1. n \in Int /\ n >= 14
      BY <1>1, <2>4
    <3> HIDE DEF n
    <3>2. (IF 15 <= n THEN n - 15 + 1 ELSE 0) = n - 14
      BY <3>1
    <3> QED BY <3>2 DEF n
  <2> QED BY <1>1, <2>2, <2>3, <2>4, <2>5
<1>4. Word(frame, 13) = 2054 => Len(IpPart) >= ArpMinSize
  BY <1>1, <1>3 DEF IsComplete, ArpMinSize
<1>5. ASSUME IsIp
      PROVE  /\ Len(IpPart) >= 20 /\ 20 <= Ihl /\ Ihl <= Word(IpPart, 3) /\ Word(IpPart, 3) <= Len(IpPart)
             /\ IpPart[10] = 6 => Len(Segment) >= 20
             /\ IpPart[10] = 1 => Len(Segment) >= 8
  BY <1>5 DEF IsComplete, IsIp
<1>6. ASSUME IsIp
      PROVE  ~ReadsOutside(IpPart)
  <2> DEFINE n == Word(IpPart, 3)
             x == IpPart[1]
  <2>1. x \in Int /\ n \in Int
    <3>1. IpPart[1] \in Byte /\ IpPart[3] \in Byte /\ IpPart[4] \in Byte
      BY <1>3, <1>5, <1>6
    <3> QED BY <3>1, BytesValues DEF Word
  <2>2. Ihl = 4 * (x % 16) /\ Len(IpPart) >= 20 /\ Ihl <= n /\ n <= Len(IpPart)
    BY <1>5, <1>6 DEF Ihl
  <2>3. 4 * (x % 16) \in Int
    BY <2>1
  <2> SUFFICES ~(Len(IpPart) < 20) /\ ~(n < 4 * (x % 16)) /\ ~(n > Len(IpPart))
    BY DEF ReadsOutside, IpMinSize
  <2> HIDE DEF n, x
  <2> QED BY <1>3, <2>1, <2>2, <2>3
<1>7. ASSUME IsIp, IpPart[10] = 17, Len(Segment) < UdpMinSize
      PROVE  IsShortUdp
  BY <1>7 DEF IsShortUdp, IsIp, UdpMinSize
<1>8. ASSUME IsIp
      PROVE  /\ IpPart[10] = 6 => Len(Segment) >= TcpRead
             /\ IpPart[10] = 1 => Len(Segment) >= 1
  <2>1. \A n : n >= 20 /\ n \in Int => n >= 18
    OBVIOUS
  <2>2. \A n : n >= 8 /\ n \in Int => n >= 1
    OBVIOUS
  <2>3. Len(Segment) \in Int
    OBVIOUS
  <2> QED BY <1>5, <1>8, <2>1, <2>2, <2>3 DEF TcpRead
<1> QED BY <1>2, <1>4, <1>6, <1>7, <1>8

LEMMA EthrFrame ==
  ASSUME TraceInv, FrameInv, NEW bytes \in Frames, Ethr(bytes)
  PROVE  FrameInv'
<1>1. frame' = bytes /\ Len(bytes) \in Nat
  BY FramesAssumption DEF Ethr
<1>2. CASE Len(bytes) < EthernetSize
  <2>1. next' = "UNDEFINED" /\ ~(Len(frame') >= EthernetSize)
    BY <1>1, <1>2 DEF Ethr, Undefined, EthernetSize
  <2>2. ~IsComplete'
    BY <2>1 DEF IsComplete, EthernetSize
  <2> QED BY <2>1, <2>2 DEF FrameInv, HeaderInv, SumsInv, DefinedOnComplete
<1>3. CASE ~(Len(bytes) < EthernetSize)
  <2>1. /\ pdu'.at \in live' /\ pdu'.bytes = EthernetData(bytes) /\ next' = EtherType(bytes)
        /\ ipVerdict' = "none" /\ tcpVerdict' = "none"
    BY <1>3 DEF Ethr
  <2>2. /\ next' = "IP" => Word(frame', 13) = 2048
        /\ next' = "ARP" => Word(frame', 13) = 2054
        /\ next' \in {"IP", "ARP", "UNKNOWN"}
    BY <1>1, <2>1 DEF EtherType
  <2>3. IpPart' = EthernetData(bytes)
    BY <1>1 DEF IpPart, EthernetData, EthernetSize
  <2>4. Len(frame') >= EthernetSize
    BY <1>1, <1>3 DEF EthernetSize
  <2> QED BY <2>1, <2>2, <2>3, <2>4 DEF FrameInv, HeaderInv, SumsInv, DefinedOnComplete, IsIp
<1> QED BY <1>2, <1>3

\* A header that is there, or is not, is taken off.
LEMMA IpFrame ==
  ASSUME TraceInv, FrameInv, Ip
  PROVE  FrameInv'
<1>1. next = "IP" /\ pdu.at \in live /\ IsIp /\ pdu.bytes = IpPart /\ UNCHANGED frame
  BY DEF Ip, FrameInv, HeaderInv
<1>2. UNCHANGED <<IpPart, Ihl, Segment, IsIp, Summed, IsComplete, IsShortUdp>>
  BY <1>1, FrameUnchanged
<1>3. CASE ReadsOutside(IpPart)
  <2>1. next' = "UNDEFINED" /\ UNCHANGED <<ipVerdict, tcpVerdict>>
    BY <1>1, <1>3 DEF Ip, Undefined
  <2>2. ~IsComplete
    BY <1>1, <1>3, CompleteLengths
  <2> QED BY <1>1, <1>2, <2>1, <2>2 DEF FrameInv, HeaderInv, SumsInv, DefinedOnComplete
<1>4. CASE ~ReadsOutside(IpPart)
  <2> DEFINE data == Fresh(IpKeeps)
             header == Fresh(IpKeeps \cup {data})
  <2>1. /\ pdu' = [at |-> data, bytes |-> Segment]
        /\ psuedo' = [at |-> header, bytes |-> PsuedoHeader(IpPart, Word(IpPart, 3) - Ihl)]
        /\ live' = IpKeeps \cup {data, header}
        /\ ipVerdict' = IpSums(IpPart) /\ next' = Protocol(IpPart) /\ UNCHANGED tcpVerdict
    BY <1>1, <1>4 DEF Ip, Segment, Ihl
  <2>2. data # header
    <3>1. IsFiniteSet(IpKeeps)
      BY <1>1, LiveRemoved DEF IpKeeps
    <3>2. IsFiniteSet(IpKeeps \cup {data})
      BY <3>1, FS_AddElement
    <3> QED BY <3>2, FreshProperty
  <2> HIDE DEF data, header
  <2>3. HeaderInv'
    BY <1>1, <1>2, <1>4, <2>1, <2>2, ProtocolCases DEF HeaderInv
  <2>4. SumsInv'
    BY <1>1, <1>2, <1>4, <2>1 DEF SumsInv, FrameInv
  <2>5. DefinedOnComplete'
    BY <2>1, ProtocolCases DEF DefinedOnComplete
  <2> QED BY <2>3, <2>4, <2>5 DEF FrameInv
<1> QED BY <1>3, <1>4

LEMMA LastFrame ==
  ASSUME TraceInv, FrameInv, Arp \/ Udp \/ Icmp \/ Tcp
  PROVE  FrameInv'
<1>1. UNCHANGED frame /\ next' \in {"UNDEFINED", "PAYLOAD"} /\ UNCHANGED ipVerdict
  BY DEF Arp, Udp, Icmp, Tcp, FreePdu, Undefined
<1>2. UNCHANGED <<IpPart, Ihl, Segment, IsIp, Summed, IsComplete, IsShortUdp>>
  BY <1>1, FrameUnchanged
<1>3. HeaderInv'
  BY <1>1 DEF HeaderInv
<1>4. SumsInv'
  <2>1. CASE UNCHANGED tcpVerdict
    BY <1>1, <1>2, <2>1 DEF SumsInv, FrameInv
  <2>2. CASE Tcp /\ tcpVerdict' = Verdict(TcpBytes)
    <3>1. /\ ~ReadsOutside(IpPart) /\ Protocol(IpPart) = "TCP" /\ pdu.bytes = Segment
          /\ psuedo.bytes = PsuedoHeader(IpPart, Word(IpPart, 3) - Ihl)
      BY <2>2 DEF Tcp, FrameInv, HeaderInv
    <3>2. TcpBytes = Summed
      BY <3>1 DEF TcpBytes, Summed
    <3> QED BY <1>1, <1>2, <2>2, <3>1, <3>2 DEF SumsInv, FrameInv
  <2> QED BY <2>1, <2>2 DEF Arp, Udp, Icmp, Tcp, FreePdu, Undefined
<1>5. DefinedOnComplete'
  <2> SUFFICES ASSUME next' = "UNDEFINED", IsComplete PROVE IsShortUdp
    BY <1>2 DEF DefinedOnComplete
  <2>1. Len(pdu.bytes) \in Nat
    BY DEF TraceInv, Buffer
  <2>2. CASE Arp
    <3>1. pdu.bytes = IpPart /\ Word(frame, 13) = 2054 /\ pdu.at \in live
      BY <2>2 DEF Arp, FreePdu, FrameInv, HeaderInv
    <3>2. Len(pdu.bytes) < ArpMinSize
      BY <2>2, <3>1 DEF Arp, FreePdu
    <3> QED BY <2>1, <3>1, <3>2, CompleteLengths DEF ArpMinSize
  <2>3. ASSUME next \in {"UDP", "ICMP", "TCP"}
        PROVE  /\ IsIp /\ pdu.bytes = Segment /\ next = Protocol(IpPart)
               /\ pdu.at \in live /\ psuedo.at \in live /\ pdu.at # psuedo.at
    BY <2>3 DEF FrameInv, HeaderInv
  <2>4. CASE Udp
    <3>1. Len(Segment) < UdpMinSize /\ IsIp /\ IpPart[10] = 17
      BY <2>3, <2>4, ProtocolCases DEF Udp, FreePdu
    <3> QED BY <3>1, CompleteLengths
  <2>5. CASE Icmp
    <3>1. Len(Segment) < 1 /\ IsIp /\ IpPart[10] = 1
      BY <2>3, <2>5, ProtocolCases DEF Icmp, FreePdu
    <3>2. Len(Segment) >= 1 /\ Len(Segment) \in Nat
      BY <2>1, <2>3, <2>5, <3>1, CompleteLengths DEF Icmp, FreePdu
    <3> QED BY <3>1, <3>2
  <2>6. CASE Tcp
    <3>1. Len(Segment) < TcpRead /\ IsIp /\ IpPart[10] = 6
      BY <2>3, <2>6, ProtocolCases DEF Tcp
    <3>2. Len(Segment) >= TcpRead /\ Len(Segment) \in Nat
      BY <2>1, <2>3, <2>6, <3>1, CompleteLengths DEF Tcp
    <3> QED BY <3>1, <3>2 DEF TcpRead
  <2> QED BY <2>2, <2>4, <2>5, <2>6
<1> QED BY <1>3, <1>4, <1>5 DEF FrameInv

LEMMA FrameInvStep ==
  TraceInv /\ FrameInv /\ [TraceNext]_traceVars => FrameInv'
<1> SUFFICES ASSUME TraceInv, FrameInv, [TraceNext]_traceVars PROVE FrameInv'
  OBVIOUS
<1>1. CASE UNCHANGED traceVars
  <2>1. UNCHANGED <<IpPart, Ihl, Segment, IsIp, Summed, IsComplete, IsShortUdp>>
    BY <1>1, FrameUnchanged DEF traceVars
  <2> QED BY <1>1, <2>1 DEF traceVars, FrameInv, HeaderInv, SumsInv, DefinedOnComplete
<1> QED BY <1>1, EthrFrame, IpFrame, LastFrame DEF TraceNext

LEMMA FrameInvInit == TraceInit => FrameInv
BY DEF TraceInit, FrameInv, HeaderInv, SumsInv, DefinedOnComplete

(* A frame that is complete makes the tracer do nothing undefined, but for  *)
(* the UDP datagrams udp_init() takes to be too short.                      *)
THEOREM TraceDefined == TraceSpec => []DefinedOnComplete
<1>1. FrameInv => DefinedOnComplete
  BY DEF FrameInv
<1> QED BY <1>1, TraceInvInit, TraceInvStep, FrameInvInit, FrameInvStep, PTL DEF TraceSpec

-----------------------------------------------------------------------------
(* The verdicts on the checksums.                                           *)

\* An IP packet that is all there, and the lengths in its header.
LEMMA IpLengths ==
  ASSUME TraceInv, Len(frame) >= EthernetSize, ~ReadsOutside(IpPart)
  PROVE  /\ IpPart \in Seq(Byte) /\ Len(IpPart) \in Nat /\ Len(IpPart) >= 20
         /\ Ihl \in Nat /\ Ihl <= 60 /\ Word(IpPart, 3) \in Nat /\ Word(IpPart, 3) < 65536
         /\ Ihl <= Word(IpPart, 3) /\ Word(IpPart, 3) <= Len(IpPart)
         /\ Segment \in Seq(Byte) /\ Len(Segment) = Word(IpPart, 3) - Ihl
<1>1. frame \in Seq(Byte) /\ Len(frame) \in Nat
  BY DEF TraceInv
<1>2. IpPart \in Seq(Byte)
  BY <1>1, ByteSlices DEF IpPart, From
<1>3. Len(IpPart) \in Nat /\ Len(IpPart) >= 20 /\ ~(Word(IpPart, 3) < Ihl) /\ ~(Word(IpPart, 3) > Len(IpPart))
  BY <1>2 DEF ReadsOutside, IpMinSize, Ihl
<1>4. IpPart[1] \in Int /\ 0 <= IpPart[1]
  BY <1>2, <1>3, BytesValues
<1>5. Ihl \in Nat /\ Ihl <= 60
  <2>1. \A x \in Int : 4 * (x % 16) \in Nat /\ 4 * (x % 16) <= 60
    OBVIOUS
  <2> QED BY <1>4, <2>1 DEF Ihl
<1>6. Word(IpPart, 3) \in Nat /\ Word(IpPart, 3) < 65536
  <2>1. IpPart[3] \in Byte /\ IpPart[4] \in Byte
    BY <1>2, <1>3
  <2>2. \A x, y \in Int : 0 <= x /\ x <= 255 /\ 0 <= y /\ y <= 255 =>
          256 * x + y \in Nat /\ 256 * x + y < 65536
    BY SMT
  <2>3. /\ IpPart[3] \in Int /\ 0 <= IpPart[3] /\ IpPart[3] <= 255
        /\ IpPart[4] \in Int /\ 0 <= IpPart[4] /\ IpPart[4] <= 255
    BY <2>1, BytesValues
  <2>4. Word(IpPart, 3) = 256 * IpPart[3] + IpPart[4]
    BY DEF Word
  <2> QED BY <2>2, <2>3, <2>4, SMT
<1> DEFINE n == Word(IpPart, 3)
<1>7. n \in Nat /\ Ihl <= n /\ n <= Len(IpPart)
  BY <1>3, <1>5, <1>6, SMT
<1>8. Segment = SubSeq(IpPart, Ihl + 1, n)
  BY DEF Segment
<1> HIDE DEF n
<1>9. Segment \in Seq(Byte) /\ Len(Segment) = n - Ihl
  <2> DEFINE m == Ihl + 1
  <2>1. m \in Nat /\ m >= 1 /\ m = Ihl + 1
    BY <1>5
  <2> HIDE DEF m
  <2>2. \A i \in m..n : IpPart[i] \in Byte
    BY <1>2, <1>3, <1>7, <2>1
  <2>3. /\ SubSeq(IpPart, m, n) \in Seq(Byte)
        /\ Len(SubSeq(IpPart, m, n)) = IF m <= n THEN n - m + 1 ELSE 0
    BY <1>7, <2>1, <2>2, SubSeqProperties
  <2>4. (IF m <= n THEN n - m + 1 ELSE 0) = n - Ihl
    BY <1>5, <1>7, <2>1
  <2> QED BY <1>8, <2>1, <2>3, <2>4 DEF m
<1> QED BY <1>2, <1>3, <1>5, <1>6, <1>7, <1>9 DEF n

LEMMA VerdictRight ==
  ASSUME NEW bytes \in Seq(Byte), Summable(bytes)
  PROVE  Verdict(bytes) = "Correct" <=> IsValidSum(bytes)
<1>1. InCksum(bytes) = 0 <=> IsValidSum(bytes)
  BY InCksumCorrect
<1>2. Verdict(bytes) = "Correct" <=> InCksum(bytes) = 0
  BY DEF Verdict
<1> QED BY <1>1, <1>2

\* The bytes of the pseudo header the standard asks for.
PsuedoBytes(bytes, n) == SubSeq(bytes, 13, 20) \o <<0, 6, n \div 256, n % 256>>

LEMMA AppendedAt ==
  ASSUME NEW s \in Seq(Byte), NEW t \in Seq(Byte), NEW i \in 1..Len(t)
  PROVE  (s \o t)[Len(s) + i] = t[i]
<1>1. Len(s) \in Nat /\ Len(t) \in Nat
  OBVIOUS
<1>2. \A k \in 1..(Len(s) + Len(t)) : (s \o t)[k] = IF k <= Len(s) THEN s[k] ELSE t[k - Len(s)]
  BY ConcatProperties
<1>3. Len(s) + i \in 1..(Len(s) + Len(t)) /\ ~(Len(s) + i <= Len(s)) /\ (Len(s) + i) - Len(s) = i
  BY <1>1
<1> QED BY <1>2, <1>3

LEMMA LastByte ==
  ASSUME NEW n \in Nat, NEW s \in Seq(Byte), Len(s) = n + 1
  PROVE  SubSeq(s, 1, n) \o <<s[n + 1]>> = s
<1> DEFINE a == SubSeq(s, 1, n)
           b == <<s[n + 1]>>
<1>1. \A i \in 1..(n + 1) : s[i] \in Byte
  BY ElementOfSeq
<1>2. a \in Seq(Byte) /\ Len(a) = n /\ \A i \in 1..n : a[i] = s[i]
  <2>1. \A i \in 1..n : s[i] \in Byte
    BY <1>1
  <2>2. /\ a \in Seq(Byte) /\ Len(a) = (IF 1 <= n THEN n - 1 + 1 ELSE 0)
        /\ \A i \in 1..(n - 1 + 1) : a[i] = s[1 + i - 1]
    BY <2>1, SubSeqProperties
  <2> HIDE DEF a
  <2> QED BY <2>2
<1>3. b \in Seq(Byte) /\ Len(b) = 1 /\ b[1] = s[n + 1]
  BY <1>1
<1> HIDE DEF a, b
<1>4. /\ a \o b \in Seq(Byte) /\ Len(a \o b) = n + 1
      /\ \A i \in 1..(n + 1) : (a \o b)[i] = IF i <= n THEN a[i] ELSE b[i - n]
  <2>1. /\ a \o b \in Seq(Byte) /\ Len(a \o b) = Len(a) + Len(b)
        /\ \A i \in 1..(Len(a) + Len(b)) : (a \o b)[i] = IF i <= Len(a) THEN a[i] ELSE b[i - Len(a)]
    BY <1>2, <1>3, ConcatProperties
  <2> QED BY <1>2, <1>3, <2>1
<1>5. \A i \in 1..(n + 1) : (a \o b)[i] = s[i]
  <2> SUFFICES ASSUME NEW i \in 1..(n + 1) PROVE (a \o b)[i] = s[i]
    OBVIOUS
  <2>1. CASE i <= n
    BY <1>2, <1>4, <2>1
  <2>2. CASE i = n + 1
    <3>1. ~(i <= n) /\ i - n = 1
      BY <2>2
    <3> QED BY <1>3, <1>4, <2>2, <3>1
  <2>3. i <= n \/ i = n + 1
    OBVIOUS
  <2> QED BY <2>1, <2>2, <2>3
<1>6. a \o b = s
  BY <1>4, <1>5, SeqEqual
<1> QED BY <1>6 DEF a, b

\* tcp_init() sets the byte of the pseudo header that it had already.
LEMMA PsuedoHeaderRight ==
  ASSUME NEW bytes \in Seq(Byte), Len(bytes) >= IpMinSize, bytes[10] = 6,
         NEW n \in Nat, (n \div 256) % 256 = n \div 256
  PROVE  /\ SubSeq(PsuedoHeader(bytes, n), 1, 11) \o <<n % 256>> = PsuedoBytes(bytes, n)
         /\ PsuedoBytes(bytes, n) \in Seq(Byte) /\ Len(PsuedoBytes(bytes, n)) = 12
<1> DEFINE h == PsuedoHeader(bytes, n)
           a == SubSeq(bytes, 13, 20)
           b == <<0, bytes[10], (n \div 256) % 256, n % 256>>
<1>1. h = PsuedoBytes(bytes, n)
  BY DEF PsuedoBytes, PsuedoHeader
<1>2. h \in Seq(Byte) /\ Len(h) = 12
  BY PsuedoHeaderType
<1>3. h[12] = n % 256
  <2>1. a \in Seq(Byte) /\ Len(a) = 8
    <3>1. \A i \in 13..20 : bytes[i] \in Byte
      BY DEF IpMinSize
    <3> QED BY <3>1, SubSeqProperties
  <2>2. b \in Seq(Byte) /\ Len(b) = 4 /\ b[4] = n % 256
    <3>1. \A p, q, r, s \in Byte :
            <<p, q, r, s>> \in Seq(Byte) /\ Len(<<p, q, r, s>>) = 4 /\ <<p, q, r, s>>[4] = s
      OBVIOUS
    <3>2. bytes[10] \in Byte
      BY DEF IpMinSize
    <3>3. 0 \in Byte /\ n \div 256 \in Int
      BY DEF Byte
    <3> QED BY <3>1, <3>2, <3>3, BytesValues
  <2>3. h = a \o b
    BY DEF PsuedoHeader
  <2> HIDE DEF a, b, h
  <2>4. 4 \in 1..Len(b) /\ Len(a) + 4 = 12
    BY <2>1, <2>2
  <2>5. (a \o b)[Len(a) + 4] = b[4]
    BY <2>1, <2>2, <2>4, AppendedAt
  <2> QED BY <2>2, <2>3, <2>4, <2>5
<1> HIDE DEF h, a, b
<1>4. SubSeq(h, 1, 11) \o <<h[12]>> = h
  <2>1. 11 \in Nat /\ 11 + 1 = 12 /\ Len(h) = 11 + 1
    BY <1>2
  <2>2. SubSeq(h, 1, 11) \o <<h[11 + 1]>> = h
    BY <1>2, <2>1, LastByte
  <2> QED BY <2>1, <2>2
<1> QED BY <1>1, <1>2, <1>3, <1>4 DEF h

LEMMA WordHalves ==
  ASSUME NEW n \in Nat, n < 65536
  PROVE  (n \div 256) % 256 = n \div 256
<1>1. n \div 256 \in Int /\ 0 <= n \div 256 /\ n \div 256 <= 255
  BY SMT
<1> QED BY <1>1, SMT

\* The two verdicts on a frame that is complete.
LEMMA IpVerdictRight ==
  ASSUME TraceInv, FrameInv, IsComplete, ipVerdict # "none"
  PROVE  ipVerdict = "Correct" <=> IsValidSum(SubSeq(IpPart, 1, Ihl))
<1>1. Len(frame) >= EthernetSize /\ ~ReadsOutside(IpPart) /\ ipVerdict = IpSums(IpPart)
  BY CompleteLengths DEF FrameInv, SumsInv
<1>2. /\ IpPart \in Seq(Byte) /\ Len(IpPart) \in Nat /\ Ihl \in Nat /\ Ihl <= 60
      /\ Ihl <= Len(IpPart)
  <2>1. /\ IpPart \in Seq(Byte) /\ Len(IpPart) \in Nat /\ Ihl \in Nat /\ Ihl <= 60
        /\ Ihl <= Word(IpPart, 3) /\ Word(IpPart, 3) <= Len(IpPart) /\ Word(IpPart, 3) \in Nat
    BY <1>1, IpLengths
  <2> QED BY <2>1
<1> DEFINE header == SubSeq(IpPart, 1, Ihl)
<1>3. header \in Seq(Byte) /\ Len(header) = Ihl
  <2>1. \A i \in 1..Ihl : IpPart[i] \in Byte
    BY <1>2
  <2>2. header \in Seq(Byte) /\ Len(header) = (IF 1 <= Ihl THEN Ihl - 1 + 1 ELSE 0)
    BY <1>2, <2>1, SubSeqProperties
  <2> QED BY <1>2, <2>2
<1>4. Summable(header)
  BY <1>2, <1>3, SMT DEF Summable
<1>5. ipVerdict = Verdict(header)
  BY <1>1 DEF IpSums, Ihl
<1> HIDE DEF header
<1>6. ipVerdict = "Correct" <=> IsValidSum(header)
  BY <1>3, <1>4, <1>5, VerdictRight
<1> QED BY <1>6 DEF header

LEMMA TcpVerdictRight ==
  ASSUME TraceInv, FrameInv, IsComplete, tcpVerdict # "none"
  PROVE  tcpVerdict = "Correct" <=> IsValidSum(PsuedoBytes(IpPart, Len(Segment)) \o Segment)
<1>1. /\ Len(frame) >= EthernetSize /\ ~ReadsOutside(IpPart)
      /\ Protocol(IpPart) = "TCP" /\ tcpVerdict = Verdict(Summed)
  BY CompleteLengths DEF FrameInv, SumsInv
<1> DEFINE n == Len(Segment)
           header == PsuedoBytes(IpPart, n)
<1>2. /\ IpPart \in Seq(Byte) /\ Len(IpPart) >= IpMinSize /\ Segment \in Seq(Byte)
      /\ n \in Nat /\ n = Word(IpPart, 3) - Ihl /\ n < 65536
  <2>1. /\ IpPart \in Seq(Byte) /\ Len(IpPart) >= 20 /\ Segment \in Seq(Byte)
        /\ n = Word(IpPart, 3) - Ihl
        /\ Ihl \in Nat /\ Word(IpPart, 3) \in Nat /\ Word(IpPart, 3) < 65536
    BY <1>1, IpLengths
  <2>2. n \in Nat
    BY <2>1
  <2>3. n < 65536
    <3> HIDE DEF n
    <3> QED BY <2>1, SMT
  <2> HIDE DEF n
  <2> QED BY <2>1, <2>2, <2>3 DEF IpMinSize
<1>3. IpPart[10] = 6
  BY <1>1, ProtocolCases
<1>4. Summed = SubSeq(PsuedoHeader(IpPart, n), 1, 11) \o <<n % 256>> \o Segment
  BY <1>2 DEF Summed
<1> HIDE DEF n
<1>5. (n \div 256) % 256 = n \div 256
  BY <1>2, WordHalves
<1>6. /\ SubSeq(PsuedoHeader(IpPart, n), 1, 11) \o <<n % 256>> = header
      /\ header \in Seq(Byte) /\ Len(header) = 12
  BY <1>2, <1>3, <1>5, PsuedoHeaderRight, SMTT(30)
<1>7. Summed = header \o Segment
  BY <1>4, <1>6
<1> HIDE DEF header
<1>8. header \o Segment \in Seq(Byte) /\ Len(header \o Segment) = 12 + n
  <2>1. /\ header \o Segment \in Seq(Byte)
        /\ Len(header \o Segment) = Len(header) + Len(Segment)
    <3>1. header \in Seq(Byte) /\ Segment \in Seq(Byte)
      BY <1>2, <1>6
    <3> QED BY <3>1, ConcatProperties
  <2> QED BY <1>6, <2>1 DEF n
<1>9. Summable(header \o Segment)
  BY <1>2, <1>8, SMT DEF Summable
<1>10. tcpVerdict = "Correct" <=> IsValidSum(header \o Segment)
  BY <1>1, <1>7, <1>8, <1>9, VerdictRight
<1> QED BY <1>10 DEF header, n

(* What the tracer says of the checksums of a complete frame is what the    *)
(* definition of RFC 1071 says, for any frames: of any length, with options *)
(* in the IP header, an odd segment, or padding behind the datagram.        *)
THEOREM VerdictsCorrect == TraceSpec => []VerdictsAreRight
<1>1. TraceInv /\ FrameInv => VerdictsAreRight
  BY IpVerdictRight, TcpVerdictRight DEF VerdictsAreRight, PsuedoBytes
<1> QED BY <1>1, TraceInvInit, TraceInvStep, FrameInvInit, FrameInvStep, PTL DEF TraceSpec

-----------------------------------------------------------------------------
(* A packet of the remote copy on the wire, and what its checksum finds.    *)

\* The bytes construct() takes the checksum over.
Plain(p) == Bytes4(p.seq) \o <<0, 0, p.flag>> \o Bytes4(SizeOf(p)) \o p.payload

LEMMA Bytes4Bytes ==
  ASSUME NEW n \in Sizes
  PROVE  Bytes4(n) \in Seq(Byte) /\ Len(Bytes4(n)) = 4
<1>1. n \in Nat /\ 11 <= n /\ n < 65280
  BY SMT DEF Sizes
<1>2. n \div 16777216 = 0 /\ (n \div 65536) % 256 = 0
  BY <1>1, SMT
<1> DEFINE x == (n \div 256) % 256
           y == n % 256
<1>3. x \in Byte /\ y \in Byte /\ 0 \in Byte
  BY <1>1, BytesValues, SMT DEF Byte
<1>4. Bytes4(n) = <<0, 0, x, y>>
  BY <1>2, SMT DEF Bytes4
<1> HIDE DEF x, y
<1>5. <<0, 0, x, y>> \in Seq(Byte) /\ Len(<<0, 0, x, y>>) = 4
  BY <1>3
<1> QED BY <1>4, <1>5

\* Of a sequence that is prolonged, the beginning and the rest.
LEMMA AppendedParts ==
  ASSUME NEW s \in Seq(Byte), NEW t \in Seq(Byte)
  PROVE  /\ s \o t \in Seq(Byte) /\ Len(s \o t) = Len(s) + Len(t)
         /\ \A i \in 1..Len(s) : (s \o t)[i] = s[i]
         /\ \A i \in 1..Len(t) : (s \o t)[Len(s) + i] = t[i]
<1>1. /\ s \o t \in Seq(Byte) /\ Len(s \o t) = Len(s) + Len(t)
      /\ \A i \in 1..(Len(s) + Len(t)) : (s \o t)[i] = IF i <= Len(s) THEN s[i] ELSE t[i - Len(s)]
  BY ConcatProperties
<1>2. ASSUME NEW i \in 1..Len(s) PROVE (s \o t)[i] = s[i]
  <2>1. Len(s) \in Nat /\ Len(t) \in Nat
    OBVIOUS
  <2>2. i \in 1..(Len(s) + Len(t)) /\ i <= Len(s)
    BY <2>1
  <2> QED BY <1>1, <2>2
<1>3. \A i \in 1..Len(t) : (s \o t)[Len(s) + i] = t[i]
  BY AppendedAt
<1> QED BY <1>1, <1>2, <1>3

LEMMA PlainBytes ==
  ASSUME NEW p \in PacketFields
  PROVE  /\ Plain(p) \in Seq(Byte) /\ Len(Plain(p)) = SizeOf(p)
         /\ Plain(p)[3] = 1 /\ Plain(p)[4] = 2 /\ Plain(p)[5] = 0 /\ Plain(p)[6] = 0
         /\ Plain(p)[7] = 3
         /\ p.payload \in Seq(Byte)
         /\ \A i \in 1..Len(p.payload) : Plain(p)[11 + i] = p.payload[i]
<1> DEFINE a == <<0, 0, 1, 2>>
           b == <<0, 0, 3>>
           c == Bytes4(SizeOf(p))
           d == p.payload
<1>1. p.seq = 258 /\ p.flag = 3 /\ SizeOf(p) \in Sizes /\ SizeOf(p) = Len(d) + 11 /\ Len(d) \in Nat
  BY FieldsType, SMT DEF SizeOf, HeaderLength
<1>2. Plain(p) = a \o b \o c \o d
  <2>1. 258 \div 16777216 = 0 /\ (258 \div 65536) % 256 = 0 /\ (258 \div 256) % 256 = 1 /\ 258 % 256 = 2
    BY SMT
  <2>2. Bytes4(258) = a
    BY <2>1, SMT DEF Bytes4
  <2> QED BY <1>1, <2>2 DEF Plain
<1>3. d \in Seq(Byte)
  <2>1. PICK f \in Fills : d \in Seq({f})
    BY FieldsType
  <2>2. {f} \subseteq Byte
    BY FillsAssumption
  <2> QED BY <2>1, <2>2
<1>4. c \in Seq(Byte) /\ Len(c) = 4
  BY <1>1, Bytes4Bytes
<1>5. /\ a \in Seq(Byte) /\ Len(a) = 4 /\ a[3] = 1 /\ a[4] = 2
      /\ b \in Seq(Byte) /\ Len(b) = 3 /\ b[1] = 0 /\ b[2] = 0 /\ b[3] = 3
  BY SMT DEF Byte
<1> HIDE DEF a, b, c, d
<1> DEFINE ab == a \o b
           abc == ab \o c
           w == abc \o d
<1>6. /\ ab \in Seq(Byte) /\ Len(ab) = 4 + 3
      /\ \A i \in 1..4 : ab[i] = a[i]
      /\ \A i \in 1..3 : ab[4 + i] = b[i]
  <2>1. a \in Seq(Byte) /\ b \in Seq(Byte)
    BY <1>5
  <2>2. /\ ab \in Seq(Byte) /\ Len(ab) = Len(a) + Len(b)
        /\ \A i \in 1..Len(a) : ab[i] = a[i]
        /\ \A i \in 1..Len(b) : ab[Len(a) + i] = b[i]
    BY <2>1, AppendedParts
  <2> HIDE DEF ab
  <2> QED BY <1>5, <2>2
<1>7. ab \in Seq(Byte) /\ Len(ab) = 7 /\ ab[3] = 1 /\ ab[4] = 2 /\ ab[5] = 0 /\ ab[6] = 0 /\ ab[7] = 3
  <2>1. 3 \in 1..4 /\ 4 \in 1..4 /\ 1 \in 1..3 /\ 2 \in 1..3 /\ 3 \in 1..3
    OBVIOUS
  <2>2. ab[3] = 1 /\ ab[4] = 2 /\ ab[4 + 1] = 0 /\ ab[4 + 2] = 0 /\ ab[4 + 3] = 3
    BY <1>5, <1>6, <2>1
  <2> QED BY <1>6, <2>2
<1> HIDE DEF ab
<1>8. /\ abc \in Seq(Byte) /\ Len(abc) = 7 + 4
      /\ \A i \in 1..7 : abc[i] = ab[i]
  <2>1. ab \in Seq(Byte) /\ c \in Seq(Byte)
    BY <1>4, <1>7
  <2>2. /\ abc \in Seq(Byte) /\ Len(abc) = Len(ab) + Len(c)
        /\ \A i \in 1..Len(ab) : abc[i] = ab[i]
    BY <2>1, AppendedParts
  <2> HIDE DEF abc
  <2> QED BY <1>4, <1>7, <2>2
<1> HIDE DEF abc
<1>9. /\ w \in Seq(Byte) /\ Len(w) = 11 + Len(d)
      /\ \A i \in 1..11 : w[i] = abc[i]
      /\ \A i \in 1..Len(d) : w[11 + i] = d[i]
  <2>1. abc \in Seq(Byte) /\ Len(abc) = 11
    BY <1>8
  <2>2. /\ w \in Seq(Byte) /\ Len(w) = Len(abc) + Len(d)
        /\ \A i \in 1..Len(abc) : w[i] = abc[i]
        /\ \A i \in 1..Len(d) : w[Len(abc) + i] = d[i]
    <3>1. abc \in Seq(Byte)
      BY <1>8
    <3> QED BY <1>3, <3>1, AppendedParts
  <2> HIDE DEF w
  <2> QED BY <2>1, <2>2
<1> HIDE DEF w
<1>10. w[3] = 1 /\ w[4] = 2 /\ w[5] = 0 /\ w[6] = 0 /\ w[7] = 3
  <2>1. \A i \in 3..7 : i \in 1..11 /\ i \in 1..7
    OBVIOUS
  <2>2. \A i \in 3..7 : w[i] = ab[i]
    BY <1>8, <1>9, <2>1
  <2> QED BY <1>7, <2>2
<1>11. Plain(p) = w
  BY <1>2 DEF w, abc, ab
<1> QED BY <1>1, <1>3, <1>9, <1>10, <1>11 DEF d

\* What a byte counts in the sum of the words.
Weight(k) == IF k % 2 = 1 THEN 1 ELSE 256

LEMMA WordSumChanged ==
  ASSUME NEW s \in Seq(Byte), NEW u \in Seq(Byte), Len(u) = Len(s), NEW k \in 1..Len(s),
         \A i \in 1..Len(s) : i # k => u[i] = s[i]
  PROVE  WordSum(u) = WordSum(s) + Weight(k) * (u[k] - s[k])
<1> DEFINE n == Len(s)
           ts == WordTerms(s)
           tu == WordTerms(u)
           d == Weight(k) * (u[k] - s[k])
<1>1. n \in Nat /\ (\A i \in 1..n : s[i] \in Int /\ u[i] \in Int) /\ k \in 1..n
  <2>1. n \in Nat /\ \A i \in 1..n : s[i] \in Byte /\ u[i] \in Byte
    OBVIOUS
  <2> QED BY <2>1, BytesValues
<1>2. d \in Int
  BY <1>1 DEF Weight
<1>3. ts \in Seq(Int) /\ tu \in Seq(Int) /\ Len(ts) = n /\ Len(tu) = n
  BY ByteTerms DEF IsTerms
<1>4. \A i \in 1..n : tu[i] = IF i = k THEN ts[i] + d ELSE ts[i]
  <2> SUFFICES ASSUME NEW i \in 1..n PROVE tu[i] = IF i = k THEN ts[i] + d ELSE ts[i]
    OBVIOUS
  <2>1. /\ ts[i] = IF i % 2 = 1 THEN s[i] ELSE 256 * s[i]
        /\ tu[i] = IF i % 2 = 1 THEN u[i] ELSE 256 * u[i]
    BY DEF WordTerms
  <2>2. i # k => u[i] = s[i]
    OBVIOUS
  <2> DEFINE x == s[i]
             y == u[i]
  <2>3. x \in Int /\ y \in Int
    BY <1>1
  <2>4. i = k => d = Weight(i) * (y - x)
    OBVIOUS
  <2> HIDE DEF x, y, d, ts, tu
  <2>5. CASE i % 2 = 1
    <3>1. ts[i] = x /\ tu[i] = y /\ Weight(i) = 1 /\ (i # k => y = x)
      BY <2>1, <2>2, <2>5 DEF x, y, Weight
    <3> QED BY <2>3, <2>4, <3>1
  <2>6. CASE i % 2 # 1
    <3>1. ts[i] = 256 * x /\ tu[i] = 256 * y /\ Weight(i) = 256 /\ (i # k => y = x)
      BY <2>1, <2>2, <2>6 DEF x, y, Weight
    <3> QED BY <2>3, <2>4, <3>1
  <2> QED BY <2>5, <2>6
<1>5. WordSum(s) = Total(ts) /\ WordSum(u) = Total(tu)
  BY DEF WordSum, WordTerms
<1> HIDE DEF ts, tu, n, d
<1>6. Total(tu) = Total(ts) + d
  <2>1. Len(tu) = Len(ts) /\ k \in 1..Len(ts) /\ \A i \in 1..Len(ts) : tu[i] = IF i = k THEN ts[i] + d ELSE ts[i]
    BY <1>1, <1>3, <1>4
  <2> QED BY <1>2, <1>3, <2>1, TotalChanged
<1> QED BY <1>5, <1>6 DEF d

LEMMA SetByte ==
  ASSUME NEW s \in Seq(Byte), NEW k \in 1..Len(s), NEW x \in Byte
  PROVE  /\ [s EXCEPT ![k] = x] \in Seq(Byte) /\ Len([s EXCEPT ![k] = x]) = Len(s)
         /\ [s EXCEPT ![k] = x][k] = x
         /\ \A i \in 1..Len(s) : i # k => [s EXCEPT ![k] = x][i] = s[i]
OBVIOUS

LEMMA TwoBytes ==
  ASSUME NEW n \in Int, 0 <= n, n <= 65535
  PROVE  /\ n % 256 \in Byte /\ n \div 256 \in Byte /\ n % 256 \in Int /\ n \div 256 \in Int
         /\ n = 256 * (n \div 256) + (n % 256)
<1>1. /\ n \div 256 \in Int /\ 0 <= n \div 256 /\ n \div 256 <= 255
      /\ n % 256 \in Int /\ n = 256 * (n \div 256) + (n % 256)
  BY SMT
<1>2. n % 256 \in Byte
  BY BytesValues
<1>3. n \div 256 \in Byte
  <2> DEFINE y == n \div 256
  <2>1. y \in Int /\ 0 <= y /\ y <= 255
    BY <1>1
  <2> HIDE DEF y
  <2>2. y \in Byte
    BY <2>1 DEF Byte
  <2> QED BY <2>2 DEF y
<1> QED BY <1>1, <1>2, <1>3

\* The 16 bits of a checksum that make the sum -0.
LEMMA Completed ==
  ASSUME NEW sum \in Int, IsSum(sum), NEW x \in Int, NEW y \in Int,
         256 * y + x = 65535 - Folded(sum)
  PROVE  IsZeroSum(sum + x + 256 * y)
<1> DEFINE f == Folded(sum)
<1>1. /\ f \in Int /\ 0 <= f /\ f <= 65535 /\ (f = 0 <=> sum = 0)
      /\ \E k \in Int : sum = f + 65535 * k
  BY FoldedValue
<1>2. 256 * y + x = 65535 - f
  OBVIOUS
<1> HIDE DEF f
<1>3. PICK k \in Int : sum = f + 65535 * k
  BY <1>1, SMT
<1> DEFINE total == sum + x + 256 * y
<1>4. k + 1 \in Int /\ total = 65535 * (k + 1)
  BY <1>1, <1>2, <1>3, SMT
<1>5. total = sum + 65535 - f /\ 0 <= sum
  BY <1>1, <1>2, SMT DEF IsSum
<1> HIDE DEF total
<1>6. total > 0
  BY <1>1, <1>5, SMT
<1>7. IsZeroSum(total)
  BY <1>4, <1>6, SMT DEF IsZeroSum, IsMultiple
<1> QED BY <1>7 DEF total

LEMMA ConstructSum ==
  ASSUME NEW p \in PacketFields
  PROVE  /\ Construct(p) \in Seq(Byte) /\ Len(Construct(p)) = SizeOf(p)
         /\ IsZeroSum(WordSum(Construct(p))) /\ WordSum(Construct(p)) \in Int
         /\ \A i \in 1..SizeOf(p) : i \notin {5, 6} => Construct(p)[i] = Plain(p)[i]
<1> DEFINE s == Plain(p)
           n == SizeOf(p)
           sum == InCksum(s)
           x == sum % 256
           y == sum \div 256
           m == [s EXCEPT ![5] = x]
           u == [m EXCEPT ![6] = y]
<1>1. s \in Seq(Byte) /\ Len(s) = n /\ s[5] = 0 /\ s[6] = 0
  BY PlainBytes
<1>2. n \in Nat /\ 11 <= n /\ n < 65280
  BY FieldsType, SMT DEF Sizes
<1>3. 5 \in 1..n /\ 6 \in 1..n
  BY <1>2
<1>4. Construct(p) = u
  BY DEF Construct, Plain, SizeOf
<1>5. Summable(s)
  BY <1>1, <1>2, SMT DEF Summable
<1>6. /\ sum = 65535 - Folded(WordSum(s)) /\ sum \in Int /\ 0 <= sum /\ sum <= 65535
      /\ WordSum(s) \in Int /\ IsSum(WordSum(s))
  <2> HIDE DEF s
  <2> QED BY <1>1, <1>5, InCksumValue, ChecksumSums
<1> HIDE DEF s, n, sum
<1>7. x \in Byte /\ y \in Byte /\ x \in Int /\ y \in Int /\ sum = 256 * y + x
  BY <1>6, TwoBytes
<1> HIDE DEF x, y
<1>8. /\ m \in Seq(Byte) /\ Len(m) = n /\ m[5] = x
      /\ \A i \in 1..n : i # 5 => m[i] = s[i]
  BY <1>1, <1>3, <1>7, SetByte
<1> HIDE DEF m
<1>9. /\ u \in Seq(Byte) /\ Len(u) = n /\ u[6] = y
      /\ \A i \in 1..n : i # 6 => u[i] = m[i]
  BY <1>3, <1>7, <1>8, SetByte
<1> HIDE DEF u
<1>10. WordSum(m) = WordSum(s) + x
  <2>1. WordSum(m) = WordSum(s) + Weight(5) * (m[5] - s[5])
    BY <1>1, <1>3, <1>8, WordSumChanged
  <2>2. Weight(5) = 1
    BY DEF Weight
  <2> QED BY <1>1, <1>7, <1>8, <2>1, <2>2
<1>11. WordSum(u) = WordSum(m) + 256 * y
  <2>1. WordSum(u) = WordSum(m) + Weight(6) * (u[6] - m[6])
    BY <1>3, <1>8, <1>9, WordSumChanged
  <2>2. Weight(6) = 256
    BY DEF Weight
  <2>3. m[6] = 0
    BY <1>1, <1>3, <1>8
  <2> QED BY <1>7, <1>9, <2>1, <2>2, <2>3
<1> DEFINE w == WordSum(s)
<1>12. IsZeroSum(w + x + 256 * y) /\ w + x + 256 * y \in Int
  <2>1. w \in Int /\ IsSum(w) /\ 256 * y + x = 65535 - Folded(w)
    BY <1>6, <1>7
  <2> HIDE DEF w
  <2>2. IsZeroSum(w + x + 256 * y)
    BY <1>7, <2>1, Completed
  <2> QED BY <1>7, <2>1, <2>2
<1>13. \A i \in 1..n : i \notin {5, 6} => u[i] = s[i]
  BY <1>8, <1>9
<1>14. WordSum(u) = w + x + 256 * y
  BY <1>10, <1>11
<1> HIDE DEF w
<1> QED BY <1>4, <1>9, <1>12, <1>13, <1>14 DEF s, n

\* Inverting the bits of one byte is seen in the sum.
LEMMA FlipFound ==
  ASSUME NEW s \in Seq(Byte), Summable(s), IsZeroSum(WordSum(s)), NEW k \in 1..Len(s)
  PROVE  /\ FlipByte(s, k) \in Seq(Byte) /\ Len(FlipByte(s, k)) = Len(s)
         /\ InCksum(FlipByte(s, k)) # 0
<1> DEFINE u == FlipByte(s, k)
           x == 255 - s[k]
<1>1. s[k] \in Int /\ 0 <= s[k] /\ s[k] <= 255 /\ x \in Byte
  <2>1. s[k] \in Byte
    OBVIOUS
  <2>2. \A b \in Byte : b \in Int /\ 0 <= b /\ b <= 255 /\ 255 - b \in Byte
    BY DEF Byte
  <2> QED BY <2>1, <2>2
<1>2. u = [s EXCEPT ![k] = x]
  BY DEF FlipByte
<1> HIDE DEF u
<1>3. /\ u \in Seq(Byte) /\ Len(u) = Len(s) /\ u[k] = x
      /\ \A i \in 1..Len(s) : i # k => u[i] = s[i]
  BY <1>1, <1>2, SetByte
<1>4. WordSum(u) = WordSum(s) + Weight(k) * (u[k] - s[k])
  BY <1>3, WordSumChanged
<1>5. Summable(u)
  BY <1>3 DEF Summable
<1> DEFINE a == WordSum(s)
           b == WordSum(u)
           v == s[k]
<1>6. a \in Int /\ b \in Int
  BY <1>3, <1>5, ChecksumSums
<1>7. v \in Int /\ 0 <= v /\ v <= 255
  BY <1>1
<1>8. b = a + (255 - 2 * v) \/ b = a + 256 * (255 - 2 * v)
  <2>1. u[k] = 255 - v
    BY <1>3
  <2>2. b = a + Weight(k) * ((255 - v) - v)
    BY <1>4, <2>1
  <2>3. Weight(k) = 1 \/ Weight(k) = 256
    BY DEF Weight
  <2> HIDE DEF a, b, v
  <2> QED BY <1>6, <1>7, <2>2, <2>3, SMT
<1>9. IsZeroSum(a)
  OBVIOUS
<1> HIDE DEF a, b, v
<1>10. ~IsZeroSum(b)
  <2> SUFFICES ASSUME NEW i \in Int, a = 65535 * i, NEW j \in Int, b = 65535 * j
               PROVE  FALSE
    BY <1>9, SMT DEF IsZeroSum, IsMultiple
  <2> DEFINE c == j - i
  <2>1. c \in Int /\ (65535 * c = 255 - 2 * v \/ 65535 * c = 256 * (255 - 2 * v))
    BY <1>6, <1>7, <1>8, SMT
  <2> HIDE DEF c
  <2>2. c = 0
    BY <1>7, <2>1, SMT
  <2> QED BY <1>7, <2>1, <2>2, SMT
<1>11. InCksum(u) # 0
  BY <1>3, <1>5, <1>10, InCksumValue DEF b
<1> QED BY <1>3, <1>11 DEF u

-----------------------------------------------------------------------------
(* What recv_packet() makes of a packet.                                    *)

\* Inverting the high byte of a size then makes it too large.
SmallPackets == MaxPacketLength + HeaderLength < 32768

\* The packet on the wire, when the byte f of it is flipped.
OnWire(p, f) == IF f = 0 THEN Construct(p) ELSE FlipByte(Construct(p), f)

ReceiveInv ==
  /\ raw \in Seq(Byte) /\ Len(raw) = MaxPacketLength + HeaderLength
  /\ wire # <<>> =>
       /\ sent \in PacketFields /\ flipped \in 0..SizeOf(sent)
       /\ wire = OnWire(sent, flipped)
  /\ ReceivedAsSent

LEMMA OnWireBytes ==
  ASSUME NEW p \in PacketFields, NEW f \in 0..SizeOf(p)
  PROVE  /\ OnWire(p, f) \in Seq(Byte) /\ Len(OnWire(p, f)) = SizeOf(p)
         /\ \A i \in 1..4 : OnWire(p, f)[i + 7] = Carried(p, f, i)
         /\ InCksum(OnWire(p, f)) = 0 <=> f = 0
<1> DEFINE c == Construct(p)
           n == SizeOf(p)
<1>1. n \in Nat /\ 11 <= n /\ n < 65280
  BY FieldsType, SMT DEF Sizes
<1>2. c \in Seq(Byte) /\ Len(c) = n /\ IsZeroSum(WordSum(c))
  BY ConstructSum
<1>3. \A i \in 1..4 : c[i + 7] = Bytes4(n)[i]
  BY ConstructSize
<1>4. Summable(c)
  BY <1>1, <1>2, SMT DEF Summable
<1> HIDE DEF c
<1>5. CASE f = 0
  <2>1. OnWire(p, f) = c
    BY <1>5 DEF OnWire, c
  <2>2. InCksum(c) = 0
    BY <1>2, <1>4, InCksumValue
  <2>3. \A i \in 1..4 : Carried(p, f, i) = Bytes4(n)[i]
    BY <1>5 DEF Carried
  <2> QED BY <1>2, <1>3, <1>5, <2>1, <2>2, <2>3
<1>6. CASE f # 0
  <2>1. OnWire(p, f) = FlipByte(c, f)
    BY <1>6 DEF OnWire, c
  <2>2. f \in 1..Len(c)
    BY <1>1, <1>2, <1>6
  <2>3. FlipByte(c, f) \in Seq(Byte) /\ Len(FlipByte(c, f)) = n /\ InCksum(FlipByte(c, f)) # 0
    BY <1>2, <1>4, <2>2, FlipFound
  <2>4. \A j \in 1..n : FlipByte(c, f)[j] = IF j = f THEN 255 - c[j] ELSE c[j]
    BY <1>2, <2>2, FlipByteSize
  <2>5. \A i \in 1..4 : i + 7 \in 1..n
    BY <1>1
  <2>6. \A i \in 1..4 : FlipByte(c, f)[i + 7] = Carried(p, f, i)
    BY <1>3, <2>4, <2>5 DEF Carried
  <2> QED BY <1>6, <2>1, <2>3, <2>6
<1> QED BY <1>5, <1>6

\* A packet fits into the buffer it is received in.
LEMMA SizeLimit ==
  ASSUME NEW p \in PacketFields
  PROVE  /\ SizeOf(p) \in Nat /\ MaxPacketLength + HeaderLength \in Nat
         /\ SizeOf(p) <= MaxPacketLength + HeaderLength
<1>1. MaxPacketLength \in Nat /\ Lengths \subseteq 0..MaxPacketLength
  BY LengthsAssumption
<1>2. PICK k \in Lengths, b \in Fills : p = [seq |-> 258, flag |-> 3, payload |-> [i \in 1..k |-> b]]
  BY DEF PacketFields
<1>3. k \in Nat /\ k <= MaxPacketLength
  BY <1>1
<1>4. Len(p.payload) = k
  <2>1. p.payload = [i \in 1..k |-> b] /\ k \in Nat
    BY <1>2, <1>3
  <2>2. p.payload \in Seq({b}) /\ DOMAIN p.payload = 1..k
    BY <2>1, IsASeq
  <2> QED BY <2>1, <2>2, LenProperties
<1> QED BY <1>1, <1>3, <1>4 DEF SizeOf, HeaderLength

\* The size recv_packet() finds.
LEMMA WireSize ==
  ASSUME SmallPackets, NEW p \in PacketFields, NEW f, NEW bytes,
         \A i \in 1..4 : bytes[i + 7] = Carried(p, f, i)
  PROVE  /\ f \notin {8, 9, 10, 11} => Size(bytes) = SizeOf(p)
         /\ f \in {8, 9, 10} => Size(bytes) > MaxPacketLength + HeaderLength
<1> DEFINE n == SizeOf(p)
           m == MaxPacketLength + HeaderLength
           b1 == Bytes4(n)[1]
           b2 == Bytes4(n)[2]
           b3 == Bytes4(n)[3]
           b4 == Bytes4(n)[4]
<1>1. n \in Nat /\ n <= m /\ m \in Nat /\ m < 32768
  BY SizeLimit DEF SmallPackets
<1>2. b1 = 0 /\ b2 = 0 /\ b3 \in 0..254 /\ b4 \in 0..255 /\ n = 256 * b3 + b4
  <2>1. n \in Sizes
    BY FieldsType
  <2> QED BY <2>1, Bytes4Small
<1>3. /\ bytes[8] = IF f = 8 THEN 255 - b1 ELSE b1
      /\ bytes[9] = IF f = 9 THEN 255 - b2 ELSE b2
      /\ bytes[10] = IF f = 10 THEN 255 - b3 ELSE b3
      /\ bytes[11] = IF f = 11 THEN 255 - b4 ELSE b4
  <2>1. \A i \in 1..4 : bytes[i + 7] = IF f = i + 7 THEN 255 - Bytes4(n)[i] ELSE Bytes4(n)[i]
    BY DEF Carried
  <2> QED BY <2>1
<1>4. Size(bytes) = IF bytes[8] + bytes[9] > 0 THEN m + 1 ELSE 256 * bytes[10] + bytes[11]
  BY DEF Size
<1> HIDE DEF n, m, b1, b2, b3, b4
<1>5. f \notin {8, 9, 10, 11} => Size(bytes) = n
  BY <1>2, <1>3, <1>4
<1>6. f \in {8, 9} => Size(bytes) > m
  BY <1>1, <1>2, <1>3, <1>4
<1>7. f = 10 => Size(bytes) > m
  <2> SUFFICES ASSUME f = 10 PROVE Size(bytes) > m
    OBVIOUS
  <2>1. Size(bytes) = 256 * (255 - b3) + b4
    BY <1>2, <1>3, <1>4
  <2>2. b3 < 128
    BY <1>1, <1>2
  <2> QED BY <1>1, <1>2, <2>1, <2>2
<1> QED BY <1>5, <1>6, <1>7 DEF n, m

\* The datagram is at the beginning of the buffer it was received in.
LEMMA RawPrefix ==
  ASSUME NEW r \in Seq(Byte), NEW w \in Seq(Byte), Len(w) <= Len(r),
         NEW u, u = [i \in DOMAIN r |-> IF i <= Len(w) THEN w[i] ELSE r[i]]
  PROVE  /\ u \in Seq(Byte) /\ Len(u) = Len(r)
         /\ \A i \in 1..Len(w) : u[i] = w[i]
         /\ SubSeq(u, 1, Len(w)) = w
<1> DEFINE n == Len(r)
           m == Len(w)
<1>1. n \in Nat /\ m \in Nat /\ m <= n /\ DOMAIN r = 1..n
  OBVIOUS
<1>2. \A i \in 1..n : (IF i <= m THEN w[i] ELSE r[i]) \in Byte
  <2> SUFFICES ASSUME NEW i \in 1..n PROVE (IF i <= m THEN w[i] ELSE r[i]) \in Byte
    OBVIOUS
  <2>1. i <= m => i \in 1..m
    BY <1>1
  <2> QED BY <2>1
<1>3. u = [i \in 1..n |-> IF i <= m THEN w[i] ELSE r[i]]
  BY <1>1
<1>4. \A i \in 1..m : w[i] \in Byte
  OBVIOUS
<1> HIDE DEF n, m
<1>5. u \in Seq(Byte) /\ DOMAIN u = 1..n
  BY <1>1, <1>2, <1>3, IsASeq
<1>6. Len(u) = n
  BY <1>1, <1>5, LenProperties
<1>7. \A i \in 1..m : i \in 1..n /\ i <= m
  BY <1>1
<1>8. \A i \in 1..m : u[i] = w[i]
  BY <1>3, <1>7
<1> DEFINE v == SubSeq(u, 1, m)
<1>9. v \in Seq(Byte) /\ Len(v) = m /\ \A i \in 1..m : v[i] = w[i]
  <2>1. \A i \in 1..m : u[i] \in Byte
    BY <1>4, <1>8
  <2>2. /\ v \in Seq(Byte) /\ Len(v) = (IF 1 <= m THEN m - 1 + 1 ELSE 0)
        /\ \A i \in 1..(m - 1 + 1) : v[i] = u[1 + i - 1]
    BY <1>1, <2>1, SubSeqProperties
  <2> HIDE DEF v
  <2>3. m - 1 + 1 = m /\ \A i \in 1..m : 1 + i - 1 = i
    BY <1>1
  <2>4. Len(v) = m
    BY <1>1, <2>2
  <2> QED BY <1>8, <2>2, <2>3, <2>4
<1> HIDE DEF v
<1>10. v = w
  BY <1>9, SeqEqual DEF m
<1> QED BY <1>5, <1>6, <1>8, <1>10 DEF n, m, v

\* deconstruct() takes the fields out that construct() put in.
LEMMA FieldsRight ==
  ASSUME NEW p \in PacketFields, NEW bytes \in Seq(Byte), Size(bytes) = SizeOf(p),
         SizeOf(p) <= Len(bytes),
         \A i \in 1..SizeOf(p) : bytes[i] = Construct(p)[i]
  PROVE  Fields(bytes) = p
<1> DEFINE n == SizeOf(p)
           d == p.payload
           l == Len(d)
<1>1. n = l + 11 /\ l \in Nat
  BY FieldsType DEF SizeOf, HeaderLength
<1>2. \A i \in 1..n : i \notin {5, 6} => bytes[i] = Plain(p)[i]
  BY ConstructSum
<1>3. bytes[3] = 1 /\ bytes[4] = 2 /\ bytes[7] = 3
  <2>1. \A i \in {3, 4, 7} : i \in 1..n /\ i \notin {5, 6}
    BY <1>1
  <2>2. bytes[3] = Plain(p)[3] /\ bytes[4] = Plain(p)[4] /\ bytes[7] = Plain(p)[7]
    BY <1>2, <2>1
  <2> QED BY <2>2, PlainBytes
<1>4. \A i \in 1..l : bytes[11 + i] = d[i]
  <2>1. \A i \in 1..l : Plain(p)[11 + i] = d[i]
    BY PlainBytes
  <2>2. \A i \in 1..l : 11 + i \in 1..n /\ 11 + i \notin {5, 6}
    BY <1>1
  <2> QED BY <1>2, <2>1, <2>2
<1> DEFINE v == SubSeq(bytes, 12, n)
<1>5. d \in Seq(Byte)
  BY PlainBytes
<1>6. Fields(bytes) = [seq |-> 258, flag |-> 3, payload |-> v]
  <2>1. 256 * bytes[3] + bytes[4] = 258
    BY <1>3
  <2>2. HeaderLength + 1 = 12 /\ Size(bytes) = n
    BY DEF HeaderLength
  <2> QED BY <1>3, <2>1, <2>2 DEF Fields
<1>7. p = [seq |-> 258, flag |-> 3, payload |-> d]
  BY DEF PacketFields
<1>8. n \in Nat /\ n <= Len(bytes)
  BY <1>1
<1> HIDE DEF n, d, l
<1>9. v \in Seq(Byte) /\ Len(v) = l /\ \A i \in 1..l : v[i] = bytes[11 + i]
  <2> DEFINE j == 12
  <2>1. j = 12 /\ j \in Nat /\ 1 <= j
    OBVIOUS
  <2> HIDE DEF j
  <2>2. \A i \in j..n : bytes[i] \in Byte
    <3>1. \A i \in 1..Len(bytes) : bytes[i] \in Byte
      OBVIOUS
    <3>2. \A i \in j..n : i \in 1..Len(bytes)
      BY <1>8, <2>1
    <3> QED BY <3>1, <3>2
  <2> DEFINE r == SubSeq(bytes, j, n)
  <2>3. /\ r \in Seq(Byte) /\ Len(r) = (IF j <= n THEN n - j + 1 ELSE 0)
        /\ \A i \in 1..(n - j + 1) : r[i] = bytes[j + i - 1]
    BY <1>8, <2>1, <2>2, SubSeqProperties
  <2> HIDE DEF r
  <2>4. /\ (IF j <= n THEN n - j + 1 ELSE 0) = l /\ n - j + 1 = l
        /\ \A i \in 1..l : j + i - 1 = 11 + i
    BY <1>1, <2>1 DEF n, l, d
  <2>5. r \in Seq(Byte) /\ Len(r) = l /\ \A i \in 1..l : r[i] = bytes[11 + i]
    BY <2>3, <2>4
  <2> QED BY <2>5 DEF r, j
<1> HIDE DEF v
<1>10. v = d
  <2>1. \A i \in 1..l : v[i] = d[i]
    BY <1>4, <1>9
  <2> QED BY <1>5, <1>9, <2>1, SeqEqual DEF l
<1> QED BY <1>6, <1>7, <1>10

LEMMA ReceiveRight ==
  ASSUME SmallPackets, ReceiveInv, RecvPacket
  PROVE  ReceivedAsSent'
<1> DEFINE n == SizeOf(sent)
           m == MaxPacketLength + HeaderLength
           u == raw'
<1>1. /\ u = [i \in DOMAIN raw |-> IF i <= Len(wire) THEN wire[i] ELSE raw[i]]
      /\ verdict' = Deconstruct(u) /\ UNCHANGED <<sent, flipped>>
      /\ verdict' = "ok" => read' = Fields(u)
  BY DEF RecvPacket
<1>2. sent \in PacketFields /\ flipped \in 0..n /\ wire = OnWire(sent, flipped)
  BY DEF RecvPacket, ReceiveInv
<1>3. /\ wire \in Seq(Byte) /\ Len(wire) = n
      /\ \A i \in 1..4 : wire[i + 7] = Carried(sent, flipped, i)
      /\ InCksum(wire) = 0 <=> flipped = 0
  BY <1>2, OnWireBytes
<1>4. n \in Nat /\ 11 <= n /\ n <= m /\ m \in Nat /\ raw \in Seq(Byte) /\ Len(raw) = m
  <2>1. n \in Nat /\ 11 <= n
    BY <1>2, FieldsType, SMT DEF Sizes
  <2>2. n <= m /\ m \in Nat
    BY <1>2, SizeLimit
  <2> QED BY <2>1, <2>2 DEF ReceiveInv
<1>5. /\ u \in Seq(Byte) /\ Len(u) = m
      /\ \A i \in 1..n : u[i] = wire[i]
      /\ SubSeq(u, 1, n) = wire
  <2>1. Len(wire) <= Len(raw)
    BY <1>3, <1>4
  <2>2. u = [i \in DOMAIN raw |-> IF i <= Len(wire) THEN wire[i] ELSE raw[i]]
    BY <1>1
  <2>3. wire \in Seq(Byte) /\ raw \in Seq(Byte)
    BY <1>3, <1>4
  <2> HIDE DEF u, n, m
  <2>4. /\ u \in Seq(Byte) /\ Len(u) = Len(raw)
        /\ \A i \in 1..Len(wire) : u[i] = wire[i]
        /\ SubSeq(u, 1, Len(wire)) = wire
    BY <2>1, <2>2, <2>3, RawPrefix
  <2>5. Len(wire) = n /\ Len(raw) = m
    BY <1>3, <1>4
  <2> QED BY <2>4, <2>5
<1>6. \A i \in 1..4 : u[i + 7] = Carried(sent, flipped, i)
  <2>1. \A i \in 1..4 : i + 7 \in 1..n
    BY <1>4
  <2> QED BY <1>3, <1>5, <2>1
<1> HIDE DEF u
<1>7. /\ flipped \notin {8, 9, 10, 11} => Size(u) = n
      /\ flipped \in {8, 9, 10} => Size(u) > m
  BY <1>2, <1>6, WireSize
<1>8. CASE flipped = 0
  <2>1. Size(u) = n
    BY <1>7, <1>8
  <2>2. ~(n > m) /\ ~(n < HeaderLength)
    BY <1>4 DEF HeaderLength
  <2>3. Deconstruct(u) = "ok"
    BY <1>3, <1>5, <1>8, <2>1, <2>2 DEF Deconstruct
  <2>4. \A i \in 1..n : u[i] = Construct(sent)[i]
    BY <1>2, <1>5, <1>8 DEF OnWire
  <2>5. Fields(u) = sent
    BY <1>2, <1>4, <1>5, <2>1, <2>4, FieldsRight
  <2> QED BY <1>1, <2>3, <2>5 DEF ReceivedAsSent
<1>9. CASE flipped = LowSizeByte
  BY <1>1, <1>9 DEF ReceivedAsSent, LowSizeByte, HeaderLength
<1>10. CASE flipped \in {8, 9, 10}
  <2>1. Deconstruct(u) = "CRC_ERROR"
    BY <1>7, <1>10 DEF Deconstruct
  <2> QED BY <1>1, <1>10, <2>1 DEF ReceivedAsSent
<1>11. CASE flipped \notin {0, 8, 9, 10, 11}
  <2>1. Size(u) = n
    BY <1>7, <1>11
  <2>2. ~(n > m) /\ ~(n < HeaderLength)
    BY <1>4 DEF HeaderLength
  <2>3. InCksum(SubSeq(u, 1, Size(u))) # 0
    BY <1>3, <1>5, <1>11, <2>1
  <2>4. Deconstruct(u) = "CRC_ERROR"
    BY <2>1, <2>2, <2>3 DEF Deconstruct
  <2> QED BY <1>1, <1>11, <2>4 DEF ReceivedAsSent
<1> QED BY <1>8, <1>9, <1>10, <1>11 DEF LowSizeByte, HeaderLength

LEMMA ReceiveStep ==
  ASSUME SmallPackets, ReceiveInv, RecvPacket
  PROVE  ReceiveInv'
<1> DEFINE n == SizeOf(sent)
<1>1. /\ raw' = [i \in DOMAIN raw |-> IF i <= Len(wire) THEN wire[i] ELSE raw[i]]
      /\ wire' = <<>>
  BY DEF RecvPacket
<1>2. sent \in PacketFields /\ flipped \in 0..n /\ wire = OnWire(sent, flipped)
  BY DEF RecvPacket, ReceiveInv
<1>3. wire \in Seq(Byte) /\ Len(wire) = n
  BY <1>2, OnWireBytes
<1>4. n <= MaxPacketLength + HeaderLength
  BY <1>2, SizeLimit
<1>5. raw \in Seq(Byte) /\ Len(raw) = MaxPacketLength + HeaderLength
  BY DEF ReceiveInv
<1> DEFINE u == raw'
<1>6. u = [i \in DOMAIN raw |-> IF i <= Len(wire) THEN wire[i] ELSE raw[i]] /\ Len(wire) <= Len(raw)
  BY <1>1, <1>3, <1>4, <1>5
<1> HIDE DEF u, n
<1>7. u \in Seq(Byte) /\ Len(u) = Len(raw)
  BY <1>3, <1>5, <1>6, RawPrefix, SMTT(30)
<1> QED BY <1>1, <1>5, <1>7, ReceiveRight DEF ReceiveInv, u

LEMMA SendStep ==
  ASSUME ReceiveInv, NEW p \in PacketFields, SendPacket(p)
  PROVE  ReceiveInv'
<1>1. sent' = p /\ verdict' = "none" /\ UNCHANGED raw
  BY DEF SendPacket
<1>2. SizeOf(p) \in Nat
  BY FieldsType, SMT DEF Sizes
<1>3. flipped' \in 0..SizeOf(p) /\ wire' = OnWire(p, flipped')
  <2>1. CASE wire' = Construct(p) /\ flipped' = 0
    BY <1>2, <2>1 DEF OnWire
  <2>2. CASE \E i \in 1..SizeOf(p) : wire' = FlipByte(Construct(p), i) /\ flipped' = i
    BY <1>2, <2>2 DEF OnWire
  <2> QED BY <2>1, <2>2 DEF SendPacket, SizeOf
<1> QED BY <1>1, <1>3 DEF ReceiveInv, ReceivedAsSent

(* A packet is received as it was sent, and one that was damaged is not     *)
(* received, whichever byte of any packet was flipped but the low byte of   *)
(* its size; and nothing that arrives undamaged is taken to be damaged.     *)
(* Packets of less than half of the 2^16 bytes are assumed.                 *)
THEOREM DamageFound == ASSUME SmallPackets PROVE PacketSpec => []ReceivedAsSent
<1>1. PacketInit => ReceiveInv
  <2> SUFFICES ASSUME PacketInit PROVE ReceiveInv
    OBVIOUS
  <2> DEFINE n == MaxPacketLength + HeaderLength
  <2>1. n \in Nat
    BY LengthsAssumption, SMT DEF HeaderLength
  <2>2. PICK b \in Fills : raw = [i \in 1..n |-> b]
    BY DEF PacketInit
  <2>3. b \in Byte
    BY FillsAssumption
  <2> HIDE DEF n
  <2>4. raw \in Seq(Byte) /\ DOMAIN raw = 1..n
    BY <2>1, <2>2, <2>3, IsASeq
  <2>5. Len(raw) = n
    BY <2>1, <2>4, LenProperties
  <2>6. ReceivedAsSent /\ wire = <<>>
    BY DEF PacketInit, ReceivedAsSent
  <2> QED BY <2>4, <2>5, <2>6 DEF ReceiveInv, n
<1>2. ReceiveInv /\ [PacketNext]_packetVars => ReceiveInv'
  <2> SUFFICES ASSUME ReceiveInv, [PacketNext]_packetVars PROVE ReceiveInv'
    OBVIOUS
  <2>1. CASE UNCHANGED packetVars
    BY <2>1 DEF packetVars, ReceiveInv, ReceivedAsSent
  <2> QED BY <2>1, SendStep, ReceiveStep DEF PacketNext
<1>3. ReceiveInv => ReceivedAsSent
  BY DEF ReceiveInv
<1> QED BY <1>1, <1>2, <1>3, PTL DEF PacketSpec

==============================================================================
