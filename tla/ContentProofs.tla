----------------------------- MODULE ContentProofs -----------------------------
(***************************************************************************)
(* The payload of a torrent, for any lengths of its files, any generation,   *)
(* any power of two for its pieces and any number of crashes and damages:    *)
(* the parser accepts what the creator wrote, the pieces it hashed cover the *)
(* content and none verifies the bytes of another, what is complete is on    *)
(* disk, and peers are served what was hashed for them.  The lemmas on sets  *)
(* of naturals are those of RecordProofs.                                   *)
(***************************************************************************)
EXTENDS ContentStore, RecordProofs


--------------------------------------------------------------------------------
(* Sums of sequences of numbers.                                            *)

(* at[i] is what the first i of n numbers come to.                          *)
Sums(at, n, length) ==
  at \in [0 .. n -> Nat] /\ at[0] = 0 /\ \A i \in 1 .. n : at[i] = at[i - 1] + length[i]

LEMMA SumsExist ==
  ASSUME NEW n \in Nat, NEW length, \A i \in 1 .. n : length[i] \in Nat
  PROVE  \E at : Sums(at, n, length)
<1> DEFINE step == [p \in (1 .. n) \X Nat |-> p[2] + length[p[1]]]
<1>1. step \in [(1 .. n) \X Nat -> Nat]
  OBVIOUS
<1>2. \A i \in 1 .. n, x \in Nat : step[<<i, x>>] = x + length[i]
  OBVIOUS
<1>3. PICK at : Recursive(at, Nat, n, 0, step)
  <2> HIDE DEF step
  <2> QED
    BY <1>1, RecursionExists
<1> HIDE DEF step
<1>4. at \in [0 .. n -> Nat] /\ at[0] = 0 /\ \A i \in 1 .. n : at[i] = step[<<i, at[i - 1]>>]
  BY <1>3 DEF Recursive
<1>5. ASSUME NEW i \in 1 .. n PROVE at[i] = at[i - 1] + length[i]
  <2>1. at[i - 1] \in Nat
    BY <1>4
  <2> QED
    BY <1>2, <1>4, <2>1
<1> QED
  BY <1>4, <1>5 DEF Sums

LEMMA SumsAreOne ==
  ASSUME NEW n \in Nat, NEW length, NEW a, NEW b, Sums(a, n, length), Sums(b, n, length)
  PROVE  \A i \in 0 .. n : a[i] = b[i]
<1> DEFINE T == {i \in 0 .. n : a[i] = b[i]}
<1>1. 0 \in T
  BY DEF Sums
<1>2. ASSUME NEW i \in 0 .. n, i # 0, i - 1 \in T PROVE i \in T
  <2>1. i \in 1 .. n
    BY <1>2
  <2>2. a[i] = a[i - 1] + length[i] /\ b[i] = b[i - 1] + length[i]
    BY <2>1 DEF Sums
  <2> QED
    BY <1>2, <2>2
<1> HIDE DEF T
<1>3. 0 .. n \subseteq T
  BY <1>1, <1>2, Induction
<1> QED
  BY <1>3 DEF T

LEMMA SumsGrow ==
  ASSUME NEW n \in Nat, NEW length, \A i \in 1 .. n : length[i] \in Nat, NEW at, Sums(at, n, length)
  PROVE  \A j \in 0 .. n : \A i \in 0 .. j : at[i] <= at[j]
<1> DEFINE T == {j \in 0 .. n : \A i \in 0 .. j : at[i] <= at[j]}
<1>1. 0 \in T
  BY DEF Sums
<1>2. ASSUME NEW j \in 0 .. n, j # 0, j - 1 \in T PROVE j \in T
  <2>1. j \in 1 .. n /\ j - 1 \in 0 .. n
    BY <1>2
  <2>2. at[j] = at[j - 1] + length[j] /\ length[j] \in Nat /\ at[j - 1] \in Nat /\ at[j] \in Nat
    BY <2>1 DEF Sums
  <2>3. ASSUME NEW i \in 0 .. j PROVE at[i] <= at[j]
    <3>1. CASE i = j
      BY <2>2, <3>1
    <3>2. CASE i # j
      <4>1. i \in 0 .. j - 1 /\ i \in 0 .. n
        BY <2>1, <3>2
      <4>2. at[i] <= at[j - 1] /\ at[i] \in Nat
        BY <1>2, <4>1 DEF Sums
      <4> QED
        BY <2>2, <4>2
    <3> QED
      BY <3>1, <3>2
  <2> QED
    BY <2>3
<1> HIDE DEF T
<1>3. 0 .. n \subseteq T
  BY <1>1, <1>2, Induction
<1> QED
  BY <1>3 DEF T

(* What lies below the last sum lies between two that follow each other.    *)
LEMMA SumsLocate ==
  ASSUME NEW n \in Nat, NEW length, \A i \in 1 .. n : length[i] \in Nat, NEW at, Sums(at, n, length),
         NEW x \in Nat, x < at[n]
  PROVE  \E i \in 1 .. n : at[i - 1] <= x /\ x < at[i]
<1> DEFINE T == {i \in 0 .. n : x < at[i]}
<1>1. n \in T /\ T \in SUBSET Nat
  OBVIOUS
<1> HIDE DEF T
<1>2. PICK i \in T : \A j \in T : i <= j
  BY <1>1, Smallest
<1>3. i \in 1 .. n /\ x < at[i]
  BY <1>2 DEF T, Sums
<1>4. i - 1 \notin T /\ i - 1 \in 0 .. n /\ at[i - 1] \in Nat
  BY <1>2, <1>3, <1>1 DEF Sums
<1> QED
  BY <1>3, <1>4 DEF T

--------------------------------------------------------------------------------
(* What the recursive function of Total stands for.                         *)
Summed(lengths, f) == [n \in 0 .. Len(lengths) |-> IF n = 0 THEN 0 ELSE f[n - 1] + lengths[n]]

LEMMA TotalIs ==
  ASSUME NEW lengths \in Seq(Nat), NEW at, Sums(at, Len(lengths), lengths)
  PROVE  Total(lengths) = at[Len(lengths)]
<1> DEFINE len == Len(lengths)
           chosen == CHOOSE f : f = Summed(lengths, f)
<1>1. len \in Nat /\ \A i \in 1 .. len : lengths[i] \in Nat
  BY LenProperties, ElementOfSeq
<1>2. at = Summed(lengths, at)
  <2>1. at = [n \in 0 .. len |-> at[n]]
    BY DEF Sums
  <2>2. ASSUME NEW n \in 0 .. len PROVE at[n] = Summed(lengths, at)[n]
    <3>1. CASE n = 0
      BY <1>1, <3>1 DEF Sums, Summed
    <3>2. CASE n # 0
      <4>1. n \in 1 .. len
        BY <1>1, <3>2
      <4> QED
        BY <3>2, <4>1 DEF Sums, Summed
    <3> QED
      BY <3>1, <3>2
  <2>3. Summed(lengths, at) = [n \in 0 .. len |-> Summed(lengths, at)[n]]
    BY DEF Summed
  <2> QED
    BY <2>1, <2>2, <2>3
<1>3. chosen = Summed(lengths, chosen)
  BY <1>2
<1>4. Total(lengths) = chosen[len]
  BY DEF Total, Summed
<1> HIDE DEF chosen
<1> DEFINE T == {n \in 0 .. len : chosen[n] = at[n]}
<1>5. \A n \in 0 .. len : chosen[n] = IF n = 0 THEN 0 ELSE chosen[n - 1] + lengths[n]
  BY <1>3 DEF Summed
<1>6. 0 \in T
  BY <1>1, <1>5 DEF Sums
<1>7. ASSUME NEW n \in 0 .. len, n # 0, n - 1 \in T PROVE n \in T
  <2>1. n \in 1 .. len
    BY <1>1, <1>7
  <2>2. at[n] = at[n - 1] + lengths[n]
    BY <2>1 DEF Sums
  <2> QED
    BY <1>5, <1>7, <2>2
<1> HIDE DEF T
<1>8. 0 .. len \subseteq T
  <2> HIDE DEF len
  <2> QED
    BY <1>1, <1>6, <1>7, Induction
<1> QED
  BY <1>1, <1>4, <1>8 DEF T

--------------------------------------------------------------------------------
(* Powers of two, and whole pieces.                                         *)

(* What the recursive function of Power stands for.                         *)
Doubled(k, f) == [j \in 0 .. k |-> IF j = 0 THEN 1 ELSE 2 * f[j - 1]]
Doubles(k, f) == f \in [0 .. k -> Nat] /\ f[0] = 1 /\ \A j \in 1 .. k : f[j] = 2 * f[j - 1]

LEMMA DoublesExist == ASSUME NEW k \in Nat PROVE \E f : Doubles(k, f)
<1>1. PICK step : step = [p \in (1 .. k) \X Nat |-> 2 * p[2]]
  OBVIOUS
<1>2. step \in [(1 .. k) \X Nat -> Nat]
  BY <1>1
<1>3. PICK f : Recursive(f, Nat, k, 1, step)
  BY <1>2, RecursionExists
<1>4. f \in [0 .. k -> Nat] /\ f[0] = 1 /\ \A j \in 1 .. k : f[j] = step[<<j, f[j - 1]>>]
  BY <1>3 DEF Recursive
<1>5. ASSUME NEW j \in 1 .. k PROVE f[j] = 2 * f[j - 1]
  <2>1. f[j - 1] \in Nat
    BY <1>4
  <2> QED
    BY <1>1, <1>4, <2>1
<1> QED
  BY <1>4, <1>5 DEF Doubles

LEMMA PowerAt ==
  ASSUME NEW n \in Nat, NEW f, Doubles(n, f), NEW k \in 0 .. n
  PROVE  Power(k) = f[k]
<1>1. PICK g : g = [j \in 0 .. k |-> f[j]]
  OBVIOUS
<1>2. g = Doubled(k, g)
  <2>1. ASSUME NEW j \in 0 .. k PROVE g[j] = IF j = 0 THEN 1 ELSE 2 * g[j - 1]
    <3>1. CASE j = 0
      BY <1>1, <3>1 DEF Doubles
    <3>2. CASE j # 0
      <4>1. j \in 1 .. n /\ j - 1 \in 0 .. k
        BY <3>2
      <4> QED
        BY <1>1, <3>2, <4>1 DEF Doubles
    <3> QED
      BY <3>1, <3>2
  <2>2. g = [j \in 0 .. k |-> g[j]]
    BY <1>1
  <2> QED
    BY <2>1, <2>2, Zenon DEF Doubled
<1> DEFINE power == CHOOSE h : h = Doubled(k, h)
<1>3. power = Doubled(k, power)
  BY <1>2
<1>4. Power(k) = power[k]
  BY Zenon DEF Power, Doubled
<1> HIDE DEF power
<1> DEFINE T == {j \in 0 .. k : power[j] = f[j]}
<1>5. \A j \in 0 .. k : power[j] = IF j = 0 THEN 1 ELSE 2 * power[j - 1]
  BY <1>3 DEF Doubled
<1>6. 0 \in T
  BY <1>5 DEF Doubles
<1>7. ASSUME NEW j \in 0 .. k, j # 0, j - 1 \in T PROVE j \in T
  <2>1. j \in 1 .. n
    BY <1>7
  <2> QED
    BY <1>5, <1>7, <2>1 DEF Doubles
<1>8. k \in Nat
  OBVIOUS
<1> HIDE DEF T
<1>9. 0 .. k \subseteq T
  BY <1>6, <1>7, <1>8, Induction
<1> QED
  BY <1>4, <1>8, <1>9 DEF T

LEMMA PowerIs ==
  ASSUME NEW k \in Nat
  PROVE  Power(k) \in Nat \ {0} /\ Power(0) = 1 /\ Power(k + 1) = 2 * Power(k) /\ k <= Power(k)
<1>1. PICK f : Doubles(k + 1, f)
  BY DoublesExist
<1>2. \A j \in 0 .. k + 1 : Power(j) = f[j]
  BY <1>1, PowerAt
<1> DEFINE T == {j \in 0 .. k : f[j] # 0 /\ j <= f[j]}
<1>3. 0 \in T
  BY <1>1 DEF Doubles
<1>4. ASSUME NEW j \in 0 .. k, j # 0, j - 1 \in T PROVE j \in T
  <2>1. j \in 1 .. k + 1 /\ j - 1 \in 0 .. k + 1
    BY <1>4
  <2>2. f[j] = 2 * f[j - 1] /\ f[j - 1] \in Nat
    BY <1>1, <2>1 DEF Doubles
  <2>3. f[j - 1] # 0 /\ j - 1 <= f[j - 1]
    BY <1>4
  <2>4. f[j] # 0 /\ j <= f[j]
    BY <2>2, <2>3
  <2> QED
    BY <2>4
<1> HIDE DEF T
<1>5. k \in T
  BY <1>3, <1>4, Induction
<1>6. f[k] # 0 /\ k <= f[k] /\ f[k] \in Nat /\ f[0] = 1 /\ f[k + 1] = 2 * f[k]
  <2>1. f[k] # 0 /\ k <= f[k]
    BY <1>5 DEF T
  <2>2. k + 1 \in 1 .. k + 1 /\ k + 1 - 1 = k /\ k \in 0 .. k + 1
    OBVIOUS
  <2> QED
    BY <1>1, <2>1, <2>2 DEF Doubles
<1> QED
  BY <1>2, <1>6

LEMMA PowerAdds ==
  ASSUME NEW j \in Nat, NEW k \in Nat
  PROVE  Power(j + k) = Power(j) * Power(k) /\ Power(j) <= Power(j + k)
<1>1. PICK p \in Nat \ {0} : p = Power(j)
  BY PowerIs
<1> DEFINE T == {m \in 0 .. k : Power(j + m) = p * Power(m)}
<1>2. 0 \in T
  <2>1. Power(0) = 1 /\ j + 0 = j
    BY PowerIs
  <2> QED
    BY <1>1, <2>1
<1>3. ASSUME NEW m \in 0 .. k, m # 0, m - 1 \in T PROVE m \in T
  <2>1. PICK l \in Nat : l = m - 1 /\ m = l + 1 /\ j + l \in Nat /\ j + m = (j + l) + 1
    BY <1>3
  <2>2. PICK q \in Nat : q = Power(l) /\ Power(m) = 2 * q
    BY <2>1, PowerIs
  <2>3. Power(j + m) = 2 * (p * q)
    BY <1>3, <2>1, <2>2, PowerIs
  <2>4. 2 * (p * q) = p * (2 * q)
    BY <1>1
  <2> QED
    BY <2>2, <2>3, <2>4
<1> HIDE DEF T
<1>4. k \in T
  BY <1>2, <1>3, Induction
<1>5. PICK q \in Nat \ {0} : q = Power(k)
  BY PowerIs
<1>6. p <= p * q
  OBVIOUS
<1> QED
  BY <1>1, <1>4, <1>5, <1>6 DEF T

LEMMA PowerGrows ==
  ASSUME NEW j \in Nat, NEW k \in Nat, j <= k
  PROVE  Power(j) <= Power(k)
<1>1. PICK m \in Nat : k = j + m
  <2>1. k - j \in Nat /\ k = j + (k - j)
    OBVIOUS
  <2> QED
    BY <2>1
<1> QED
  BY <1>1, PowerAdds

(* The depth of a tree of n hashes.                                         *)
LEMMA DepthIs ==
  ASSUME NEW n \in Nat
  PROVE  /\ Depth(n) \in 0 .. n /\ n <= Power(Depth(n))
         /\ Depth(n) # 0 => Power(Depth(n) - 1) < n
<1> DEFINE T == {k \in 0 .. n : n <= Power(k)}
<1>1. n \in T /\ T \in SUBSET Nat
  BY PowerIs
<1> HIDE DEF T
<1>2. PICK k \in T : \A j \in T : k <= j
  BY <1>1, Smallest
<1>3. k \in 0 .. n /\ n <= Power(k)
  BY <1>2 DEF T
<1>4. k = 0 \/ Power(k - 1) < n
  <2> SUFFICES ASSUME k # 0 PROVE Power(k - 1) < n
    OBVIOUS
  <2>1. k - 1 \in 0 .. n /\ k - 1 \notin T /\ k - 1 \in Nat
    BY <1>1, <1>2, <1>3
  <2>2. ~ n <= Power(k - 1) /\ Power(k - 1) \in Nat
    BY <2>1, PowerIs DEF T
  <2> QED
    BY <2>2
<1>5. Depth(n) \in 0 .. n /\ n <= Power(Depth(n)) /\ (Depth(n) = 0 \/ Power(Depth(n) - 1) < n)
  BY <1>3, <1>4 DEF Depth
<1> QED
  BY <1>5

LEMMA DepthIsOne ==
  ASSUME NEW n \in Nat, NEW k \in Nat, n <= Power(k), k # 0 => Power(k - 1) < n
  PROVE  Depth(n) = k
<1>1. PICK d \in Nat : d = Depth(n) /\ n <= Power(d) /\ (d # 0 => Power(d - 1) < n)
  BY DepthIs
<1>2. ~ d < k
  <2> SUFFICES ASSUME d < k PROVE FALSE
    OBVIOUS
  <2>1. k - 1 \in Nat /\ d <= k - 1 /\ k # 0
    OBVIOUS
  <2>2. Power(d) <= Power(k - 1) /\ Power(d) \in Nat /\ Power(k - 1) \in Nat
    BY <2>1, PowerGrows, PowerIs
  <2> QED
    BY <1>1, <2>1, <2>2
<1>3. ~ k < d
  <2> SUFFICES ASSUME k < d PROVE FALSE
    OBVIOUS
  <2>1. d - 1 \in Nat /\ k <= d - 1 /\ d # 0
    OBVIOUS
  <2>2. Power(k) <= Power(d - 1) /\ Power(k) \in Nat /\ Power(d - 1) \in Nat
    BY <2>1, PowerGrows, PowerIs
  <2> QED
    BY <1>1, <2>1, <2>2
<1> QED
  BY <1>1, <1>2, <1>3

LEMMA DepthOfPower == ASSUME NEW k \in Nat PROVE Depth(Power(k)) = k
<1>1. Power(k) \in Nat /\ Power(k) <= Power(k)
  BY PowerIs
<1>2. k # 0 => Power(k - 1) < Power(k)
  <2> SUFFICES ASSUME k # 0 PROVE Power(k - 1) < Power(k)
    OBVIOUS
  <2>1. PICK l \in Nat : l = k - 1 /\ k = l + 1
    OBVIOUS
  <2>2. Power(k) = 2 * Power(l) /\ Power(l) \in Nat \ {0}
    BY <2>1, PowerIs
  <2> QED
    BY <2>1, <2>2
<1> QED
  BY <1>1, <1>2, DepthIsOne

--------------------------------------------------------------------------------
(* Multiples of the piece length.                                           *)
LEMMA LengthIs == PieceLength \in Nat \ {0}
<1>1. PICK k \in 0 .. PieceLength : PieceLength = Power(k)
  BY LayoutAssumption
<1>2. k \in Nat
  BY LayoutAssumption
<1> QED
  BY <1>1, <1>2, PowerIs

LEMMA LengthIsPower == PieceLayerDepth \in Nat /\ PieceLength = Power(PieceLayerDepth)
<1>1. PICK k \in 0 .. PieceLength : PieceLength = Power(k)
  BY LayoutAssumption
<1>2. k \in Nat
  BY LayoutAssumption
<1> QED
  BY <1>1, <1>2, DepthOfPower DEF PieceLayerDepth

LEMMA TimesIs ==
  ASSUME NEW i \in Nat
  PROVE  /\ i * PieceLength \in Nat /\ (i + 1) * PieceLength = i * PieceLength + PieceLength
         /\ i # 0 => PieceLength <= i * PieceLength
<1>1. PICK p \in Nat \ {0} : p = PieceLength
  BY LengthIs
<1>2. i * p \in Nat /\ (i + 1) * p = i * p + p /\ (i # 0 => p <= i * p)
  OBVIOUS
<1> QED
  BY <1>1, <1>2

LEMMA TimesGrow ==
  ASSUME NEW i \in Nat, NEW k \in Nat, i <= k
  PROVE  i * PieceLength <= k * PieceLength
<1>1. PICK p \in Nat \ {0} : p = PieceLength
  BY LengthIs
<1>2. i * p <= k * p
  OBVIOUS
<1> QED
  BY <1>1, <1>2

LEMMA TimesAdd ==
  ASSUME NEW x \in Nat, NEW m \in Nat
  PROVE  (x + m) * PieceLength = x * PieceLength + m * PieceLength
<1>1. PICK p \in Nat \ {0} : p = PieceLength
  BY LengthIs
<1>2. (x + m) * p = x * p + m * p
  OBVIOUS
<1> QED
  BY <1>1, <1>2

(* Every number is so many pieces and a rest.                               *)
LEMMA DivMod ==
  ASSUME NEW x \in Nat
  PROVE  \E q \in Nat : \E r \in Nat :
           /\ r < PieceLength /\ x = q * PieceLength + r
           /\ x \div PieceLength = q /\ x % PieceLength = r
<1>1. PICK p \in Nat \ {0} : p = PieceLength
  BY LengthIs
<1>2. x = p * (x \div p) + (x % p) /\ (x % p) < p /\ (x \div p) \in Nat /\ (x % p) \in Nat
  OBVIOUS
<1>3. PICK q \in Nat, r \in Nat : q = x \div p /\ r = x % p
  BY <1>2
<1>4. x = q * p + r
  BY <1>2, <1>3
<1> QED
  BY <1>1, <1>2, <1>3, <1>4

LEMMA TimesReach ==
  ASSUME NEW x \in Nat
  PROVE  \E k \in Nat : k * PieceLength <= x /\ x < k * PieceLength + PieceLength
<1>1. PICK q \in Nat : \E r \in Nat : r < PieceLength /\ x = q * PieceLength + r
  BY DivMod
<1>2. PICK r \in Nat : r < PieceLength /\ x = q * PieceLength + r
  BY <1>1
<1>3. PICK at \in Nat, p \in Nat : at = q * PieceLength /\ p = PieceLength
  BY LengthIs, TimesIs
<1>4. at <= x /\ x < at + p
  BY <1>2, <1>3
<1> QED
  BY <1>3, <1>4

LEMMA DivIs ==
  ASSUME NEW x \in Nat, NEW k \in Nat
  PROVE  /\ x \div PieceLength \in Nat
         /\ x <= k * PieceLength => x \div PieceLength <= k
         /\ k * PieceLength <= x => k <= x \div PieceLength
<1>1. PICK q \in Nat : \E r \in Nat : r < PieceLength /\ x = q * PieceLength + r /\ x \div PieceLength = q
  BY DivMod
<1>2. PICK r \in Nat : r < PieceLength /\ x = q * PieceLength + r
  BY <1>1
<1>3. PICK p \in Nat \ {0} : p = PieceLength
  BY LengthIs
<1>4. PICK at \in Nat, to \in Nat : at = q * p /\ to = k * p
  BY <1>3
<1>5. k + 1 <= q => to + p <= at
  <2> SUFFICES ASSUME k + 1 <= q PROVE to + p <= at
    OBVIOUS
  <2>1. (k + 1) * p <= q * p /\ (k + 1) * p = k * p + p
    OBVIOUS
  <2> QED
    BY <1>4, <2>1
<1>6. q + 1 <= k => at + p <= to
  <2> SUFFICES ASSUME q + 1 <= k PROVE at + p <= to
    OBVIOUS
  <2>1. (q + 1) * p <= k * p /\ (q + 1) * p = q * p + p
    OBVIOUS
  <2> QED
    BY <1>4, <2>1
<1>7. x = at + r /\ r < p
  BY <1>2, <1>3, <1>4
<1>8. x <= to => q <= k
  BY <1>5, <1>7
<1>9. to <= x => k <= q
  BY <1>6, <1>7
<1> QED
  BY <1>1, <1>3, <1>4, <1>8, <1>9

(* As many groups as it takes.                                              *)
LEMMA CeilIs ==
  ASSUME NEW n \in Nat
  PROVE  /\ CeilDiv(n, PieceLength) \in Nat
         /\ \A k \in Nat : k + 1 <= CeilDiv(n, PieceLength) <=> k * PieceLength < n
<1>1. PICK p \in Nat \ {0} : p = PieceLength
  BY LengthIs
<1>2. PICK x \in Nat : x = n + p - 1
  OBVIOUS
<1>3. CeilDiv(n, PieceLength) = x \div PieceLength
  BY <1>1, <1>2 DEF CeilDiv
<1>4. ASSUME NEW k \in Nat PROVE k + 1 <= x \div PieceLength <=> k * PieceLength < n
  <2>1. PICK to \in Nat : to = k * PieceLength /\ (k + 1) * PieceLength = to + p
    BY <1>1, TimesIs
  <2>2. PICK q \in Nat : q = x \div PieceLength
    BY DivIs
  <2>3. to + p <= x => k + 1 <= q
    BY <2>1, <2>2, DivIs
  <2>4. x < to + p => ~ k + 1 <= q
    <3> SUFFICES ASSUME x < to + p, k + 1 <= q PROVE FALSE
      OBVIOUS
    <3>1. (k + 1) * PieceLength <= q * PieceLength
      BY TimesGrow
    <3>2. q * PieceLength <= x
      <4>1. PICK d \in Nat : \E r \in Nat : x = d * PieceLength + r /\ x \div PieceLength = d
        BY DivMod
      <4>2. PICK r \in Nat : x = d * PieceLength + r
        BY <4>1
      <4>3. PICK y \in Nat : y = d * PieceLength
        BY TimesIs
      <4> QED
        BY <2>2, <4>1, <4>2, <4>3
    <3>3. PICK z \in Nat : z = q * PieceLength
      BY TimesIs
    <3> QED
      BY <2>1, <3>1, <3>2, <3>3
  <2> QED
    BY <1>2, <2>1, <2>2, <2>3, <2>4
<1> QED
  BY <1>3, <1>4, DivIs

LEMMA CeilTimes ==
  ASSUME NEW q \in Nat, NEW r \in Nat, r < PieceLength
  PROVE  CeilDiv(q * PieceLength + r, PieceLength) = IF r = 0 THEN q ELSE q + 1
<1>1. PICK p \in Nat \ {0} : p = PieceLength
  BY LengthIs
<1>2. PICK at \in Nat : at = q * PieceLength /\ (q + 1) * PieceLength = at + p
  BY <1>1, TimesIs
<1>3. PICK c \in Nat : c = CeilDiv(at + r, PieceLength) /\ \A k \in Nat : k + 1 <= c <=> k * PieceLength < at + r
  BY CeilIs
<1>4. r # 0 => q + 1 <= c
  BY <1>2, <1>3
<1>5. ~ q + 2 <= c
  <2>1. q + 1 + 1 <= c <=> (q + 1) * PieceLength < at + r
    BY <1>3
  <2> QED
    BY <1>1, <1>2, <2>1
<1>6. r = 0 => ~ q + 1 <= c
  BY <1>2, <1>3
<1>7. q <= c
  <2>1. CASE q = 0
    BY <2>1
  <2>2. CASE q # 0
    <3>1. PICK l \in Nat : l = q - 1 /\ q = l + 1
      BY <2>2
    <3>2. PICK y \in Nat : y = l * PieceLength /\ at = y + p
      BY <1>1, <1>2, <3>1, TimesIs
    <3>3. y < at + r
      BY <3>2
    <3> QED
      BY <1>3, <3>1, <3>2, <3>3
  <2> QED
    BY <2>1, <2>2
<1>8. c = IF r = 0 THEN q ELSE q + 1
  BY <1>4, <1>5, <1>6, <1>7
<1> QED
  BY <1>2, <1>3, <1>8

LEMMA PadIs ==
  ASSUME NEW length \in Nat
  PROVE  PadTo(length) \in Nat /\ length + PadTo(length) = CeilDiv(length, PieceLength) * PieceLength
<1>1. PICK q \in Nat : \E r \in Nat : /\ r < PieceLength /\ length = q * PieceLength + r
                                      /\ length % PieceLength = r
  BY DivMod
<1>2. PICK r \in Nat : r < PieceLength /\ length = q * PieceLength + r /\ length % PieceLength = r
  BY <1>1
<1>3. PICK p \in Nat \ {0} : p = PieceLength
  BY LengthIs
<1>4. PICK at \in Nat : at = q * PieceLength /\ (q + 1) * PieceLength = at + p
  BY <1>3, TimesIs
<1>5. CeilDiv(length, PieceLength) = IF r = 0 THEN q ELSE q + 1
  BY <1>2, CeilTimes
<1>6. CASE r = 0
  <2>1. PadTo(length) = (p - 0) % p
    BY <1>2, <1>3, <1>6 DEF PadTo
  <2>2. (p - 0) % p = 0
    OBVIOUS
  <2> QED
    BY <1>2, <1>4, <1>5, <1>6, <2>1, <2>2
<1>7. CASE r # 0
  <2>1. PadTo(length) = (p - r) % p
    BY <1>2, <1>3 DEF PadTo
  <2>2. p - r \in 0 .. p - 1
    BY <1>2, <1>3, <1>7
  <2>3. (p - r) % p = p - r
    BY <2>2
  <2> QED
    BY <1>2, <1>3, <1>4, <1>5, <1>7, <2>1, <2>2, <2>3
<1> QED
  BY <1>6, <1>7

--------------------------------------------------------------------------------
(* Sequences of sequences.                                                  *)

(* What the recursive function of FlattenSeq stands for.                    *)
Joined(parts, f) ==
  [i \in 1 .. Len(parts) |-> IF i = 1 THEN parts[i] ELSE f[i - 1] \o parts[i]]

LEMMA JoinedExists ==
  ASSUME NEW S, NEW parts \in Seq(Seq(S))
  PROVE  \E f : f = Joined(parts, f)
<1> DEFINE n == Len(parts)
           step == [p \in (1 .. n) \X Seq(S) |-> p[2] \o parts[p[1]]]
<1>1. n \in Nat /\ \A i \in 1 .. n : parts[i] \in Seq(S)
  BY LenProperties, ElementOfSeq
<1>2. step \in [(1 .. n) \X Seq(S) -> Seq(S)]
  <2>1. ASSUME NEW p \in (1 .. n) \X Seq(S) PROVE p[2] \o parts[p[1]] \in Seq(S)
    <3>1. p[2] \in Seq(S) /\ parts[p[1]] \in Seq(S)
      BY <1>1
    <3> QED
      BY <3>1, ConcatProperties
  <2> QED
    BY <2>1
<1>3. \A i \in 1 .. n, x \in Seq(S) : step[<<i, x>>] = x \o parts[i]
  OBVIOUS
<1>4. PICK f : Recursive(f, Seq(S), n, << >>, step)
  <2>1. << >> \in Seq(S)
    OBVIOUS
  <2> HIDE DEF step, n
  <2> QED
    BY <1>1, <1>2, <2>1, RecursionExists
<1> HIDE DEF step
<1>5. f \in [0 .. n -> Seq(S)] /\ f[0] = << >> /\ \A i \in 1 .. n : f[i] = step[<<i, f[i - 1]>>]
  BY <1>4 DEF Recursive
<1>6. ASSUME NEW i \in 1 .. n PROVE f[i] = f[i - 1] \o parts[i]
  <2>1. i - 1 \in 0 .. n
    BY <1>1
  <2>2. f[i - 1] \in Seq(S)
    BY <1>5, <2>1
  <2> QED
    BY <1>3, <1>5, <2>2
<1> DEFINE g == [i \in 1 .. n |-> f[i]]
<1>7. g = Joined(parts, g)
  <2>1. ASSUME NEW i \in 1 .. n PROVE g[i] = Joined(parts, g)[i]
    <3>1. CASE i = 1
      <4>1. f[i] = << >> \o parts[i]
        <5>1. i - 1 = 0
          BY <3>1
        <5> QED
          BY <1>5, <1>6, <5>1
      <4>2. << >> \o parts[i] = parts[i]
        BY <1>1, ConcatEmptySeq
      <4> QED
        BY <3>1, <4>1, <4>2 DEF Joined
    <3>2. CASE i # 1
      <4>1. g[i - 1] = f[i - 1]
        BY <1>1, <3>2
      <4> QED
        BY <1>6, <3>2, <4>1 DEF Joined
    <3> QED
      BY <3>1, <3>2
  <2>2. Joined(parts, g) = [i \in 1 .. n |-> Joined(parts, g)[i]]
    BY DEF Joined
  <2> QED
    BY <2>1, <2>2
<1> QED
  BY <1>7

Lengths(parts) == [i \in 1 .. Len(parts) |-> Len(parts[i])]

LEMMA FlattenIs ==
  ASSUME NEW S, NEW parts \in Seq(Seq(S)), NEW at, Sums(at, Len(parts), Lengths(parts))
  PROVE  /\ FlattenSeq(parts) \in Seq(S) /\ Len(FlattenSeq(parts)) = at[Len(parts)]
         /\ \A i \in 1 .. Len(parts) : \A o \in 1 .. Len(parts[i]) :
              FlattenSeq(parts)[at[i - 1] + o] = parts[i][o]
<1> DEFINE n == Len(parts)
           chosen == CHOOSE f : f = Joined(parts, f)
<1>1. n \in Nat /\ \A i \in 1 .. n : parts[i] \in Seq(S) /\ Len(parts[i]) \in Nat
  BY LenProperties, ElementOfSeq
<1>2. chosen = Joined(parts, chosen)
  BY JoinedExists
<1>3. FlattenSeq(parts) = IF n = 0 THEN parts ELSE chosen[n]
  BY DEF FlattenSeq, Joined
<1> HIDE DEF chosen
<1>4. \A i \in 1 .. n : chosen[i] = IF i = 1 THEN parts[i] ELSE chosen[i - 1] \o parts[i]
  BY <1>2 DEF Joined
<1>5. /\ at \in [0 .. n -> Nat] /\ at[0] = 0
      /\ \A i \in 1 .. n : at[i] = at[i - 1] + Len(parts[i])
  BY DEF Sums, Lengths
<1>6. \A i \in 0 .. n : \A j \in 0 .. i : at[j] <= at[i]
  <2>1. \A i \in 1 .. n : Lengths(parts)[i] \in Nat
    BY <1>1 DEF Lengths
  <2> QED
    BY <1>1, <2>1, SumsGrow
<1> DEFINE Right(i) == /\ chosen[i] \in Seq(S) /\ Len(chosen[i]) = at[i]
                       /\ \A j \in 1 .. i : \A o \in 1 .. Len(parts[j]) : chosen[i][at[j - 1] + o] = parts[j][o]
           T == {i \in 0 .. n : i = 0 \/ Right(i)}
<1>7. 0 \in T
  BY <1>1
<1>8. ASSUME NEW i \in 0 .. n, i # 0, i - 1 \in T PROVE i \in T
  <2>1. i \in 1 .. n
    BY <1>1, <1>8
  <2>2. CASE i = 1
    <3>1. chosen[i] = parts[i] /\ at[i - 1] = 0 /\ at[i] = Len(parts[i])
      BY <1>1, <1>4, <1>5, <2>1, <2>2
    <3>2. \A j \in 1 .. i : j = i
      BY <2>2
    <3>3. \A o \in 1 .. Len(parts[i]) : at[i - 1] + o = o
      BY <3>1
    <3> QED
      BY <1>1, <2>1, <3>1, <3>2, <3>3
  <2>3. CASE i # 1
    <3>1. Right(i - 1) /\ i - 1 \in 0 .. n /\ i - 1 \in 1 .. n
      BY <1>8, <2>1, <2>3, <1>1
    <3>2. chosen[i] = chosen[i - 1] \o parts[i] /\ at[i] = at[i - 1] + Len(parts[i])
      BY <1>4, <1>5, <2>1, <2>3
    <3>3. PICK s \in Seq(S) : s = chosen[i - 1]
      BY <3>1
    <3>4. PICK t \in Seq(S) : t = parts[i]
      BY <1>1, <2>1
    <3>5. /\ s \o t \in Seq(S) /\ Len(s \o t) = Len(s) + Len(t)
          /\ \A k \in 1 .. Len(s) + Len(t) : (s \o t)[k] = IF k <= Len(s) THEN s[k] ELSE t[k - Len(s)]
      BY ConcatProperties
    <3>6. Len(s) = at[i - 1] /\ Len(t) \in Nat /\ at[i - 1] \in Nat
      BY <1>1, <1>5, <2>1, <3>1, <3>3, <3>4
    <3>7. ASSUME NEW j \in 1 .. i, NEW o \in 1 .. Len(parts[j])
          PROVE  chosen[i][at[j - 1] + o] = parts[j][o]
      <4>1. CASE j = i
        <5>1. o \in 1 .. Len(t)
          BY <3>4, <4>1
        <5>2. PICK k \in Nat : k = at[i - 1] + o
          BY <3>6, <5>1
        <5>3. k \in 1 .. Len(s) + Len(t) /\ ~ (k <= Len(s)) /\ k - Len(s) = o
          BY SMTT(60), <3>6, <5>1, <5>2
        <5>4. (s \o t)[k] = t[o]
          BY <3>5, <5>3
        <5> QED
          BY <3>2, <3>3, <3>4, <4>1, <5>2, <5>4
      <4>2. CASE j # i
        <5>1. j \in 1 .. i - 1 /\ j \in 0 .. i - 1 /\ j \in 1 .. n /\ j - 1 \in 0 .. n
          BY <2>1, <4>2, <1>1
        <5>2. at[j] <= at[i - 1] /\ at[j] = at[j - 1] + Len(parts[j]) /\ at[j - 1] \in Nat
              /\ Len(parts[j]) \in Nat
          BY <1>1, <1>5, <1>6, <3>1, <5>1
        <5>3. PICK k \in Nat : k = at[j - 1] + o
          BY <5>2
        <5>4. k \in 1 .. Len(s) + Len(t) /\ k <= Len(s)
          <6>1. o \in Nat /\ 1 <= o /\ o <= Len(parts[j])
            BY <5>2
          <6>2. PICK u \in Nat, v \in Nat, w \in Nat : u = at[j - 1] /\ v = o /\ w = Len(parts[j])
            BY <5>2, <6>1
          <6>3. k = u + v /\ at[j] = u + w /\ 1 <= v /\ v <= w
            BY <5>2, <5>3, <6>1, <6>2
          <6>4. k <= at[j] /\ 1 <= k
            BY <6>3
          <6>5. PICK x \in Nat, y \in Nat : x = Len(s) /\ y = Len(t)
            BY <3>6
          <6>6. PICK last \in Nat : last = at[j]
            BY SMTT(60), <6>2, <6>3
          <6>8. last <= x
            BY <3>6, <5>2, <6>5, <6>6
          <6>7. k \in 1 .. x + y /\ k <= x
            BY SMTT(60), <5>3, <6>4, <6>5, <6>6, <6>8
          <6> QED
            BY <6>5, <6>7
        <5>5. s[k] = parts[j][o]
          BY <3>1, <3>3, <5>1, <5>3
        <5>6. (s \o t)[k] = s[k]
          BY <3>5, <5>4
        <5> QED
          BY <3>2, <3>3, <3>4, <5>3, <5>5, <5>6
      <4> QED
        BY <4>1, <4>2
    <3>8. chosen[i] \in Seq(S) /\ Len(chosen[i]) = at[i]
      BY <3>2, <3>3, <3>4, <3>5, <3>6
    <3> QED
      BY <3>7, <3>8
  <2> QED
    BY <2>2, <2>3
<1> HIDE DEF T
<1>9. 0 .. n \subseteq T
  <2> HIDE DEF n
  <2> QED
    BY <1>1, <1>7, <1>8, Induction
<1>10. CASE n = 0
  <2>1. parts = << >>
    BY <1>10, EmptySeq
  <2> QED
    BY <1>3, <1>5, <1>10, <2>1
<1>11. CASE n # 0
  <2>1. Right(n)
    BY <1>1, <1>9, <1>11, SMTT(60) DEF T
  <2> QED
    BY <1>3, <1>11, <2>1
<1> QED
  BY <1>10, <1>11

(* Two sequences of one length that agree everywhere are one.               *)
LEMMA SameSeq ==
  ASSUME NEW S, NEW s \in Seq(S), NEW t \in Seq(S), Len(s) = Len(t),
         \A i \in 1 .. Len(s) : s[i] = t[i]
  PROVE  s = t
BY SeqDef

(* The same with its premises in one.                                       *)
Flattened(S, parts, at, s) ==
  /\ s \in Seq(S) /\ Len(s) = at[Len(parts)]
  /\ \A i \in 1 .. Len(parts) : \A o \in 1 .. Len(parts[i]) : s[at[i - 1] + o] = parts[i][o]

LEMMA FlattenedIs ==
  \A S, parts, at : parts \in Seq(Seq(S)) /\ Sums(at, Len(parts), Lengths(parts))
    => Flattened(S, parts, at, FlattenSeq(parts))
BY FlattenIs DEF Flattened

(* n elements of a sequence from one of them on.                            *)
LEMMA Part ==
  ASSUME NEW S, NEW s \in Seq(S), NEW from \in Nat, NEW n \in Nat, from + n <= Len(s)
  PROVE  /\ SubSeq(s, from + 1, from + n) \in Seq(S) /\ Len(SubSeq(s, from + 1, from + n)) = n
         /\ \A k \in 1 .. n : SubSeq(s, from + 1, from + n)[k] = s[from + k]
<1>1. from + 1 \in Int /\ from + n \in Int /\ \A i \in from + 1 .. from + n : s[i] \in S
  BY LenProperties, ElementOfSeq
<1>2. /\ SubSeq(s, from + 1, from + n) \in Seq(S)
      /\ Len(SubSeq(s, from + 1, from + n)) = IF from + 1 <= from + n THEN from + n - (from + 1) + 1 ELSE 0
      /\ \A k \in 1 .. from + n - (from + 1) + 1 : SubSeq(s, from + 1, from + n)[k] = s[from + 1 + k - 1]
  BY <1>1, SubSeqProperties
<1>3. from + n - (from + 1) + 1 = n /\ (from + 1 <= from + n <=> n # 0)
      /\ \A k \in 1 .. n : from + 1 + k - 1 = from + k
  OBVIOUS
<1> QED
  BY <1>2, <1>3

PartOf(S, s, from, n, part) ==
  part \in Seq(S) /\ Len(part) = n /\ \A k \in 1 .. n : part[k] = s[from + k]

LEMMA PartIs ==
  \A S, s, from, n : s \in Seq(S) /\ from \in Nat /\ n \in Nat /\ from + n <= Len(s)
    => PartOf(S, s, from, n, SubSeq(s, from + 1, from + n))
BY Part DEF PartOf

--------------------------------------------------------------------------------
(* What stands on disk: the layout of the files, the pieces and their hashes.*)

Bytes == Nat \X Nat
All == Content(layout)

(* The files lie one behind the other and hold the content, byte for byte.  *)
FilesLaid ==
  /\ layout \in Seq(Nat) /\ offsets \in [Files -> Nat] /\ All \in Seq(Bytes)
  /\ \A f \in Files : \A o \in 1 .. layout[f] :
       offsets[f] + o \in 1 .. Len(All) /\ All[offsets[f] + o] = <<f, o>>
  /\ \A b \in 1 .. Len(All) : \E f \in Files : \E o \in 1 .. layout[f] : b = offsets[f] + o

(* So do the pieces; with v2 each lies in one file.                         *)
PieceLaid(i) ==
  LET piece == pieces[i] IN
  /\ piece.offset \in Nat /\ piece.length \in Nat \ {0} /\ piece.padding \in Nat
  /\ piece.offset + piece.length <= Len(All)
  /\ HasV2(generation) => /\ piece.file \in Files /\ piece.start \in Nat
                          /\ piece.offset = offsets[piece.file] + piece.start
                          /\ piece.start + piece.length <= layout[piece.file]
  /\ ~ HasV2(generation) => piece.offset = (i - 1) * PieceLength

PiecesLaid ==
  /\ DOMAIN pieces \subseteq Nat \ {0}
  /\ \A i \in DOMAIN pieces : PieceLaid(i)
  /\ \A i, j \in DOMAIN pieces : i < j => pieces[i].offset + pieces[i].length <= pieces[j].offset

(* A hash tells the bytes of its piece from all others.                     *)
HashesTell ==
  \A i \in DOMAIN pieces : \A data \in Seq(Bytes) : VerifyData(pieces[i], data) <=> data = PieceData(i)

(* What was hashed for v1 is the piece and its padding.                     *)
PaddingHashed ==
  HasV1(generation) =>
    \A i \in DOMAIN pieces : info.pieces[i] = PieceData(i) \o Zeros(pieces[i].padding)

Laid == FilesLaid /\ PiecesLaid /\ HashesTell /\ PaddingHashed

LEMMA LaidStays == ASSUME Laid, UNCHANGED torrentVars PROVE Laid'
<1>1. layout' = layout /\ generation' = generation /\ info' = info /\ pieces' = pieces /\ offsets' = offsets
  BY DEF torrentVars
<1>2. All' = All /\ Files' = Files
  BY <1>1 DEF All, Files
<1>3. \A i : PieceData(i)' = PieceData(i)
  BY <1>1 DEF PieceData
<1>4. FilesLaid'
  BY <1>1, <1>2 DEF Laid, FilesLaid
<1>5. PiecesLaid'
  BY <1>1, <1>2 DEF Laid, PiecesLaid, PieceLaid
<1>6. HashesTell'
  BY <1>1, <1>3 DEF Laid, HashesTell
<1>7. PaddingHashed'
  BY <1>1, <1>3 DEF Laid, PaddingHashed
<1> QED
  BY <1>4, <1>5, <1>6, <1>7 DEF Laid

LEMMA FileIs ==
  ASSUME FilesLaid, NEW f \in Files
  PROVE  f \in Nat \ {0} /\ layout[f] \in Nat /\ offsets[f] \in Nat
<1>1. layout \in Seq(Nat) /\ offsets \in [Files -> Nat] /\ Len(layout) \in Nat
  BY LenProperties DEF FilesLaid
<1>2. layout[f] \in Nat
  BY <1>1, ElementOfSeq DEF Files
<1> QED
  BY <1>1, <1>2 DEF Files

--------------------------------------------------------------------------------
(* Byte b of the content is on disk.                                        *)
OnDisk(b) == LET f == All[b][1]  o == All[b][2] IN o <= SizeOf(f) /\ disk[f][o] = <<f, o>>

DiskTypes == disk \in [Files -> Seq(Bytes) \cup {Absent}]

LEMMA ByteIs ==
  ASSUME FilesLaid, NEW b \in 1 .. Len(All)
  PROVE  \E f \in Files : \E o \in 1 .. layout[f] :
           /\ b = offsets[f] + o /\ All[b] = <<f, o>> /\ FileAt(b - 1) = f
           /\ f \in Nat /\ o \in Nat /\ offsets[f] \in Nat /\ layout[f] \in Nat
<1>1. PICK f \in Files : \E o \in 1 .. layout[f] : b = offsets[f] + o
  BY DEF FilesLaid
<1>2. PICK o \in 1 .. layout[f] : b = offsets[f] + o
  BY <1>1
<1>3. f \in Nat /\ layout[f] \in Nat /\ offsets[f] \in Nat
  BY FileIs
<1>4. All[b] = <<f, o>>
  BY <1>2 DEF FilesLaid
<1> DEFINE from == {g \in Files : offsets[g] <= b - 1 /\ b - 1 < EndOf(g)}
<1>5. f \in from
  BY <1>2, <1>3 DEF EndOf
<1>6. ASSUME NEW g \in from PROVE g = f
  <2>1. g \in Files /\ layout[g] \in Nat /\ offsets[g] \in Nat
    BY FileIs
  <2>2. PICK p \in Nat : p = b - offsets[g]
    BY <2>1
  <2>3. p \in 1 .. layout[g] /\ b = offsets[g] + p
    BY <2>1, <2>2, SMTT(60) DEF EndOf
  <2>4. All[b] = <<g, p>>
    BY <2>1, <2>3 DEF FilesLaid
  <2> QED
    BY <1>4, <2>4
<1>7. FileAt(b - 1) = f
  <2>1. FileAt(b - 1) = CHOOSE g \in from : TRUE
    BY DEF FileAt
  <2> HIDE DEF from
  <2> QED
    BY <1>5, <1>6, <2>1
<1> QED
  BY <1>2, <1>3, <1>4, <1>7

(* What is read is what is there, if all of it is; and it is right if every  *)
(* byte is kept.                                                            *)
LEMMA ReadIs ==
  ASSUME FilesLaid, DiskTypes, NEW at \in Nat, NEW n \in Nat \ {0}, at + n <= Len(All)
  PROVE  /\ ReadRange(at, n) \in Seq(Bytes)
         /\ ReadRange(at, n) = SubSeq(All, at + 1, at + n) <=> \A b \in at + 1 .. at + n : OnDisk(b)
<1> DEFINE bytes == [i \in 1 .. n |-> <<FileAt(at + i - 1), at + i - 1>>]
           there(b) == b[2] - offsets[b[1]] < SizeOf(b[1])
           right == SubSeq(All, at + 1, at + n)
           read == [i \in 1 .. n |-> disk[bytes[i][1]][bytes[i][2] - offsets[bytes[i][1]] + 1]]
<1>1. Len(All) \in Nat /\ All \in Seq(Bytes)
  BY LenProperties DEF FilesLaid
<1>2. right \in Seq(Bytes) /\ Len(right) = n /\ \A i \in 1 .. n : right[i] = All[at + i]
  <2>1. at + 1 \in 1 .. Len(All) + 1 /\ at + n \in at .. Len(All)
    BY <1>1
  <2> QED
    BY <1>1, SubSeqProperties
<1> HIDE DEF right
<1>3. ASSUME NEW i \in 1 .. n
      PROVE  /\ there(bytes[i]) <=> All[at + i][2] <= SizeOf(All[at + i][1])
             /\ read[i] = disk[All[at + i][1]][All[at + i][2]]
             /\ there(bytes[i]) => read[i] \in Bytes
  <2>1. PICK b \in Nat : b = at + i
    OBVIOUS
  <2>2. b \in 1 .. Len(All)
    BY <1>1, <2>1
  <2>3. PICK f \in Files : \E o \in 1 .. layout[f] :
           /\ b = offsets[f] + o /\ All[b] = <<f, o>> /\ FileAt(b - 1) = f
           /\ f \in Nat /\ o \in Nat /\ offsets[f] \in Nat /\ layout[f] \in Nat
    BY <2>2, ByteIs
  <2>4. PICK o \in 1 .. layout[f] :
           /\ b = offsets[f] + o /\ All[b] = <<f, o>> /\ FileAt(b - 1) = f
           /\ f \in Nat /\ o \in Nat /\ offsets[f] \in Nat /\ layout[f] \in Nat
    BY <2>3
  <2>5. bytes[i] = <<f, b - 1>> /\ b - 1 - offsets[f] = o - 1 /\ b - 1 - offsets[f] + 1 = o
    <3>1. at + i - 1 = b - 1
      BY <2>1
    <3>2. bytes[i] = <<FileAt(b - 1), b - 1>>
      BY <3>1
    <3>3. b - 1 - offsets[f] = o - 1 /\ b - 1 - offsets[f] + 1 = o
      BY SMTT(60), <2>4
    <3> QED
      BY <2>4, <3>2, <3>3
  <2>6. SizeOf(f) \in Nat
    BY LenProperties DEF SizeOf, DiskTypes
  <2>7. there(bytes[i]) <=> o <= SizeOf(f)
    <3>1. there(bytes[i]) <=> b - 1 - offsets[f] < SizeOf(f)
      BY <2>5
    <3> QED
      BY <2>4, <2>5, <2>6, <3>1
  <2>8. read[i] = disk[f][o]
    BY <2>5
  <2>9. o <= SizeOf(f) => disk[f][o] \in Bytes
    <3>1. CASE disk[f] = Absent
      BY <2>4, <3>1 DEF SizeOf
    <3>2. CASE disk[f] # Absent
      BY <2>4, <3>2, ElementOfSeq, LenProperties DEF SizeOf, DiskTypes
    <3> QED
      BY <3>1, <3>2
  <2> QED
    BY <2>1, <2>4, <2>7, <2>8, <2>9
<1>4. ReadRange(at, n) = IF \E i \in 1 .. n : ~ there(bytes[i]) THEN << >> ELSE read
  BY DEF ReadRange
<1>5. /\ \A i \in 1 .. n : there(bytes[i]) <=> All[at + i][2] <= SizeOf(All[at + i][1])
      /\ \A i \in 1 .. n : read[i] = disk[All[at + i][1]][All[at + i][2]]
      /\ \A i \in 1 .. n : there(bytes[i]) => read[i] \in Bytes
  BY <1>3
<1>6. \A i \in 1 .. n : All[at + i] = <<All[at + i][1], All[at + i][2]>>
  <2>1. ASSUME NEW i \in 1 .. n PROVE All[at + i] \in Bytes
    <3>1. at + i \in 1 .. Len(All)
      BY <1>1
    <3> QED
      BY <1>1, <3>1, ElementOfSeq
  <2> QED
    BY <2>1 DEF Bytes
<1>7. DOMAIN read = 1 .. n
  OBVIOUS
<1>8. (\A i \in 1 .. n : there(bytes[i])) => read \in Seq(Bytes) /\ Len(read) = n
  <2> SUFFICES ASSUME \A i \in 1 .. n : there(bytes[i]) PROVE read \in Seq(Bytes) /\ Len(read) = n
    OBVIOUS
  <2>1. read \in [1 .. n -> Bytes]
    BY <1>5
  <2> HIDE DEF read
  <2> QED
    BY <2>1
<1> HIDE DEF read, there, bytes
<1>9. (\A b \in at + 1 .. at + n : OnDisk(b)) <=> \A i \in 1 .. n : OnDisk(at + i)
  <2>1. ASSUME NEW b \in at + 1 .. at + n PROVE b - at \in 1 .. n /\ at + (b - at) = b
    OBVIOUS
  <2>2. ASSUME NEW i \in 1 .. n PROVE at + i \in at + 1 .. at + n
    OBVIOUS
  <2> QED
    BY <2>1, <2>2
<1>10. \A i \in 1 .. n : OnDisk(at + i) <=> there(bytes[i]) /\ read[i] = right[i]
  BY <1>2, <1>5, <1>6, Zenon DEF OnDisk
<1>11. CASE \E i \in 1 .. n : ~ there(bytes[i])
  <2>1. ReadRange(at, n) = << >>
    BY <1>4, <1>11
  <2>2. SubSeq(All, at + 1, at + n) # << >>
    BY <1>2 DEF right
  <2>3. PICK i \in 1 .. n : ~ there(bytes[i])
    BY <1>11
  <2>4. ~ \A b \in at + 1 .. at + n : OnDisk(b)
    BY <1>9, <1>10, <2>3
  <2> QED
    BY <2>1, <2>2, <2>4
<1>12. CASE \A i \in 1 .. n : there(bytes[i])
  <2>1. ReadRange(at, n) = read
    BY <1>4, <1>12
  <2>2. read = right <=> \A i \in 1 .. n : read[i] = right[i]
    BY <1>2, <1>8, <1>12, SameSeq
  <2>3. (\A i \in 1 .. n : read[i] = right[i]) <=> \A b \in at + 1 .. at + n : OnDisk(b)
    BY <1>9, <1>10, <1>12
  <2>4. read \in Seq(Bytes)
    BY <1>8, <1>12
  <2>5. right = SubSeq(All, at + 1, at + n)
    BY DEF right
  <2> QED
    BY <2>1, <2>2, <2>3, <2>4, <2>5
<1> QED
  BY <1>11, <1>12

LEMMA SizeIs ==
  ASSUME DiskTypes, NEW f \in Files
  PROVE  SizeOf(f) \in Nat /\ (SizeOf(f) > 0 => disk[f] # Absent)
         /\ (disk[f] # Absent => disk[f] \in Seq(Bytes) /\ SizeOf(f) = Len(disk[f]))
BY LenProperties DEF SizeOf, DiskTypes

(* What a file becomes where bytes are written over it: they are in it, and  *)
(* what it had elsewhere, with holes where it had nothing.                  *)
Fits(f, size, old, from, n, data) ==
  /\ f \in Nat \ {0} /\ size \in Nat /\ old \in Seq(Bytes) /\ Len(old) <= size
  /\ \A o \in 1 .. Len(old) : old[o] \in {<<f, o>>, Hole}
  /\ from \in Nat /\ n \in Nat \ {0} /\ from + n <= size
  /\ data \in Seq(Bytes) /\ Len(data) = n /\ \A k \in 1 .. n : data[k] = <<f, from + k>>

WrittenTo(f, size, old, from, n, new) ==
  /\ new \in Seq(Bytes) /\ new # Absent /\ Len(new) <= size
  /\ \A o \in 1 .. Len(new) : new[o] \in {<<f, o>>, Hole}
  /\ \A o \in Nat \ {0} : o <= Len(new) /\ new[o] = <<f, o>> <=>
                            o \in from + 1 .. from + n \/ (o <= Len(old) /\ old[o] = <<f, o>>)

LEMMA OverwrittenIs ==
  ASSUME NEW f, NEW size, NEW old, NEW from, NEW n, NEW data, Fits(f, size, old, from, n, data)
  PROVE  WrittenTo(f, size, old, from, n, Overwritten(old, from, data))
<1> DEFINE new == Overwritten(old, from, data)
<1>0. /\ f \in Nat \ {0} /\ size \in Nat /\ old \in Seq(Bytes) /\ Len(old) <= size
      /\ \A o \in 1 .. Len(old) : old[o] \in {<<f, o>>, Hole}
      /\ from \in Nat /\ n \in Nat \ {0} /\ from + n <= size
      /\ data \in Seq(Bytes) /\ Len(data) = n /\ \A k \in 1 .. n : data[k] = <<f, from + k>>
  BY DEF Fits
<1> USE <1>0
<1>1. Len(old) \in Nat
  BY LenProperties
<1>2. PICK m \in Nat : m = IF from + n > Len(old) THEN from + n ELSE Len(old)
  BY <1>1
<1>3. new = [o \in 1 .. m |-> IF o > from /\ o <= from + n THEN data[o - from]
                              ELSE IF o <= Len(old) THEN old[o] ELSE Hole]
  BY <1>2 DEF Overwritten
<1> HIDE DEF new
<1>4. ASSUME NEW o \in 1 .. m
      PROVE  /\ new[o] = IF o \in from + 1 .. from + n THEN <<f, o>>
                         ELSE IF o <= Len(old) THEN old[o] ELSE Hole
             /\ new[o] \in {<<f, o>>, Hole}
  <2>1. CASE o \in from + 1 .. from + n
    <3>1. o - from \in 1 .. n /\ from + (o - from) = o
      BY <2>1
    <3>2. data[o - from] = <<f, o>>
      BY <3>1
    <3>3. o > from /\ o <= from + n
      BY <2>1
    <3>4. new[o] = data[o - from]
      BY <1>3, <3>3
    <3> QED
      BY <2>1, <3>2, <3>4
  <2>2. CASE o \notin from + 1 .. from + n
    <3>1. ~ (o > from /\ o <= from + n)
      BY <2>2
    <3> QED
      BY <1>1, <1>3, <2>2, <3>1
  <2> QED
    BY <2>1, <2>2
<1>5. \A o \in 1 .. m : <<f, o>> \in Bytes /\ Hole \in Bytes /\ <<f, o>> # Hole
  BY DEF Bytes, Hole
<1>6. new \in Seq(Bytes) /\ Len(new) = m
  <2>1. new \in [1 .. m -> Bytes]
    BY <1>3, <1>4, <1>5
  <2> QED
    BY <1>3, <2>1
<1>7. new # Absent
  <2> SUFFICES ASSUME new = Absent PROVE FALSE
    OBVIOUS
  <2>1. Len(new) = 1 /\ new[1] = <<0, 2>>
    BY DEF Absent
  <2>2. new[1] \in {<<f, 1>>, Hole}
    <3>1. 1 \in 1 .. m
      BY <1>6, <2>1
    <3> QED
      BY <1>4, <3>1
  <2> QED
    BY <2>1, <2>2 DEF Hole
<1>8. m <= size /\ from + n <= m /\ Len(old) <= m
  BY <1>1, <1>2
<1>9. ASSUME NEW o \in Nat \ {0}
      PROVE  o <= m /\ new[o] = <<f, o>> <=>
               o \in from + 1 .. from + n \/ (o <= Len(old) /\ old[o] = <<f, o>>)
  <2>1. CASE o <= m
    <3>1. o \in 1 .. m
      BY <2>1
    <3>2. /\ new[o] = IF o \in from + 1 .. from + n THEN <<f, o>> ELSE IF o <= Len(old) THEN old[o] ELSE Hole
          /\ <<f, o>> # Hole
      BY <1>4, <1>5, <3>1
    <3> QED
      BY <2>1, <3>2
  <2>2. CASE ~ (o <= m)
    BY <1>1, <1>8, <2>2
  <2> QED
    BY <2>1, <2>2
<1> QED
  BY <1>4, <1>6, <1>7, <1>8, <1>9 DEF WrittenTo, new

--------------------------------------------------------------------------------
WholePiece(i) == \A b \in pieces[i].offset + 1 .. pieces[i].offset + pieces[i].length : OnDisk(b)

(* Under way is one piece, of which the bytes written so far are kept.       *)
UnderWay(i, a) ==
  /\ prepared /\ i \in DOMAIN pieces /\ i \notin complete /\ a \in 0 .. pieces[i].length
  /\ writing = [piece |-> i, at |-> a]
  /\ \A b \in pieces[i].offset + 1 .. pieces[i].offset + a : OnDisk(b)

WritingSoFar == writing # NotWriting => \E i, a : UnderWay(i, a)

(* What is complete is kept, and the other way round when it was looked at.  *)
CompleteIsKept ==
  /\ complete \subseteq DOMAIN pieces
  /\ \A i \in complete : WholePiece(i)
  /\ IF prepared THEN \A i \in DOMAIN pieces : i # writing.piece /\ WholePiece(i) => i \in complete
     ELSE complete = {}

HeldInv ==
  /\ layout \in Layouts /\ generation \in Generations /\ breaks \in 0 .. MaxBreaks
  /\ prepared \in BOOLEAN
  /\ DiskTypes /\ FilesHoldTheirOwn /\ WritingSoFar /\ CompleteIsKept

ContentInv == Laid /\ HeldInv

LEMMA PieceIs ==
  ASSUME Laid, NEW i \in DOMAIN pieces
  PROVE  /\ pieces[i].offset \in Nat /\ pieces[i].length \in Nat \ {0} /\ pieces[i].padding \in Nat
         /\ pieces[i].offset + pieces[i].length <= Len(All)
         /\ All \in Seq(Bytes) /\ Len(All) \in Nat /\ i # 0 /\ i \in Nat
BY LenProperties DEF Laid, PiecesLaid, PieceLaid, FilesLaid

LEMMA PieceDataIs ==
  ASSUME Laid, NEW i \in DOMAIN pieces
  PROVE  /\ PieceData(i) \in Seq(Bytes) /\ Len(PieceData(i)) = pieces[i].length
         /\ \A k \in 1 .. pieces[i].length : PieceData(i)[k] = All[pieces[i].offset + k]
<1>1. PICK from \in Nat : from = pieces[i].offset
  BY PieceIs
<1>2. PICK n \in Nat : n = pieces[i].length
  BY PieceIs
<1>3. All \in Seq(Bytes) /\ Len(All) \in Nat /\ from + n <= Len(All)
  BY <1>1, <1>2, PieceIs
<1>4. from + 1 \in 1 .. Len(All) + 1 /\ from + n \in from .. Len(All)
  BY <1>3
<1>5. /\ SubSeq(All, from + 1, from + n) \in Seq(Bytes) /\ Len(SubSeq(All, from + 1, from + n)) = n
      /\ \A k \in 1 .. n : SubSeq(All, from + 1, from + n)[k] = All[from + k]
  BY <1>3, <1>4, SubSeqProperties
<1> QED
  BY <1>1, <1>2, <1>5 DEF PieceData, All

(* A segment that is written: so much of the piece as the file takes is kept *)
(* afterwards, beside what was kept before, and no file holds anything else. *)
LEMMA SegmentKeeps ==
  ASSUME Laid, HeldInv, WriteSegment, NEW i, NEW a, UnderWay(i, a)
  PROVE  \E n \in 1 .. pieces[i].length - a :
           /\ writing' = [piece |-> i, at |-> a + n]
           /\ DiskTypes' /\ FilesHoldTheirOwn'
           /\ \A b \in 1 .. Len(All) : OnDisk(b)' <=>
                OnDisk(b) \/ b \in pieces[i].offset + a + 1 .. pieces[i].offset + a + n
<1>1. /\ i \in DOMAIN pieces /\ writing.piece = i /\ writing.at = a /\ a \in Nat /\ a < pieces[i].length
      /\ writing = [piece |-> i, at |-> a]
  BY PieceIs DEF UnderWay, WriteSegment
<1>2. /\ pieces[i].offset \in Nat /\ pieces[i].length \in Nat /\ pieces[i].offset + pieces[i].length <= Len(All)
      /\ All \in Seq(Bytes) /\ Len(All) \in Nat /\ FilesLaid /\ DiskTypes
  BY <1>1, PieceIs DEF Laid, HeldInv
<1>3. PICK at \in Nat : at = pieces[i].offset + a /\ at + 1 \in 1 .. Len(All)
  BY <1>1, <1>2
<1>4. PICK f \in Files : \E o \in 1 .. layout[f] :
        /\ at + 1 = offsets[f] + o /\ FileAt(at) = f
        /\ f \in Nat /\ o \in Nat /\ offsets[f] \in Nat /\ layout[f] \in Nat
  <2>1. PICK b \in 1 .. Len(All) : b = at + 1 /\ b - 1 = at
    BY <1>3
  <2>2. \E f \in Files : \E o \in 1 .. layout[f] :
           /\ b = offsets[f] + o /\ All[b] = <<f, o>> /\ FileAt(b - 1) = f
           /\ f \in Nat /\ o \in Nat /\ offsets[f] \in Nat /\ layout[f] \in Nat
    BY <1>2, ByteIs
  <2> QED
    BY <2>1, <2>2
<1>5. PICK o \in 1 .. layout[f] :
        /\ at + 1 = offsets[f] + o /\ FileAt(at) = f
        /\ f \in Nat /\ o \in Nat /\ offsets[f] \in Nat /\ layout[f] \in Nat
  BY <1>4
<1>6. FileAt(at) = f /\ f \in Nat \ {0}
  BY <1>2, <1>5, FileIs
<1>14. PICK from \in Nat : from = o - 1
  BY <1>5
<1>7. PICK n \in Nat \ {0} : /\ n = SegmentLength(f, at, pieces[i].length - a)
                             /\ n <= pieces[i].length - a /\ from + n <= layout[f]
  <2>1. EndOf(f) - at = layout[f] - o + 1
    BY <1>5 DEF EndOf
  <2>2. PICK left \in Nat \ {0} : left = pieces[i].length - a
    BY <1>1, <1>2
  <2>3. layout[f] - o + 1 \in Nat \ {0} /\ from + (layout[f] - o + 1) = layout[f]
    BY <1>5, <1>14
  <2>4. SegmentLength(f, at, left) = IF layout[f] - o + 1 < left THEN layout[f] - o + 1 ELSE left
    BY <2>1 DEF SegmentLength
  <2>5. /\ SegmentLength(f, at, left) \in Nat \ {0} /\ SegmentLength(f, at, left) <= left
        /\ from + SegmentLength(f, at, left) <= layout[f]
    BY <2>3, <2>4, <1>14
  <2> QED
    BY <2>2, <2>5
<1>8. PICK data : data = SubSeq(PieceData(i), a + 1, a + n)
  OBVIOUS
<1>9. data \in Seq(Bytes) /\ Len(data) = n /\ \A k \in 1 .. n : data[k] = <<f, from + k>>
  <2>1. PICK whole \in Seq(Bytes) : whole = PieceData(i)
    BY <1>1, PieceDataIs
  <2>2. Len(whole) = pieces[i].length /\ \A k \in 1 .. pieces[i].length : whole[k] = All[pieces[i].offset + k]
    BY <1>1, <2>1, PieceDataIs
  <2>4. data \in Seq(Bytes) /\ Len(data) = n /\ \A k \in 1 .. n : data[k] = whole[a + k]
    <3>1. a + n <= Len(whole)
      BY <1>1, <1>2, <1>7, <2>2
    <3>2. a \in Nat /\ n \in Nat
      BY <1>1
    <3>3. /\ SubSeq(whole, a + 1, a + n) \in Seq(Bytes) /\ Len(SubSeq(whole, a + 1, a + n)) = n
          /\ \A k \in 1 .. n : SubSeq(whole, a + 1, a + n)[k] = whole[a + k]
      BY <3>1, <3>2, Part
    <3> QED
      BY <1>8, <2>1, <3>3
  <2>5. ASSUME NEW k \in 1 .. n PROVE data[k] = <<f, from + k>>
    <3>1. a + k \in 1 .. pieces[i].length
      BY SMTT(60), <1>1, <1>2, <1>7
    <3>2. data[k] = All[pieces[i].offset + (a + k)]
      BY <2>2, <2>4, <3>1
    <3>3. PICK base \in Nat : base = pieces[i].offset
      BY <1>2
    <3>4. at = base + a /\ from = o - 1 /\ at + 1 = offsets[f] + o /\ from + n <= layout[f]
      BY <1>3, <1>5, <1>7, <1>14, <3>3
    <3>5. base + (a + k) = offsets[f] + (from + k) /\ from + k \in 1 .. layout[f]
      <4>1. a \in Nat /\ o \in Nat /\ offsets[f] \in Nat /\ layout[f] \in Nat /\ k \in Nat /\ 1 <= k /\ k <= n
        BY <1>1, <1>5
      <4>2. base + (a + k) = offsets[f] + (from + k)
        <5>1. PICK z \in Nat : z = offsets[f]
          BY <4>1
        <5>2. PICK x \in Nat, y \in Nat, j \in Nat : x = a /\ y = from /\ j = k
          BY <4>1
        <5>3. base + x = z + y
          <6>1. base + a + 1 = z + o /\ from + 1 = o
            BY <3>4, <4>1, <5>1
          <6>2. base + x + 1 = z + (y + 1)
            BY <5>2, <6>1, Zenon
          <6> QED
            BY <6>2
        <5>4. base + (x + j) = z + (y + j)
          BY <5>3
        <5> QED
          BY <5>1, <5>2, <5>4, Zenon
      <4>3. from + k \in Nat /\ from + k <= from + n /\ 1 <= from + k
        BY <4>1
      <4>4. from + k <= layout[f]
        BY <3>4, <4>1, <4>3
      <4> QED
        BY <4>1, <4>2, <4>3, <4>4
    <3> QED
      BY <1>2, <3>2, <3>3, <3>5 DEF FilesLaid
  <2> QED
    BY <2>4, <2>5
<1>10. PICK old : old = IF disk[f] = Absent THEN << >> ELSE disk[f]
  OBVIOUS
<1>11. /\ old \in Seq(Bytes) /\ Len(old) = SizeOf(f) /\ Len(old) <= layout[f]
       /\ \A p \in 1 .. Len(old) : old[p] \in {<<f, p>>, Hole}
       /\ \A p \in Nat \ {0} : p <= Len(old) => old[p] = disk[f][p]
  <2>1. CASE disk[f] = Absent
    <3>1. old = << >> /\ Len(old) = 0 /\ SizeOf(f) = 0
      BY <1>10, <2>1 DEF SizeOf
    <3> QED
      BY <1>5, <3>1
  <2>2. CASE disk[f] # Absent
    <3>1. old = disk[f] /\ Len(old) <= layout[f] /\ \A p \in 1 .. Len(disk[f]) : disk[f][p] \in {<<f, p>>, Hole}
      BY <1>10, <2>2 DEF HeldInv, FilesHoldTheirOwn
    <3> QED
      BY <1>2, <2>2, <3>1, SizeIs
  <2> QED
    BY <2>1, <2>2
<1>12. PICK new : new = Overwritten(old, from, data)
  OBVIOUS
<1>13. /\ disk' = [disk EXCEPT ![f] = new] /\ writing' = [writing EXCEPT !.at = a + n]
       /\ UNCHANGED torrentVars
  <2>1. at - offsets[f] = from
    BY <1>5, <1>14
  <2> QED
    BY <1>1, <1>3, <1>6, <1>7, <1>8, <1>10, <1>12, <2>1 DEF WriteSegment
<1>15. /\ new \in Seq(Bytes) /\ new # Absent /\ Len(new) <= layout[f]
       /\ \A p \in 1 .. Len(new) : new[p] \in {<<f, p>>, Hole}
       /\ \A p \in Nat \ {0} : p <= Len(new) /\ new[p] = <<f, p>> <=>
                                 p \in from + 1 .. from + n \/ (p <= Len(old) /\ old[p] = <<f, p>>)
  <2>1. PICK size \in Nat : size = layout[f]
    BY <1>5
  <2> QED
    <3>0. from \in Nat /\ n \in Nat \ {0} /\ size \in Nat
      BY <1>7, <1>14, <2>1
    <3>1. from + n <= size /\ Len(old) <= size /\ f \in Nat \ {0} /\ old \in Seq(Bytes) /\ data \in Seq(Bytes)
      BY <1>6, <1>7, <1>9, <1>11, <2>1
    <3>2. Len(data) = n /\ \A k \in 1 .. n : data[k] = <<f, from + k>>
      BY <1>9
    <3>3. \A p \in 1 .. Len(old) : old[p] \in {<<f, p>>, Hole}
      BY <1>11
    <3>4. /\ new \in Seq(Bytes) /\ new # Absent /\ Len(new) <= size
          /\ \A p \in 1 .. Len(new) : new[p] \in {<<f, p>>, Hole}
          /\ \A p \in Nat \ {0} : p <= Len(new) /\ new[p] = <<f, p>> <=>
                                    p \in from + 1 .. from + n \/ (p <= Len(old) /\ old[p] = <<f, p>>)
      <4>1. Fits(f, size, old, from, n, data)
        BY <3>0, <3>1, <3>2, <3>3 DEF Fits
      <4>2. WrittenTo(f, size, old, from, n, new)
        BY <1>12, <4>1, OverwrittenIs
      <4> QED
        BY <4>2 DEF WrittenTo
    <3> QED
      BY <2>1, <3>4
<1>16. layout' = layout /\ Files' = Files /\ All' = All
  BY <1>13 DEF torrentVars, Files, All
<1>17. DiskTypes'
  BY <1>2, <1>13, <1>15, <1>16 DEF DiskTypes
<1>18. disk'[f] = new /\ \A g \in Files : g # f => disk'[g] = disk[g]
  BY <1>2, <1>13 DEF DiskTypes
<1>19. FilesHoldTheirOwn'
  BY <1>15, <1>16, <1>18 DEF HeldInv, FilesHoldTheirOwn
<1>20. SizeOf(f)' = Len(new) /\ \A g \in Files : g # f => SizeOf(g)' = SizeOf(g)
  BY <1>15, <1>18 DEF SizeOf
<1>21. ASSUME NEW b \in 1 .. Len(All)
       PROVE  OnDisk(b)' <=> OnDisk(b) \/ b \in at + 1 .. at + n
  <2>1. PICK g \in Files : \E p \in 1 .. layout[g] :
          /\ b = offsets[g] + p /\ All[b] = <<g, p>> /\ FileAt(b - 1) = g
          /\ g \in Nat /\ p \in Nat /\ offsets[g] \in Nat /\ layout[g] \in Nat
    BY ZenonT(60), <1>2, ByteIs
  <2>2. PICK p \in 1 .. layout[g] :
          /\ b = offsets[g] + p /\ All[b] = <<g, p>>
          /\ g \in Nat /\ p \in Nat /\ offsets[g] \in Nat /\ layout[g] \in Nat
    BY <2>1
  <2>3. (OnDisk(b) <=> p <= SizeOf(g) /\ disk[g][p] = <<g, p>>)
        /\ (OnDisk(b)' <=> p <= SizeOf(g)' /\ disk'[g][p] = <<g, p>>)
    BY <1>16, <2>2 DEF OnDisk
  <2>4. CASE g = f
    <3>1. b \in at + 1 .. at + n <=> p \in from + 1 .. from + n
      <4>1. PICK z \in Nat : z = offsets[f]
        BY <2>2, <2>4
      <4>2. b = z + p /\ p \in Nat /\ o \in Nat /\ at + 1 = z + o /\ from = o - 1 /\ at \in Nat /\ n \in Nat
        BY <1>5, <1>14, <2>2, <2>4, <4>1
      <4> QED
        BY <4>2
    <3> QED
      <4>1. OnDisk(b)' <=> p <= Len(new) /\ new[p] = <<f, p>>
        BY <1>18, <1>20, <2>3, <2>4
      <4>2. OnDisk(b) <=> p <= Len(old) /\ old[p] = <<f, p>>
        BY <1>11, <2>2, <2>3, <2>4
      <4>3. p \in Nat \ {0}
        BY <2>2
      <4> QED
        BY <1>15, <3>1, <4>1, <4>2, <4>3
  <2>5. CASE g # f
    <3>1. ASSUME b \in at + 1 .. at + n PROVE FALSE
      <4>1. PICK q \in Nat : q = b - offsets[f]
        BY <1>5, <3>1
      <4>2. q \in 1 .. layout[f] /\ b = offsets[f] + q
        <5>1. at + 1 = offsets[f] + o /\ from = o - 1 /\ from + n <= layout[f]
          BY <1>5, <1>7, <1>14
        <5>2. at + 1 <= b /\ b <= at + n /\ b \in Nat
          BY <3>1
        <5>3. o \in Nat /\ offsets[f] \in Nat /\ layout[f] \in Nat
          BY <1>5
        <5>4. b = offsets[f] + q /\ 1 <= q
          BY SMTT(60), <4>1, <5>1, <5>2, <5>3
        <5>5. q <= from + n
          BY <4>1, <5>1, <5>2, <5>3
        <5> QED
          BY SMTT(60), <4>1, <5>1, <5>3, <5>4, <5>5
      <4>3. All[b] = <<f, q>>
        BY <1>2, <4>2 DEF FilesLaid
      <4> QED
        BY <2>2, <2>5, <4>3
    <3> QED
      BY <1>18, <1>20, <2>3, <2>5, <3>1
  <2> QED
    BY <2>4, <2>5
<1>22. n \in 1 .. pieces[i].length - a /\ writing' = [piece |-> i, at |-> a + n]
  BY <1>1, <1>2, <1>7, <1>13
<1> QED
  BY <1>3, <1>17, <1>19, <1>21, <1>22

LEMMA KeptStays ==
  ASSUME UNCHANGED layout, UNCHANGED disk
  PROVE  Files' = Files /\ All' = All /\ \A b : OnDisk(b)' <=> OnDisk(b)
BY DEF Files, All, OnDisk, SizeOf

LEMMA NotUnderWay ==
  ASSUME HeldInv, ~ prepared
  PROVE  writing = NotWriting /\ complete = {}
BY DEF HeldInv, WritingSoFar, UnderWay, CompleteIsKept

(* Every byte of a piece is in a file: what the first and the last show.     *)
LEMMA WholeShows ==
  ASSUME Laid, NEW i \in DOMAIN pieces, WholePiece(i)
  PROVE  \E f \in Files : \E o \in 1 .. layout[f] :
           /\ pieces[i].offset + 1 = offsets[f] + o /\ o <= SizeOf(f)
           /\ f \in Nat /\ o \in Nat /\ offsets[f] \in Nat /\ layout[f] \in Nat
<1>1. PICK at \in Nat : at = pieces[i].offset
  BY PieceIs
<1>2. PICK n \in Nat \ {0} : n = pieces[i].length
  BY PieceIs
<1>3. PICK b \in Nat : b = at + 1
  BY <1>1
<1>4. b \in 1 .. Len(All) /\ b \in at + 1 .. at + n /\ FilesLaid
  BY <1>1, <1>2, <1>3, PieceIs DEF Laid
<1>5. OnDisk(b)
  BY <1>1, <1>2, <1>4 DEF WholePiece
<1>6. PICK f \in Files : \E o \in 1 .. layout[f] :
        /\ b = offsets[f] + o /\ All[b] = <<f, o>> /\ FileAt(b - 1) = f
        /\ f \in Nat /\ o \in Nat /\ offsets[f] \in Nat /\ layout[f] \in Nat
  BY <1>4, ByteIs
<1>7. PICK o \in 1 .. layout[f] :
        /\ b = offsets[f] + o /\ All[b] = <<f, o>>
        /\ f \in Nat /\ o \in Nat /\ offsets[f] \in Nat /\ layout[f] \in Nat
  BY <1>6
<1>8. o <= SizeOf(f)
  BY <1>5, <1>7 DEF OnDisk
<1> QED
  BY <1>1, <1>3, <1>7, <1>8

LEMMA WholeIsLongEnough ==
  ASSUME Laid, DiskTypes, NEW i \in DOMAIN pieces, WholePiece(i), HasV2(generation)
  PROVE  i \in LongEnough
<1>1. PICK at \in Nat : at = pieces[i].offset
  BY PieceIs
<1>2. PICK n \in Nat \ {0} : n = pieces[i].length
  BY PieceIs
<1>3. PICK f \in Files : f = pieces[i].file
  BY DEF Laid, PiecesLaid, PieceLaid
<1>4. PICK start \in Nat : start = pieces[i].start
  BY DEF Laid, PiecesLaid, PieceLaid
<1>5. /\ at = offsets[f] + start /\ start + n <= layout[f] /\ at + n <= Len(All)
      /\ layout[f] \in Nat /\ offsets[f] \in Nat /\ FilesLaid /\ Len(All) \in Nat
  <2>1. at = offsets[f] + start /\ start + n <= layout[f]
    BY <1>1, <1>2, <1>3, <1>4 DEF Laid, PiecesLaid, PieceLaid
  <2>2. at + n <= Len(All) /\ Len(All) \in Nat /\ FilesLaid
    BY <1>1, <1>2, PieceIs DEF Laid
  <2> QED
    BY <2>1, <2>2, FileIs
<1>6. PICK o \in Nat : o = start + n
  OBVIOUS
<1>7. PICK b \in Nat : b = at + n
  OBVIOUS
<1>8. b = offsets[f] + o /\ o \in 1 .. layout[f]
  BY SMTT(60), <1>5, <1>6, <1>7
<1>9. All[b] = <<f, o>>
  BY <1>5, <1>8 DEF FilesLaid
<1>10. OnDisk(b)
  <2>1. b \in at + 1 .. at + n
    BY <1>7
  <2> QED
    BY <1>1, <1>2, <2>1 DEF WholePiece
<1>11. o <= SizeOf(f) /\ SizeOf(f) \in Nat
  BY <1>9, <1>10, SizeIs DEF OnDisk
<1>12. ActualOf(f) >= start + n
  BY <1>5, <1>6, <1>8, <1>11 DEF ActualOf
<1> QED
  BY <1>2, <1>3, <1>4, <1>12 DEF LongEnough

LEMMA WholeIsCandidate ==
  ASSUME Laid, DiskTypes, NEW i \in DOMAIN pieces, WholePiece(i)
  PROVE  i \in Candidates /\ PayloadExists
<1>1. CASE HasV2(generation)
  BY <1>1, WholeIsLongEnough DEF Candidates, PayloadExists
<1>2. CASE ~ HasV2(generation)
  <2>1. PICK f \in Files : \E o \in 1 .. layout[f] :
           /\ pieces[i].offset + 1 = offsets[f] + o /\ o <= SizeOf(f)
           /\ f \in Nat /\ o \in Nat /\ offsets[f] \in Nat /\ layout[f] \in Nat
    BY WholeShows
  <2>2. PICK o \in 1 .. layout[f] :
           /\ pieces[i].offset + 1 = offsets[f] + o /\ o <= SizeOf(f)
           /\ f \in Nat /\ o \in Nat /\ offsets[f] \in Nat /\ layout[f] \in Nat
    BY <2>1
  <2>3. PICK k \in Nat : k = i - 1
    BY PieceIs
  <2>4. pieces[i].offset = k * PieceLength
    BY <1>2, <2>3 DEF Laid, PiecesLaid, PieceLaid
  <2>5. PICK at \in Nat : at = k * PieceLength
    BY <2>4, PieceIs
  <2>6. SizeOf(f) \in Nat /\ disk[f] # Absent
    BY <2>2, SizeIs
  <2>7. PICK actual \in Nat : actual = ActualOf(f) /\ o <= actual
    BY <2>2, <2>6 DEF ActualOf
  <2>8. at + 1 = offsets[f] + o /\ o \in Nat \ {0} /\ offsets[f] \in Nat
    BY <2>2, <2>4, <2>5
  <2>9. offsets[f] <= at
    BY <2>8
  <2>10. PICK last \in Nat : last = offsets[f] + actual - 1 /\ at <= last
    <3>1. offsets[f] + actual - 1 \in Nat /\ at <= offsets[f] + actual - 1
      BY <2>7, <2>8
    <3> QED
      BY <3>1
  <2>11. offsets[f] \div PieceLength <= k /\ k <= last \div PieceLength
    BY <2>5, <2>8, <2>9, <2>10, DivIs
  <2>12. actual > 0
    BY <2>7, <2>8
  <2>13. i \in Candidates
    <3>1. \E g \in Files : /\ ActualOf(g) > 0
                           /\ offsets[g] \div PieceLength <= i - 1
                           /\ i - 1 <= (offsets[g] + ActualOf(g) - 1) \div PieceLength
      BY <2>3, <2>7, <2>10, <2>11, <2>12
    <3> QED
      BY <1>2, <3>1 DEF Candidates
  <2> QED
    BY <1>2, <2>6, <2>13 DEF PayloadExists
<1> QED
  BY <1>1, <1>2

(* A piece verifies exactly when it is there.                               *)
LEMMA VerifiesIfWhole ==
  ASSUME Laid, DiskTypes, NEW i \in DOMAIN pieces
  PROVE  /\ VerifyData(pieces[i], ReadRange(pieces[i].offset, pieces[i].length)) <=> WholePiece(i)
         /\ ReadRange(pieces[i].offset, pieces[i].length) = PieceData(i) <=> WholePiece(i)
<1>1. PICK at \in Nat : at = pieces[i].offset
  BY PieceIs
<1>2. PICK n \in Nat \ {0} : n = pieces[i].length
  BY PieceIs
<1>3. at + n <= Len(All) /\ FilesLaid
  BY <1>1, <1>2, PieceIs DEF Laid
<1>4. /\ ReadRange(at, n) \in Seq(Bytes)
      /\ ReadRange(at, n) = SubSeq(All, at + 1, at + n) <=> \A b \in at + 1 .. at + n : OnDisk(b)
  BY <1>3, ReadIs
<1>5. PieceData(i) = SubSeq(All, at + 1, at + n)
  BY <1>1, <1>2 DEF PieceData, All
<1>6. VerifyData(pieces[i], ReadRange(at, n)) <=> ReadRange(at, n) = PieceData(i)
  BY <1>4 DEF Laid, HashesTell
<1>7. WholePiece(i) <=> \A b \in at + 1 .. at + n : OnDisk(b)
  BY <1>1, <1>2 DEF WholePiece
<1> QED
  BY <1>1, <1>2, <1>4, <1>5, <1>6, <1>7

(* An empty storage holds less than what was there.                         *)
LEMMA EmptyStorageHolds ==
  ASSUME Laid, DiskTypes, FilesHoldTheirOwn, UNCHANGED torrentVars, disk' = EmptyStorage
  PROVE  DiskTypes' /\ FilesHoldTheirOwn' /\ \A b \in 1 .. Len(All) : OnDisk(b)' => OnDisk(b)
<1>1. Files' = Files /\ layout' = layout /\ All' = All
  BY DEF torrentVars, Files, All
<1>2. ASSUME NEW f \in Files
      PROVE  disk'[f] = << >> \/ disk'[f] = disk[f]
  BY DEF EmptyStorage
<1>3. << >> # Absent /\ << >> \in Seq(Bytes) /\ Len(<< >>) = 0
  BY DEF Absent
<1>4. DiskTypes'
  <2>1. disk' = [f \in Files |-> disk'[f]]
    BY DEF EmptyStorage
  <2>2. \A f \in Files : disk'[f] \in Seq(Bytes) \cup {Absent}
    BY <1>2, <1>3 DEF DiskTypes
  <2> QED
    BY <1>1, <2>1, <2>2 DEF DiskTypes
<1>5. FilesHoldTheirOwn'
  <2>1. ASSUME NEW f \in Files, disk'[f] # Absent
        PROVE  Len(disk'[f]) <= layout[f] /\ \A o \in 1 .. Len(disk'[f]) : disk'[f][o] \in {<<f, o>>, Hole}
    <3>1. CASE disk'[f] = << >>
      <4>1. layout[f] \in Nat
        BY FileIs DEF Laid
      <4> QED
        BY <1>3, <3>1, <4>1
    <3>2. CASE disk'[f] = disk[f]
      BY <2>1, <3>2 DEF FilesHoldTheirOwn
    <3> QED
      BY <1>2, <3>1, <3>2
  <2> QED
    BY <1>1, <2>1 DEF FilesHoldTheirOwn
<1>6. ASSUME NEW b \in 1 .. Len(All), OnDisk(b)' PROVE OnDisk(b)
  <2>1. PICK f \in Files : \E o \in 1 .. layout[f] :
           /\ b = offsets[f] + o /\ All[b] = <<f, o>> /\ FileAt(b - 1) = f
           /\ f \in Nat /\ o \in Nat /\ offsets[f] \in Nat /\ layout[f] \in Nat
    BY ByteIs DEF Laid
  <2>2. PICK o \in 1 .. layout[f] : All[b] = <<f, o>> /\ o \in Nat
    BY <2>1
  <2>3. o <= SizeOf(f)' /\ disk'[f][o] = <<f, o>>
    BY <1>1, <1>6, <2>2 DEF OnDisk
  <2>4. disk'[f] # << >>
    <3> SUFFICES ASSUME disk'[f] = << >> PROVE FALSE
      OBVIOUS
    <3>1. SizeOf(f)' = 0
      BY <1>3 DEF SizeOf
    <3> QED
      BY <2>2, <2>3, <3>1
  <2>5. disk'[f] = disk[f] /\ SizeOf(f)' = SizeOf(f)
    BY <1>1, <1>2, <2>4 DEF SizeOf
  <2> QED
    BY <2>2, <2>3, <2>5 DEF OnDisk
<1> QED
  BY <1>4, <1>5, <1>6

LEMMA PieceBytes ==
  ASSUME Laid, NEW i \in DOMAIN pieces
  PROVE  \A b \in pieces[i].offset + 1 .. pieces[i].offset + pieces[i].length : b \in 1 .. Len(All)
<1>1. PICK at \in Nat : at = pieces[i].offset
  BY PieceIs
<1>2. PICK n \in Nat : n = pieces[i].length
  BY PieceIs
<1>3. at + n <= Len(All) /\ Len(All) \in Nat
  BY <1>1, <1>2, PieceIs
<1> QED
  BY <1>1, <1>2, <1>3

(* No piece has a byte of another.                                          *)
LEMMA PiecesApart ==
  ASSUME Laid, NEW i \in DOMAIN pieces, NEW j \in DOMAIN pieces, i # j,
         NEW b, b \in pieces[i].offset + 1 .. pieces[i].offset + pieces[i].length
  PROVE  b \notin pieces[j].offset + 1 .. pieces[j].offset + pieces[j].length
<1>1. PICK p \in Nat : p = pieces[i].offset
  BY PieceIs
<1>2. PICK n \in Nat : n = pieces[i].length
  BY PieceIs
<1>3. PICK q \in Nat : q = pieces[j].offset
  BY PieceIs
<1>4. PICK m \in Nat : m = pieces[j].length
  BY PieceIs
<1>5. i \in Nat /\ j \in Nat
  BY PieceIs
<1>6. p + n <= q \/ q + m <= p
  <2>1. i < j \/ j < i
    BY <1>5
  <2> QED
    BY <1>1, <1>2, <1>3, <1>4, <2>1 DEF Laid, PiecesLaid
<1>7. b \in p + 1 .. p + n
  BY <1>1, <1>2
<1>8. b \notin q + 1 .. q + m
  BY <1>6, <1>7
<1> QED
  BY <1>3, <1>4, <1>8

LEMMA HeldPrepare ==
  ASSUME Laid, HeldInv, PrepareStorage
  PROVE  HeldInv'
<1>1. /\ ~ prepared /\ prepared' = TRUE /\ UNCHANGED torrentVars /\ writing' = writing /\ breaks' = breaks
      /\ writing = NotWriting /\ complete = {} /\ DiskTypes /\ FilesHoldTheirOwn
  BY NotUnderWay DEF PrepareStorage, HeldInv
<1>2. layout' = layout /\ generation' = generation /\ pieces' = pieces
  BY <1>1 DEF torrentVars
<1>3. WritingSoFar'
  BY <1>1 DEF WritingSoFar
<1>4. writing'.piece = 0 /\ \A i \in DOMAIN pieces : i # 0
  BY <1>1, PieceIs DEF NotWriting
<1>5. CASE PayloadExists
  <2>1. /\ complete' = {i \in Candidates :
                          VerifyData(pieces[i], ReadRange(pieces[i].offset, pieces[i].length))}
        /\ disk' = disk
    BY <1>5 DEF PrepareStorage
  <2>2. Candidates \subseteq DOMAIN pieces
    BY DEF Candidates, LongEnough
  <2>3. \A i \in DOMAIN pieces : i \in complete' <=> WholePiece(i)
    BY <1>1, <2>1, <2>2, WholeIsCandidate, VerifiesIfWhole
  <2>4. \A i : WholePiece(i)' <=> WholePiece(i)
    BY <1>2, <2>1, KeptStays DEF WholePiece
  <2>5. CompleteIsKept'
    BY <1>1, <1>2, <2>1, <2>2, <2>3, <2>4 DEF CompleteIsKept
  <2>6. DiskTypes' /\ FilesHoldTheirOwn'
    BY <1>1, <1>2, <2>1, KeptStays DEF DiskTypes, FilesHoldTheirOwn
  <2> QED
    BY <1>1, <1>2, <1>3, <2>5, <2>6 DEF HeldInv
<1>6. CASE ~ PayloadExists
  <2>1. disk' = EmptyStorage /\ complete' = {}
    BY <1>6 DEF PrepareStorage
  <2>2. DiskTypes' /\ FilesHoldTheirOwn' /\ \A b \in 1 .. Len(All) : OnDisk(b)' => OnDisk(b)
    BY <1>1, <2>1, EmptyStorageHolds
  <2>3. ASSUME NEW i \in DOMAIN pieces, WholePiece(i)' PROVE FALSE
    <3>1. WholePiece(i)
      BY <1>2, <2>2, <2>3, PieceBytes DEF WholePiece
    <3> QED
      BY <1>1, <1>6, <3>1, WholeIsCandidate
  <2>4. CompleteIsKept'
    BY <1>1, <1>2, <2>1, <2>3 DEF CompleteIsKept
  <2> QED
    BY <1>1, <1>2, <1>3, <2>2, <2>4 DEF HeldInv
<1> QED
  BY <1>5, <1>6

LEMMA HeldBegin ==
  ASSUME Laid, HeldInv, NEW i \in DOMAIN pieces, BeginWrite(i)
  PROVE  HeldInv'
<1>1. /\ prepared /\ prepared' = prepared /\ UNCHANGED torrentVars /\ UNCHANGED <<disk, complete, breaks>>
      /\ writing = NotWriting /\ writing' = [piece |-> i, at |-> 0] /\ i \notin complete
  BY DEF BeginWrite
<1>2. layout' = layout /\ generation' = generation /\ pieces' = pieces
  BY <1>1 DEF torrentVars
<1>3. \A j : WholePiece(j)' <=> WholePiece(j)
  BY <1>1, <1>2, KeptStays DEF WholePiece
<1>4. WritingSoFar'
  <2>1. PICK at \in Nat : at = pieces[i].offset
    BY PieceIs
  <2>2. PICK n \in Nat : n = pieces[i].length
    BY PieceIs
  <2>3. 0 \in 0 .. pieces[i].length /\ pieces[i].offset + 1 .. pieces[i].offset + 0 = {}
    BY <2>1, <2>2
  <2>4. UnderWay(i, 0)'
    BY <1>1, <1>2, <2>3 DEF UnderWay
  <2> QED
    BY <2>4 DEF WritingSoFar
<1>5. writing.piece = 0 /\ \A j \in DOMAIN pieces : j # 0
  BY <1>1, PieceIs DEF NotWriting
<1>6. CompleteIsKept'
  BY <1>1, <1>2, <1>3, <1>5 DEF CompleteIsKept, HeldInv
<1>7. DiskTypes' /\ FilesHoldTheirOwn'
  BY <1>1, <1>2, KeptStays DEF DiskTypes, FilesHoldTheirOwn, HeldInv
<1> QED
  BY <1>1, <1>2, <1>4, <1>6, <1>7 DEF HeldInv

LEMMA HeldSegment ==
  ASSUME Laid, HeldInv, WriteSegment
  PROVE  HeldInv'
<1>1. /\ UNCHANGED torrentVars /\ UNCHANGED <<prepared, complete, breaks>> /\ writing # NotWriting
      /\ CompleteIsKept
  BY DEF WriteSegment, HeldInv
<1>2. layout' = layout /\ generation' = generation /\ pieces' = pieces
  BY <1>1 DEF torrentVars
<1>3. PICK i, a : UnderWay(i, a)
  BY <1>1 DEF HeldInv, WritingSoFar
<1>4. PICK n \in 1 .. pieces[i].length - a :
        /\ writing' = [piece |-> i, at |-> a + n]
        /\ DiskTypes' /\ FilesHoldTheirOwn'
        /\ \A b \in 1 .. Len(All) : OnDisk(b)' <=>
             OnDisk(b) \/ b \in pieces[i].offset + a + 1 .. pieces[i].offset + a + n
  BY <1>3, SegmentKeeps
<1>5. /\ i \in DOMAIN pieces /\ i \notin complete /\ prepared /\ a \in 0 .. pieces[i].length
      /\ writing.piece = i
  BY <1>3 DEF UnderWay
<1>6. PICK at \in Nat : at = pieces[i].offset
  BY <1>5, PieceIs
<1>7. PICK len \in Nat : len = pieces[i].length
  BY <1>5, PieceIs
<1>8. a \in Nat /\ n \in Nat /\ a + n <= len /\ at + a \in Nat
  BY <1>4, <1>5, <1>6, <1>7
<1>9. \A b \in at + 1 .. at + len : b \in 1 .. Len(All)
  BY <1>5, <1>6, <1>7, PieceBytes
<1>10. WritingSoFar'
  <2>1. ASSUME NEW b \in at + 1 .. at + (a + n) PROVE OnDisk(b)'
    <3>1. b \in at + 1 .. at + len
      BY <1>7, <1>6, <1>8
    <3>2. b \in at + 1 .. at + a \/ b \in at + a + 1 .. at + a + n
      BY <1>8, <1>6
    <3>3. \A c \in at + 1 .. at + a : OnDisk(c)
      BY <1>3, <1>6 DEF UnderWay
    <3> QED
      BY <1>4, <1>6, <1>9, <3>1, <3>2, <3>3
  <2>2. a + n \in 0 .. pieces[i].length
    BY <1>7, <1>8
  <2>3. UnderWay(i, a + n)'
    BY <1>1, <1>2, <1>4, <1>5, <1>6, <2>1, <2>2 DEF UnderWay
  <2> QED
    BY <2>3 DEF WritingSoFar
<1>11. ASSUME NEW j \in DOMAIN pieces, WholePiece(j) PROVE WholePiece(j)'
  BY <1>2, <1>4, <1>11, PieceBytes DEF WholePiece
<1>12. ASSUME NEW j \in DOMAIN pieces, j # i, WholePiece(j)' PROVE WholePiece(j)
  <2>1. ASSUME NEW b \in pieces[j].offset + 1 .. pieces[j].offset + pieces[j].length PROVE OnDisk(b)
    <3>1. b \in 1 .. Len(All)
      BY PieceBytes
    <3>2. b \notin at + 1 .. at + len
      BY <1>5, <1>6, <1>7, <1>12, PiecesApart
    <3>3. b \notin at + a + 1 .. at + a + n
      <4>1. at \in Nat /\ a \in Nat /\ n \in Nat /\ len \in Nat /\ a + n <= len
        BY <1>6, <1>7, <1>8
      <4>2. b \in Nat
        BY <3>1, PieceIs
      <4> QED
        BY <3>2, <4>1, <4>2
    <3>4. OnDisk(b)'
      BY <1>2, <1>12 DEF WholePiece
    <3> QED
      BY <1>4, <1>6, <3>1, <3>3, <3>4
  <2> QED
    BY <2>1 DEF WholePiece
<1>13. CompleteIsKept'
  BY <1>1, <1>2, <1>4, <1>5, <1>11, <1>12 DEF CompleteIsKept
<1> QED
  BY <1>1, <1>2, <1>4, <1>10, <1>13 DEF HeldInv

LEMMA HeldEnd ==
  ASSUME Laid, HeldInv, EndWrite
  PROVE  HeldInv'
<1>1. /\ UNCHANGED torrentVars /\ UNCHANGED <<disk, prepared, breaks>> /\ writing # NotWriting
      /\ complete' = complete \cup {writing.piece} /\ writing' = NotWriting
      /\ writing.at = pieces[writing.piece].length /\ CompleteIsKept
  BY DEF EndWrite, HeldInv
<1>2. layout' = layout /\ generation' = generation /\ pieces' = pieces
  BY <1>1 DEF torrentVars
<1>3. PICK i, a : UnderWay(i, a)
  BY <1>1 DEF HeldInv, WritingSoFar
<1>4. i \in DOMAIN pieces /\ writing.piece = i /\ a = pieces[i].length /\ prepared
  BY <1>1, <1>3 DEF UnderWay
<1>5. WholePiece(i)
  BY <1>3, <1>4 DEF UnderWay, WholePiece
<1>6. \A j : WholePiece(j)' <=> WholePiece(j)
  BY <1>1, <1>2, KeptStays DEF WholePiece
<1>7. CompleteIsKept'
  BY <1>1, <1>2, <1>4, <1>5, <1>6 DEF CompleteIsKept
<1>8. DiskTypes' /\ FilesHoldTheirOwn'
  BY <1>1, <1>2, KeptStays DEF DiskTypes, FilesHoldTheirOwn, HeldInv
<1> QED
  BY <1>1, <1>2, <1>7, <1>8 DEF HeldInv, WritingSoFar

LEMMA HeldBreak ==
  ASSUME Laid, HeldInv, BreakOff
  PROVE  HeldInv'
<1>1. /\ UNCHANGED torrentVars /\ disk' = disk /\ prepared' = FALSE /\ complete' = {} /\ writing' = NotWriting
      /\ breaks < MaxBreaks /\ breaks' = breaks + 1
  BY DEF BreakOff
<1>2. layout' = layout /\ generation' = generation /\ pieces' = pieces
  BY <1>1 DEF torrentVars
<1>3. DiskTypes' /\ FilesHoldTheirOwn'
  BY <1>1, <1>2, KeptStays DEF DiskTypes, FilesHoldTheirOwn, HeldInv
<1>4. CompleteIsKept' /\ WritingSoFar'
  BY <1>1 DEF CompleteIsKept, WritingSoFar
<1>5. breaks' \in 0 .. MaxBreaks
  BY <1>1, ContentAssumption DEF HeldInv
<1> QED
  BY <1>1, <1>2, <1>3, <1>4, <1>5 DEF HeldInv

LEMMA HeldDamage ==
  ASSUME Laid, HeldInv, NEW f \in Files, Damage(f)
  PROVE  HeldInv'
<1>1. /\ UNCHANGED torrentVars /\ UNCHANGED <<prepared, complete, writing>> /\ ~ prepared
      /\ breaks < MaxBreaks /\ breaks' = breaks + 1 /\ disk[f] # Absent
      /\ DiskTypes /\ FilesHoldTheirOwn
  BY DEF Damage, HeldInv
<1>2. layout' = layout /\ generation' = generation /\ pieces' = pieces /\ Files' = Files
  BY <1>1 DEF torrentVars, Files
<1>3. writing = NotWriting /\ complete = {}
  BY <1>1, NotUnderWay
<1>4. PICK new : /\ disk' = [disk EXCEPT ![f] = new]
                 /\ new = Absent \/ (SizeOf(f) > 0 /\ new = SubSeq(disk[f], 1, SizeOf(f) - 1))
  BY DEF Damage
<1>5. PICK old \in Seq(Bytes) : old = disk[f] /\ SizeOf(f) = Len(old) /\ Len(old) <= layout[f]
                                /\ \A o \in 1 .. Len(old) : old[o] \in {<<f, o>>, Hole}
  BY <1>1, SizeIs DEF FilesHoldTheirOwn
<1>6. layout[f] \in Nat
  BY FileIs DEF Laid
<1>7. /\ new \in Seq(Bytes) \cup {Absent}
      /\ new # Absent => /\ Len(new) <= layout[f]
                         /\ \A o \in 1 .. Len(new) : new[o] \in {<<f, o>>, Hole}
  <2>1. CASE new = Absent
    BY <2>1
  <2>2. CASE new # Absent
    <3>1. PICK n \in Nat : n = Len(old) - 1
      BY <1>4, <1>5, <2>2, LenProperties
    <3>2. new = SubSeq(old, 0 + 1, 0 + n) /\ Len(old) \in Nat
      BY <1>4, <1>5, <2>2, <3>1, LenProperties
    <3>3. 0 + n <= Len(old)
      BY <3>1, <3>2
    <3>4. new \in Seq(Bytes) /\ Len(new) = n /\ \A k \in 1 .. n : new[k] = old[0 + k]
      BY <1>5, <3>2, <3>3, Part
    <3>5. \A k \in 1 .. n : 0 + k = k /\ k \in 1 .. Len(old)
      BY <3>1, <3>2
    <3>6. Len(new) <= layout[f]
      BY <1>5, <1>6, <3>1, <3>2, <3>4
    <3> QED
      BY <1>5, <3>4, <3>5, <3>6
  <2> QED
    BY <2>1, <2>2
<1>8. disk'[f] = new /\ \A g \in Files : g # f => disk'[g] = disk[g]
  BY <1>1, <1>4 DEF DiskTypes
<1>9. DiskTypes'
  BY <1>1, <1>2, <1>4, <1>7 DEF DiskTypes
<1>10. FilesHoldTheirOwn'
  BY <1>1, <1>2, <1>7, <1>8 DEF FilesHoldTheirOwn
<1>11. CompleteIsKept' /\ WritingSoFar'
  BY <1>1, <1>3 DEF CompleteIsKept, WritingSoFar
<1>12. breaks' \in 0 .. MaxBreaks
  BY <1>1, ContentAssumption DEF HeldInv
<1> QED
  BY <1>1, <1>2, <1>9, <1>10, <1>11, <1>12 DEF HeldInv

LEMMA ContentStep ==
  ASSUME ContentInv, [ContentNext]_contentVars
  PROVE  ContentInv'
<1>1. Laid /\ HeldInv
  BY DEF ContentInv
<1>2. UNCHANGED torrentVars
  BY DEF ContentNext, PrepareStorage, WriteSegment, EndWrite, BreakOff, BeginWrite, Damage, contentVars
<1>3. Laid'
  BY <1>1, <1>2, LaidStays
<1>4. HeldInv'
  <2>1. CASE PrepareStorage
    BY <1>1, <2>1, HeldPrepare
  <2>2. CASE WriteSegment
    BY <1>1, <2>2, HeldSegment
  <2>3. CASE EndWrite
    BY <1>1, <2>3, HeldEnd
  <2>4. CASE BreakOff
    BY <1>1, <2>4, HeldBreak
  <2>5. ASSUME NEW i \in DOMAIN pieces, BeginWrite(i) PROVE HeldInv'
    BY <1>1, <2>5, HeldBegin
  <2>6. ASSUME NEW f \in Files, Damage(f) PROVE HeldInv'
    BY <1>1, <2>6, HeldDamage
  <2>7. CASE UNCHANGED contentVars
    <3>1. /\ layout' = layout /\ generation' = generation /\ pieces' = pieces /\ disk' = disk
          /\ prepared' = prepared /\ complete' = complete /\ writing' = writing /\ breaks' = breaks
      BY <2>7 DEF contentVars, torrentVars
    <3>2. Files' = Files /\ \A b : OnDisk(b)' <=> OnDisk(b)
      BY <3>1, KeptStays
    <3>3. DiskTypes' /\ FilesHoldTheirOwn'
      BY <1>1, <3>1, <3>2 DEF HeldInv, DiskTypes, FilesHoldTheirOwn
    <3>4. \A i : WholePiece(i)' <=> WholePiece(i)
      BY <3>1, <3>2 DEF WholePiece
    <3>5. \A i, a : UnderWay(i, a)' <=> UnderWay(i, a)
      BY <3>1, <3>2 DEF UnderWay
    <3>6. CompleteIsKept' /\ WritingSoFar'
      BY <1>1, <3>1, <3>4, <3>5 DEF HeldInv, CompleteIsKept, WritingSoFar
    <3> QED
      BY <1>1, <3>1, <3>3, <3>6 DEF HeldInv
  <2> QED
    BY <2>1, <2>2, <2>3, <2>4, <2>5, <2>6, <2>7 DEF ContentNext
<1> QED
  BY <1>3, <1>4 DEF ContentInv

LEMMA HeldAtFirst ==
  ASSUME ContentInit, Laid
  PROVE  HeldInv
<1>1. /\ layout \in Layouts /\ generation \in Generations /\ disk = [f \in Files |-> Absent]
      /\ prepared = FALSE /\ complete = {} /\ writing = NotWriting /\ breaks = 0
  BY DEF ContentInit, Files
<1>2. DiskTypes /\ FilesHoldTheirOwn
  BY <1>1 DEF DiskTypes, FilesHoldTheirOwn
<1>3. WritingSoFar /\ CompleteIsKept
  BY <1>1 DEF WritingSoFar, CompleteIsKept
<1>4. breaks \in 0 .. MaxBreaks
  BY <1>1, ContentAssumption
<1>5. prepared \in BOOLEAN
  BY <1>1
<1> QED
  BY <1>1, <1>2, <1>3, <1>4, <1>5 DEF HeldInv

LEMMA HeldOnDisk ==
  ASSUME ContentInv
  PROVE  CompleteIsOnDisk
<1>1. Laid /\ DiskTypes /\ CompleteIsKept
  BY DEF ContentInv, HeldInv
<1>2. \A i \in DOMAIN pieces :
        ReadRange(pieces[i].offset, pieces[i].length) = PieceData(i) <=> WholePiece(i)
  BY <1>1, VerifiesIfWhole
<1>3. prepared => \A i \in DOMAIN pieces : i # writing.piece /\ WholePiece(i) => i \in complete
  BY <1>1 DEF CompleteIsKept
<1>4. complete \subseteq DOMAIN pieces /\ \A i \in complete : WholePiece(i)
  BY <1>1 DEF CompleteIsKept
<1> QED
  BY <1>2, <1>3, <1>4 DEF CompleteIsOnDisk

LEMMA HeldTypes ==
  ASSUME ContentInv
  PROVE  ContentTypeOK
<1>1. writing # NotWriting => writing.piece \in DOMAIN pieces
  BY DEF ContentInv, HeldInv, WritingSoFar, UnderWay
<1> QED
  BY <1>1 DEF ContentInv, HeldInv, CompleteIsKept, ContentTypeOK

(* What one-byte blocks are joined to.                                      *)
Singles(S, n, m, parts, s) ==
  /\ n \in Nat /\ m \in Nat /\ s \in Seq(S) /\ Len(s) = n
  /\ parts \in [1 .. n + m -> Seq(S)]
  /\ \A o \in 1 .. n : parts[o] = <<s[o]>>
  /\ \A o \in n + 1 .. n + m : parts[o] = << >>

LEMMA SinglesJoin ==
  ASSUME NEW S, NEW n, NEW m, NEW parts, NEW s, Singles(S, n, m, parts, s)
  PROVE  FlattenSeq(parts) = s
<1>0. /\ n \in Nat /\ m \in Nat /\ s \in Seq(S) /\ Len(s) = n
      /\ parts \in [1 .. n + m -> Seq(S)]
      /\ \A o \in 1 .. n : parts[o] = <<s[o]>>
      /\ \A o \in n + 1 .. n + m : parts[o] = << >>
  BY DEF Singles
<1> USE <1>0
<1>11. PICK at : at = [o \in 0 .. n + m |-> IF o <= n THEN o ELSE n]
  OBVIOUS
<1>1. \A o \in 1 .. n : s[o] \in S
  BY ElementOfSeq
<1>2. ASSUME NEW o \in 1 .. n + m
      PROVE  parts[o] \in Seq(S) /\ Len(parts[o]) = IF o <= n THEN 1 ELSE 0
  <2>1. CASE o <= n
    <3>1. PICK x \in S : x = s[o]
      BY <1>1, <2>1
    <3>2. parts[o] = <<x>>
      BY <2>1, <3>1
    <3>3. <<x>> \in Seq(S) /\ Len(<<x>>) = 1
      OBVIOUS
    <3> QED
      BY <2>1, <3>2, <3>3
  <2>2. CASE ~ (o <= n)
    <3>1. parts[o] = << >>
      BY <2>2
    <3>2. << >> \in Seq(S) /\ Len(<< >>) = 0
      OBVIOUS
    <3> QED
      BY <2>2, <3>1, <3>2
  <2> QED
    BY <2>1, <2>2
<1>3. parts \in Seq(Seq(S)) /\ Len(parts) = n + m
  <2>1. parts \in [1 .. n + m -> Seq(S)]
    BY <1>2
  <2> QED
    BY <2>1
<1>4. \A o \in 1 .. n + m : Lengths(parts)[o] = IF o <= n THEN 1 ELSE 0
  <2>1. \A o \in 1 .. n + m : Lengths(parts)[o] = Len(parts[o])
    BY <1>3 DEF Lengths
  <2> QED
    BY <1>2, <2>1
<1>5. Sums(at, Len(parts), Lengths(parts))
  <2>1. ASSUME NEW o \in 1 .. n + m PROVE at[o] = at[o - 1] + Lengths(parts)[o]
    <3>1. at[o] = (IF o <= n THEN o ELSE n) /\ at[o - 1] = (IF o - 1 <= n THEN o - 1 ELSE n)
      BY <1>11
    <3> QED
      BY <1>4, <3>1
  <2>2. at \in [0 .. n + m -> Nat] /\ at[0] = 0
    BY <1>11
  <2> QED
    BY <1>3, <2>1, <2>2 DEF Sums
<1>6. at[n + m] = n /\ \A o \in 1 .. n : at[o - 1] = o - 1
  BY <1>11
<1>7. ASSUME NEW o \in 1 .. n PROVE Len(parts[o]) = 1 /\ parts[o][1] = s[o]
  <2>1. parts[o] = <<s[o]>>
    OBVIOUS
  <2>2. Len(<<s[o]>>) = 1 /\ <<s[o]>>[1] = s[o]
    OBVIOUS
  <2> QED
    BY <2>1, <2>2
<1>8. /\ FlattenSeq(parts) \in Seq(S) /\ Len(FlattenSeq(parts)) = n
      /\ \A i \in 1 .. n + m : \A o \in 1 .. Len(parts[i]) :
           FlattenSeq(parts)[at[i - 1] + o] = parts[i][o]
  <2>1. /\ FlattenSeq(parts) \in Seq(S) /\ Len(FlattenSeq(parts)) = at[Len(parts)]
        /\ \A i \in 1 .. Len(parts) : \A o \in 1 .. Len(parts[i]) :
             FlattenSeq(parts)[at[i - 1] + o] = parts[i][o]
    <3>1. Flattened(S, parts, at, FlattenSeq(parts))
      BY <1>3, <1>5, FlattenedIs
    <3> QED
      BY <3>1 DEF Flattened
  <2> QED
    BY <1>3, <1>6, <2>1
<1>9. ASSUME NEW o \in 1 .. n PROVE FlattenSeq(parts)[o] = s[o]
  <2>1. o \in 1 .. n + m /\ 1 \in 1 .. Len(parts[o]) /\ at[o - 1] + 1 = o
    BY <1>6, <1>7
  <2> QED
    BY ZenonT(60), <1>7, <1>8, <2>1
<1> QED
  BY <1>8, <1>9, SameSeq

LEMMA HeldServed ==
  ASSUME ContentInv
  PROVE  ServedIsHashed
<1>1. Laid /\ DiskTypes /\ CompleteIsKept /\ FilesLaid
  BY DEF ContentInv, HeldInv, Laid
<1> SUFFICES ASSUME NEW i \in complete
             PROVE  LET piece == pieces[i]
                        served(swarm, n) == FlattenSeq([o \in 1 .. n |-> ReadBlock(i, o - 1, swarm)])
                    IN /\ HasV1(generation) => served("v1", piece.length + piece.padding) = info.pieces[i]
                       /\ HasV2(generation) => served("v2", piece.length + piece.padding) = PieceData(i)
  BY DEF ServedIsHashed
<1>2. i \in DOMAIN pieces /\ WholePiece(i)
  BY <1>1 DEF CompleteIsKept
<1>3. PICK at \in Nat : at = pieces[i].offset
  BY <1>1, <1>2, PieceIs
<1>4. PICK n \in Nat \ {0} : n = pieces[i].length
  BY <1>1, <1>2, PieceIs
<1>5. PICK m \in Nat : m = pieces[i].padding
  BY <1>1, <1>2, PieceIs
<1>6. PICK data \in Seq(Bytes) : data = PieceData(i) /\ Len(data) = n
                                 /\ \A k \in 1 .. n : data[k] = All[at + k]
  BY <1>1, <1>2, <1>3, <1>4, PieceDataIs
<1>7. ASSUME NEW o \in 1 .. n, NEW swarm PROVE ReadBlock(i, o - 1, swarm) = <<data[o]>>
  <2>1. PICK from \in Nat : from = at + (o - 1)
    OBVIOUS
  <2>2. from + 1 <= Len(All) /\ All \in Seq(Bytes) /\ from + 1 = at + o
    <3>1. at + n <= Len(All) /\ Len(All) \in Nat /\ All \in Seq(Bytes)
      BY <1>1, <1>2, <1>3, <1>4, PieceIs
    <3> QED
      BY <2>1, <3>1
  <2>3. ReadBlock(i, o - 1, swarm) = ReadRange(from, 1)
    <3>1. ~ (o - 1 >= n + (IF swarm = "v1" THEN m ELSE 0)) /\ ~ (o - 1 >= n)
      OBVIOUS
    <3> QED
      BY <1>3, <1>4, <1>5, <2>1, <3>1 DEF ReadBlock
  <2>4. \A b \in from + 1 .. from + 1 : OnDisk(b)
    <3>1. \A b \in from + 1 .. from + 1 : b \in at + 1 .. at + n
      BY <2>1
    <3> QED
      BY <1>2, <1>3, <1>4, <3>1 DEF WholePiece
  <2>5. ReadRange(from, 1) = SubSeq(All, from + 1, from + 1)
    <3>1. 1 \in Nat \ {0} /\ from \in Nat
      BY <2>1
    <3> QED
      BY <1>1, <2>2, <2>4, <3>1, ReadIs
  <2>6. Len(SubSeq(All, from + 1, from + 1)) = 1 /\ SubSeq(All, from + 1, from + 1) \in Seq(Bytes)
        /\ SubSeq(All, from + 1, from + 1)[1] = All[from + 1]
    BY <2>2, Part
  <2>7. PICK part \in Seq(Bytes) : part = SubSeq(All, from + 1, from + 1)
    BY <2>6
  <2>8. part = <<part[1]>>
    <3>1. Len(part) = 1
      BY <2>6, <2>7
    <3>2. PICK x \in Bytes : x = part[1]
      BY <3>1, ElementOfSeq
    <3>3. <<x>> \in Seq(Bytes) /\ Len(<<x>>) = 1 /\ <<x>>[1] = x
      OBVIOUS
    <3>4. \A k \in 1 .. Len(part) : part[k] = <<x>>[k]
      BY <3>1, <3>2, <3>3
    <3>5. part = <<x>>
      BY <3>1, <3>3, <3>4, SameSeq
    <3> QED
      BY <3>2, <3>5
  <2> QED
    BY <1>6, <2>2, <2>3, <2>5, <2>6, <2>7, <2>8
<1>8. HasV2(generation) => FlattenSeq([o \in 1 .. n + m |-> ReadBlock(i, o - 1, "v2")]) = data
  <2>1. PICK read : read = [o \in 1 .. n + m |-> ReadBlock(i, o - 1, "v2")]
    OBVIOUS
  <2>2. ASSUME NEW o \in 1 .. n PROVE read[o] = <<data[o]>>
    <3>1. o \in 1 .. n + m
      BY <1>4, <1>5
    <3>2. read[o] = ReadBlock(i, o - 1, "v2")
      BY <2>1, <3>1
    <3> QED
      BY <1>7, <3>2
  <2>3. ASSUME NEW o \in n + 1 .. n + m PROVE read[o] = << >>
    <3>1. o - 1 >= n + 0
      OBVIOUS
    <3> QED
      BY <1>4, <2>1, <3>1 DEF ReadBlock
  <2>9. read \in [1 .. n + m -> Seq(Bytes)]
    <3>1. ASSUME NEW o \in 1 .. n + m PROVE read[o] \in Seq(Bytes)
      <4>1. CASE o <= n
        <5>1. PICK x \in Bytes : x = data[o]
          BY <1>6, <4>1, ElementOfSeq
        <5>2. read[o] = <<x>>
          BY <2>2, <4>1, <5>1
        <5> QED
          BY <5>2
      <4>2. CASE ~ (o <= n)
        <5>1. read[o] = << >>
          BY <2>3, <4>2
        <5> QED
          BY <5>1
      <4> QED
        BY <4>1, <4>2
    <3> QED
      BY <2>1, <3>1
  <2>4. Singles(Bytes, n, m, read, data)
    <3>1. n \in Nat /\ m \in Nat /\ data \in Seq(Bytes) /\ Len(data) = n
      BY <1>4, <1>5, <1>6
    <3> QED
      BY <2>2, <2>3, <2>9, <3>1 DEF Singles
  <2> QED
    BY <2>1, <2>4, SinglesJoin
<1>9. HasV1(generation) => FlattenSeq([o \in 1 .. n + m |-> ReadBlock(i, o - 1, "v1")]) = info.pieces[i]
  <2> SUFFICES ASSUME HasV1(generation)
               PROVE  FlattenSeq([o \in 1 .. n + m |-> ReadBlock(i, o - 1, "v1")]) = info.pieces[i]
    OBVIOUS
  <2>1. PICK read : read = [o \in 1 .. n + m |-> ReadBlock(i, o - 1, "v1")]
    OBVIOUS
  <2>2. PICK padded : padded = data \o Zeros(m)
    OBVIOUS
  <2>3. Zeros(m) \in Seq(Bytes) /\ Len(Zeros(m)) = m /\ \A o \in 1 .. m : Zeros(m)[o] = <<0, 0>>
    BY DEF Zeros, Bytes
  <2>4. padded \in Seq(Bytes) /\ Len(padded) = n + m
        /\ (\A o \in 1 .. n : padded[o] = data[o])
        /\ \A o \in n + 1 .. n + m : padded[o] = <<0, 0>>
    <3>1. PICK zeros \in Seq(Bytes) : zeros = Zeros(m)
      BY <2>3
    <3>2. data \o zeros \in Seq(Bytes) /\ Len(data \o zeros) = n + m
          /\ \A o \in 1 .. n + m : (data \o zeros)[o] = IF o <= n THEN data[o] ELSE zeros[o - n]
      <4>1. Len(zeros) = m /\ Len(data) = n /\ data \in Seq(Bytes) /\ zeros \in Seq(Bytes)
        BY <1>6, <2>3, <3>1
      <4>2. /\ data \o zeros \in Seq(Bytes) /\ Len(data \o zeros) = Len(data) + Len(zeros)
            /\ \A k \in 1 .. Len(data) + Len(zeros) :
                 (data \o zeros)[k] = IF k <= Len(data) THEN data[k] ELSE zeros[k - Len(data)]
        BY <4>1, ConcatProperties
      <4> QED
        BY <4>1, <4>2
    <3>3. \A o \in n + 1 .. n + m : o - n \in 1 .. m /\ ~ (o <= n) /\ o \in 1 .. n + m
      OBVIOUS
    <3> QED
      BY <2>2, <2>3, <3>1, <3>2, <3>3
  <2>5. ASSUME NEW o \in 1 .. n + m PROVE read[o] = <<padded[o]>>
    <3>1. CASE o <= n
      BY <1>7, <2>1, <2>4, <3>1
    <3>2. CASE ~ (o <= n)
      <4>1. ~ (o - 1 >= n + m) /\ o - 1 >= n /\ o \in n + 1 .. n + m
        BY <3>2
      <4>2. Zeros(1) = <<<<0, 0>>>>
        BY DEF Zeros
      <4> QED
        BY <1>4, <1>5, <2>1, <2>4, <4>1, <4>2 DEF ReadBlock
    <3> QED
      BY <3>1, <3>2
  <2>7. read \in [1 .. n + m -> Seq(Bytes)]
    <3>1. ASSUME NEW o \in 1 .. n + m PROVE read[o] \in Seq(Bytes)
      <4>1. PICK x \in Bytes : x = padded[o]
        BY <2>4, ElementOfSeq
      <4>2. read[o] = <<x>>
        BY <2>5, <4>1
      <4> QED
        BY <4>2
    <3> QED
      BY <2>1, <3>1
  <2>6. Singles(Bytes, n + m, 0, read, padded)
    <3>1. n + m \in Nat /\ 0 \in Nat /\ padded \in Seq(Bytes) /\ Len(padded) = n + m
      BY <1>4, <1>5, <2>4
    <3>2. \A o \in (n + m) + 1 .. (n + m) + 0 : read[o] = << >>
      BY <1>4, <1>5
    <3> QED
      <4>1. 1 .. (n + m) + 0 = 1 .. n + m
        BY <3>1
      <4> QED
        BY <2>5, <2>7, <3>1, <3>2, <4>1 DEF Singles
  <2>8. padded = info.pieces[i]
    BY <1>1, <1>2, <1>5, <1>6, <2>2 DEF Laid, PaddingHashed
  <2> QED
    BY <2>1, <2>6, <2>8, SinglesJoin
<1> QED
  BY <1>4, <1>5, <1>6, <1>8, <1>9

--------------------------------------------------------------------------------
(* The files of a torrent lie one behind the other.                         *)

(* What the first m numbers of a sequence come to.                          *)
LEMMA TotalOfFirst ==
  ASSUME NEW lengths \in Seq(Nat), NEW at, Sums(at, Len(lengths), lengths), NEW m \in 0 .. Len(lengths)
  PROVE  Total(SubSeq(lengths, 1, m)) = at[m]
<1>1. Len(lengths) \in Nat /\ m \in Nat
  BY LenProperties
<1>2. PICK part \in Seq(Nat) : part = SubSeq(lengths, 0 + 1, 0 + m) /\ Len(part) = m
                               /\ \A k \in 1 .. m : part[k] = lengths[0 + k]
  <2>1. 0 + m <= Len(lengths)
    BY <1>1
  <2>2. /\ SubSeq(lengths, 0 + 1, 0 + m) \in Seq(Nat) /\ Len(SubSeq(lengths, 0 + 1, 0 + m)) = m
        /\ \A k \in 1 .. m : SubSeq(lengths, 0 + 1, 0 + m)[k] = lengths[0 + k]
    BY <1>1, <2>1, Part
  <2> QED
    BY <2>2
<1>3. PICK upTo : upTo = [k \in 0 .. m |-> at[k]]
  OBVIOUS
<1>4. Sums(upTo, m, part)
  <2>1. at \in [0 .. Len(lengths) -> Nat] /\ at[0] = 0
        /\ \A k \in 1 .. Len(lengths) : at[k] = at[k - 1] + lengths[k]
    BY DEF Sums
  <2>2. upTo \in [0 .. m -> Nat] /\ upTo[0] = 0
    <3>1. \A k \in 0 .. m : k \in 0 .. Len(lengths) /\ upTo[k] = at[k]
      BY <1>1, <1>3
    <3>2. \A k \in 0 .. m : upTo[k] \in Nat
      BY <2>1, <3>1
    <3>3. 0 \in 0 .. m
      BY <1>1
    <3> QED
      BY <1>3, <2>1, <3>1, <3>2, <3>3
  <2>3. ASSUME NEW k \in 1 .. m PROVE upTo[k] = upTo[k - 1] + part[k]
    <3>1. k \in 1 .. Len(lengths) /\ k - 1 \in 0 .. m /\ 0 + k = k
      BY <1>1
    <3>2. upTo[k] = at[k] /\ upTo[k - 1] = at[k - 1] /\ part[k] = lengths[k]
      BY <1>2, <1>3, <3>1
    <3> QED
      BY <2>1, <3>1, <3>2
  <2> QED
    BY <2>2, <2>3 DEF Sums
<1>5. Total(part) = upTo[m]
  BY <1>2, <1>4, TotalIs
<1> QED
  BY <1>1, <1>2, <1>3, <1>5

LEMMA TotalOfAll ==
  ASSUME NEW lengths \in Seq(Nat), NEW at, Sums(at, Len(lengths), lengths)
  PROVE  Total(lengths) = at[Len(lengths)]
BY TotalIs

(* Every place of a joined sequence is a place of one of the parts.          *)
LEMMA PlaceIn ==
  ASSUME NEW n \in Nat, NEW length, \A i \in 1 .. n : length[i] \in Nat, NEW at, Sums(at, n, length),
         NEW b \in 1 .. at[n]
  PROVE  \E i \in 1 .. n : \E o \in 1 .. length[i] : b = at[i - 1] + o
<1>1. at \in [0 .. n -> Nat] /\ \A i \in 1 .. n : at[i] = at[i - 1] + length[i]
  BY DEF Sums
<1>2. at[n] \in Nat
  BY <1>1
<1>3. PICK x \in Nat : x = b - 1 /\ x < at[n]
  BY <1>2
<1>4. PICK i \in 1 .. n : at[i - 1] <= x /\ x < at[i]
  BY <1>3, SumsLocate
<1>5. at[i - 1] \in Nat /\ length[i] \in Nat /\ at[i] = at[i - 1] + length[i]
  BY <1>1
<1>6. PICK o \in Nat : o = b - at[i - 1]
  BY <1>3, <1>4, <1>5
<1>7. o \in 1 .. length[i] /\ b = at[i - 1] + o
  BY <1>2, <1>3, <1>4, <1>5, <1>6
<1> QED
  BY <1>7

(* Where the bytes of one part end, those of a later one have not begun.     *)
LEMMA PlaceBefore ==
  ASSUME NEW n \in Nat, NEW length, \A i \in 1 .. n : length[i] \in Nat, NEW at, Sums(at, n, length),
         NEW i \in 1 .. n, NEW j \in 1 .. n, i < j
  PROVE  at[i] <= at[j - 1] /\ at[i] = at[i - 1] + length[i]
<1>1. j - 1 \in 0 .. n /\ i \in 0 .. j - 1
  OBVIOUS
<1>2. at[i] <= at[j - 1]
  BY <1>1, SumsGrow
<1> QED
  BY <1>2 DEF Sums

SumsOf(at, lengths) == Sums(at, Len(lengths), lengths)

LEMMA LayoutSums ==
  ASSUME ContentInit
  PROVE  \E at : /\ layout \in Seq(Nat) /\ Len(layout) \in Nat /\ SumsOf(at, layout)
                 /\ \A f \in Files : layout[f] \in Nat
                 /\ offsets \in [Files -> Nat] /\ \A f \in Files : offsets[f] = at[f - 1]
<1>1. layout \in Seq(Nat) /\ offsets = [f \in Files |-> Total(SubSeq(layout, 1, f - 1))]
  BY ContentAssumption DEF ContentInit, Files
<1>2. PICK n \in Nat : n = Len(layout)
  BY <1>1, LenProperties
<1>3. \A f \in 1 .. n : layout[f] \in Nat
  BY <1>1, <1>2, ElementOfSeq
<1>4. PICK at : Sums(at, n, layout)
  BY <1>3, SumsExist
<1>5. ASSUME NEW f \in Files PROVE offsets[f] = at[f - 1] /\ at[f - 1] \in Nat
  <2>1. f - 1 \in 0 .. n
    BY <1>2 DEF Files
  <2>2. Total(SubSeq(layout, 1, f - 1)) = at[f - 1]
    BY <1>1, <1>2, <1>4, <2>1, TotalOfFirst
  <2>3. at[f - 1] \in Nat
    BY <1>4, <2>1 DEF Sums
  <2> QED
    BY <1>1, <2>2, <2>3
<1> QED
  BY <1>1, <1>2, <1>3, <1>4, <1>5 DEF SumsOf, Files

(* The bytes of the files, one after the other.                             *)
LEMMA ContentIs ==
  ASSUME NEW lengths \in Seq(Nat), NEW at, SumsOf(at, lengths)
  PROVE  /\ Content(lengths) \in Seq(Bytes) /\ Len(Content(lengths)) = at[Len(lengths)]
         /\ \A f \in 1 .. Len(lengths) : \A o \in 1 .. lengths[f] :
              Content(lengths)[at[f - 1] + o] = <<f, o>>
<1>1. PICK n \in Nat : n = Len(lengths)
  BY LenProperties
<1>2. \A f \in 1 .. n : lengths[f] \in Nat
  BY <1>1, ElementOfSeq
<1>3. PICK parts : parts = [f \in 1 .. n |-> FileBytes(lengths, f)]
  OBVIOUS
<1>4. ASSUME NEW f \in 1 .. n
      PROVE  /\ parts[f] \in Seq(Bytes) /\ Len(parts[f]) = lengths[f]
             /\ \A o \in 1 .. lengths[f] : parts[f][o] = <<f, o>>
  <2>1. PICK m \in Nat : m = lengths[f]
    BY <1>2
  <2>2. PICK bytes : bytes = [o \in 1 .. m |-> <<f, o>>]
    OBVIOUS
  <2>3. \A o \in 1 .. m : <<f, o>> \in Bytes
    BY DEF Bytes
  <2>4. bytes \in [1 .. m -> Bytes]
    BY <2>2, <2>3
  <2>5. bytes \in Seq(Bytes) /\ Len(bytes) = m
    BY <2>4
  <2>6. parts[f] = bytes
    BY <1>3, <2>1, <2>2 DEF FileBytes
  <2> QED
    BY <2>1, <2>2, <2>5, <2>6
<1>5. parts \in Seq(Seq(Bytes)) /\ Len(parts) = n
  <2>1. parts \in [1 .. n -> Seq(Bytes)]
    BY <1>3, <1>4
  <2> QED
    BY <2>1
<1>6. Sums(at, Len(parts), Lengths(parts))
  <2>1. \A f \in 1 .. n : Lengths(parts)[f] = lengths[f]
    BY <1>4, <1>5 DEF Lengths
  <2> QED
    BY <1>1, <1>5, <2>1 DEF SumsOf, Sums
<1>7. Flattened(Bytes, parts, at, FlattenSeq(parts))
  BY <1>5, <1>6, FlattenedIs
<1>8. Content(lengths) = FlattenSeq(parts)
  BY <1>1, <1>3 DEF Content
<1>9. ASSUME NEW f \in 1 .. n, NEW o \in 1 .. lengths[f] PROVE Content(lengths)[at[f - 1] + o] = <<f, o>>
  <2>1. o \in 1 .. Len(parts[f]) /\ parts[f][o] = <<f, o>> /\ f \in 1 .. Len(parts)
    BY <1>4, <1>5
  <2> QED
    BY <1>7, <1>8, <2>1 DEF Flattened
<1>10. Content(lengths) \in Seq(Bytes) /\ Len(Content(lengths)) = at[n]
  BY <1>5, <1>7, <1>8 DEF Flattened
<1> QED
  BY <1>1, <1>9, <1>10

LEMMA FilesAreLaid ==
  ASSUME ContentInit
  PROVE  FilesLaid
<1>1. PICK at : /\ layout \in Seq(Nat) /\ Len(layout) \in Nat /\ SumsOf(at, layout)
                /\ \A f \in Files : layout[f] \in Nat
                /\ offsets \in [Files -> Nat] /\ \A f \in Files : offsets[f] = at[f - 1]
  BY LayoutSums
<1>2. PICK n \in Nat : n = Len(layout) /\ Files = 1 .. n
  BY <1>1 DEF Files
<1>3. /\ All \in Seq(Bytes) /\ Len(All) = at[n]
      /\ \A f \in Files : \A o \in 1 .. layout[f] : All[at[f - 1] + o] = <<f, o>>
  BY <1>1, <1>2, ContentIs DEF All
<1>4. Sums(at, n, layout)
  BY <1>1, <1>2 DEF SumsOf
<1>5. ASSUME NEW f \in Files, NEW o \in 1 .. layout[f]
      PROVE  offsets[f] + o \in 1 .. Len(All) /\ All[offsets[f] + o] = <<f, o>>
  <2>1. f \in 0 .. n /\ n \in 0 .. n
    BY <1>2
  <2>2. at[f] <= at[n] /\ at[f] = at[f - 1] + layout[f] /\ at[f - 1] \in Nat /\ at[n] \in Nat
    <3>1. at[f] <= at[n]
      BY <1>1, <1>2, <1>4, <2>1, SumsGrow
    <3> QED
      BY <1>2, <1>4, <2>1, <3>1 DEF Sums
  <2>3. layout[f] \in Nat /\ offsets[f] = at[f - 1]
    BY <1>1
  <2>4. offsets[f] + o \in 1 .. Len(All)
    BY SMTT(60), <1>3, <2>2, <2>3
  <2> QED
    BY <1>3, <2>3, <2>4
<1>6. ASSUME NEW b \in 1 .. Len(All) PROVE \E f \in Files : \E o \in 1 .. layout[f] : b = offsets[f] + o
  <2>1. \E f \in 1 .. n : \E o \in 1 .. layout[f] : b = at[f - 1] + o
    <3>1. b \in 1 .. at[n] /\ n \in Nat /\ \A f \in 1 .. n : layout[f] \in Nat
      BY <1>1, <1>2, <1>3
    <3> QED
      BY SMTT(60), <1>4, <3>1, PlaceIn
  <2> QED
    BY <1>1, <1>2, <2>1
<1> QED
  BY <1>1, <1>3, <1>5, <1>6 DEF FilesLaid

--------------------------------------------------------------------------------
(* Pieces of a v1 torrent.                                                  *)

UpToLength(n) == IF n < PieceLength THEN n ELSE PieceLength

LEMMA ChunkIs ==
  ASSUME NEW S, NEW s \in Seq(S), NEW k \in Nat, NEW at, at = k * PieceLength, at < Len(s)
  PROVE  /\ k + 1 \in 1 .. Len(Chunks(s, PieceLength))
         /\ Len(Chunks(s, PieceLength)) = CeilDiv(Len(s), PieceLength)
         /\ UpToLength(Len(s) - at) \in Nat \ {0} /\ at + UpToLength(Len(s) - at) <= Len(s)
         /\ Chunks(s, PieceLength)[k + 1] = SubSeq(s, at + 1, at + UpToLength(Len(s) - at))
<1>1. PICK n \in Nat : n = Len(s)
  BY LenProperties
<1>2. PICK p \in Nat \ {0} : p = PieceLength
  BY LengthIs
<1>3. at \in Nat /\ (k + 1) * PieceLength = at + p /\ (k + 1 - 1) * PieceLength = at
  <2>1. k + 1 - 1 = k
    OBVIOUS
  <2> QED
    BY <1>2, <2>1, TimesIs
<1>4. PICK count \in Nat : count = CeilDiv(n, PieceLength) /\ k + 1 <= count
  BY <1>1, <1>3, CeilIs
<1>5. PICK u \in Nat \ {0} : u = UpToLength(n - at) /\ at + u <= n
                             /\ at + u = IF at + p < n THEN at + p ELSE n
  <2>0. PICK a \in Nat : a = at /\ a < n
    BY <1>1, <1>3
  <2>1. PICK left \in Nat \ {0} : left = n - a /\ n = a + left
    BY SMTT(60), <1>1, <2>0
  <2>2. UpToLength(left) = IF left < p THEN left ELSE p
    BY <1>2 DEF UpToLength
  <2>3. UpToLength(left) \in Nat \ {0} /\ a + UpToLength(left) <= n
        /\ a + UpToLength(left) = IF a + p < n THEN a + p ELSE n
    <3>1. left \in Nat \ {0} /\ p \in Nat \ {0} /\ a \in Nat /\ n \in Nat
      BY <1>1, <1>2, <2>0, <2>1
    <3>2. CASE left < p
      BY <2>1, <2>2, <3>1, <3>2
    <3>3. CASE ~ (left < p)
      BY <2>1, <2>2, <3>1, <3>3
    <3> QED
      BY <3>2, <3>3
  <2> QED
    BY <2>0, <2>1, <2>3
<1>6. PICK chunk : chunk = [i \in 1 .. count |->
        SubSeq(s, (i - 1) * PieceLength + 1, IF i * PieceLength < n THEN i * PieceLength ELSE n)]
  OBVIOUS
<1>7. Chunks(s, PieceLength) = chunk
  BY <1>1, <1>4, <1>6 DEF Chunks
<1>8. Len(chunk) = count
  <2>1. chunk \in [1 .. count -> {chunk[i] : i \in 1 .. count}]
    BY <1>6
  <2> QED
    BY <2>1
<1>9. k + 1 \in 1 .. count
  BY <1>4
<1>10. chunk[k + 1] = SubSeq(s, at + 1, at + u)
  <2>1. PICK j \in 1 .. count : j = k + 1
    BY <1>9
  <2>2. (j - 1) * PieceLength = at /\ j * PieceLength = at + p
    BY <1>3, <2>1
  <2>3. chunk[j] = SubSeq(s, (j - 1) * PieceLength + 1, IF j * PieceLength < n THEN j * PieceLength ELSE n)
    BY <1>6
  <2> QED
    BY <1>5, <2>1, <2>2, <2>3
<1> QED
  BY <1>1, <1>4, <1>5, <1>7, <1>8, <1>9, <1>10

LEMMA FileBytesIs ==
  ASSUME NEW lengths, NEW f \in Nat, lengths[f] \in Nat
  PROVE  /\ FileBytes(lengths, f) \in Seq(Bytes) /\ Len(FileBytes(lengths, f)) = lengths[f]
         /\ \A o \in 1 .. lengths[f] : FileBytes(lengths, f)[o] = <<f, o>>
<1>1. PICK m \in Nat : m = lengths[f]
  OBVIOUS
<1>2. PICK bytes : bytes = [o \in 1 .. m |-> <<f, o>>]
  OBVIOUS
<1>3. \A o \in 1 .. m : <<f, o>> \in Bytes
  BY DEF Bytes
<1>4. bytes \in [1 .. m -> Bytes]
  BY <1>2, <1>3
<1>5. bytes \in Seq(Bytes) /\ Len(bytes) = m
  BY <1>4
<1>6. FileBytes(lengths, f) = bytes
  BY <1>1, <1>2 DEF FileBytes
<1> QED
  BY <1>1, <1>2, <1>5, <1>6

--------------------------------------------------------------------------------
(* Every byte of the content is in a piece.                                 *)
PiecesReach ==
  \A b \in 1 .. Len(All) : \E i \in DOMAIN pieces :
    b \in pieces[i].offset + 1 .. pieces[i].offset + pieces[i].length

PiecesAreCut == /\ pieces \in Seq({pieces[i] : i \in DOMAIN pieces})
                /\ PiecesLaid /\ HashesTell /\ PaddingHashed /\ PiecesReach

LEMMA StreamOfV1 ==
  ASSUME NEW lengths \in Seq(Nat)
  PROVE  V1Stream(lengths, "v1") = Content(lengths)
<1>1. PICK n \in Nat : n = Len(lengths) /\ \A f \in 1 .. n : lengths[f] \in Nat
  BY LenProperties, ElementOfSeq
<1>2. ASSUME NEW f \in 1 .. n
      PROVE  FileBytes(lengths, f) \o (IF Padded(lengths, f, "v1") THEN Zeros(PadTo(lengths[f])) ELSE << >>)
               = FileBytes(lengths, f)
  <2>1. ~ Padded(lengths, f, "v1")
    BY DEF Padded
  <2>2. FileBytes(lengths, f) \in Seq(Bytes)
    BY <1>1, FileBytesIs
  <2>3. FileBytes(lengths, f) \o << >> = FileBytes(lengths, f)
    BY <2>2, ConcatEmptySeq
  <2> QED
    BY <2>1, <2>3
<1> QED
  BY <1>1, <1>2 DEF V1Stream, Content

ListEntries == [length : Nat, padding : BOOLEAN]

LEMMA FilesOfV1 ==
  ASSUME NEW lengths \in Seq(Nat)
  PROVE  LengthsOf(V1Files(lengths, "v1")) = lengths
<1>1. PICK n \in Nat : n = Len(lengths) /\ \A f \in 1 .. n : lengths[f] \in Nat
  BY LenProperties, ElementOfSeq
<1>2. PICK list : list = [f \in 1 .. n |-> [length |-> lengths[f], padding |-> FALSE]]
  OBVIOUS
<1>3. list \in Seq(ListEntries) /\ Len(list) = n
  <2>1. list \in [1 .. n -> ListEntries]
    BY <1>1, <1>2 DEF ListEntries
  <2> QED
    BY <2>1
<1>4. PICK parts : parts = [f \in 1 .. n |->
        <<[length |-> lengths[f], padding |-> FALSE]>>
          \o (IF Padded(lengths, f, "v1") /\ PadTo(lengths[f]) > 0
              THEN <<[length |-> PadTo(lengths[f]), padding |-> TRUE]>> ELSE << >>)]
  OBVIOUS
<1>5. ASSUME NEW f \in 1 .. n PROVE parts[f] = <<list[f]>> /\ parts[f] \in Seq(ListEntries)
  <2>1. ~ Padded(lengths, f, "v1")
    BY DEF Padded
  <2>2. PICK entry \in ListEntries : entry = list[f] /\ entry = [length |-> lengths[f], padding |-> FALSE]
    BY <1>1, <1>2 DEF ListEntries
  <2>3. <<entry>> \in Seq(ListEntries)
    OBVIOUS
  <2>4. <<entry>> \o << >> = <<entry>>
    BY <2>3, ConcatEmptySeq
  <2>5. parts[f] = <<entry>> \o << >>
    BY <1>4, <2>1, <2>2
  <2> QED
    BY <2>2, <2>3, <2>4, <2>5
<1>6. Singles(ListEntries, n, 0, parts, list)
  <2>1. parts \in [1 .. n + 0 -> Seq(ListEntries)]
    <3>1. parts = [f \in 1 .. n |-> parts[f]]
      BY <1>4, Zenon
    <3>2. parts \in [1 .. n -> Seq(ListEntries)]
      BY <1>5, <3>1
    <3>3. n + 0 = n
      BY <1>1
    <3> QED
      BY <3>2, <3>3
  <2> QED
    BY <1>1, <1>3, <1>5, <2>1 DEF Singles
<1>7. FlattenSeq(parts) = list
  BY <1>6, SinglesJoin
<1>8. V1Files(lengths, "v1") = list
  BY <1>1, <1>4, <1>7 DEF V1Files
<1>9. PICK of : of = LengthsOf(list)
  OBVIOUS
<1>10. of \in [1 .. n -> Nat] /\ \A f \in 1 .. n : of[f] = lengths[f]
  <2>1. of = [f \in 1 .. n |-> list[f].length]
    BY <1>3, <1>9 DEF LengthsOf
  <2>2. \A f \in 1 .. n : list[f].length = lengths[f]
    BY <1>2
  <2> QED
    BY <1>1, <2>1, <2>2
<1>11. of \in Seq(Nat) /\ Len(of) = n
  BY <1>10
<1>12. of = lengths
  BY <1>1, <1>10, <1>11, SameSeq
<1> QED
  BY <1>8, <1>9, <1>12

LEMMA NothingPads == Zeros(0) = << >>
BY DEF Zeros

LEMMA FunctionIsSeq ==
  ASSUME NEW n \in Nat, NEW s, s = [i \in 1 .. n |-> s[i]]
  PROVE  Len(s) = n /\ DOMAIN s = 1 .. n /\ s \in Seq({s[i] : i \in 1 .. n})
<1>1. s \in [1 .. n -> {s[i] : i \in 1 .. n}]
  OBVIOUS
<1> QED
  BY <1>1

(* Without v2 the pieces are the content in groups of the piece length.     *)
LEMMA PiecesOfV1 ==
  ASSUME ContentInit, FilesLaid, generation = "v1"
  PROVE  /\ DOMAIN pieces = 1 .. CeilDiv(Len(All), PieceLength)
         /\ pieces = [i \in DOMAIN pieces |-> pieces[i]]
         /\ \A i \in DOMAIN pieces :
              /\ (i - 1) * PieceLength \in Nat /\ (i - 1) * PieceLength < Len(All)
              /\ pieces[i].offset = (i - 1) * PieceLength
              /\ pieces[i].length = UpToLength(Len(All) - (i - 1) * PieceLength)
              /\ pieces[i].length \in Nat \ {0} /\ pieces[i].offset + pieces[i].length <= Len(All)
              /\ pieces[i].padding = 0 /\ info.pieces[i] = PieceData(i)
              /\ pieces[i].sha1 = <<info.pieces[i]>> /\ pieces[i].whole = FALSE /\ pieces[i].hash = << >>
<1>1. layout \in Seq(Nat) /\ info = Metainfo(layout, "v1") /\ pieces = PiecesOfTorrent(info, "v1")
  BY ContentAssumption DEF ContentInit
<1>2. info.pieces = Chunks(All, PieceLength) /\ LengthsOf(info.files) = layout
  BY <1>1, StreamOfV1, FilesOfV1 DEF Metainfo, HasV1, All
<1>3. All \in Seq(Bytes) /\ Len(All) \in Nat /\ Total(layout) = Len(All)
  <2>1. PICK at : SumsOf(at, layout)
    BY LayoutSums
  <2>2. Len(All) = at[Len(layout)] /\ All \in Seq(Bytes)
    BY <1>1, <2>1, ContentIs DEF All
  <2>3. Total(layout) = at[Len(layout)]
    BY <1>1, <2>1, TotalIs DEF SumsOf
  <2> QED
    BY <2>2, <2>3, LenProperties
<1>4. PICK total \in Nat : total = Len(All)
  BY <1>3
<1>5. PICK n \in Nat : n = CeilDiv(total, PieceLength)
  BY CeilIs
<1>6. Len(info.pieces) = n
  <2>1. PICK hashes : hashes = [i \in 1 .. n |->
          SubSeq(All, (i - 1) * PieceLength + 1, IF i * PieceLength < total THEN i * PieceLength ELSE total)]
    OBVIOUS
  <2>2. hashes = [i \in 1 .. n |-> hashes[i]]
    BY <2>1, Zenon
  <2>3. Len(hashes) = n
    BY <2>2, FunctionIsSeq
  <2>4. info.pieces = hashes
    BY <1>2, <1>4, <1>5, <2>1 DEF Chunks
  <2> QED
    BY <2>3, <2>4
<1>7. pieces = [i \in 1 .. n |->
          LET left == total - (i - 1) * PieceLength IN
          [file |-> 0, start |-> 0,
           offset |-> (i - 1) * PieceLength,
           length |-> IF left < PieceLength THEN left ELSE PieceLength,
           padding |-> 0, sha1 |-> <<info.pieces[i]>>,
           whole |-> FALSE, root |-> << >>, hash |-> << >>]]
  BY <1>1, <1>2, <1>3, <1>4, <1>6 DEF PiecesOfTorrent, HasV2
<1>8. DOMAIN pieces = 1 .. n /\ pieces = [i \in DOMAIN pieces |-> pieces[i]]
  BY <1>7, Zenon
<1>9. ASSUME NEW i \in 1 .. n
      PROVE  /\ (i - 1) * PieceLength \in Nat /\ (i - 1) * PieceLength < total
             /\ pieces[i].offset = (i - 1) * PieceLength
             /\ pieces[i].length = UpToLength(total - (i - 1) * PieceLength)
             /\ pieces[i].length \in Nat \ {0} /\ pieces[i].offset + pieces[i].length <= total
             /\ pieces[i].padding = 0 /\ info.pieces[i] = PieceData(i)
             /\ pieces[i].sha1 = <<info.pieces[i]>> /\ pieces[i].whole = FALSE /\ pieces[i].hash = << >>
  <2>1. PICK k \in Nat : k = i - 1 /\ k + 1 = i /\ k + 1 <= n
    BY <1>5
  <2>2. PICK at \in Nat : at = k * PieceLength
    BY TimesIs
  <2>3. at < total
    BY <1>5, <2>1, <2>2, CeilIs
  <2>4. PICK u : u = UpToLength(total - at)
    OBVIOUS
  <2>5. u \in Nat \ {0} /\ at + u <= total /\ info.pieces[i] = SubSeq(All, at + 1, at + u)
    BY SMTT(60), <1>2, <1>3, <1>4, <2>1, <2>2, <2>3, <2>4, ChunkIs
  <2>6. pieces[i] = [file |-> 0, start |-> 0, offset |-> at, length |-> u,
           padding |-> 0, sha1 |-> <<info.pieces[i]>>,
           whole |-> FALSE, root |-> << >>, hash |-> << >>]
    BY <1>7, <2>1, <2>2, <2>4 DEF UpToLength
  <2>7. info.pieces[i] = PieceData(i)
    BY <2>5, <2>6 DEF PieceData, All
  <2> QED
    <3>1. /\ pieces[i].offset = at /\ pieces[i].length = u /\ pieces[i].padding = 0
          /\ pieces[i].sha1 = <<info.pieces[i]>> /\ pieces[i].whole = FALSE /\ pieces[i].hash = << >>
      BY <2>6
    <3>2. (i - 1) * PieceLength = at
      BY <2>1, <2>2
    <3>3. (i - 1) * PieceLength \in Nat /\ (i - 1) * PieceLength < total
      BY <2>2, <2>3, <3>2
    <3>4. pieces[i].length = UpToLength(total - (i - 1) * PieceLength)
      BY <2>4, <3>1, <3>2
    <3>5. pieces[i].length \in Nat \ {0} /\ pieces[i].offset + pieces[i].length <= total
      BY <2>5, <3>1
    <3>6. pieces[i].offset = (i - 1) * PieceLength
      BY <3>1, <3>2
    <3> QED
      BY <2>7, <3>1, <3>3, <3>4, <3>5, <3>6
<1> QED
  BY <1>4, <1>5, <1>8, <1>9

LEMMA CutV1 ==
  ASSUME ContentInit, FilesLaid, generation = "v1"
  PROVE  PiecesAreCut
<1>1. PICK total \in Nat : total = Len(All) /\ All \in Seq(Bytes)
  BY LenProperties DEF FilesLaid
<1>2. PICK n \in Nat : n = CeilDiv(total, PieceLength)
  BY <1>1, CeilIs
<1>3. DOMAIN pieces = 1 .. n /\ pieces = [i \in DOMAIN pieces |-> pieces[i]]
  BY <1>1, <1>2, PiecesOfV1
<1>4. ASSUME NEW i \in DOMAIN pieces
      PROVE  /\ (i - 1) * PieceLength \in Nat /\ (i - 1) * PieceLength < total
             /\ pieces[i].offset = (i - 1) * PieceLength
             /\ pieces[i].length = UpToLength(total - (i - 1) * PieceLength)
             /\ pieces[i].length \in Nat \ {0} /\ pieces[i].offset + pieces[i].length <= total
             /\ pieces[i].padding = 0 /\ info.pieces[i] = PieceData(i)
             /\ pieces[i].sha1 = <<info.pieces[i]>> /\ pieces[i].whole = FALSE /\ pieces[i].hash = << >>
  BY <1>1, PiecesOfV1
<1>5. ~ HasV2(generation)
  BY DEF HasV2
<1>6. ASSUME NEW i \in DOMAIN pieces PROVE PieceLaid(i)
  <2>1. pieces[i].offset \in Nat
    BY <1>4
  <2>2. pieces[i].length \in Nat \ {0} /\ pieces[i].offset + pieces[i].length <= Len(All)
    BY <1>1, <1>4
  <2>3. pieces[i].padding \in Nat
    <3>1. pieces[i].padding = 0
      BY <1>4, Zenon
    <3> QED
      BY <3>1
  <2>4. pieces[i].offset = (i - 1) * PieceLength
    BY <1>4
  <2> QED
    BY <1>5, <2>1, <2>2, <2>3, <2>4 DEF PieceLaid
<1>7. ASSUME NEW i \in DOMAIN pieces, NEW j \in DOMAIN pieces, i < j
      PROVE  pieces[i].offset + pieces[i].length <= pieces[j].offset
  <2>1. PICK k \in Nat : k = i - 1 /\ k + 1 = i
    BY <1>3
  <2>2. PICK l \in Nat : l = j - 1 /\ k + 1 <= l
    BY <1>3, <1>7, <2>1
  <2>3. PICK p \in Nat : p = PieceLength
    BY LengthIs
  <2>4. PICK a \in Nat : a = k * PieceLength /\ (k + 1) * PieceLength = a + p
    BY <2>3, TimesIs
  <2>5. PICK b \in Nat : b = l * PieceLength
    BY TimesIs
  <2>6. a + p <= b
    <3>1. k + 1 \in Nat
      OBVIOUS
    <3> QED
      BY <2>2, <2>4, <2>5, <3>1, TimesGrow
  <2>7. pieces[i].offset = a /\ pieces[j].offset = b /\ pieces[i].length \in Nat
    BY <1>4, <2>1, <2>2, <2>4, <2>5
  <2>8. pieces[i].length <= p
    <3>1. PICK left \in Int : left = total - a
      OBVIOUS
    <3>2. pieces[i].length = UpToLength(left)
      BY <1>4, <2>1, <2>4, <3>1
    <3> QED
      BY <2>3, <3>1, <3>2 DEF UpToLength
  <2> QED
    BY <2>6, <2>7, <2>8
<1>8. PiecesLaid
  <2>1. DOMAIN pieces \subseteq Nat \ {0}
    BY <1>3
  <2> QED
    BY <1>6, <1>7, <2>1 DEF PiecesLaid
<1>9. ASSUME NEW i \in DOMAIN pieces, NEW data \in Seq(Bytes)
      PROVE  VerifyData(pieces[i], data) <=> data = PieceData(i)
  <2>1. data \o Zeros(0) = data
    BY NothingPads, ConcatEmptySeq
  <2>2. PICK hash : hash = info.pieces[i]
    OBVIOUS
  <2>3. hash = PieceData(i) /\ pieces[i].sha1 = <<hash>> /\ <<hash>> # << >> /\ <<hash>>[1] = hash
    BY <1>4, <2>2
  <2>4. data = PieceData(i) => Len(data) = pieces[i].length
    <3>1. PICK at \in Nat : at = pieces[i].offset
      BY <1>4
    <3>2. PICK u \in Nat : u = pieces[i].length /\ at + u <= Len(All)
      BY <1>1, <1>4, <3>1
    <3>3. PieceData(i) = SubSeq(All, at + 1, at + u)
      BY <3>1, <3>2 DEF PieceData, All
    <3>4. Len(SubSeq(All, at + 1, at + u)) = u
      BY <1>1, <3>2, Part
    <3> QED
      BY <3>2, <3>3, <3>4
  <2>5. VerifyData(pieces[i], data) <=> Len(data) = pieces[i].length /\ data \o Zeros(0) = hash
    BY <1>4, <2>3 DEF VerifyData
  <2> QED
    BY <2>1, <2>3, <2>4, <2>5
<1>10. PaddingHashed
  <2>1. ASSUME NEW i \in DOMAIN pieces PROVE info.pieces[i] = PieceData(i) \o Zeros(pieces[i].padding)
    <3>1. PICK at \in Nat : at = pieces[i].offset
      BY <1>4
    <3>2. PICK u \in Nat : u = pieces[i].length /\ at + u <= Len(All)
      BY <1>1, <1>4, <3>1
    <3>3. PieceData(i) = SubSeq(All, at + 1, at + u)
      BY <3>1, <3>2 DEF PieceData, All
    <3>4. PieceData(i) \in Seq(Bytes)
      BY <1>1, <3>2, <3>3, Part
    <3> QED
      BY <1>4, <3>4, NothingPads, ConcatEmptySeq
  <2> QED
    BY <2>1 DEF PaddingHashed
<1>11. ASSUME NEW b \in 1 .. total
       PROVE  \E i \in DOMAIN pieces : b \in pieces[i].offset + 1 .. pieces[i].offset + pieces[i].length
  <2>1. PICK x \in Nat : x = b - 1 /\ x < total
    OBVIOUS
  <2>2. PICK p \in Nat : p = PieceLength
    BY LengthIs
  <2>3. PICK k \in Nat : k * PieceLength <= x /\ x < k * PieceLength + PieceLength
    BY TimesReach
  <2>4. PICK at \in Nat : at = k * PieceLength
    BY TimesIs
  <2>5. at <= x /\ x < at + p
    BY <2>2, <2>3, <2>4
  <2>6. k + 1 <= n
    <3>1. k * PieceLength < total
      BY <2>1, <2>4, <2>5
    <3> QED
      BY <1>2, <3>1, CeilIs
  <2>7. PICK i \in DOMAIN pieces : i = k + 1 /\ i - 1 = k
    BY <1>3, <2>6
  <2>8. pieces[i].offset = at /\ pieces[i].length = UpToLength(total - at)
    BY <1>4, <2>4, <2>7
  <2>9. b <= at + UpToLength(total - at)
    <3>1. PICK left \in Nat : left = total - at /\ x < at + left
      BY <2>1, <2>5
    <3> QED
      BY <2>1, <2>2, <2>5, <3>1 DEF UpToLength
  <2>10. UpToLength(total - at) \in Nat
    BY <1>4, <2>8
  <2>11. b \in at + 1 .. at + UpToLength(total - at)
    BY <2>1, <2>5, <2>9, <2>10
  <2> QED
    BY <2>8, <2>11
<1>12. pieces \in Seq({pieces[i] : i \in DOMAIN pieces})
  BY <1>3, FunctionIsSeq
<1> QED
  BY <1>1, <1>8, <1>9, <1>10, <1>11, <1>12 DEF PiecesAreCut, HashesTell, PiecesReach

--------------------------------------------------------------------------------
(* Merkle trees tell their leaves.                                          *)

Rowed(n, row) == row = [i \in 1 .. n |-> row[i]]

(* What the recursive function of MerkleRoot stands for.                    *)
Rows(leaves, depth, f) == [k \in 0 .. depth |-> IF k = 0 THEN leaves ELSE Parents(f[k - 1])]

LEMMA RowsExist ==
  ASSUME NEW leaves, NEW depth \in Nat
  PROVE  \E f : f = Rows(leaves, depth, f)
<1> DEFINE T == {m \in 0 .. depth : \E g : g = Rows(leaves, m, g)}
<1>1. 0 \in T
  <2>1. PICK g : g = [k \in 0 .. 0 |-> leaves]
    OBVIOUS
  <2>2. g = Rows(leaves, 0, g)
    <3>1. \A k \in 0 .. 0 : k = 0
      OBVIOUS
    <3> QED
      BY <2>1, <3>1 DEF Rows
  <2> QED
    BY <2>2
<1>2. ASSUME NEW m \in 0 .. depth, m # 0, m - 1 \in T PROVE m \in T
  <2>1. PICK g : g = Rows(leaves, m - 1, g)
    BY <1>2
  <2>2. PICK f : f = [k \in 0 .. m |-> IF k = m THEN Parents(g[m - 1]) ELSE g[k]]
    OBVIOUS
  <2>3. f[m] = Parents(g[m - 1]) /\ \A k \in 0 .. m - 1 : f[k] = g[k]
    BY <1>2, <2>2
  <2>4. \A k \in 0 .. m - 1 : g[k] = IF k = 0 THEN leaves ELSE Parents(g[k - 1])
    BY <2>1, Zenon DEF Rows
  <2>5. ASSUME NEW k \in 0 .. m PROVE f[k] = IF k = 0 THEN leaves ELSE Parents(f[k - 1])
    <3>1. CASE k = m
      <4>1. m - 1 \in 0 .. m - 1
        BY <1>2
      <4> QED
        BY <1>2, <2>3, <3>1, <4>1
    <3>2. CASE k # m
      <4>1. k \in 0 .. m - 1 /\ (k # 0 => k - 1 \in 0 .. m - 1)
        BY <1>2, <3>2
      <4> QED
        BY <2>3, <2>4, <4>1
    <3> QED
      BY <3>1, <3>2
  <2>6. f = [k \in 0 .. m |-> f[k]]
    BY <2>2, Zenon
  <2>7. f = Rows(leaves, m, f)
    BY <2>5, <2>6, Zenon DEF Rows
  <2> QED
    BY <2>7
<1> HIDE DEF T
<1>3. depth \in T
  BY <1>1, <1>2, Induction
<1> QED
  BY <1>3 DEF T

(* A tree: a power of two of leaves, and row on row up to the root.         *)
Tree(depth, leaves, f) ==
  /\ Rowed(Power(depth), leaves) /\ f[0] = leaves
  /\ \A k \in 1 .. depth : f[k] = Parents(f[k - 1])

LEMMA ParentsAre ==
  ASSUME NEW h \in Nat, NEW row, Rowed(2 * h, row)
  PROVE  Rowed(h, Parents(row)) /\ \A i \in 1 .. h : Parents(row)[i] = <<row[2 * i - 1], row[2 * i]>>
<1>1. 2 * h \in Nat /\ (2 * h) \div 2 = h
  OBVIOUS
<1>2. Len(row) = 2 * h
  BY <1>1, FunctionIsSeq DEF Rowed
<1>3. PICK up : up = [i \in 1 .. h |-> <<row[2 * i - 1], row[2 * i]>>]
  OBVIOUS
<1>4. Parents(row) = up
  BY <1>1, <1>2, <1>3 DEF Parents
<1>5. up = [i \in 1 .. h |-> up[i]]
  BY <1>3, Zenon
<1> QED
  BY <1>3, <1>4, <1>5 DEF Rowed

LEMMA TreeRows ==
  ASSUME NEW depth \in Nat, NEW leaves, NEW f, Tree(depth, leaves, f), NEW k \in 0 .. depth
  PROVE  /\ Rowed(Power(depth - k), f[k])
         /\ k # 0 => \A i \in 1 .. Power(depth - k) : f[k][i] = <<f[k - 1][2 * i - 1], f[k - 1][2 * i]>>
<1> DEFINE Right(m) == Rowed(Power(depth - m), f[m])
           T == {m \in 0 .. depth : Right(m)}
<1>1. ASSUME NEW m \in 1 .. depth, Right(m - 1)
      PROVE  /\ Right(m)
             /\ \A i \in 1 .. Power(depth - m) : f[m][i] = <<f[m - 1][2 * i - 1], f[m - 1][2 * i]>>
  <2>1. PICK l \in Nat : l = depth - m /\ depth - (m - 1) = l + 1
    OBVIOUS
  <2>2. PICK h \in Nat : h = Power(l) /\ Power(l + 1) = 2 * h
    BY PowerIs
  <2>3. PICK row : row = f[m - 1] /\ Rowed(2 * h, row)
    BY <1>1, <2>1, <2>2
  <2>4. Rowed(h, Parents(row)) /\ \A i \in 1 .. h : Parents(row)[i] = <<row[2 * i - 1], row[2 * i]>>
    BY <2>3, ParentsAre
  <2>5. f[m] = Parents(row)
    BY <2>3 DEF Tree
  <2> QED
    BY <2>1, <2>2, <2>3, <2>4, <2>5
<1>2. 0 \in T
  <2>1. depth - 0 = depth
    OBVIOUS
  <2> QED
    BY <2>1 DEF Tree
<1>3. ASSUME NEW m \in 0 .. depth, m # 0, m - 1 \in T PROVE m \in T
  <2>1. m \in 1 .. depth
    BY <1>3
  <2> QED
    BY <1>1, <1>3, <2>1
<1> HIDE DEF T
<1>4. 0 .. depth \subseteq T
  BY <1>2, <1>3, Induction
<1>5. CASE k = 0
  BY <1>2, <1>5 DEF T
<1>6. CASE k # 0
  <2>1. k \in 1 .. depth /\ k - 1 \in 0 .. depth
    BY <1>6
  <2>2. Right(k - 1)
    BY <1>4, <2>1 DEF T
  <2> QED
    BY <1>1, <2>1, <2>2
<1> QED
  BY <1>5, <1>6

(* A row is told by the row above it.                                       *)
LEMMA ParentsTell ==
  ASSUME NEW h \in Nat, NEW a, NEW b, Rowed(2 * h, a), Rowed(2 * h, b), Parents(a) = Parents(b)
  PROVE  a = b
<1>1. \A i \in 1 .. h : Parents(a)[i] = <<a[2 * i - 1], a[2 * i]>>
  BY ParentsAre
<1>2. \A i \in 1 .. h : Parents(b)[i] = <<b[2 * i - 1], b[2 * i]>>
  BY ParentsAre
<1>3. ASSUME NEW i \in 1 .. 2 * h PROVE a[i] = b[i]
  <2>1. PICK k \in Nat : i = 2 * k - 1 \/ i = 2 * k
    <3>1. i \in Nat /\ 1 <= i
      OBVIOUS
    <3>2. (i + 1) \div 2 \in Nat /\ (i = 2 * ((i + 1) \div 2) - 1 \/ i = 2 * ((i + 1) \div 2))
      BY <3>1
    <3> QED
      BY <3>2
  <2>2. k \in 1 .. h
    BY <2>1
  <2>3. <<a[2 * k - 1], a[2 * k]>> = <<b[2 * k - 1], b[2 * k]>>
    BY <1>1, <1>2, <2>2
  <2>4. a[2 * k - 1] = b[2 * k - 1] /\ a[2 * k] = b[2 * k]
    BY <2>3
  <2> QED
    BY <2>1, <2>4
<1> QED
  BY <1>3, Zenon DEF Rowed

(* So the leaves are told by the root.                                      *)
LEMMA TreesTell ==
  ASSUME NEW depth \in Nat, NEW a, NEW b, NEW f, NEW g, Tree(depth, a, f), Tree(depth, b, g)
  PROVE  /\ f[depth][1] = g[depth][1] => a = b
         /\ a[1] # << >> => f[depth][1] # << >>
<1>1. ASSUME f[depth][1] = g[depth][1] PROVE a = b
  <2> DEFINE T == {m \in 0 .. depth : f[depth - m] = g[depth - m]}
  <2>1. 0 \in T
    <3>1. depth \in 0 .. depth /\ depth - depth = 0 /\ Power(0) = 1 /\ depth - 0 = depth
      BY PowerIs
    <3>2. Rowed(1, f[depth]) /\ Rowed(1, g[depth])
      BY <3>1, TreeRows
    <3>3. \A i \in 1 .. 1 : i = 1
      OBVIOUS
    <3>4. f[depth] = g[depth]
      BY <1>1, <3>2, <3>3, Zenon DEF Rowed
    <3> QED
      BY <3>1, <3>4
  <2>2. ASSUME NEW m \in 0 .. depth, m # 0, m - 1 \in T PROVE m \in T
    <3>1. PICK k \in 1 .. depth : k = depth - (m - 1) /\ k - 1 = depth - m /\ k - 1 \in 0 .. depth
      BY <2>2
    <3>2. f[k] = g[k] /\ f[k] = Parents(f[k - 1]) /\ g[k] = Parents(g[k - 1])
      BY <2>2, <3>1 DEF Tree
    <3>3. PICK l \in Nat : l = depth - k /\ depth - (k - 1) = l + 1
      OBVIOUS
    <3>4. PICK h \in Nat : h = Power(l) /\ Power(l + 1) = 2 * h
      BY PowerIs
    <3>5. Rowed(2 * h, f[k - 1]) /\ Rowed(2 * h, g[k - 1])
      BY <3>1, <3>3, <3>4, TreeRows
    <3>6. f[k - 1] = g[k - 1]
      BY <3>2, <3>5, ParentsTell
    <3> QED
      BY <3>1, <3>6
  <2> HIDE DEF T
  <2>3. depth \in T
    BY <2>1, <2>2, Induction
  <2>4. depth - depth = 0
    OBVIOUS
  <2>5. f[0] = g[0]
    BY <2>3, <2>4 DEF T
  <2> QED
    BY <2>5 DEF Tree
<1>2. ASSUME a[1] # << >> PROVE f[depth][1] # << >>
  <2>1. CASE depth = 0
    BY <1>2, <2>1 DEF Tree
  <2>2. CASE depth # 0
    <3>1. depth \in 0 .. depth /\ depth - depth = 0 /\ 1 \in 1 .. Power(0)
      BY PowerIs
    <3>2. f[depth][1] = <<f[depth - 1][2 * 1 - 1], f[depth - 1][2 * 1]>>
      BY <2>2, <3>1, TreeRows
    <3> QED
      BY <3>2
  <2> QED
    BY <2>1, <2>2
<1> QED
  BY <1>1, <1>2

(* The tree above hashes that are filled up to a power of two.              *)
RootOf(n, hashes, layer, leaves, f) ==
  /\ Tree(Depth(n), leaves, f) /\ MerkleRoot(hashes, layer) = f[Depth(n)][1]
  /\ \A i \in 1 .. Power(Depth(n)) : leaves[i] = IF i <= n THEN hashes[i] ELSE ZeroHash(layer)

LEMMA RootIs ==
  ASSUME NEW n \in Nat \ {0}, NEW hashes, NEW layer, Rowed(n, hashes)
  PROVE  \E leaves, f : RootOf(n, hashes, layer, leaves, f)
<1>1. PICK d \in Nat : d = Depth(n) /\ n <= Power(d)
  BY DepthIs
<1>2. PICK p \in Nat : p = Power(d) /\ n <= p
  BY <1>1, PowerIs
<1>3. PICK m \in Nat : m = p - n /\ n + m = p
  BY <1>2
<1>4. PICK zeros : zeros = [i \in 1 .. m |-> ZeroHash(layer)]
  OBVIOUS
<1>5. PICK S : S = {hashes[i] : i \in 1 .. n} \cup {ZeroHash(layer)}
  OBVIOUS
<1>6. hashes \in Seq(S) /\ Len(hashes) = n
  <2>1. hashes \in [1 .. n -> S]
    BY <1>5 DEF Rowed
  <2> QED
    BY <2>1
<1>7. zeros \in Seq(S) /\ Len(zeros) = m
  <2>1. zeros \in [1 .. m -> S]
    BY <1>4, <1>5
  <2> QED
    BY <2>1
<1>8. PICK leaves \in Seq(S) :
        /\ leaves = hashes \o zeros /\ Len(leaves) = p
        /\ \A i \in 1 .. p : leaves[i] = IF i <= n THEN hashes[i] ELSE zeros[i - n]
  <2>1. /\ hashes \o zeros \in Seq(S) /\ Len(hashes \o zeros) = Len(hashes) + Len(zeros)
        /\ \A i \in 1 .. Len(hashes) + Len(zeros) :
             (hashes \o zeros)[i] = IF i <= Len(hashes) THEN hashes[i] ELSE zeros[i - Len(hashes)]
    BY <1>6, <1>7, ConcatProperties
  <2>2. Len(hashes) + Len(zeros) = p
    BY <1>3, <1>6, <1>7
  <2> QED
    BY <1>6, <2>1, <2>2, ZenonT(60)
<1>9. leaves = [i \in 1 .. p |-> leaves[i]]
  BY <1>8, LenProperties
<1>10. ASSUME NEW i \in 1 .. p PROVE leaves[i] = IF i <= n THEN hashes[i] ELSE ZeroHash(layer)
  <2>1. CASE i <= n
    BY <1>8, <2>1
  <2>2. CASE ~ (i <= n)
    <3>1. i - n \in 1 .. m
      BY <1>3, <2>2
    <3> QED
      BY <1>4, <1>8, <2>2, <3>1
  <2> QED
    BY <2>1, <2>2
<1>11. PICK f : f = (CHOOSE g : g = Rows(leaves, d, g)) /\ f = Rows(leaves, d, f)
  <2>1. \E g : g = Rows(leaves, d, g)
    BY RowsExist
  <2> QED
    BY <2>1, Zenon
<1>12. MerkleRoot(hashes, layer) = (CHOOSE g : g = Rows(leaves, d, g))[d][1]
  <2>1. hashes # << >>
    BY <1>6
  <2>2. zeros = [i \in 1 .. NextPowerOfTwo(Len(hashes)) - Len(hashes) |-> ZeroHash(layer)]
    BY <1>1, <1>2, <1>3, <1>4, <1>6 DEF NextPowerOfTwo
  <2>3. MerkleRoot(hashes, layer) =
          (CHOOSE g : g = Rows(hashes \o [i \in 1 .. NextPowerOfTwo(Len(hashes)) - Len(hashes) |-> ZeroHash(layer)],
                               Depth(Len(hashes)), g))[Depth(Len(hashes))][1]
    BY <2>1 DEF MerkleRoot, Rows
  <2> QED
    BY <1>1, <1>6, <1>8, <2>2, <2>3, Zenon
<1>13. \A k \in 0 .. d : f[k] = IF k = 0 THEN leaves ELSE Parents(f[k - 1])
  BY <1>11, Zenon DEF Rows
<1>14. Tree(d, leaves, f)
  <2>1. f[0] = leaves
    <3>1. 0 \in 0 .. d
      BY <1>1
    <3> QED
      BY <1>13, <3>1
  <2>2. \A k \in 1 .. d : f[k] = Parents(f[k - 1])
    BY <1>13
  <2> QED
    BY <1>2, <1>9, <2>1, <2>2 DEF Tree, Rowed
<1> QED
  BY <1>1, <1>2, <1>10, <1>11, <1>12, <1>14 DEF RootOf

(* A root tells as many hashes as there are from all others.                *)
LEMMA RootTells ==
  ASSUME NEW n \in Nat \ {0}, NEW layer, NEW a, NEW b, Rowed(n, a), Rowed(n, b)
  PROVE  /\ MerkleRoot(a, layer) = MerkleRoot(b, layer) => a = b
         /\ a[1] # << >> => MerkleRoot(a, layer) # << >>
<1>1. PICK d \in Nat : d = Depth(n) /\ n <= Power(d) /\ Power(d) \in Nat
  BY DepthIs, PowerIs
<1>2. PICK u, f : RootOf(n, a, layer, u, f)
  BY RootIs
<1>3. PICK v, g : RootOf(n, b, layer, v, g)
  BY RootIs
<1>4. \A i \in 1 .. n : u[i] = a[i] /\ v[i] = b[i]
  BY <1>1, <1>2, <1>3 DEF RootOf
<1>5. /\ f[d][1] = g[d][1] => u = v
      /\ u[1] # << >> => f[d][1] # << >>
  BY <1>1, <1>2, <1>3, TreesTell DEF RootOf
<1>6. u = v => a = b
  BY <1>4, Zenon DEF Rowed
<1>7. u[1] = a[1]
  BY <1>4
<1> QED
  BY <1>1, <1>2, <1>3, <1>5, <1>6, <1>7 DEF RootOf

LEMMA LeavesTell ==
  ASSUME NEW n \in Nat, NEW data \in Seq(Bytes), Len(data) = n
  PROVE  /\ Rowed(n, Leaves(data)) /\ Len(Leaves(data)) = n
         /\ \A i \in 1 .. n : Leaves(data)[i] = <<data[i]>>
<1>1. PICK row : row = [i \in 1 .. n |-> <<data[i]>>]
  OBVIOUS
<1>2. row = [i \in 1 .. n |-> row[i]] /\ \A i \in 1 .. n : row[i] = <<data[i]>>
  BY <1>1, Zenon
<1>3. Len(row) = n
  BY <1>2, FunctionIsSeq
<1>4. Leaves(data) = row
  BY <1>1 DEF Leaves, HashBlock
<1> QED
  BY <1>2, <1>3, <1>4 DEF Rowed

LEMMA FileRootTells ==
  ASSUME NEW n \in Nat \ {0}, NEW data \in Seq(Bytes), NEW real \in Seq(Bytes), Len(data) = n, Len(real) = n
  PROVE  FileRoot(data) = FileRoot(real) <=> data = real
<1>1. /\ Rowed(n, Leaves(data)) /\ Rowed(n, Leaves(real))
      /\ \A i \in 1 .. n : Leaves(data)[i] = <<data[i]>> /\ Leaves(real)[i] = <<real[i]>>
  BY LeavesTell
<1>2. PICK a : a = Leaves(data) /\ Rowed(n, a) /\ \A i \in 1 .. n : a[i] = <<data[i]>>
  BY <1>1
<1>3. PICK b : b = Leaves(real) /\ Rowed(n, b) /\ \A i \in 1 .. n : b[i] = <<real[i]>>
  BY <1>1
<1>4. MerkleRoot(a, 0) = MerkleRoot(b, 0) => a = b
  BY <1>2, <1>3, RootTells
<1>5. a = b => data = real
  <2> SUFFICES ASSUME a = b PROVE data = real
    OBVIOUS
  <2>1. ASSUME NEW i \in 1 .. n PROVE data[i] = real[i]
    <3>1. <<data[i]>> = <<real[i]>>
      BY <1>2, <1>3
    <3> QED
      BY <3>1
  <2> QED
    BY <2>1, SameSeq
<1> QED
  BY <1>2, <1>3, <1>4, <1>5 DEF FileRoot

(* The hash of a piece in its layer.                                        *)
GroupRoot(group) == MerkleRoot(group \o [j \in 1 .. PieceLength - Len(group) |-> ZeroHash(0)], 0)

GroupRow(n, data, row) ==
  /\ Rowed(PieceLength, row) /\ GroupRoot(Leaves(data)) = MerkleRoot(row, 0)
  /\ \A i \in 1 .. n : row[i] = <<data[i]>>
  /\ \A i \in 1 .. PieceLength : n < i => row[i] = ZeroHash(0)

LEMMA GroupIs ==
  ASSUME NEW n \in 1 .. PieceLength, NEW data \in Seq(Bytes), Len(data) = n
  PROVE  \E row : GroupRow(n, data, row)
<1>1. PICK p \in Nat \ {0} : p = PieceLength
  BY LengthIs
<1>2. n \in 1 .. p /\ n \in Nat
  BY <1>1
<1>3. PICK a : /\ a = Leaves(data) /\ Rowed(n, a) /\ Len(a) = n
               /\ \A i \in 1 .. n : a[i] = <<data[i]>>
  <2>1. n \in Nat
    BY <1>2
  <2> QED
    BY <2>1, LeavesTell
<1>4. PICK m \in Nat : m = p - n
  BY <1>2
<1>5. PICK zeros : zeros = [j \in 1 .. m |-> ZeroHash(0)]
  OBVIOUS
<1>6. PICK S : S = {a[i] : i \in 1 .. n} \cup {ZeroHash(0)}
  OBVIOUS
<1>7. a \in Seq(S)
  <2>1. a \in [1 .. n -> S]
    BY <1>3, <1>6 DEF Rowed
  <2> QED
    BY <1>2, <2>1
<1>8. zeros \in Seq(S) /\ Len(zeros) = m
  <2>1. zeros \in [1 .. m -> S]
    BY <1>5, <1>6
  <2> QED
    BY <2>1
<1>9. PICK row \in Seq(S) : /\ row = a \o zeros /\ Len(row) = p
                            /\ \A i \in 1 .. p : row[i] = IF i <= n THEN a[i] ELSE zeros[i - n]
  <2>1. /\ a \o zeros \in Seq(S) /\ Len(a \o zeros) = Len(a) + Len(zeros)
        /\ \A i \in 1 .. Len(a) + Len(zeros) :
             (a \o zeros)[i] = IF i <= Len(a) THEN a[i] ELSE zeros[i - Len(a)]
    BY <1>7, <1>8, ConcatProperties
  <2>2. Len(a) + Len(zeros) = p
    <3>1. n + m = p
      BY <1>2, <1>4
    <3> QED
      BY <1>3, <1>8, <3>1
  <2> QED
    BY ZenonT(60), <1>3, <2>1, <2>2
<1>10. row = [i \in 1 .. p |-> row[i]]
  BY <1>9, LenProperties
<1>11. \A i \in 1 .. n : row[i] = <<data[i]>>
  BY <1>1, <1>3, <1>9
<1>12. ASSUME NEW i \in 1 .. PieceLength, n < i PROVE row[i] = ZeroHash(0)
  <2>1. i \in 1 .. p /\ ~ (i <= n) /\ i - n \in 1 .. m
    BY <1>1, <1>2, <1>4, <1>12
  <2> QED
    BY <1>5, <1>9, <2>1
<1>13. GroupRoot(Leaves(data)) = MerkleRoot(row, 0)
  BY <1>1, <1>3, <1>4, <1>5, <1>9 DEF GroupRoot
<1> QED
  BY <1>1, <1>10, <1>11, <1>12, <1>13 DEF Rowed, GroupRow

LEMMA GroupTells ==
  ASSUME NEW n \in 1 .. PieceLength, NEW data \in Seq(Bytes), NEW real \in Seq(Bytes),
         Len(data) = n, Len(real) = n
  PROVE  /\ GroupRoot(Leaves(data)) = GroupRoot(Leaves(real)) <=> data = real
         /\ GroupRoot(Leaves(real)) # << >>
<1>1. PICK p \in Nat \ {0} : p = PieceLength
  BY LengthIs
<1>2. PICK a : GroupRow(n, data, a)
  BY GroupIs
<1>3. PICK b : GroupRow(n, real, b)
  BY GroupIs
<1>4. /\ MerkleRoot(b, 0) = MerkleRoot(a, 0) => b = a
      /\ b[1] # << >> => MerkleRoot(b, 0) # << >>
  BY <1>1, <1>2, <1>3, RootTells DEF GroupRow
<1>5. a = b => data = real
  <2> SUFFICES ASSUME a = b PROVE data = real
    OBVIOUS
  <2>1. ASSUME NEW i \in 1 .. n PROVE data[i] = real[i]
    <3>1. <<data[i]>> = <<real[i]>>
      BY <1>2, <1>3 DEF GroupRow
    <3> QED
      BY <3>1
  <2> QED
    BY <2>1, SameSeq
<1>6. b[1] # << >>
  <2>1. 1 \in 1 .. n
    BY <1>1
  <2>2. b[1] = <<real[1]>>
    BY <1>3, <2>1 DEF GroupRow
  <2> QED
    BY <2>2
<1> QED
  BY <1>2, <1>3, <1>4, <1>5, <1>6 DEF GroupRow

LEMMA PieceLayerIs ==
  ASSUME NEW data \in Seq(Bytes)
  PROVE  /\ Len(PieceLayer(data)) = CeilDiv(Len(data), PieceLength)
         /\ Rowed(CeilDiv(Len(data), PieceLength), PieceLayer(data))
         /\ \A i \in 1 .. CeilDiv(Len(data), PieceLength) :
              PieceLayer(data)[i] = GroupRoot(Leaves(Chunks(data, PieceLength)[i]))
<1>1. PICK n \in Nat : n = CeilDiv(Len(data), PieceLength)
  BY CeilIs, LenProperties
<1>2. PICK layer : layer = [i \in 1 .. n |-> GroupRoot(Leaves(Chunks(data, PieceLength)[i]))]
  OBVIOUS
<1>3. PieceLayer(data) = layer
  BY <1>1, <1>2 DEF PieceLayer, GroupRoot
<1>4. layer = [i \in 1 .. n |-> layer[i]]
  BY <1>2, Zenon
<1>5. Len(layer) = n
  BY <1>4, FunctionIsSeq
<1> QED
  BY <1>1, <1>2, <1>3, <1>4, <1>5 DEF Rowed

(* The layer of one piece alone.                                            *)
LEMMA OnePieceLayer ==
  ASSUME NEW n \in 1 .. PieceLength, NEW data \in Seq(Bytes), Len(data) = n, NEW hash
  PROVE  PieceLayer(data) = <<hash>> <=> GroupRoot(Leaves(data)) = hash
<1>1. PICK p \in Nat \ {0} : p = PieceLength
  BY LengthIs
<1>2. n \in Nat \ {0} /\ n <= p
  BY <1>1
<1>3. 0 * PieceLength = 0 /\ 1 * PieceLength = p
  BY <1>1
<1>4. CeilDiv(n, PieceLength) = 1
  <2>1. PICK c \in Nat : c = CeilDiv(n, PieceLength)
    BY <1>2, CeilIs
  <2>2. 0 + 1 <= c
    <3>1. 0 * PieceLength < n
      BY <1>2, <1>3
    <3> QED
      BY <1>2, <2>1, <3>1, CeilIs
  <2>3. ~ (1 + 1 <= c)
    <3>1. ~ (1 * PieceLength < n)
      BY <1>1, <1>2, <1>3
    <3> QED
      BY <1>2, <2>1, <3>1, CeilIs
  <2> QED
    BY <2>1, <2>2, <2>3
<1>5. Chunks(data, PieceLength)[1] = data
  <2>1. PICK at \in Nat : at = 0
    OBVIOUS
  <2>2. at = 0 * PieceLength /\ at < Len(data)
    BY <1>2, <1>3, <2>1
  <2>3. Chunks(data, PieceLength)[0 + 1] = SubSeq(data, at + 1, at + UpToLength(Len(data) - at))
    BY <2>2, ChunkIs
  <2>4. UpToLength(Len(data) - at) = n /\ 0 + 1 = 1
    BY <1>1, <1>2, <2>1 DEF UpToLength
  <2>5. at + n <= Len(data) /\ n \in Nat
    BY <1>2, <2>1
  <2>6. /\ SubSeq(data, at + 1, at + n) \in Seq(Bytes) /\ Len(SubSeq(data, at + 1, at + n)) = n
        /\ \A k \in 1 .. n : SubSeq(data, at + 1, at + n)[k] = data[at + k]
    BY <2>5, Part
  <2>7. \A k \in 1 .. n : at + k = k
    BY <2>1
  <2>8. SubSeq(data, at + 1, at + n) = data
    BY <2>6, <2>7, SameSeq
  <2> QED
    BY <2>3, <2>4, <2>8
<1>6. PICK layer : layer = PieceLayer(data) /\ Rowed(1, layer) /\ Len(layer) = 1
                   /\ layer[1] = GroupRoot(Leaves(data))
  <2>1. /\ Len(PieceLayer(data)) = CeilDiv(n, PieceLength)
        /\ Rowed(CeilDiv(n, PieceLength), PieceLayer(data))
        /\ \A i \in 1 .. CeilDiv(n, PieceLength) :
             PieceLayer(data)[i] = GroupRoot(Leaves(Chunks(data, PieceLength)[i]))
    BY PieceLayerIs
  <2>2. 1 \in 1 .. 1
    OBVIOUS
  <2> QED
    BY <1>4, <1>5, <2>1, <2>2
<1>7. layer = <<layer[1]>>
  <2>1. \A i \in 1 .. 1 : i = 1
    OBVIOUS
  <2> QED
    BY <1>6, <2>1 DEF Rowed
<1>8. <<layer[1]>> = <<hash>> <=> layer[1] = hash
  OBVIOUS
<1> QED
  BY <1>6, <1>7, <1>8

--------------------------------------------------------------------------------
(* Pieces of a v2 torrent.                                                  *)

(* How many pieces each file has, and how many the files before it have.     *)
Counts == [f \in Files |-> CeilDiv(layout[f], PieceLength)]

MapSums(at) == Sums(at, Len(layout), Counts)

LEMMA CountsAre ==
  ASSUME layout \in Seq(Nat)
  PROVE  /\ \A f \in Files : layout[f] \in Nat /\ Counts[f] \in Nat /\ Counts[f] = CeilDiv(layout[f], PieceLength)
         /\ \E at : MapSums(at)
<1>1. PICK n \in Nat : n = Len(layout) /\ \A f \in 1 .. n : layout[f] \in Nat
  BY LenProperties, ElementOfSeq
<1>2. Files = 1 .. n
  BY <1>1 DEF Files
<1>3. ASSUME NEW f \in Files PROVE layout[f] \in Nat /\ Counts[f] \in Nat /\ Counts[f] = CeilDiv(layout[f], PieceLength)
  BY <1>1, <1>2, CeilIs DEF Counts
<1>4. \A f \in 1 .. n : Counts[f] \in Nat
  BY <1>2, <1>3
<1>5. \E at : Sums(at, n, Counts)
  BY <1>4, SumsExist
<1> QED
  BY <1>1, <1>3, <1>5 DEF MapSums

TreeIs ==
  /\ info.tree = [f \in Files |-> info.tree[f]]
  /\ \A f \in Files :
       /\ info.tree[f].length = layout[f]
       /\ layout[f] = 0 => info.tree[f].root = << >>
       /\ layout[f] # 0 => info.tree[f].root = FileRoot(FileBytes(layout, f))
       /\ layout[f] > PieceLength => info.tree[f].layer = PieceLayer(FileBytes(layout, f))

LEMMA TreeOfV2 ==
  ASSUME ContentInit, HasV2(generation)
  PROVE  TreeIs
<1>1. info.tree = [f \in Files |->
                    [length |-> layout[f],
                     root |-> IF layout[f] = 0 THEN << >> ELSE FileRoot(FileBytes(layout, f)),
                     layer |-> IF layout[f] > PieceLength
                               THEN PieceLayer(FileBytes(layout, f)) ELSE << >>]]
  BY DEF ContentInit, Metainfo, Files
<1>2. info.tree = [f \in Files |-> info.tree[f]]
  BY <1>1, Zenon
<1>3. ASSUME NEW f \in Files
      PROVE  /\ info.tree[f].length = layout[f]
             /\ layout[f] = 0 => info.tree[f].root = << >>
             /\ layout[f] # 0 => info.tree[f].root = FileRoot(FileBytes(layout, f))
             /\ layout[f] > PieceLength => info.tree[f].layer = PieceLayer(FileBytes(layout, f))
  BY <1>1
<1> QED
  BY <1>2, <1>3 DEF TreeIs

(* The bytes of the files before one are where it begins.                   *)
LEMMA BeforeIs ==
  ASSUME ContentInit, TreeIs, NEW f \in Files
  PROVE  Total(LengthsOf(SubSeq(info.tree, 1, f - 1))) = offsets[f]
<1>1. PICK at : /\ layout \in Seq(Nat) /\ Len(layout) \in Nat /\ SumsOf(at, layout)
                /\ \A g \in Files : layout[g] \in Nat
                /\ offsets \in [Files -> Nat] /\ \A g \in Files : offsets[g] = at[g - 1]
  BY LayoutSums
<1>2. PICK n \in Nat : n = Len(layout) /\ Files = 1 .. n
  BY <1>1 DEF Files
<1>3. PICK m \in Nat : m = f - 1 /\ m \in 0 .. n /\ m < n
  BY <1>2
<1>4. Total(SubSeq(layout, 1, m)) = at[m]
  BY <1>1, <1>2, <1>3, TotalOfFirst DEF SumsOf
<1>5. PICK tree : tree = info.tree /\ Rowed(n, tree) /\ \A g \in 1 .. n : tree[g].length = layout[g]
  BY <1>2 DEF TreeIs, Rowed
<1>6. PICK T : T = {tree[g] : g \in 1 .. n}
  OBVIOUS
<1>7. tree \in Seq(T) /\ Len(tree) = n
  BY <1>2, <1>5, <1>6, FunctionIsSeq DEF Rowed
<1>8. PICK part : part = SubSeq(tree, 1, m)
  OBVIOUS
<1>9. part \in Seq(T) /\ Len(part) = m /\ \A g \in 1 .. m : part[g] = tree[g]
  <2>1. 0 + m <= Len(tree)
    BY <1>3, <1>7
  <2>2. /\ SubSeq(tree, 0 + 1, 0 + m) \in Seq(T) /\ Len(SubSeq(tree, 0 + 1, 0 + m)) = m
        /\ \A g \in 1 .. m : SubSeq(tree, 0 + 1, 0 + m)[g] = tree[0 + g]
    BY <1>7, <2>1, Part
  <2>3. 0 + 1 = 1 /\ 0 + m = m /\ \A g \in 1 .. m : 0 + g = g
    OBVIOUS
  <2> QED
    BY <1>8, <2>2, <2>3
<1>10. PICK first : first = SubSeq(layout, 1, m)
  OBVIOUS
<1>11. first \in Seq(Nat) /\ Len(first) = m /\ \A g \in 1 .. m : first[g] = layout[g]
  <2>1. 0 + m <= Len(layout)
    BY <1>2, <1>3
  <2>2. /\ SubSeq(layout, 0 + 1, 0 + m) \in Seq(Nat) /\ Len(SubSeq(layout, 0 + 1, 0 + m)) = m
        /\ \A g \in 1 .. m : SubSeq(layout, 0 + 1, 0 + m)[g] = layout[0 + g]
    BY <1>1, <2>1, Part
  <2>3. 0 + 1 = 1 /\ 0 + m = m /\ \A g \in 1 .. m : 0 + g = g
    OBVIOUS
  <2> QED
    BY <1>10, <2>2, <2>3
<1>12. PICK of : of = LengthsOf(part)
  OBVIOUS
<1>13. of = [g \in 1 .. m |-> part[g].length]
  BY <1>9, <1>12 DEF LengthsOf
<1>14. \A g \in 1 .. m : part[g].length = first[g] /\ first[g] \in Nat
  <2>1. ASSUME NEW g \in 1 .. m PROVE g \in 1 .. n
    BY <1>3
  <2> QED
    BY <1>1, <1>2, <1>5, <1>9, <1>11, <2>1
<1>15. of \in [1 .. m -> Nat] /\ \A g \in 1 .. m : of[g] = first[g]
  BY <1>13, <1>14
<1>16. of \in Seq(Nat) /\ Len(of) = m
  BY <1>15
<1>17. of = first
  BY <1>11, <1>15, <1>16, SameSeq
<1> QED
  BY <1>1, <1>3, <1>4, <1>5, <1>8, <1>10, <1>12, <1>17

EntryOf(f, k) ==
  [file |-> f, start |-> (k - 1) * PieceLength, offset |-> offsets[f] + (k - 1) * PieceLength,
   length |-> UpToLength(layout[f] - (k - 1) * PieceLength),
   whole |-> layout[f] <= PieceLength, root |-> info.tree[f].root,
   hash |-> IF layout[f] <= PieceLength THEN << >> ELSE info.tree[f].layer[k]]

LEMMA MapIs ==
  ASSUME ContentInit, TreeIs, NEW at, MapSums(at)
  PROVE  /\ Len(PieceMap(info.tree)) = at[Len(layout)]
         /\ \A f \in Files : \A k \in 1 .. Counts[f] : PieceMap(info.tree)[at[f - 1] + k] = EntryOf(f, k)
<1>1. layout \in Seq(Nat)
  BY ContentAssumption DEF ContentInit
<1>2. PICK n \in Nat : n = Len(layout) /\ Files = 1 .. n
  BY <1>1, LenProperties DEF Files
<1>3. \A f \in 1 .. n : layout[f] \in Nat /\ Counts[f] \in Nat /\ Counts[f] = CeilDiv(layout[f], PieceLength)
  BY <1>1, <1>2, CountsAre
<1>4. PICK tree : tree = info.tree /\ Rowed(n, tree) /\ \A f \in 1 .. n : tree[f].length = layout[f]
  BY <1>2 DEF TreeIs, Rowed
<1>5. Len(tree) = n
  BY <1>2, <1>4, FunctionIsSeq DEF Rowed
<1>6. PICK parts : parts = [f \in 1 .. n |-> [k \in 1 .. Counts[f] |-> EntryOf(f, k)]]
  OBVIOUS
<1>7. PieceMap(tree) = FlattenSeq(parts)
  <2>1. ASSUME NEW f \in 1 .. n
        PROVE  [i \in 1 .. CeilDiv(tree[f].length, PieceLength) |->
                  LET start == (i - 1) * PieceLength
                      before == Total(LengthsOf(SubSeq(tree, 1, f - 1)))
                      left == tree[f].length - start
                  IN [file |-> f, start |-> start, offset |-> before + start,
                      length |-> IF left < PieceLength THEN left ELSE PieceLength,
                      whole |-> tree[f].length <= PieceLength, root |-> tree[f].root,
                      hash |-> IF tree[f].length <= PieceLength THEN << >> ELSE tree[f].layer[i]]]
               = [k \in 1 .. Counts[f] |-> EntryOf(f, k)]
    <3>1. tree[f].length = layout[f] /\ Counts[f] = CeilDiv(layout[f], PieceLength) /\ tree = info.tree
      BY <1>3, <1>4
    <3>2. Total(LengthsOf(SubSeq(tree, 1, f - 1))) = offsets[f]
      BY <1>2, <1>4, BeforeIs
    <3> QED
      BY <3>1, <3>2, Zenon DEF EntryOf, UpToLength
  <2> QED
    BY <1>5, <1>6, <2>1, Zenon DEF PieceMap
<1>8. PICK S : S = UNION {{parts[f][k] : k \in 1 .. Counts[f]} : f \in 1 .. n}
  OBVIOUS
<1>9. ASSUME NEW f \in 1 .. n PROVE parts[f] \in Seq(S) /\ Len(parts[f]) = Counts[f]
  <2>1. PICK c \in Nat : c = Counts[f]
    BY <1>3
  <2>2. PICK row : row = parts[f] /\ Rowed(c, row)
    <3>1. parts[f] = [k \in 1 .. c |-> EntryOf(f, k)]
      BY <1>6, <2>1
    <3>2. PICK row : row = [k \in 1 .. c |-> EntryOf(f, k)]
      OBVIOUS
    <3>3. Rowed(c, row)
      BY <3>2, Zenon DEF Rowed
    <3> QED
      BY <3>1, <3>2, <3>3
  <2>3. \A k \in 1 .. c : row[k] \in S
    BY <1>8, <2>1, <2>2
  <2>4. row \in [1 .. c -> S]
    BY <2>2, <2>3 DEF Rowed
  <2>5. row \in Seq(S) /\ Len(row) = c
    BY <2>4
  <2> QED
    BY <2>1, <2>2, <2>5
<1>10. parts \in Seq(Seq(S)) /\ Len(parts) = n
  <2>1. parts = [f \in 1 .. n |-> parts[f]]
    BY <1>6, Zenon
  <2>2. parts \in [1 .. n -> Seq(S)]
    BY <1>9, <2>1
  <2> QED
    BY <2>2
<1>11. Sums(at, Len(parts), Lengths(parts))
  <2>1. \A f \in 1 .. n : Lengths(parts)[f] = Counts[f]
    BY <1>9, <1>10 DEF Lengths
  <2> QED
    BY <1>2, <1>10, <2>1 DEF MapSums, Sums
<1>12. Flattened(S, parts, at, FlattenSeq(parts))
  BY <1>10, <1>11, FlattenedIs
<1>13. Len(PieceMap(info.tree)) = at[n]
  BY <1>4, <1>7, <1>10, <1>12 DEF Flattened
<1>14. ASSUME NEW f \in 1 .. n, NEW k \in 1 .. Counts[f]
       PROVE  PieceMap(info.tree)[at[f - 1] + k] = EntryOf(f, k)
  <2>1. parts[f][k] = EntryOf(f, k)
    BY <1>6, Zenon
  <2>2. f \in 1 .. Len(parts) /\ k \in 1 .. Len(parts[f])
    BY <1>9, <1>10
  <2> QED
    BY <1>4, <1>7, <1>12, <2>1, <2>2 DEF Flattened
<1> QED
  BY <1>2, <1>13, <1>14

PieceOf(i, f, k) ==
  /\ i \in DOMAIN pieces /\ pieces[i].file = f
  /\ pieces[i].start = (k - 1) * PieceLength
  /\ pieces[i].offset = offsets[f] + (k - 1) * PieceLength
  /\ pieces[i].length = UpToLength(layout[f] - (k - 1) * PieceLength)
  /\ pieces[i].whole = (layout[f] <= PieceLength) /\ pieces[i].root = info.tree[f].root
  /\ pieces[i].hash = IF layout[f] <= PieceLength THEN << >> ELSE info.tree[f].layer[k]
  /\ pieces[i].padding = IF generation = "hybrid" THEN HybridPadding(info, i) ELSE 0
  /\ pieces[i].sha1 = IF generation = "hybrid" THEN <<info.pieces[i]>> ELSE << >>

LEMMA PiecesOfV2 ==
  ASSUME ContentInit, HasV2(generation), NEW at, MapSums(at)
  PROVE  /\ at[Len(layout)] \in Nat /\ Len(PieceMap(info.tree)) = at[Len(layout)]
         /\ DOMAIN pieces = 1 .. at[Len(layout)] /\ Rowed(at[Len(layout)], pieces)
         /\ \A f \in Files : \A k \in 1 .. Counts[f] : PieceOf(at[f - 1] + k, f, k)
         /\ \A i \in DOMAIN pieces : \E f \in Files : \E k \in 1 .. Counts[f] : i = at[f - 1] + k
<1>1. layout \in Seq(Nat) /\ pieces = PiecesOfTorrent(info, generation) /\ TreeIs
  BY ContentAssumption, TreeOfV2 DEF ContentInit
<1>2. PICK n \in Nat : n = Len(layout) /\ Files = 1 .. n
  BY <1>1, LenProperties DEF Files
<1>3. \A f \in 1 .. n : Counts[f] \in Nat
  BY <1>1, <1>2, CountsAre
<1>4. Sums(at, n, Counts)
  BY <1>2 DEF MapSums
<1>5. PICK c \in Nat : c = at[n]
  BY <1>4 DEF Sums
<1>6. PICK map : map = PieceMap(info.tree)
  OBVIOUS
<1>7. Len(map) = c /\ \A f \in Files : \A k \in 1 .. Counts[f] : map[at[f - 1] + k] = EntryOf(f, k)
  BY <1>1, <1>2, <1>5, <1>6, MapIs
<1>8. pieces = [i \in 1 .. c |->
          LET entry == map[i] IN
          [file |-> entry.file, start |-> entry.start,
           offset |-> entry.offset, length |-> entry.length,
           padding |-> IF generation = "hybrid" THEN HybridPadding(info, i) ELSE 0,
           sha1 |-> IF generation = "hybrid" THEN <<info.pieces[i]>> ELSE << >>,
           whole |-> entry.whole, root |-> entry.root, hash |-> entry.hash]]
  BY <1>1, <1>6, <1>7, Zenon DEF PiecesOfTorrent
<1>9. DOMAIN pieces = 1 .. c /\ Rowed(c, pieces)
  BY <1>8, Zenon DEF Rowed
<1>10. ASSUME NEW f \in Files, NEW k \in 1 .. Counts[f] PROVE PieceOf(at[f - 1] + k, f, k)
  <2>1. PICK i : i = at[f - 1] + k
    OBVIOUS
  <2>2. i \in 1 .. c
    <3>1. f \in 1 .. n /\ f \in 0 .. n /\ n \in 0 .. n /\ f - 1 \in 0 .. n /\ Counts[f] \in Nat
      BY <1>2, <1>3
    <3>2. at[f] <= at[n]
      BY <1>3, <1>4, <3>1, SumsGrow
    <3>3. at[f] = at[f - 1] + Counts[f] /\ at[f - 1] \in Nat
      BY <1>4, <3>1 DEF Sums
    <3>4. PICK base \in Nat : base = at[f - 1]
      BY <3>3
    <3> QED
      BY <1>5, <2>1, <3>1, <3>2, <3>3, <3>4
  <2>3. map[i] = EntryOf(f, k)
    BY <1>7, <2>1
  <2>4. /\ map[i].file = f /\ map[i].start = (k - 1) * PieceLength
        /\ map[i].offset = offsets[f] + (k - 1) * PieceLength
        /\ map[i].length = UpToLength(layout[f] - (k - 1) * PieceLength)
        /\ map[i].whole = (layout[f] <= PieceLength) /\ map[i].root = info.tree[f].root
        /\ map[i].hash = IF layout[f] <= PieceLength THEN << >> ELSE info.tree[f].layer[k]
    <3>1. PICK start, offset, length, whole, root, hash :
            /\ start = (k - 1) * PieceLength /\ offset = offsets[f] + (k - 1) * PieceLength
            /\ length = UpToLength(layout[f] - (k - 1) * PieceLength)
            /\ whole = (layout[f] <= PieceLength) /\ root = info.tree[f].root
            /\ hash = IF layout[f] <= PieceLength THEN << >> ELSE info.tree[f].layer[k]
      BY Zenon
    <3>2. map[i] = [file |-> f, start |-> start, offset |-> offset, length |-> length,
                    whole |-> whole, root |-> root, hash |-> hash]
      BY <2>3, <3>1, Zenon DEF EntryOf
    <3>3. /\ map[i].file = f /\ map[i].start = start /\ map[i].offset = offset /\ map[i].length = length
          /\ map[i].whole = whole /\ map[i].root = root /\ map[i].hash = hash
      BY <3>2
    <3> QED
      BY <3>1, <3>3, Zenon
  <2>5. pieces[i] =
          [file |-> map[i].file, start |-> map[i].start,
           offset |-> map[i].offset, length |-> map[i].length,
           padding |-> IF generation = "hybrid" THEN HybridPadding(info, i) ELSE 0,
           sha1 |-> IF generation = "hybrid" THEN <<info.pieces[i]>> ELSE << >>,
           whole |-> map[i].whole, root |-> map[i].root, hash |-> map[i].hash]
    BY <1>8, <2>2, Zenon
  <2>6. /\ pieces[i].file = map[i].file /\ pieces[i].start = map[i].start
        /\ pieces[i].offset = map[i].offset /\ pieces[i].length = map[i].length
        /\ pieces[i].padding = (IF generation = "hybrid" THEN HybridPadding(info, i) ELSE 0)
        /\ pieces[i].sha1 = (IF generation = "hybrid" THEN <<info.pieces[i]>> ELSE << >>)
        /\ pieces[i].whole = map[i].whole /\ pieces[i].root = map[i].root /\ pieces[i].hash = map[i].hash
    BY <2>5
  <2>7. i \in DOMAIN pieces
    BY <1>9, <2>2
  <2>8. PieceOf(i, f, k)
    BY <2>4, <2>6, <2>7, Zenon DEF PieceOf
  <2> QED
    BY <2>1, <2>8
<1>11. ASSUME NEW i \in DOMAIN pieces PROVE \E f \in Files : \E k \in 1 .. Counts[f] : i = at[f - 1] + k
  <2>1. i \in 1 .. at[n]
    BY <1>5, <1>9
  <2> QED
    BY SMTT(60), <1>2, <1>3, <1>4, <2>1, PlaceIn
<1> QED
  BY <1>2, <1>5, <1>6, <1>7, <1>9, <1>10, <1>11

(* Piece k of file f lies in it, and is group k of its bytes.                *)
PlaceOf(i, f, k, s, u) ==
  /\ s \in Nat /\ s = (k - 1) * PieceLength /\ u \in 1 .. PieceLength /\ u = UpToLength(layout[f] - s)
  /\ s + u <= layout[f] /\ layout[f] \in Nat /\ offsets[f] \in Nat /\ offsets[f] + s + u <= Len(All)
  /\ (layout[f] <= PieceLength => s = 0 /\ u = layout[f])
  /\ PieceData(i) = Chunks(FileBytes(layout, f), PieceLength)[k]
  /\ PieceData(i) = SubSeq(FileBytes(layout, f), s + 1, s + u)
  /\ PieceData(i) \in Seq(Bytes) /\ Len(PieceData(i)) = u

LEMMA PlaceIs ==
  ASSUME FilesLaid, NEW f \in Files, NEW k \in 1 .. Counts[f], NEW i, PieceOf(i, f, k)
  PROVE  \E s, u : PlaceOf(i, f, k, s, u)
<1>1. layout \in Seq(Nat) /\ All \in Seq(Bytes) /\ Len(All) \in Nat
  BY LenProperties DEF FilesLaid
<1>2. PICK len \in Nat : len = layout[f]
  BY FileIs
<1>3. PICK base \in Nat : base = offsets[f]
  BY FileIs
<1>4. f \in Nat /\ Counts[f] \in Nat /\ Counts[f] = CeilDiv(len, PieceLength)
  BY <1>1, <1>2, FileIs, CountsAre
<1>5. PICK m \in Nat : m = k - 1 /\ m + 1 = k /\ m + 1 <= CeilDiv(len, PieceLength)
  BY <1>4
<1>6. PICK s \in Nat : s = m * PieceLength /\ s < len
  BY <1>5, TimesIs, CeilIs
<1>7. PICK real \in Seq(Bytes) : real = FileBytes(layout, f) /\ Len(real) = len
                                 /\ \A o \in 1 .. len : real[o] = <<f, o>>
  BY <1>2, <1>4, FileBytesIs
<1>8. PICK u \in Nat \ {0} : u = UpToLength(len - s)
  BY <1>6, <1>7, ChunkIs
<1>9. s + u <= len /\ Chunks(real, PieceLength)[m + 1] = SubSeq(real, s + 1, s + u)
  BY <1>6, <1>7, <1>8, ChunkIs
<1>10. PICK p \in Nat \ {0} : p = PieceLength
  BY LengthIs
<1>11. u <= p /\ (len <= p => s = 0 /\ u = len)
  <2>1. PICK left \in Nat : left = len - s
    BY <1>6
  <2>2. u = IF left < p THEN left ELSE p
    BY <1>8, <1>10, <2>1 DEF UpToLength
  <2>3. m # 0 => p <= s
    BY <1>6, <1>10, TimesIs
  <2>4. m = 0 => s = 0
    BY <1>6, <1>10
  <2> QED
    BY <1>6, <1>10, <2>1, <2>2, <2>3, <2>4
<1>12. /\ pieces[i].offset = base + s /\ pieces[i].length = u
  BY <1>2, <1>3, <1>5, <1>6, <1>8 DEF PieceOf
<1>13. base + len <= Len(All)
  <2>1. len \in 1 .. layout[f] /\ offsets[f] + len \in 1 .. Len(All)
    <3>1. len \in 1 .. layout[f]
      BY <1>2, <1>6
    <3> QED
      BY <3>1 DEF FilesLaid
  <2> QED
    BY <1>3, <2>1
<1>14. PICK at \in Nat : at = base + s
  OBVIOUS
<1>15. at + u <= Len(All)
  BY <1>1, <1>9, <1>13, <1>14
<1>16. /\ SubSeq(All, at + 1, at + u) \in Seq(Bytes) /\ Len(SubSeq(All, at + 1, at + u)) = u
       /\ \A j \in 1 .. u : SubSeq(All, at + 1, at + u)[j] = All[at + j]
  BY <1>1, <1>15, Part
<1>17. /\ SubSeq(real, s + 1, s + u) \in Seq(Bytes) /\ Len(SubSeq(real, s + 1, s + u)) = u
       /\ \A j \in 1 .. u : SubSeq(real, s + 1, s + u)[j] = real[s + j]
  BY <1>7, <1>9, Part
<1>18. ASSUME NEW j \in 1 .. u PROVE All[at + j] = real[s + j]
  <2>1. PICK o \in Nat : o = s + j
    OBVIOUS
  <2>2. o \in 1 .. len /\ at + j = base + o
    BY <1>9, <1>14, <2>1
  <2>3. All[base + o] = <<f, o>>
    BY <1>2, <1>3, <2>2 DEF FilesLaid
  <2> QED
    BY <1>7, <2>1, <2>2, <2>3
<1>19. SubSeq(All, at + 1, at + u) = SubSeq(real, s + 1, s + u)
  BY <1>16, <1>17, <1>18, SameSeq
<1>20. PieceData(i) = SubSeq(All, at + 1, at + u)
  BY <1>12, <1>14 DEF PieceData, All
<1>21. u \in 1 .. PieceLength
  BY <1>10, <1>11
<1>22. base + s + u <= Len(All)
  BY <1>14, <1>15
<1> QED
  <2>1. s = (k - 1) * PieceLength /\ u = UpToLength(layout[f] - s)
    BY <1>2, <1>5, <1>6, <1>8
  <2>2. s + u <= layout[f] /\ offsets[f] + s + u <= Len(All) /\ (layout[f] <= PieceLength => s = 0 /\ u = layout[f])
    BY <1>2, <1>3, <1>9, <1>10, <1>11, <1>22
  <2>3. /\ PieceData(i) = Chunks(FileBytes(layout, f), PieceLength)[k]
        /\ PieceData(i) = SubSeq(FileBytes(layout, f), s + 1, s + u)
    BY <1>5, <1>7, <1>9, <1>19, <1>20
  <2>4. PieceData(i) \in Seq(Bytes) /\ Len(PieceData(i)) = u
    BY <1>16, <1>20
  <2> QED
    BY <1>2, <1>3, <1>6, <1>21, <2>1, <2>2, <2>3, <2>4 DEF PlaceOf

(* The hash of a piece of a file tells its bytes.                           *)
LEMMA HashesOfV2 ==
  ASSUME TreeIs, FilesLaid, NEW f \in Files, NEW k \in 1 .. Counts[f], NEW i, PieceOf(i, f, k),
         NEW data \in Seq(Bytes), Len(data) = pieces[i].length
  PROVE  /\ ((pieces[i].whole => FileRoot(data) = pieces[i].root)
             /\ (~ pieces[i].whole /\ pieces[i].hash # << >> => PieceLayer(data) = <<pieces[i].hash>>))
              <=> data = PieceData(i)
         /\ pieces[i].hash # << >> \/ pieces[i].whole
<1>1. PICK s, u : PlaceOf(i, f, k, s, u)
  BY PlaceIs
<1>2. PICK real \in Seq(Bytes) : real = PieceData(i) /\ Len(real) = u
  BY <1>1 DEF PlaceOf
<1>3. u \in 1 .. PieceLength /\ Len(data) = u
  BY <1>1 DEF PlaceOf, PieceOf
<1>4. PICK len \in Nat : len = layout[f]
  BY <1>1 DEF PlaceOf
<1>5. PICK bytes \in Seq(Bytes) : bytes = FileBytes(layout, f) /\ Len(bytes) = len
  BY <1>4, FileIs, FileBytesIs
<1>6. CASE layout[f] <= PieceLength
  <2>1. s = 0 /\ u = len /\ real = SubSeq(bytes, s + 1, s + u)
    BY <1>1, <1>2, <1>4, <1>5, <1>6 DEF PlaceOf
  <2>2. real = bytes
    <3>1. real = SubSeq(bytes, 0 + 1, 0 + len) /\ 0 + len <= Len(bytes)
      BY <1>5, <2>1
    <3>2. \A j \in 1 .. len : real[j] = bytes[0 + j]
      BY <1>5, <3>1, Part
    <3>3. \A j \in 1 .. len : 0 + j = j
      OBVIOUS
    <3>4. Len(real) = len
      BY <1>2, <2>1
    <3> QED
      BY <1>5, <3>2, <3>3, <3>4, SameSeq
  <2>3. pieces[i].whole = TRUE /\ pieces[i].root = FileRoot(real)
    <3>1. layout[f] # 0
      BY <1>3, <1>4, <2>1
    <3> QED
      BY <1>5, <1>6, <2>2, <3>1 DEF PieceOf, TreeIs
  <2>4. u \in Nat \ {0}
    BY <1>3, LengthIs
  <2>5. FileRoot(data) = FileRoot(real) <=> data = real
    BY <1>2, <1>3, <2>4, FileRootTells
  <2> QED
    BY <1>2, <2>3, <2>5
<1>7. CASE ~ (layout[f] <= PieceLength)
  <2>1. layout[f] > PieceLength
    BY <1>4, <1>7, LengthIs
  <2>2. ~ pieces[i].whole /\ pieces[i].hash = PieceLayer(bytes)[k]
    <3>0. ~ pieces[i].whole
      <4>1. pieces[i].whole = (layout[f] <= PieceLength)
        BY Zenon DEF PieceOf
      <4> QED
        BY <1>7, <4>1, Zenon
    <3>1. ~ pieces[i].whole /\ pieces[i].hash = info.tree[f].layer[k]
      BY <1>7, <3>0, Zenon DEF PieceOf
    <3>2. info.tree[f].layer = PieceLayer(bytes)
      BY <1>5, <2>1 DEF TreeIs
    <3> QED
      BY <3>1, <3>2
  <2>3. k \in 1 .. CeilDiv(len, PieceLength)
    BY <1>4 DEF Counts
  <2>4. PieceLayer(bytes)[k] = GroupRoot(Leaves(Chunks(bytes, PieceLength)[k]))
    BY <1>5, <2>3, PieceLayerIs
  <2>5. real = Chunks(bytes, PieceLength)[k]
    BY <1>1, <1>2, <1>5 DEF PlaceOf
  <2>6. pieces[i].hash = GroupRoot(Leaves(real))
    BY <2>2, <2>4, <2>5
  <2>7. /\ GroupRoot(Leaves(data)) = GroupRoot(Leaves(real)) <=> data = real
        /\ GroupRoot(Leaves(real)) # << >>
    BY <1>2, <1>3, GroupTells
  <2>8. PICK hash : hash = pieces[i].hash
    OBVIOUS
  <2>9. PieceLayer(data) = <<hash>> <=> GroupRoot(Leaves(data)) = hash
    BY <1>3, OnePieceLayer
  <2> QED
    BY <1>2, <2>2, <2>6, <2>7, <2>8, <2>9
<1> QED
  BY <1>6, <1>7

(* The pieces of the files lie in their order.                              *)
LEMMA OrderOfV2 ==
  ASSUME ContentInit, HasV2(generation), FilesLaid,
         NEW i \in DOMAIN pieces, NEW j \in DOMAIN pieces, i < j
  PROVE  pieces[i].offset + pieces[i].length <= pieces[j].offset
<1>1. PICK at : MapSums(at)
  BY CountsAre DEF FilesLaid
<1>2. PICK f \in Files : \E k \in 1 .. Counts[f] : i = at[f - 1] + k
  BY <1>1, PiecesOfV2
<1>3. PICK k \in 1 .. Counts[f] : i = at[f - 1] + k
  BY <1>2
<1>4. PICK g \in Files : \E l \in 1 .. Counts[g] : j = at[g - 1] + l
  BY <1>1, PiecesOfV2
<1>5. PICK l \in 1 .. Counts[g] : j = at[g - 1] + l
  BY <1>4
<1>6. PieceOf(i, f, k) /\ PieceOf(j, g, l)
  BY <1>1, <1>3, <1>5, PiecesOfV2
<1>7. PICK s, u : PlaceOf(i, f, k, s, u)
  BY <1>6, PlaceIs
<1>8. PICK t, v : PlaceOf(j, g, l, t, v)
  BY <1>6, PlaceIs
<1>9. PICK lat : /\ layout \in Seq(Nat) /\ Len(layout) \in Nat /\ SumsOf(lat, layout)
                 /\ \A h \in Files : layout[h] \in Nat
                 /\ offsets \in [Files -> Nat] /\ \A h \in Files : offsets[h] = lat[h - 1]
  BY LayoutSums
<1>10. PICK n \in Nat : n = Len(layout) /\ Files = 1 .. n
  BY <1>9 DEF Files
<1>11. /\ Sums(at, n, Counts) /\ Sums(lat, n, layout)
       /\ (\A h \in 1 .. n : Counts[h] \in Nat) /\ \A h \in 1 .. n : layout[h] \in Nat
  BY <1>1, <1>9, <1>10, CountsAre DEF MapSums, SumsOf
<1>12. PICK a \in Nat : a = offsets[f]
  BY <1>9
<1>13. PICK b \in Nat : b = offsets[g]
  BY <1>9
<1>14. /\ pieces[i].offset = a + s /\ pieces[i].length = u /\ pieces[j].offset = b + t
       /\ s \in Nat /\ t \in Nat /\ u \in Nat /\ u <= PieceLength
       /\ s = (k - 1) * PieceLength /\ t = (l - 1) * PieceLength
  BY <1>6, <1>7, <1>8, <1>12, <1>13, LengthIs DEF PieceOf, PlaceOf
<1>15. CASE f = g
  <2>1. PICK base \in Nat : base = at[f - 1]
    <3>1. f - 1 \in 0 .. n
      BY <1>10
    <3> QED
      BY <1>11, <3>1 DEF Sums
  <2>2. k < l /\ k \in Nat /\ l \in Nat
    BY <1>3, <1>5, <1>15, <2>1
  <2>3. PICK m \in Nat : m = k - 1
    BY <1>3
  <2>4. PICK q \in Nat : q = l - 1 /\ m + 1 <= q
    BY <2>2, <2>3, <1>3, <1>5
  <2>5. PICK p \in Nat : p = PieceLength
    BY LengthIs
  <2>6. s = m * PieceLength /\ t = q * PieceLength /\ s \in Nat /\ t \in Nat /\ u \in Nat /\ u <= p
    BY <1>14, <2>3, <2>4, <2>5
  <2>7. (m + 1) * PieceLength = s + p
    BY <2>5, <2>6, TimesIs
  <2>8. s + p <= t
    <3>1. m + 1 \in Nat
      OBVIOUS
    <3> QED
      BY <2>4, <2>6, <2>7, <3>1, TimesGrow
  <2>9. a + s + u <= b + t
    <3>1. a = b
      BY <1>12, <1>13, <1>15
    <3> QED
      BY <2>5, <2>6, <2>8, <3>1
  <2>10. pieces[i].offset = a + s /\ pieces[i].length = u /\ pieces[j].offset = b + t
    BY <1>14
  <2> QED
    BY <2>9, <2>10
<1>16. CASE f < g
  <2>1. lat[f] <= lat[g - 1] /\ lat[f] = lat[f - 1] + layout[f]
    <3>1. f \in 1 .. n /\ g \in 1 .. n /\ n \in Nat /\ f < g
      BY <1>10, <1>16
    <3>2. PICK length : length = layout
      OBVIOUS
    <3>3. \A h \in 1 .. n : length[h] \in Nat
      BY <1>11, <3>2
    <3>4. Sums(lat, n, length)
      BY <1>11, <3>2
    <3> QED
      BY <3>1, <3>2, <3>3, <3>4, PlaceBefore
  <2>2. PICK len \in Nat : len = layout[f]
    BY <1>9
  <2>3. a + len <= b
    BY <1>9, <1>12, <1>13, <2>1, <2>2
  <2>4. s + u <= len /\ s \in Nat /\ u \in Nat /\ t \in Nat
    BY <1>7, <1>14, <2>2 DEF PlaceOf
  <2>5. a + s + u <= b + t
    BY <2>3, <2>4
  <2>6. pieces[i].offset = a + s /\ pieces[i].length = u /\ pieces[j].offset = b + t
    BY <1>14
  <2> QED
    BY <2>5, <2>6
<1>17. CASE g < f
  <2>1. at[g] <= at[f - 1] /\ at[g] = at[g - 1] + Counts[g]
    <3>1. f \in 1 .. n /\ g \in 1 .. n /\ n \in Nat /\ g < f
      BY <1>10, <1>17
    <3>2. PICK length : length = Counts
      OBVIOUS
    <3>3. \A h \in 1 .. n : length[h] \in Nat
      BY <1>11, <3>2
    <3>4. Sums(at, n, length)
      BY <1>11, <3>2
    <3> QED
      BY <3>1, <3>2, <3>3, <3>4, PlaceBefore
  <2>2. PICK x \in Nat : x = at[f - 1]
    <3>1. f - 1 \in 0 .. n
      BY <1>10
    <3> QED
      BY <1>11, <3>1 DEF Sums
  <2>3. PICK y \in Nat : y = at[g - 1]
    <3>1. g - 1 \in 0 .. n
      BY <1>10
    <3> QED
      BY <1>11, <3>1 DEF Sums
  <2>4. PICK c \in Nat : c = Counts[g]
    BY <1>10, <1>11
  <2>5. y + c <= x /\ i = x + k /\ j = y + l /\ k \in Nat \ {0} /\ l \in 1 .. c
    BY <1>3, <1>5, <2>1, <2>2, <2>3, <2>4
  <2> QED
    BY <2>5
<1>18. f = g \/ f < g \/ g < f
  BY <1>10
<1> QED
  BY <1>15, <1>16, <1>17, <1>18

LEMMA ReachOfV2 ==
  ASSUME ContentInit, HasV2(generation), FilesLaid
  PROVE  PiecesReach
<1> SUFFICES ASSUME NEW b \in 1 .. Len(All)
             PROVE  \E i \in DOMAIN pieces : b \in pieces[i].offset + 1 .. pieces[i].offset + pieces[i].length
  BY DEF PiecesReach
<1>1. PICK at : MapSums(at)
  BY CountsAre DEF FilesLaid
<1>2. PICK f \in Files : \E o \in 1 .. layout[f] : b = offsets[f] + o
  BY DEF FilesLaid
<1>3. PICK o \in 1 .. layout[f] : b = offsets[f] + o
  BY <1>2
<1>4. PICK len \in Nat : len = layout[f]
  BY FileIs
<1>5. PICK base \in Nat : base = offsets[f]
  BY FileIs
<1>6. PICK x \in Nat : x = o - 1 /\ x < len /\ b = base + x + 1
  BY <1>3, <1>4, <1>5
<1>7. PICK m \in Nat : m * PieceLength <= x /\ x < m * PieceLength + PieceLength
  BY TimesReach
<1>8. PICK s \in Nat : s = m * PieceLength
  BY TimesIs
<1>9. PICK p \in Nat : p = PieceLength
  BY LengthIs
<1>10. s <= x /\ x < s + p
  BY <1>7, <1>8, <1>9
<1>11. PICK k \in 1 .. Counts[f] : k - 1 = m
  <2>1. m * PieceLength < len
    BY <1>6, <1>8, <1>10
  <2>2. m + 1 <= CeilDiv(len, PieceLength) /\ CeilDiv(len, PieceLength) \in Nat
    BY <2>1, CeilIs
  <2>3. m + 1 \in 1 .. CeilDiv(len, PieceLength) /\ m + 1 - 1 = m
    BY <2>2
  <2>4. Counts[f] = CeilDiv(len, PieceLength)
    BY <1>4 DEF Counts
  <2> QED
    BY <2>3, <2>4
<1>12. PICK i : i = at[f - 1] + k
  OBVIOUS
<1>13. PieceOf(i, f, k)
  BY <1>1, <1>12, PiecesOfV2
<1>14. i \in DOMAIN pieces /\ pieces[i].offset = base + s /\ pieces[i].length = UpToLength(len - s)
  BY <1>4, <1>5, <1>8, <1>11, <1>13 DEF PieceOf
<1>15. PICK left \in Nat : left = len - s /\ x < s + left
  BY SMTT(60), <1>6, <1>10
<1>16. PICK u \in Nat : u = UpToLength(left) /\ x < s + u
  BY <1>9, <1>10, <1>15 DEF UpToLength
<1>17. b \in base + s + 1 .. base + s + u
  BY <1>6, <1>10, <1>16
<1> QED
  BY <1>14, <1>15, <1>16, <1>17

LEMMA CutV2 ==
  ASSUME ContentInit, HasV2(generation), FilesLaid, PaddingHashed,
         \A i \in DOMAIN pieces : pieces[i].padding \in Nat
  PROVE  PiecesAreCut
<1>1. PICK at : MapSums(at)
  BY CountsAre DEF FilesLaid
<1>2. TreeIs
  BY TreeOfV2
<1>3. PICK c \in Nat : c = at[Len(layout)] /\ DOMAIN pieces = 1 .. c /\ Rowed(c, pieces)
  BY <1>1, PiecesOfV2
<1>4. ASSUME NEW i \in DOMAIN pieces
      PROVE  \E f, k, s, u : f \in Files /\ k \in 1 .. Counts[f] /\ PieceOf(i, f, k) /\ PlaceOf(i, f, k, s, u)
  <2>1. PICK f \in Files : \E k \in 1 .. Counts[f] : i = at[f - 1] + k
    BY <1>1, PiecesOfV2
  <2>2. PICK k \in 1 .. Counts[f] : i = at[f - 1] + k
    BY <2>1
  <2>3. PieceOf(i, f, k)
    BY <1>1, <2>2, PiecesOfV2
  <2>4. PICK s, u : PlaceOf(i, f, k, s, u)
    BY <2>3, PlaceIs
  <2> QED
    BY <2>3, <2>4
<1>5. ASSUME NEW i \in DOMAIN pieces PROVE PieceLaid(i) /\ Len(PieceData(i)) = pieces[i].length
  <2>1. PICK f, k, s, u : f \in Files /\ k \in 1 .. Counts[f] /\ PieceOf(i, f, k) /\ PlaceOf(i, f, k, s, u)
    BY <1>4
  <2>2. PICK base \in Nat : base = offsets[f]
    BY <2>1 DEF PlaceOf
  <2>3. u \in Nat \ {0} /\ s \in Nat
    <3>1. u \in 1 .. PieceLength /\ s \in Nat
      BY <2>1 DEF PlaceOf
    <3> QED
      BY <3>1, LengthIs
  <2>4. /\ pieces[i].file = f /\ pieces[i].start = s /\ pieces[i].offset = base + s /\ pieces[i].length = u
        /\ s + u <= layout[f] /\ base + s + u <= Len(All) /\ Len(PieceData(i)) = u
    BY <2>1, <2>2 DEF PieceOf, PlaceOf
  <2>5. base + s \in Nat
    BY <2>3
  <2> QED
    <3>1. pieces[i].offset \in Nat
      BY <2>4, <2>5
    <3>2. pieces[i].length \in Nat \ {0}
      BY <2>3, <2>4
    <3>3. pieces[i].offset + pieces[i].length <= Len(All)
      BY <2>4
    <3>4. pieces[i].file \in Files /\ pieces[i].start \in Nat
      BY <2>1, <2>3, <2>4
    <3>5. pieces[i].offset = offsets[pieces[i].file] + pieces[i].start
      BY <2>2, <2>4
    <3>6. pieces[i].start + pieces[i].length <= layout[pieces[i].file]
      BY <2>4
    <3> QED
      BY <2>4, <3>1, <3>2, <3>3, <3>4, <3>5, <3>6 DEF PieceLaid
<1>6. PiecesLaid
  BY <1>3, <1>5, OrderOfV2 DEF PiecesLaid
<1>7. ASSUME NEW i \in DOMAIN pieces, NEW data \in Seq(Bytes)
      PROVE  VerifyData(pieces[i], data) <=> data = PieceData(i)
  <2>1. PICK f, k, s, u : f \in Files /\ k \in 1 .. Counts[f] /\ PieceOf(i, f, k) /\ PlaceOf(i, f, k, s, u)
    BY <1>4
  <2>2. CASE Len(data) # pieces[i].length
    BY <1>5, <2>2 DEF VerifyData
  <2>3. CASE Len(data) = pieces[i].length
    <3>1. /\ ((pieces[i].whole => FileRoot(data) = pieces[i].root)
             /\ (~ pieces[i].whole /\ pieces[i].hash # << >> => PieceLayer(data) = <<pieces[i].hash>>))
              <=> data = PieceData(i)
          /\ pieces[i].hash # << >> \/ pieces[i].whole
      BY <1>2, <2>1, <2>3, HashesOfV2
    <3>2. pieces[i].sha1 # << >> /\ data = PieceData(i) => data \o Zeros(pieces[i].padding) = pieces[i].sha1[1]
      <4>1. CASE generation = "hybrid"
        <5>1. PICK hash : hash = info.pieces[i]
          OBVIOUS
        <5>2. pieces[i].sha1 = <<hash>>
          BY <2>1, <4>1, <5>1 DEF PieceOf
        <5>3. pieces[i].sha1[1] = hash
          BY <5>2
        <5>4. PieceData(i) \o Zeros(pieces[i].padding) = hash
          BY <4>1, <5>1 DEF PaddingHashed, HasV1
        <5> QED
          BY <5>3, <5>4
      <4>2. CASE generation # "hybrid"
        BY <2>1, <4>2 DEF PieceOf
      <4> QED
        BY <4>1, <4>2
    <3> QED
      BY <2>3, <3>1, <3>2 DEF VerifyData
  <2> QED
    BY <2>2, <2>3
<1>8. pieces \in Seq({pieces[i] : i \in DOMAIN pieces})
  BY <1>3, FunctionIsSeq DEF Rowed
<1> QED
  BY <1>6, <1>7, <1>8, ReachOfV2 DEF PiecesAreCut, HashesTell

--------------------------------------------------------------------------------
(* The files of a hybrid torrent and their padding.                         *)

LEMMA TotalUpTo ==
  ASSUME NEW m \in Nat, NEW length, NEW at, Sums(at, m, length), NEW i \in 0 .. m,
         NEW s \in Seq(Nat), Len(s) = i, \A j \in 1 .. i : s[j] = length[j]
  PROVE  Total(s) = at[i]
<1>1. PICK upTo : upTo = [k \in 0 .. i |-> at[k]]
  OBVIOUS
<1>2. Sums(upTo, i, s)
  <2>1. at \in [0 .. m -> Nat] /\ at[0] = 0 /\ \A k \in 1 .. m : at[k] = at[k - 1] + length[k]
    BY DEF Sums
  <2>2. \A k \in 0 .. i : k \in 0 .. m /\ upTo[k] = at[k]
    BY <1>1
  <2>3. upTo \in [0 .. i -> Nat] /\ upTo[0] = 0
    <3>1. \A k \in 0 .. i : upTo[k] \in Nat
      BY <2>1, <2>2
    <3>2. 0 \in 0 .. i
      OBVIOUS
    <3> QED
      BY <1>1, <2>1, <2>2, <3>1, <3>2
  <2>4. ASSUME NEW k \in 1 .. i PROVE upTo[k] = upTo[k - 1] + s[k]
    <3>1. k \in 1 .. m /\ k \in 0 .. i /\ k - 1 \in 0 .. i
      OBVIOUS
    <3>2. upTo[k] = at[k] /\ upTo[k - 1] = at[k - 1] /\ s[k] = length[k]
      BY <2>2, <3>1
    <3> QED
      BY <2>1, <3>1, <3>2
  <2> QED
    BY <2>3, <2>4 DEF Sums
<1>3. Total(s) = upTo[i]
  BY <1>2, TotalIs
<1> QED
  BY <1>1, <1>3

(* The files of a hybrid torrent: each, and its padding where it has some.   *)
PadOf(lengths, f) == IF f < Len(lengths) THEN PadTo(lengths[f]) ELSE 0
EntriesOf(lengths) == [f \in 1 .. Len(lengths) |-> IF PadOf(lengths, f) > 0 THEN 2 ELSE 1]
FilesSums(at, lengths) == Sums(at, Len(lengths), EntriesOf(lengths))

HybridFiles(lengths, at, list) ==
  /\ list \in Seq(ListEntries) /\ Len(list) = at[Len(lengths)]
  /\ \A f \in 1 .. Len(lengths) :
       /\ list[at[f - 1] + 1] = [length |-> lengths[f], padding |-> FALSE]
       /\ PadOf(lengths, f) > 0 => list[at[f - 1] + 2] = [length |-> PadOf(lengths, f), padding |-> TRUE]

LEMMA PadOfIs ==
  ASSUME NEW lengths \in Seq(Nat), NEW f \in 1 .. Len(lengths)
  PROVE  PadOf(lengths, f) \in Nat /\ EntriesOf(lengths)[f] = IF PadOf(lengths, f) > 0 THEN 2 ELSE 1
<1>1. lengths[f] \in Nat
  BY ElementOfSeq
<1>2. PadTo(lengths[f]) \in Nat
  BY <1>1, PadIs
<1> QED
  BY <1>2 DEF PadOf, EntriesOf

LEMMA FilesOfHybrid ==
  ASSUME NEW lengths \in Seq(Nat), NEW at, FilesSums(at, lengths)
  PROVE  HybridFiles(lengths, at, V1Files(lengths, "hybrid"))
<1>1. PICK n \in Nat : n = Len(lengths) /\ \A f \in 1 .. n : lengths[f] \in Nat
  BY LenProperties, ElementOfSeq
<1>2. PICK parts : parts = [f \in 1 .. n |->
        <<[length |-> lengths[f], padding |-> FALSE]>>
          \o (IF Padded(lengths, f, "hybrid") /\ PadTo(lengths[f]) > 0
              THEN <<[length |-> PadTo(lengths[f]), padding |-> TRUE]>> ELSE << >>)]
  OBVIOUS
<1>3. ASSUME NEW f \in 1 .. n
      PROVE  /\ parts[f] \in Seq(ListEntries) /\ Len(parts[f]) = EntriesOf(lengths)[f]
             /\ parts[f][1] = [length |-> lengths[f], padding |-> FALSE]
             /\ PadOf(lengths, f) > 0 => parts[f][2] = [length |-> PadOf(lengths, f), padding |-> TRUE]
  <2>1. PICK real \in ListEntries : real = [length |-> lengths[f], padding |-> FALSE]
    BY <1>1 DEF ListEntries
  <2>2. PICK pad \in Nat : pad = PadOf(lengths, f) /\ EntriesOf(lengths)[f] = IF pad > 0 THEN 2 ELSE 1
    BY <1>1, PadOfIs
  <2>3. PICK zeros \in ListEntries : zeros = [length |-> pad, padding |-> TRUE]
    BY DEF ListEntries
  <2>5. Padded(lengths, f, "hybrid") <=> f < n
    BY <1>1 DEF Padded
  <2>6. CASE pad > 0
    <3>1. f < n /\ PadTo(lengths[f]) = pad
      BY <1>1, <2>2, <2>6 DEF PadOf
    <3>2. parts[f] = <<real>> \o <<zeros>>
      BY <1>2, <2>1, <2>3, <2>5, <2>6, <3>1
    <3>3. PICK a \in Seq(ListEntries) : a = <<real>> /\ Len(a) = 1 /\ a[1] = real
      <4>1. <<real>> \in Seq(ListEntries) /\ Len(<<real>>) = 1 /\ <<real>>[1] = real
        OBVIOUS
      <4> QED
        BY <4>1
    <3>4. PICK b \in Seq(ListEntries) : b = <<zeros>> /\ Len(b) = 1 /\ b[1] = zeros
      <4>1. <<zeros>> \in Seq(ListEntries) /\ Len(<<zeros>>) = 1 /\ <<zeros>>[1] = zeros
        OBVIOUS
      <4> QED
        BY <4>1
    <3>5. PICK both \in Seq(ListEntries) : both = a \o b
      BY <3>3, <3>4, ConcatProperties
    <3>6. Len(both) = 2 /\ both[1] = real /\ both[2] = zeros
      <4>1. /\ Len(a \o b) = Len(a) + Len(b)
            /\ \A i \in 1 .. Len(a) + Len(b) : (a \o b)[i] = IF i <= Len(a) THEN a[i] ELSE b[i - Len(a)]
        BY <3>3, <3>4, ConcatProperties
      <4>2. \A i \in 1 .. 2 : both[i] = IF i <= 1 THEN a[i] ELSE b[i - 1]
        BY <3>3, <3>4, <3>5, <4>1
      <4>3. both[1] = a[1] /\ both[2] = b[1]
        BY <4>2
      <4> QED
        BY <3>3, <3>4, <3>5, <4>1, <4>3
    <3>7. parts[f] = both
      BY <3>2, <3>3, <3>4, <3>5
    <3> QED
      BY <2>1, <2>2, <2>3, <2>6, <3>5, <3>6, <3>7
  <2>7. CASE ~ (pad > 0)
    <3>1. ~ (f < n /\ PadTo(lengths[f]) > 0)
      BY <1>1, <2>2, <2>7 DEF PadOf
    <3>2. parts[f] = <<real>> \o << >>
      BY <1>2, <2>1, <2>5, <3>1
    <3>3. <<real>> \in Seq(ListEntries) /\ Len(<<real>>) = 1 /\ <<real>>[1] = real
      OBVIOUS
    <3>4. <<real>> \o << >> = <<real>>
      BY <3>3, ConcatEmptySeq
    <3>5. PICK one : one = <<real>>
      OBVIOUS
    <3>6. parts[f] = one /\ one \in Seq(ListEntries) /\ Len(one) = 1 /\ one[1] = real
      BY <3>2, <3>3, <3>4, <3>5
    <3> QED
      BY <2>1, <2>2, <2>7, <3>6
  <2> QED
    BY <2>6, <2>7
<1>4. parts \in Seq(Seq(ListEntries)) /\ Len(parts) = n
  <2>1. parts = [f \in 1 .. n |-> parts[f]]
    BY <1>2, Zenon
  <2>2. parts \in [1 .. n -> Seq(ListEntries)]
    BY <1>3, <2>1
  <2> QED
    BY <2>2
<1>5. Sums(at, Len(parts), Lengths(parts))
  <2>1. \A f \in 1 .. n : Lengths(parts)[f] = EntriesOf(lengths)[f]
    BY <1>3, <1>4 DEF Lengths
  <2> QED
    BY <1>1, <1>4, <2>1 DEF FilesSums, Sums
<1>6. PICK list : list = FlattenSeq(parts) /\ Flattened(ListEntries, parts, at, list)
  BY <1>4, <1>5, FlattenedIs
<1>7. V1Files(lengths, "hybrid") = list
  BY <1>1, <1>2, <1>6 DEF V1Files
<1>8. list \in Seq(ListEntries) /\ Len(list) = at[n]
  BY <1>4, <1>6 DEF Flattened
<1>9. ASSUME NEW f \in 1 .. n
      PROVE  /\ list[at[f - 1] + 1] = [length |-> lengths[f], padding |-> FALSE]
             /\ PadOf(lengths, f) > 0 => list[at[f - 1] + 2] = [length |-> PadOf(lengths, f), padding |-> TRUE]
  <2>1. f \in 1 .. Len(parts) /\ 1 \in 1 .. Len(parts[f]) /\ (PadOf(lengths, f) > 0 => 2 \in 1 .. Len(parts[f]))
    <3>1. PICK pad \in Nat : pad = PadOf(lengths, f) /\ EntriesOf(lengths)[f] = IF pad > 0 THEN 2 ELSE 1
      BY <1>1, PadOfIs
    <3>2. PICK l \in Nat : l = Len(parts[f]) /\ l = IF pad > 0 THEN 2 ELSE 1
      BY <1>3, <3>1
    <3>3. 1 \in 1 .. l /\ (pad > 0 => 2 \in 1 .. l)
      BY <3>1, <3>2
    <3> QED
      BY <1>4, <3>1, <3>2, <3>3
  <2>2. list[at[f - 1] + 1] = parts[f][1]
    BY <1>6, <2>1 DEF Flattened
  <2>3. PadOf(lengths, f) > 0 => list[at[f - 1] + 2] = parts[f][2]
    BY <1>6, <2>1 DEF Flattened
  <2> QED
    BY <1>3, <2>2, <2>3
<1> QED
  BY <1>1, <1>7, <1>8, <1>9 DEF HybridFiles

(* How many real files the list has up to each entry.                       *)
Ones(list) == [j \in 1 .. Len(list) |-> IF list[j].padding THEN 0 ELSE 1]

LEMMA RealBeforeIs ==
  ASSUME NEW list \in Seq(ListEntries)
  PROVE  \E rb : /\ Sums(rb, Len(list), Ones(list))
                 /\ \A i \in 0 .. Len(list) : RealBefore(list, i) = rb[i]
<1>1. PICK m \in Nat : m = Len(list)
  BY LenProperties
<1>2. PICK one : one = Ones(list)
  OBVIOUS
<1>3. \A j \in 1 .. m : one[j] \in Nat /\ one[j] = IF list[j].padding THEN 0 ELSE 1
  BY <1>1, <1>2 DEF Ones
<1>4. PICK rb : Sums(rb, m, one)
  BY <1>3, SumsExist
<1>5. ASSUME NEW i \in 0 .. m PROVE RealBefore(list, i) = rb[i]
  <2>1. PICK s : s = [j \in 1 .. i |-> IF list[j].padding THEN 0 ELSE 1]
    OBVIOUS
  <2>2. s \in [1 .. i -> Nat]
    BY <2>1
  <2>3. s \in Seq(Nat) /\ Len(s) = i
    BY <2>2
  <2>4. \A j \in 1 .. i : j \in 1 .. m /\ s[j] = one[j]
    BY <1>3, <2>1
  <2>5. Total(s) = rb[i]
    BY <1>4, <2>3, <2>4, TotalUpTo
  <2> QED
    BY <2>1, <2>5 DEF RealBefore
<1> QED
  BY <1>1, <1>2, <1>4, <1>5

(* Entry o of file f in the list: the file, or its padding.                 *)
EntryAt(lengths, at, list, f, o, i) ==
  /\ i = at[f - 1] + o /\ i \in 1 .. Len(list)
  /\ o = 1 => ~ list[i].padding /\ list[i].length = lengths[f]
  /\ o # 1 => o = 2 /\ PadOf(lengths, f) > 0 /\ list[i].padding /\ list[i].length = PadOf(lengths, f)
                /\ i = at[f]

LEMMA EntryAtIs ==
  ASSUME NEW lengths \in Seq(Nat), NEW at, FilesSums(at, lengths), NEW list, HybridFiles(lengths, at, list),
         NEW f \in 1 .. Len(lengths), NEW o \in 1 .. EntriesOf(lengths)[f]
  PROVE  EntryAt(lengths, at, list, f, o, at[f - 1] + o)
<1>1. PICK n \in Nat : n = Len(lengths)
  BY LenProperties
<1>2. PICK pad \in Nat : pad = PadOf(lengths, f) /\ EntriesOf(lengths)[f] = IF pad > 0 THEN 2 ELSE 1
  BY PadOfIs
<1>3. o = 1 \/ (o = 2 /\ pad > 0)
  BY <1>2
<1>4. at \in [0 .. n -> Nat] /\ at[f] = at[f - 1] + EntriesOf(lengths)[f]
  BY <1>1 DEF FilesSums, Sums
<1>5. PICK a \in Nat, b \in Nat : a = at[f - 1] /\ b = at[f] /\ b = a + IF pad > 0 THEN 2 ELSE 1
  <2>1. f - 1 \in 0 .. n /\ f \in 0 .. n
    BY <1>1
  <2>2. at[f - 1] \in Nat /\ at[f] \in Nat
    BY <1>4, <2>1
  <2>3. at[f] = at[f - 1] + IF pad > 0 THEN 2 ELSE 1
    BY <1>2, <1>4
  <2> QED
    BY <2>2, <2>3
<1>6. b <= Len(list) /\ Len(list) \in Nat
  <2>1. \A g \in 1 .. n : EntriesOf(lengths)[g] \in Nat
    BY <1>1, PadOfIs
  <2>2. Sums(at, n, EntriesOf(lengths))
    BY <1>1 DEF FilesSums
  <2>3. f \in 0 .. n /\ n \in 0 .. n
    BY <1>1
  <2>4. at[f] <= at[n]
    BY <2>1, <2>2, <2>3, SumsGrow
  <2> QED
    BY <1>1, <1>5, <2>4, LenProperties DEF HybridFiles
<1>7. ~ list[a + 1].padding /\ list[a + 1].length = lengths[f]
  <2>1. list[a + 1] = [length |-> lengths[f], padding |-> FALSE]
    BY <1>5 DEF HybridFiles
  <2> QED
    BY <2>1
<1>8. pad > 0 => list[a + 2] = [length |-> pad, padding |-> TRUE]
  BY <1>2, <1>5 DEF HybridFiles
<1>9. pad > 0 => list[a + 2].padding /\ list[a + 2].length = pad
  BY <1>8
<1>10. a + o \in 1 .. Len(list)
  BY SMTT(60), <1>2, <1>3, <1>5, <1>6
<1>11. CASE o = 1
  BY <1>5, <1>7, <1>10, <1>11 DEF EntryAt
<1>12. CASE o = 2 /\ pad > 0
  <2>1. list[a + o].padding /\ list[a + o].length = pad /\ a + o = b
    BY <1>5, <1>9, <1>12
  <2>2. PICK i : i = a + o
    OBVIOUS
  <2>3. list[i].padding /\ list[i].length = pad /\ i = b /\ o = 2 /\ o # 1 /\ i \in 1 .. Len(list)
    BY <1>10, <1>12, <2>1, <2>2
  <2>4. EntryAt(lengths, at, list, f, o, i)
    BY <1>2, <1>5, <1>12, <2>2, <2>3 DEF EntryAt
  <2> QED
    BY <1>5, <2>2, <2>4
<1> QED
  BY <1>3, <1>11, <1>12

LEMMA RealUpTo ==
  ASSUME NEW lengths \in Seq(Nat), NEW at, FilesSums(at, lengths), NEW list, HybridFiles(lengths, at, list),
         NEW rb, Sums(rb, Len(list), Ones(list)), NEW f \in 0 .. Len(lengths)
  PROVE  rb[at[f]] = f
<1>1. PICK n \in Nat : n = Len(lengths)
  BY LenProperties
<1>2. PICK T : T = {g \in 0 .. n : rb[at[g]] = g}
  OBVIOUS
<1>3. at \in [0 .. n -> Nat] /\ at[0] = 0 /\ \A g \in 1 .. n : at[g] = at[g - 1] + EntriesOf(lengths)[g]
  BY <1>1 DEF FilesSums, Sums
<1>4. /\ Len(list) \in Nat /\ rb \in [0 .. Len(list) -> Nat] /\ rb[0] = 0
      /\ \A i \in 1 .. Len(list) : rb[i] = rb[i - 1] + IF list[i].padding THEN 0 ELSE 1
  BY LenProperties DEF HybridFiles, Sums, Ones
<1>5. 0 \in T
  BY <1>2, <1>3, <1>4
<1>6. ASSUME NEW g \in 0 .. n, g # 0, g - 1 \in T PROVE g \in T
  <2>1. g \in 1 .. n /\ g - 1 \in 0 .. n /\ rb[at[g - 1]] = g - 1
    BY <1>2, <1>6
  <2>2. PICK pad \in Nat : pad = PadOf(lengths, g) /\ EntriesOf(lengths)[g] = IF pad > 0 THEN 2 ELSE 1
    BY <1>1, <2>1, PadOfIs
  <2>3. PICK a \in Nat : a = at[g - 1] /\ at[g] = a + IF pad > 0 THEN 2 ELSE 1
    BY <1>3, <2>1, <2>2
  <2>4. 1 \in 1 .. EntriesOf(lengths)[g] /\ (pad > 0 => 2 \in 1 .. EntriesOf(lengths)[g])
    BY <2>2
  <2>5. EntryAt(lengths, at, list, g, 1, a + 1)
    BY <1>1, <2>1, <2>3, <2>4, EntryAtIs
  <2>6. a + 1 \in 1 .. Len(list) /\ ~ list[a + 1].padding
    BY <2>5 DEF EntryAt
  <2>7. rb[a + 1] = rb[a] + 1
    <3>1. rb[a + 1] = rb[a + 1 - 1] + IF list[a + 1].padding THEN 0 ELSE 1
      BY <1>4, <2>6
    <3>2. a + 1 - 1 = a
      OBVIOUS
    <3> QED
      BY <2>6, <3>1, <3>2
  <2>8. CASE pad > 0
    <3>1. EntryAt(lengths, at, list, g, 2, a + 2)
      BY <1>1, <2>1, <2>3, <2>4, <2>8, EntryAtIs
    <3>2. a + 2 \in 1 .. Len(list) /\ list[a + 2].padding
      BY <3>1 DEF EntryAt
    <3>3. rb[a + 2] = rb[a + 2 - 1] + 0
      BY <1>4, <3>2
    <3>4. rb[a + 2] = rb[a + 1]
      <4>1. a + 2 - 1 = a + 1 /\ a + 1 \in 0 .. Len(list)
        BY <2>6
      <4>2. rb[a + 1] \in Nat
        BY <1>4, <4>1
      <4> QED
        BY <3>3, <4>1, <4>2
    <3> QED
      BY <1>2, <2>1, <2>3, <2>7, <2>8, <3>4
  <2>9. CASE ~ (pad > 0)
    BY <1>2, <2>1, <2>3, <2>7, <2>9
  <2> QED
    BY <2>8, <2>9
<1>7. 0 .. n \subseteq T
  BY <1>5, <1>6, Induction
<1> QED
  BY <1>1, <1>2, <1>7

LEMMA EntryPlaceIn ==
  ASSUME NEW lengths \in Seq(Nat), NEW at, FilesSums(at, lengths), NEW b \in 1 .. at[Len(lengths)]
  PROVE  \E f \in 1 .. Len(lengths) : \E o \in 1 .. EntriesOf(lengths)[f] : b = at[f - 1] + o
<1>1. PICK n \in Nat : n = Len(lengths)
  BY LenProperties
<1>2. PICK length : length = EntriesOf(lengths)
  OBVIOUS
<1>3. \A f \in 1 .. n : length[f] \in Nat
  BY <1>1, <1>2, PadOfIs
<1>4. Sums(at, n, length) /\ b \in 1 .. at[n]
  BY <1>1, <1>2 DEF FilesSums
<1>5. \E f \in 1 .. n : \E o \in 1 .. length[f] : b = at[f - 1] + o
  BY <1>1, <1>3, <1>4, PlaceIn, SMTT(60)
<1> QED
  BY <1>1, <1>2, <1>5

LEMMA PaddingAfterIs ==
  ASSUME NEW lengths \in Seq(Nat), NEW at, FilesSums(at, lengths), NEW list, HybridFiles(lengths, at, list),
         NEW m \in 1 .. Len(lengths)
  PROVE  PaddingAfter(list, m) = PadOf(lengths, m)
<1>1. PICK n \in Nat, last \in Nat : n = Len(lengths) /\ last = Len(list) /\ list \in Seq(ListEntries)
  BY LenProperties DEF HybridFiles
<1>2. PICK pad \in Nat : pad = PadOf(lengths, m)
  BY PadOfIs
<1>3. PICK rb : /\ Sums(rb, last, Ones(list))
                /\ \A i \in 0 .. last : RealBefore(list, i) = rb[i]
  BY <1>1, RealBeforeIs
<1>4. PICK h : h = [i \in 1 .. last |-> IF list[i].padding /\ RealBefore(list, i) = m THEN list[i].length ELSE 0]
  OBVIOUS
<1>5. \A f \in 1 .. n : EntriesOf(lengths)[f] \in Nat /\ EntriesOf(lengths)[f] # 0
  BY <1>1, PadOfIs
<1>6. Sums(at, n, EntriesOf(lengths)) /\ at[n] = last /\ at \in [0 .. n -> Nat]
  BY <1>1 DEF FilesSums, HybridFiles, Sums
<1>7. PICK before \in Nat, end \in Nat : before = at[m - 1] /\ end = at[m] /\ before < end /\ end <= last
  <2>1. m - 1 \in 0 .. n /\ m \in 0 .. n /\ m \in 1 .. n /\ n \in 0 .. n
    BY <1>1
  <2>2. at[m] = at[m - 1] + EntriesOf(lengths)[m]
    BY <1>6, <2>1 DEF Sums
  <2>3. at[m] <= at[n]
    BY <1>5, <1>6, <2>1, SumsGrow
  <2>4. at[m - 1] \in Nat /\ at[m] \in Nat
    BY <1>6, <2>1
  <2> QED
    BY <1>5, <1>6, <2>1, <2>2, <2>3, <2>4
<1>8. ASSUME NEW i \in 1 .. last
      PROVE  h[i] = IF i = end THEN pad ELSE 0
  <2>1. PICK f \in 1 .. n : \E o \in 1 .. EntriesOf(lengths)[f] : i = at[f - 1] + o
    <3>1. i \in 1 .. at[n]
      BY <1>6
    <3> QED
      BY SMTT(60), <1>1, <3>1, EntryPlaceIn
  <2>2. PICK o \in 1 .. EntriesOf(lengths)[f] : i = at[f - 1] + o
    BY <2>1
  <2>3. EntryAt(lengths, at, list, f, o, i)
    BY <1>1, <2>2, EntryAtIs
  <2>4. at[f] = at[f - 1] + EntriesOf(lengths)[f] /\ at[f - 1] \in Nat
    <3>1. f - 1 \in 0 .. n
      OBVIOUS
    <3> QED
      BY <1>6, <3>1 DEF Sums
  <2>5. PICK padF \in Nat : padF = PadOf(lengths, f) /\ EntriesOf(lengths)[f] = IF padF > 0 THEN 2 ELSE 1
    BY <1>1, PadOfIs
  <2>6. CASE o = 1
    <3>1. ~ list[i].padding
      BY <2>3, <2>6 DEF EntryAt
    <3>2. h[i] = 0
      BY <1>4, <3>1
    <3>3. ASSUME i = end PROVE pad = 0
      <4>1. CASE f = m
        BY SMTT(60), <1>2, <1>7, <2>2, <2>4, <2>5, <2>6, <3>3, <4>1
      <4>2. CASE f < m
        <5>1. at[f] <= at[m - 1]
          BY <1>1, <1>5, <1>6, <4>2, PlaceBefore
        <5>2. i <= at[f] /\ at[f] \in Nat
          BY SMTT(60), <1>5, <2>2, <2>4, <2>5
        <5> QED
          BY <1>7, <3>3, <5>1, <5>2
      <4>3. CASE m < f
        <5>1. at[m] <= at[f - 1]
          BY <1>1, <1>5, <1>6, <4>3, PlaceBefore
        <5> QED
          BY <1>7, <2>2, <2>4, <3>3, <5>1
      <4> QED
        BY <1>1, <4>1, <4>2, <4>3
    <3> QED
      BY <3>2, <3>3
  <2>7. CASE o # 1
    <3>1. o = 2 /\ padF > 0 /\ list[i].padding /\ list[i].length = padF /\ i = at[f]
      BY <2>3, <2>5, <2>7 DEF EntryAt
    <3>2. rb[i] = f
      BY <1>1, <1>3, <3>1, RealUpTo
    <3>3. RealBefore(list, i) = f
      BY <1>3, <3>2
    <3>4. CASE f = m
      <4>1. h[i] = list[i].length
        BY <1>4, <3>1, <3>3, <3>4
      <4> QED
        BY <1>2, <1>7, <2>5, <3>1, <3>4, <4>1
    <3>5. CASE f # m
      <4>1. h[i] = 0
        BY <1>4, <3>3, <3>5
      <4>2. i # end
        <5>1. CASE f < m
          <6>1. at[f] <= at[m - 1]
            BY <1>1, <1>5, <1>6, <5>1, PlaceBefore
          <6> QED
            BY <1>7, <3>1, <6>1
        <5>2. CASE m < f
          <6>1. at[m] <= at[f - 1]
            BY <1>1, <1>5, <1>6, <5>2, PlaceBefore
          <6> QED
            BY <1>7, <2>2, <2>4, <6>1
        <5> QED
          BY <1>1, <3>5, <5>1, <5>2
      <4> QED
        BY <4>1, <4>2
    <3> QED
      BY <3>4, <3>5
  <2> QED
    BY <2>6, <2>7
<1>9. PICK cs : cs = [i \in 0 .. last |-> IF i < end THEN 0 ELSE pad]
  OBVIOUS
<1>10. h \in Seq(Nat) /\ Len(h) = last
  <2>1. h \in [1 .. last -> Nat]
    <3>1. \A i \in 1 .. last : h[i] \in Nat
      BY <1>8
    <3>2. Rowed(last, h)
      BY <1>4, Zenon DEF Rowed
    <3> QED
      BY <3>1, <3>2 DEF Rowed
  <2> QED
    BY <2>1
<1>11. Sums(cs, last, h)
  <2>1. cs \in [0 .. last -> Nat] /\ cs[0] = 0
    BY <1>7, <1>9
  <2>2. ASSUME NEW i \in 1 .. last PROVE cs[i] = cs[i - 1] + h[i]
    <3>1. i - 1 \in 0 .. last /\ i \in 0 .. last
      OBVIOUS
    <3>2. cs[i] = (IF i < end THEN 0 ELSE pad) /\ cs[i - 1] = IF i - 1 < end THEN 0 ELSE pad
      BY <1>9, <3>1
    <3> QED
      BY SMTT(60), <1>7, <1>8, <3>2
  <2> QED
    BY <2>1, <2>2 DEF Sums
<1>12. Total(h) = cs[last]
  BY <1>10, <1>11, TotalIs
<1>13. cs[last] = pad
  BY <1>7, <1>9
<1> QED
  BY <1>1, <1>2, <1>4, <1>12, <1>13 DEF PaddingAfter

--------------------------------------------------------------------------------
(* The padded stream of a hybrid torrent and its pieces.                    *)

(* The padding of a piece is that of its file if it is the last of them.     *)
PieceStandsAt(at, i, f, k) == f \in Files /\ k \in 1 .. Counts[f] /\ i = at[f - 1] + k
PadAt(f, k) == IF k = Counts[f] THEN PadOf(layout, f) ELSE 0

LEMMA PaddingAfterFile ==
  ASSUME ContentInit, generation = "hybrid", NEW f \in Files
  PROVE  PaddingAfter(info.files, f) = PadOf(layout, f)
<1>1. layout \in Seq(Nat) /\ info = Metainfo(layout, "hybrid")
  BY ContentAssumption DEF ContentInit
<1>2. info.files = V1Files(layout, "hybrid")
  BY <1>1 DEF Metainfo, HasV1
<1>3. PICK n \in Nat : n = Len(layout) /\ f \in 1 .. n
  BY <1>1, LenProperties DEF Files
<1>4. PICK length : length = EntriesOf(layout)
  OBVIOUS
<1>5. \A g \in 1 .. n : length[g] \in Nat
  BY <1>1, <1>3, <1>4, PadOfIs
<1>6. PICK at : Sums(at, n, length)
  BY <1>3, <1>5, SumsExist
<1>7. FilesSums(at, layout)
  BY <1>3, <1>4, <1>6 DEF FilesSums
<1>8. HybridFiles(layout, at, V1Files(layout, "hybrid"))
  BY <1>1, <1>7, FilesOfHybrid
<1> QED
  BY <1>1, <1>2, <1>3, <1>7, <1>8, PaddingAfterIs

LEMMA NextPlace ==
  ASSUME ContentInit, HasV2(generation), NEW at, MapSums(at), NEW i, NEW f, NEW k, PieceStandsAt(at, i, f, k)
  PROVE  (i = Len(PieceMap(info.tree)) \/ PieceMap(info.tree)[i + 1].file # PieceMap(info.tree)[i].file)
           <=> k = Counts[f]
<1>1. layout \in Seq(Nat) /\ TreeIs
  BY ContentAssumption, TreeOfV2 DEF ContentInit
<1>2. PICK n \in Nat : n = Len(layout) /\ Files = 1 .. n
  BY <1>1, LenProperties DEF Files
<1>3. \A g \in 1 .. n : Counts[g] \in Nat
  BY <1>1, <1>2, CountsAre
<1>4. Sums(at, n, Counts)
  BY <1>2 DEF MapSums
<1>5. PICK c \in Nat : c = at[n]
  BY <1>4 DEF Sums
<1>6. PICK map : map = PieceMap(info.tree)
  OBVIOUS
<1>7. Len(map) = c /\ \A g \in Files : \A o \in 1 .. Counts[g] : map[at[g - 1] + o] = EntryOf(g, o)
  BY <1>1, <1>2, <1>5, <1>6, MapIs
<1>8. f \in 1 .. n /\ k \in 1 .. Counts[f] /\ i = at[f - 1] + k
  BY <1>2 DEF PieceStandsAt
<1>9. ASSUME NEW g \in 1 .. n, NEW o \in 1 .. Counts[g] PROVE map[at[g - 1] + o].file = g
  <2>1. map[at[g - 1] + o] = EntryOf(g, o)
    BY <1>2, <1>7
  <2>2. EntryOf(g, o).file = g
    BY DEF EntryOf
  <2> QED
    BY <2>1, <2>2
<1>10. PICK count \in Nat : count = Counts[f]
  BY <1>3, <1>8
<1>11. PICK base \in Nat, end \in Nat : base = at[f - 1] /\ end = at[f] /\ end = base + count /\ end <= c
  <2>1. f - 1 \in 0 .. n /\ f \in 0 .. n /\ n \in 0 .. n
    BY <1>8
  <2>2. at[f - 1] \in Nat /\ at[f] \in Nat /\ at[f] = at[f - 1] + Counts[f]
    BY <1>4, <1>8, <2>1 DEF Sums
  <2>3. at[f] <= at[n]
    BY <1>3, <1>4, <2>1, SumsGrow
  <2> QED
    BY <1>5, <1>10, <2>2, <2>3
<1>12. map[i].file = f
  BY <1>8, <1>9
<1>13. i = base + k /\ k \in 1 .. count
  BY <1>8, <1>10, <1>11
<1>14. CASE k # count
  <2>1. PICK l \in 1 .. count : l = k + 1
    BY <1>13, <1>14
  <2>2. map[base + l].file = f
    BY <1>8, <1>9, <1>10, <1>11, <2>1
  <2>3. i + 1 = base + l /\ i # c
    BY <1>11, <1>13, <2>1
  <2> QED
    BY <1>6, <1>7, <1>10, <1>12, <1>14, <2>2, <2>3
<1>15. CASE k = count /\ i # c
  <2>1. PICK b : b = i + 1
    OBVIOUS
  <2>2. b \in 1 .. at[n] /\ b = end + 1
    BY <1>5, <1>11, <1>13, <1>15, <2>1
  <2>3. \E g \in 1 .. n : \E o \in 1 .. Counts[g] : b = at[g - 1] + o
    BY <1>2, <1>3, <1>4, <2>2, PlaceIn, SMTT(60)
  <2>4. PICK g \in 1 .. n : \E o \in 1 .. Counts[g] : b = at[g - 1] + o
    BY <2>3
  <2>5. PICK o \in 1 .. Counts[g] : b = at[g - 1] + o
    BY <2>4
  <2>6. map[b].file = g
    BY <1>9, <2>5
  <2>7. g # f
    BY <1>10, <1>11, <2>2, <2>5
  <2> QED
    BY <1>6, <1>10, <1>12, <1>15, <2>1, <2>6, <2>7
<1>16. CASE k = count /\ i = c
  BY <1>6, <1>7, <1>10, <1>16
<1> QED
  BY <1>14, <1>15, <1>16

LEMMA HybridPaddingIs ==
  ASSUME ContentInit, generation = "hybrid", NEW at, MapSums(at), NEW i, NEW f, NEW k, PieceStandsAt(at, i, f, k)
  PROVE  HybridPadding(info, i) = PadAt(f, k)
<1>1. layout \in Seq(Nat) /\ TreeIs /\ HasV2(generation)
  BY ContentAssumption, TreeOfV2 DEF ContentInit, HasV2
<1>2. PICK map : map = PieceMap(info.tree)
  OBVIOUS
<1>3. (i = Len(map) \/ map[i + 1].file # map[i].file) <=> k = Counts[f]
  BY <1>1, <1>2, NextPlace
<1>4. f \in Files /\ map[i].file = f
  <2>1. f \in Files /\ k \in 1 .. Counts[f] /\ i = at[f - 1] + k
    BY DEF PieceStandsAt
  <2>2. map[i] = EntryOf(f, k)
    BY <1>1, <1>2, <2>1, MapIs
  <2> QED
    BY <2>1, <2>2 DEF EntryOf
<1>5. PaddingAfter(info.files, map[i].file) = PadOf(layout, f)
  BY <1>4, PaddingAfterFile
<1>6. HybridPadding(info, i) = IF i = Len(map) \/ map[i + 1].file # map[i].file
                               THEN PaddingAfter(info.files, map[i].file) ELSE 0
  BY <1>2 DEF HybridPadding
<1> QED
  BY <1>3, <1>5, <1>6, Zenon DEF PadAt

--------------------------------------------------------------------------------
PaddedLengths == [f \in Files |-> layout[f] + PadOf(layout, f)]
StreamSums(sat) == Sums(sat, Len(layout), PaddedLengths)

LEMMA ZerosAre ==
  ASSUME NEW n \in Nat
  PROVE  Zeros(n) \in Seq(Bytes) /\ Len(Zeros(n)) = n /\ \A o \in 1 .. n : Zeros(n)[o] = <<0, 0>>
<1>1. PICK zeros : zeros = [o \in 1 .. n |-> <<0, 0>>]
  OBVIOUS
<1>2. <<0, 0>> \in Bytes
  BY DEF Bytes
<1>3. zeros \in [1 .. n -> Bytes]
  BY <1>1, <1>2
<1>4. zeros \in Seq(Bytes) /\ Len(zeros) = n
  BY <1>3
<1> QED
  BY <1>1, <1>4 DEF Zeros

StreamOf(sat, stream) ==
  /\ stream \in Seq(Bytes) /\ Len(stream) = sat[Len(layout)]
  /\ \A f \in Files : \A o \in 1 .. layout[f] + PadOf(layout, f) :
       stream[sat[f - 1] + o] = IF o <= layout[f] THEN <<f, o>> ELSE <<0, 0>>

LEMMA StreamIs ==
  ASSUME layout \in Seq(Nat), NEW sat, StreamSums(sat)
  PROVE  StreamOf(sat, V1Stream(layout, "hybrid"))
<1>1. PICK n \in Nat : n = Len(layout) /\ Files = 1 .. n /\ \A f \in 1 .. n : layout[f] \in Nat
  BY LenProperties, ElementOfSeq DEF Files
<1>2. PICK parts : parts = [f \in 1 .. n |->
        FileBytes(layout, f)
          \o (IF Padded(layout, f, "hybrid") THEN Zeros(PadTo(layout[f])) ELSE << >>)]
  OBVIOUS
<1>3. ASSUME NEW f \in 1 .. n
      PROVE  /\ parts[f] \in Seq(Bytes) /\ Len(parts[f]) = layout[f] + PadOf(layout, f)
             /\ \A o \in 1 .. layout[f] + PadOf(layout, f) : parts[f][o] = IF o <= layout[f] THEN <<f, o>> ELSE <<0, 0>>
  <2>1. PICK len \in Nat : len = layout[f]
    BY <1>1
  <2>2. PICK pad \in Nat : pad = PadOf(layout, f)
    BY <1>1, PadOfIs
  <2>3. PICK real \in Seq(Bytes) : real = FileBytes(layout, f) /\ Len(real) = len
                                   /\ \A o \in 1 .. len : real[o] = <<f, o>>
    BY <2>1, FileBytesIs
  <2>4. PICK zeros \in Seq(Bytes) : zeros = Zeros(pad) /\ Len(zeros) = pad /\ \A o \in 1 .. pad : zeros[o] = <<0, 0>>
    BY <2>2, ZerosAre
  <2>5. parts[f] = real \o zeros
    <3>1. CASE f < n
      <4>1. Padded(layout, f, "hybrid") /\ PadTo(layout[f]) = pad
        BY <1>1, <2>2, <3>1 DEF Padded, PadOf
      <4> QED
        BY <1>2, <2>3, <2>4, <4>1
    <3>2. CASE ~ (f < n)
      <4>1. ~ Padded(layout, f, "hybrid") /\ pad = 0
        BY <1>1, <2>2, <3>2 DEF Padded, PadOf
      <4> QED
        BY <1>2, <2>3, <2>4, <4>1, NothingPads
    <3> QED
      BY <3>1, <3>2
  <2>6. PICK both \in Seq(Bytes) : both = real \o zeros /\ Len(both) = len + pad
          /\ \A o \in 1 .. len + pad : both[o] = IF o <= len THEN real[o] ELSE zeros[o - len]
    <3>1. /\ real \o zeros \in Seq(Bytes) /\ Len(real \o zeros) = Len(real) + Len(zeros)
          /\ \A o \in 1 .. Len(real) + Len(zeros) :
               (real \o zeros)[o] = IF o <= Len(real) THEN real[o] ELSE zeros[o - Len(real)]
      BY <2>3, <2>4, ConcatProperties
    <3>2. PICK both : both = real \o zeros
      OBVIOUS
    <3>3. both \in Seq(Bytes) /\ Len(both) = len + pad
      BY <2>3, <2>4, <3>1, <3>2
    <3>4. \A o \in 1 .. len + pad : both[o] = IF o <= len THEN real[o] ELSE zeros[o - len]
      BY <2>3, <2>4, <3>1, <3>2
    <3> QED
      BY <3>2, <3>3, <3>4
  <2>7. \A o \in 1 .. len + pad : both[o] = IF o <= len THEN <<f, o>> ELSE <<0, 0>>
    <3>1. ASSUME NEW o \in 1 .. len + pad PROVE both[o] = IF o <= len THEN <<f, o>> ELSE <<0, 0>>
      <4>1. CASE o <= len
        BY <2>3, <2>6, <4>1
      <4>2. CASE ~ (o <= len)
        <5>1. o - len \in 1 .. pad
          BY <4>2
        <5> QED
          BY <2>4, <2>6, <4>2, <5>1
      <4> QED
        BY <4>1, <4>2
    <3> QED
      BY <3>1
  <2> QED
    BY <2>1, <2>2, <2>5, <2>6, <2>7
<1>4. parts \in Seq(Seq(Bytes)) /\ Len(parts) = n
  <2>1. Rowed(n, parts)
    BY <1>2, Zenon DEF Rowed
  <2>2. parts \in [1 .. n -> Seq(Bytes)]
    BY <1>3, <2>1 DEF Rowed
  <2> QED
    BY <2>2
<1>5. Sums(sat, Len(parts), Lengths(parts))
  <2>1. \A f \in 1 .. n : Lengths(parts)[f] = PaddedLengths[f]
    BY <1>1, <1>3, <1>4 DEF Lengths, PaddedLengths
  <2> QED
    BY <1>1, <1>4, <2>1 DEF StreamSums, Sums
<1>6. PICK stream : stream = FlattenSeq(parts) /\ Flattened(Bytes, parts, sat, stream)
  BY <1>4, <1>5, FlattenedIs
<1>7. V1Stream(layout, "hybrid") = stream
  BY <1>1, <1>2, <1>6 DEF V1Stream
<1>8. stream \in Seq(Bytes) /\ Len(stream) = sat[n]
  BY <1>4, <1>6 DEF Flattened
<1>9. ASSUME NEW f \in 1 .. n, NEW o \in 1 .. layout[f] + PadOf(layout, f)
      PROVE  stream[sat[f - 1] + o] = IF o <= layout[f] THEN <<f, o>> ELSE <<0, 0>>
  <2>1. f \in 1 .. Len(parts) /\ o \in 1 .. Len(parts[f])
    BY <1>3, <1>4
  <2>2. stream[sat[f - 1] + o] = parts[f][o]
    BY <1>6, <2>1 DEF Flattened
  <2> QED
    BY <1>3, <2>2
<1> QED
  BY <1>1, <1>7, <1>8, <1>9 DEF StreamOf

(* Before the padding of the last file the stream is at whole pieces.        *)
LEMMA StreamAtPieces ==
  ASSUME layout \in Seq(Nat), NEW sat, StreamSums(sat), NEW at, MapSums(at), NEW f \in 0 .. Len(layout),
         f < Len(layout)
  PROVE  sat[f] = at[f] * PieceLength
<1>1. PICK n \in Nat : n = Len(layout) /\ Files = 1 .. n /\ \A g \in 1 .. n : layout[g] \in Nat
  BY LenProperties, ElementOfSeq DEF Files
<1>2. PICK T : T = {g \in 0 .. n : g < n => sat[g] = at[g] * PieceLength}
  OBVIOUS
<1>3. sat \in [0 .. n -> Nat] /\ sat[0] = 0 /\ \A g \in 1 .. n : sat[g] = sat[g - 1] + PaddedLengths[g]
  BY <1>1 DEF StreamSums, Sums
<1>4. at \in [0 .. n -> Nat] /\ at[0] = 0 /\ \A g \in 1 .. n : at[g] = at[g - 1] + Counts[g]
  BY <1>1 DEF MapSums, Sums
<1>5. 0 \in T
  <2>1. 0 * PieceLength = 0
    BY LengthIs
  <2> QED
    BY <1>2, <1>3, <1>4, <2>1
<1>6. ASSUME NEW g \in 0 .. n, g # 0, g - 1 \in T PROVE g \in T
  <2>1. g \in 1 .. n /\ g - 1 \in 0 .. n
    BY <1>6
  <2>2. sat[g - 1] = at[g - 1] * PieceLength
    BY <1>2, <1>6, <2>1
  <2>3. PICK a \in Nat : a = at[g - 1]
    BY <1>4, <2>1
  <2>4. PICK len \in Nat : len = layout[g]
    BY <1>1, <2>1
  <2>5. PICK count \in Nat : count = Counts[g] /\ count = CeilDiv(len, PieceLength)
    BY <1>1, <2>1, <2>4, CountsAre
  <2>6. ASSUME g < n PROVE sat[g] = at[g] * PieceLength
    <3>1. PadOf(layout, g) = PadTo(len)
      BY <1>1, <2>4, <2>6 DEF PadOf
    <3>2. len + PadTo(len) = count * PieceLength
      BY <2>4, <2>5, PadIs
    <3>3. PaddedLengths[g] = count * PieceLength
      BY <1>1, <2>1, <2>4, <3>1, <3>2 DEF PaddedLengths
    <3>4. (a + count) * PieceLength = a * PieceLength + count * PieceLength
      BY TimesAdd
    <3>5. sat[g] = a * PieceLength + count * PieceLength
      BY <1>3, <2>1, <2>2, <2>3, <3>3
    <3>6. at[g] = a + count
      BY <1>4, <2>1, <2>3, <2>5
    <3> QED
      BY <3>4, <3>5, <3>6
  <2> QED
    BY <1>2, <2>6
<1>7. 0 .. n \subseteq T
  BY <1>5, <1>6, Induction
<1> QED
  BY <1>1, <1>2, <1>7

(* Piece k of file f and its padding are what v1 takes from the stream       *)
(* there: they are as long as a piece, or the stream ends with them.         *)
TakenUp(sat, f, s, u, pad, start, total) ==
  /\ start \in Nat /\ start = sat[f - 1] + s /\ total \in Nat /\ start < total
  /\ pad \in Nat /\ s + u + pad <= layout[f] + PadOf(layout, f)
  /\ UpToLength(total - start) = u + pad /\ (pad # 0 => s + u = layout[f])

LEMMA TakenIs ==
  ASSUME FilesLaid, NEW sat, StreamSums(sat), NEW f \in Files, NEW k \in 1 .. Counts[f],
         NEW i, NEW s, NEW u, PlaceOf(i, f, k, s, u)
  PROVE  TakenUp(sat, f, s, u, PadAt(f, k), sat[f - 1] + s, sat[Len(layout)])
<1>1. PICK n \in Nat : n = Len(layout) /\ Files = 1 .. n /\ layout \in Seq(Nat) /\ \A g \in 1 .. n : layout[g] \in Nat
  BY LenProperties, ElementOfSeq DEF FilesLaid, Files
<1>2. PICK len \in Nat : len = layout[f]
  BY <1>1
<1>3. PICK end \in Nat : end = PadOf(layout, f)
  BY <1>1, PadOfIs
<1>4. \A g \in 1 .. n : PaddedLengths[g] \in Nat
  <2>1. \A g \in 1 .. n : PadOf(layout, g) \in Nat
    BY <1>1, PadOfIs
  <2> QED
    BY <1>1, <2>1 DEF PaddedLengths
<1>5. f \in 1 .. n /\ f \in 0 .. n /\ f - 1 \in 0 .. n /\ n \in 0 .. n
  BY <1>1
<1>6. PICK base \in Nat, total \in Nat : base = sat[f - 1] /\ total = sat[n] /\ base + len + end <= total
                                         /\ (f = n => base + len + end = total)
  <2>1. Sums(sat, n, PaddedLengths)
    BY <1>1 DEF StreamSums
  <2>2. sat[f - 1] \in Nat /\ sat[n] \in Nat /\ sat[f] \in Nat
    BY <1>5, <2>1 DEF Sums
  <2>3. PaddedLengths[f] = len + end
    BY <1>2, <1>3 DEF PaddedLengths
  <2>4. sat[f] = sat[f - 1] + (len + end)
    BY <1>5, <2>1, <2>3 DEF Sums
  <2>5. sat[f] <= sat[n]
    BY <1>4, <1>5, <2>1, SumsGrow
  <2> QED
    BY <2>2, <2>4, <2>5
<1>7. PICK p \in Nat \ {0} : p = PieceLength
  BY LengthIs
<1>8. s \in Nat /\ u \in 1 .. p /\ u = UpToLength(len - s) /\ s + u <= len
  BY <1>2, <1>7 DEF PlaceOf
<1>9. u = IF len - s < p THEN len - s ELSE p
  BY <1>7, <1>8 DEF UpToLength
<1>10. PICK count \in Nat : count = Counts[f] /\ count = CeilDiv(len, PieceLength) /\ k \in 1 .. count
  BY <1>1, <1>2, CountsAre
<1>11. PICK m \in Nat : m = k - 1 /\ m + 1 = k
  BY <1>10
<1>12. s = m * PieceLength /\ k * PieceLength = s + p
  BY <1>7, <1>8, <1>11, TimesIs DEF PlaceOf
<1>13. PICK start \in Nat : start = base + s
  BY <1>8
<1>14. start < total
  BY <1>6, <1>8, <1>13
<1>15. PICK pad \in Nat : pad = PadAt(f, k) /\ pad = IF k = count THEN end ELSE 0
  BY <1>3, <1>10 DEF PadAt
<1>16. UpToLength(total - start) = IF total - start < p THEN total - start ELSE p
  BY <1>7 DEF UpToLength
<1>17. ASSUME k # count
       PROVE  s + u + pad <= len + end /\ UpToLength(total - start) = u + pad /\ (pad # 0 => s + u = len)
  <2>1. k \in Nat /\ k + 1 <= CeilDiv(len, PieceLength)
    BY <1>10, <1>17
  <2>2. k * PieceLength < len
    BY <2>1, CeilIs
  <2>3. u = p /\ p <= len - s
    BY <1>8, <1>9, <1>12, <2>2
  <2>4. UpToLength(total - start) = p
    BY <1>6, <1>8, <1>13, <1>16, <2>3
  <2>5. pad = 0
    BY <1>15, <1>17
  <2> QED
    BY <1>8, <2>3, <2>4, <2>5
<1>18. ASSUME k = count
       PROVE  s + u + pad <= len + end /\ UpToLength(total - start) = u + pad /\ (pad # 0 => s + u = len)
  <2>1. len <= s + p
    <3>1. k \in Nat /\ ~ (k + 1 <= CeilDiv(len, PieceLength))
      BY <1>10, <1>18
    <3>2. ~ (k * PieceLength < len)
      BY <3>1, CeilIs
    <3> QED
      BY <1>8, <1>12, <3>2
  <2>2. s + u = len /\ pad = end
    BY <1>8, <1>9, <1>15, <1>18, <2>1
  <2>3. UpToLength(total - start) = u + pad
    <3>1. CASE f < n
      <4>1. end = PadTo(len)
        BY <1>1, <1>2, <1>3, <3>1 DEF PadOf
      <4>2. len + end = s + p
        BY <1>2, <1>10, <1>12, <1>18, <4>1, PadIs
      <4> QED
        BY <1>6, <1>8, <1>13, <1>16, <2>2, <4>2
    <3>2. CASE f = n
      <4>1. end = 0
        BY <1>1, <1>3, <3>2 DEF PadOf
      <4> QED
        BY <1>6, <1>8, <1>9, <1>13, <1>16, <2>2, <3>2, <4>1
    <3> QED
      BY <1>5, <3>1, <3>2
  <2> QED
    BY <2>2, <2>3
<1>19. s + u + pad <= len + end /\ UpToLength(total - start) = u + pad /\ (pad # 0 => s + u = len)
  BY <1>10, <1>17, <1>18
<1>20. TakenUp(sat, f, s, u, pad, start, total)
  BY <1>2, <1>3, <1>6, <1>13, <1>14, <1>19 DEF TakenUp
<1> QED
  BY <1>1, <1>6, <1>13, <1>15, <1>20

TakenFrom(sat, stream, f, k, i, s, u, pad, start) ==
  /\ StreamOf(sat, stream) /\ f \in Files /\ sat[f - 1] \in Nat
  /\ PlaceOf(i, f, k, s, u) /\ TakenUp(sat, f, s, u, pad, start, Len(stream))

PaddedFrom(stream, i, u, pad, start) ==
  SubSeq(stream, start + 1, start + (u + pad)) = PieceData(i) \o Zeros(pad)

LEMMA TakenIsPadded ==
  ASSUME FilesLaid, NEW sat, NEW stream, NEW f, NEW k, NEW i, NEW s, NEW u, NEW pad, NEW start,
         TakenFrom(sat, stream, f, k, i, s, u, pad, start)
  PROVE  PaddedFrom(stream, i, u, pad, start)
<1>0. /\ StreamOf(sat, stream) /\ f \in Files /\ sat[f - 1] \in Nat
      /\ PlaceOf(i, f, k, s, u) /\ TakenUp(sat, f, s, u, pad, start, Len(stream))
  BY DEF TakenFrom
<1>1. /\ start \in Nat /\ start = sat[f - 1] + s /\ Len(stream) \in Nat /\ start < Len(stream)
      /\ pad \in Nat /\ s + u + pad <= layout[f] + PadOf(layout, f)
      /\ UpToLength(Len(stream) - start) = u + pad /\ (pad # 0 => s + u = layout[f])
  BY <1>0 DEF TakenUp
<1>2. PICK p \in Nat \ {0} : p = PieceLength
  BY LengthIs
<1>3. PICK len \in Nat : len = layout[f]
  BY <1>0 DEF PlaceOf
<1>4. /\ s \in Nat /\ u \in 1 .. p /\ s + u <= len /\ u \in Nat
      /\ PieceData(i) = SubSeq(FileBytes(layout, f), s + 1, s + u)
      /\ PieceData(i) \in Seq(Bytes) /\ Len(PieceData(i)) = u
  <2>1. /\ s \in Nat /\ u \in 1 .. PieceLength /\ s + u <= layout[f]
        /\ PieceData(i) = SubSeq(FileBytes(layout, f), s + 1, s + u)
        /\ PieceData(i) \in Seq(Bytes) /\ Len(PieceData(i)) = u
    BY <1>0, Zenon DEF PlaceOf
  <2>2. u \in 1 .. p
    BY <1>2, <2>1
  <2>3. u \in Nat /\ s + u <= len
    BY <1>3, <2>1, <2>2
  <2> QED
    BY <2>1, <2>2, <2>3
<1>5. PICK base : base = sat[f - 1]
  OBVIOUS
<1>6. stream \in Seq(Bytes)
  BY <1>0 DEF StreamOf
<1>7. start + (u + pad) <= Len(stream)
  <2>1. PICK left \in Nat : left = Len(stream) - start
    BY <1>1
  <2>2. u + pad = IF left < p THEN left ELSE p
    BY <1>1, <1>2, <2>1 DEF UpToLength
  <2> QED
    BY <1>1, <1>2, <2>1, <2>2
<1>8. PICK taken : taken = SubSeq(stream, start + 1, start + (u + pad))
  OBVIOUS
<1>9. /\ taken \in Seq(Bytes) /\ Len(taken) = u + pad
      /\ \A j \in 1 .. u + pad : taken[j] = stream[start + j]
  <2>1. PICK n \in Nat : n = u + pad
    BY <1>1, <1>4
  <2>2. /\ SubSeq(stream, start + 1, start + n) \in Seq(Bytes) /\ Len(SubSeq(stream, start + 1, start + n)) = n
        /\ \A j \in 1 .. n : SubSeq(stream, start + 1, start + n)[j] = stream[start + j]
    <3>1. start \in Nat /\ start + n <= Len(stream)
      BY <1>1, <1>7, <2>1
    <3> QED
      BY SMTT(60), <1>6, <2>1, <3>1, Part
  <2> QED
    BY <1>8, <2>1, <2>2
<1>10. PICK data \in Seq(Bytes) : data = PieceData(i) /\ Len(data) = u
  BY <1>4
<1>11. ASSUME NEW j \in 1 .. u PROVE data[j] = <<f, s + j>>
  <2>1. f \in Nat
    BY <1>0, FileIs
  <2>2. /\ FileBytes(layout, f) \in Seq(Bytes) /\ Len(FileBytes(layout, f)) = len
        /\ \A o \in 1 .. len : FileBytes(layout, f)[o] = <<f, o>>
    BY <1>3, <2>1, FileBytesIs
  <2>3. \A o \in 1 .. u : SubSeq(FileBytes(layout, f), s + 1, s + u)[o] = FileBytes(layout, f)[s + o]
    BY <1>4, <2>2, Part
  <2>4. s + j \in 1 .. len
    BY <1>4
  <2> QED
    BY <1>4, <1>10, <2>2, <2>3, <2>4
<1>12. PICK zeros \in Seq(Bytes) : zeros = Zeros(pad) /\ Len(zeros) = pad /\ \A o \in 1 .. pad : zeros[o] = <<0, 0>>
  BY <1>1, ZerosAre
<1>13. /\ data \o zeros \in Seq(Bytes) /\ Len(data \o zeros) = Len(data) + Len(zeros)
       /\ \A j \in 1 .. Len(data) + Len(zeros) :
            (data \o zeros)[j] = IF j <= Len(data) THEN data[j] ELSE zeros[j - Len(data)]
  BY <1>10, <1>12, ConcatProperties
<1>14. PICK both : both = data \o zeros
  OBVIOUS
<1>15. both \in Seq(Bytes) /\ Len(both) = u + pad
       /\ \A j \in 1 .. u + pad : both[j] = IF j <= u THEN data[j] ELSE zeros[j - u]
  <2>1. \A j \in 1 .. u + pad : both[j] = IF j <= u THEN data[j] ELSE zeros[j - u]
    BY <1>10, <1>12, <1>13, <1>14
  <2> QED
    BY <1>10, <1>12, <1>13, <1>14, <2>1
<1>16. ASSUME NEW j \in 1 .. u + pad PROVE taken[j] = both[j]
  <2>1. PICK o \in Nat : o = s + j
    BY <1>1, <1>4
  <2>2. o \in 1 .. layout[f] + PadOf(layout, f)
    <3>1. PICK end \in Nat : end = PadOf(layout, f)
      BY <1>0, PadOfIs DEF Files, FilesLaid
    <3> QED
      BY <1>1, <1>3, <1>4, <2>1, <3>1
  <2>3. stream[base + o] = IF o <= len THEN <<f, o>> ELSE <<0, 0>>
    BY <1>0, <1>3, <1>5, <2>2 DEF StreamOf
  <2>4. start + j = base + o
    <3>1. PICK b \in Nat : b = base
      BY <1>0, <1>5
    <3> QED
      BY <1>1, <1>4, <1>5, <2>1, <3>1
  <2>5. taken[j] = IF o <= len THEN <<f, o>> ELSE <<0, 0>>
    BY <1>9, <2>3, <2>4
  <2>6. CASE j <= u
    <3>1. o <= len /\ j \in 1 .. u
      BY <1>4, <2>1, <2>6
    <3>2. both[j] = <<f, s + j>>
      BY <1>11, <1>15, <2>6, <3>1
    <3> QED
      BY <2>1, <2>5, <3>1, <3>2
  <2>7. CASE ~ (j <= u)
    <3>1. PICK z \in Nat : z = j - u /\ z \in 1 .. pad
      BY <1>1, <1>4, <2>7
    <3>2. ~ (o <= len)
      BY <1>1, <1>3, <1>4, <2>1, <2>7, <3>1
    <3>3. both[j] = zeros[z]
      BY <1>15, <2>7, <3>1
    <3> QED
      BY <1>12, <2>5, <3>1, <3>2, <3>3
  <2> QED
    BY <2>6, <2>7
<1>17. taken = both
  BY <1>9, <1>15, <1>16, SameSeq
<1> QED
  BY <1>8, <1>10, <1>12, <1>14, <1>17 DEF PaddedFrom

LEMMA HybridHashes ==
  ASSUME ContentInit, generation = "hybrid", FilesLaid
  PROVE  \A i \in DOMAIN pieces :
           /\ info.pieces[i] = PieceData(i) \o Zeros(pieces[i].padding) /\ pieces[i].padding \in Nat
<1>1. PICK n \in Nat : n = Len(layout) /\ Files = 1 .. n /\ layout \in Seq(Nat) /\ \A g \in 1 .. n : layout[g] \in Nat
  BY LenProperties, ElementOfSeq DEF FilesLaid, Files
<1>2. HasV2(generation)
  BY DEF HasV2
<1>3. PICK at : MapSums(at)
  BY <1>1, CountsAre
<1>4. \A g \in 1 .. n : PaddedLengths[g] \in Nat
  <2>1. \A g \in 1 .. n : PadOf(layout, g) \in Nat
    BY <1>1, PadOfIs
  <2> QED
    BY <1>1, <2>1 DEF PaddedLengths
<1>5. PICK sat : Sums(sat, n, PaddedLengths)
  BY <1>4, SumsExist
<1>6. StreamSums(sat) /\ \A g \in 0 .. n : sat[g] \in Nat
  BY <1>1, <1>5 DEF StreamSums, Sums
<1>7. PICK stream : stream = V1Stream(layout, "hybrid") /\ StreamOf(sat, stream)
  BY <1>1, <1>6, StreamIs
<1>8. info.pieces = Chunks(stream, PieceLength)
  BY <1>7 DEF ContentInit, Metainfo, HasV1
<1>9. ASSUME NEW i \in DOMAIN pieces
      PROVE  info.pieces[i] = PieceData(i) \o Zeros(pieces[i].padding) /\ pieces[i].padding \in Nat
  <2>1. PICK f \in Files : \E k \in 1 .. Counts[f] : i = at[f - 1] + k
    BY <1>2, <1>3, PiecesOfV2
  <2>2. PICK k \in 1 .. Counts[f] : i = at[f - 1] + k
    BY <2>1
  <2>3. PieceOf(i, f, k) /\ PieceStandsAt(at, i, f, k)
    BY <1>2, <1>3, <2>2, PiecesOfV2 DEF PieceStandsAt
  <2>4. PICK s, u : PlaceOf(i, f, k, s, u)
    BY <2>3, PlaceIs
  <2>5. PICK pad : pad = PadAt(f, k)
    OBVIOUS
  <2>6. pieces[i].padding = pad
    <3>1. HybridPadding(info, i) = pad
      BY <1>3, <2>3, <2>5, HybridPaddingIs
    <3>2. pieces[i].padding = HybridPadding(info, i)
      BY <2>3 DEF PieceOf
    <3> QED
      BY <3>1, <3>2
  <2>7. PICK start : start = sat[f - 1] + s
    OBVIOUS
  <2>8. TakenUp(sat, f, s, u, pad, start, Len(stream))
    <3>1. Len(stream) = sat[Len(layout)]
      BY <1>7 DEF StreamOf
    <3> QED
      BY <1>6, <2>4, <2>5, <2>7, <3>1, TakenIs
  <2>9. f \in 1 .. n /\ f - 1 \in 0 .. n /\ f - 1 < n
    BY <1>1
  <2>10. SubSeq(stream, start + 1, start + (u + pad)) = PieceData(i) \o Zeros(pad)
    <3>1. sat[f - 1] \in Nat
      BY <1>6, <2>9
    <3>2. TakenFrom(sat, stream, f, k, i, s, u, pad, start)
      BY <1>7, <2>1, <2>4, <2>8, <3>1 DEF TakenFrom
    <3>3. PaddedFrom(stream, i, u, pad, start)
      BY <3>2, TakenIsPadded
    <3> QED
      BY <3>3 DEF PaddedFrom
  <2>11. PICK j \in Nat : j = i - 1 /\ j + 1 = i /\ start = j * PieceLength
    <3>1. Counts[f] \in Nat
      BY <1>1, CountsAre
    <3>2. PICK a \in Nat : a = at[f - 1]
      BY <1>1, <1>3, <2>9 DEF MapSums, Sums
    <3>3. PICK m \in Nat : m = k - 1 /\ k = m + 1
      BY <3>1
    <3>4. sat[f - 1] = a * PieceLength
      BY <1>1, <1>3, <1>6, <2>9, <3>2, StreamAtPieces
    <3>5. s = m * PieceLength
      BY <2>4, <3>3 DEF PlaceOf
    <3>6. start = (a + m) * PieceLength
      BY <2>7, <3>4, <3>5, TimesAdd
    <3>7. a + m = i - 1 /\ a + m + 1 = i /\ a + m \in Nat
      BY <2>2, <3>2, <3>3
    <3> QED
      BY <3>6, <3>7
  <2>12. info.pieces[i] = SubSeq(stream, start + 1, start + (u + pad))
    <3>1. start < Len(stream) /\ UpToLength(Len(stream) - start) = u + pad
      BY <2>8 DEF TakenUp
    <3>2. stream \in Seq(Bytes)
      BY <1>7 DEF StreamOf
    <3>3. Chunks(stream, PieceLength)[j + 1] = SubSeq(stream, start + 1, start + UpToLength(Len(stream) - start))
      BY <2>11, <3>1, <3>2, ChunkIs
    <3> QED
      BY <1>8, <2>11, <3>1, <3>3
  <2>13. pad \in Nat
    BY <2>8 DEF TakenUp
  <2> QED
    BY <2>6, <2>10, <2>12, <2>13
<1> QED
  BY <1>9

(* So the torrent is laid out as the invariant wants it, for every layout    *)
(* and every generation.                                                    *)
LEMMA PiecesAreCutAtFirst ==
  ASSUME ContentInit
  PROVE  FilesLaid /\ PiecesAreCut
<1>1. FilesLaid
  BY FilesAreLaid
<1>2. generation \in {"v1", "v2", "hybrid"}
  BY DEF ContentInit, Generations
<1>3. CASE generation = "v1"
  BY <1>1, <1>3, CutV1
<1>4. CASE generation = "v2"
  <2>1. HasV2(generation) /\ ~ HasV1(generation)
    BY <1>4 DEF HasV1, HasV2
  <2>2. PaddingHashed
    BY <2>1 DEF PaddingHashed
  <2>3. ASSUME NEW i \in DOMAIN pieces PROVE pieces[i].padding \in Nat
    <3>1. PICK at : MapSums(at)
      BY <1>1, CountsAre DEF FilesLaid
    <3>2. \E f \in Files : \E k \in 1 .. Counts[f] : i = at[f - 1] + k
      BY <2>1, <3>1, PiecesOfV2
    <3>3. PICK f \in Files : \E k \in 1 .. Counts[f] : i = at[f - 1] + k
      BY <3>2
    <3>4. PICK k \in 1 .. Counts[f] : i = at[f - 1] + k
      BY <3>3
    <3>5. PieceOf(i, f, k)
      BY <2>1, <3>1, <3>4, PiecesOfV2
    <3>6. pieces[i].padding = 0
      BY <1>4, <3>5 DEF PieceOf
    <3> QED
      BY <3>6
  <2> QED
    BY <1>1, <2>1, <2>2, <2>3, CutV2
<1>5. CASE generation = "hybrid"
  <2>1. HasV2(generation)
    BY <1>5 DEF HasV2
  <2>2. PaddingHashed /\ \A i \in DOMAIN pieces : pieces[i].padding \in Nat
    BY <1>1, <1>5, HybridHashes DEF PaddingHashed
  <2> QED
    BY <1>1, <2>1, <2>2, CutV2
<1> QED
  BY <1>1, <1>2, <1>3, <1>4, <1>5

--------------------------------------------------------------------------------
(* The pieces cover the content.                                            *)

LEMMA AllApart ==
  ASSUME FilesLaid, NEW b \in 1 .. Len(All), NEW c \in 1 .. Len(All), All[b] = All[c]
  PROVE  b = c
<1>1. PICK f \in Files : \E o \in 1 .. layout[f] : b = offsets[f] + o
  BY DEF FilesLaid
<1>2. PICK o \in 1 .. layout[f] : b = offsets[f] + o
  BY <1>1
<1>3. PICK g \in Files : \E q \in 1 .. layout[g] : c = offsets[g] + q
  BY DEF FilesLaid
<1>4. PICK q \in 1 .. layout[g] : c = offsets[g] + q
  BY <1>3
<1>5. All[b] = <<f, o>> /\ All[c] = <<g, q>>
  BY <1>1, <1>2, <1>3, <1>4 DEF FilesLaid
<1>6. <<f, o>> = <<g, q>>
  BY <1>5
<1>7. f = g /\ o = q
  BY <1>6
<1> QED
  BY <1>2, <1>4, <1>7

LEMMA OnlyItsOwn ==
  ASSUME Laid, NEW i \in DOMAIN pieces, NEW j \in DOMAIN pieces
  PROVE  VerifyData(pieces[i], PieceData(j)) <=> i = j
<1>1. PieceData(j) \in Seq(Bytes)
  BY PieceDataIs
<1>2. VerifyData(pieces[i], PieceData(j)) <=> PieceData(j) = PieceData(i)
  BY <1>1 DEF Laid, HashesTell
<1>3. ASSUME PieceData(j) = PieceData(i) PROVE i = j
  <2>1. PICK a \in Nat : a = pieces[i].offset /\ a + 1 \in a + 1 .. a + pieces[i].length
    <3>1. PICK a \in Nat, n \in Nat \ {0} : a = pieces[i].offset /\ n = pieces[i].length
      BY PieceIs
    <3>2. a + 1 \in a + 1 .. a + n
      BY <3>1
    <3> QED
      BY <3>1, <3>2
  <2>2. PICK c \in Nat : c = pieces[j].offset /\ c + 1 \in c + 1 .. c + pieces[j].length
    <3>1. PICK c \in Nat, n \in Nat \ {0} : c = pieces[j].offset /\ n = pieces[j].length
      BY PieceIs
    <3>2. c + 1 \in c + 1 .. c + n
      BY <3>1
    <3> QED
      BY <3>1, <3>2
  <2>3. a + 1 \in 1 .. Len(All) /\ c + 1 \in 1 .. Len(All)
    BY <2>1, <2>2, PieceBytes
  <2>4. PieceData(i)[1] = All[a + 1] /\ PieceData(j)[1] = All[c + 1]
    <3>1. 1 \in 1 .. pieces[i].length /\ 1 \in 1 .. pieces[j].length
      <4>1. pieces[i].length \in Nat \ {0} /\ pieces[j].length \in Nat \ {0}
        BY PieceIs
      <4> QED
        BY <4>1
    <3> QED
      BY <2>1, <2>2, <3>1, PieceDataIs
  <2>5. a + 1 = c + 1
    BY <1>3, <2>3, <2>4, AllApart DEF Laid
  <2>6. a + 1 \in pieces[i].offset + 1 .. pieces[i].offset + pieces[i].length
    BY <2>1
  <2>7. a + 1 \in pieces[j].offset + 1 .. pieces[j].offset + pieces[j].length
    BY <2>2, <2>5
  <2> QED
    BY <2>6, <2>7, PiecesApart
<1> QED
  BY <1>2, <1>3

(* No piece leaves a gap before it, and none is left after the last.         *)
EndsOf == [i \in 0 .. Len(pieces) |-> IF i = 0 THEN 0 ELSE pieces[i].offset + pieces[i].length]

LEMMA NoGap ==
  ASSUME Laid, PiecesReach, DOMAIN pieces = 1 .. Len(pieces), Len(pieces) \in Nat, NEW i \in 1 .. Len(pieces)
  PROVE  pieces[i].offset = EndsOf[i - 1]
<1>1. PICK n \in Nat : n = Len(pieces) /\ DOMAIN pieces = 1 .. n
  OBVIOUS
<1>2. PICK a \in Nat : a = pieces[i].offset
  BY PieceIs
<1>3. PICK length \in Nat \ {0} : length = pieces[i].length /\ a + length <= Len(All) /\ Len(All) \in Nat
  BY <1>2, PieceIs
<1>4. PICK e : e = EndsOf[i - 1]
  OBVIOUS
<1>5. e \in Nat /\ e <= a
        /\ \A j \in 1 .. n : j < i => pieces[j].offset + pieces[j].length <= e
  <2>1. CASE i = 1
    <3>1. e = 0
      BY <1>1, <1>4, <2>1 DEF EndsOf
    <3> QED
      BY <1>1, <1>2, <2>1, <3>1
  <2>2. CASE i # 1
    <3>1. PICK l \in 1 .. n : l = i - 1
      BY <1>1, <2>2
    <3>2. e = pieces[l].offset + pieces[l].length
      BY <1>1, <1>4, <3>1 DEF EndsOf
    <3>3. PICK b \in Nat, m \in Nat : b = pieces[l].offset /\ m = pieces[l].length
      BY <1>1, <3>1, PieceIs
    <3>4. e <= a
      BY <1>1, <1>2, <3>1, <3>2 DEF Laid, PiecesLaid
    <3>5. ASSUME NEW j \in 1 .. n, j < i PROVE pieces[j].offset + pieces[j].length <= e
      <4>1. CASE j = l
        BY <3>2, <3>3, <4>1
      <4>2. CASE j < l
        <5>1. pieces[j].offset + pieces[j].length <= b
          BY <1>1, <3>1, <3>3, <4>2 DEF Laid, PiecesLaid
        <5>2. pieces[j].offset + pieces[j].length \in Nat
          <6>1. PICK c \in Nat, o \in Nat : c = pieces[j].offset /\ o = pieces[j].length
            BY <1>1, PieceIs
          <6> QED
            BY <6>1
        <5> QED
          BY SMTT(60), <3>2, <3>3, <5>1, <5>2
      <4> QED
        BY <3>1, <3>5, <4>1, <4>2
    <3> QED
      BY SMTT(60), <3>2, <3>3, <3>4, <3>5
  <2> QED
    BY <2>1, <2>2
<1>6. ASSUME e < a PROVE FALSE
  <2>1. a \in 1 .. Len(All)
    BY <1>3, <1>5, <1>6
  <2>2. PICK j \in DOMAIN pieces : a \in pieces[j].offset + 1 .. pieces[j].offset + pieces[j].length
    BY <2>1 DEF PiecesReach
  <2>3. PICK b \in Nat, m \in Nat : b = pieces[j].offset /\ m = pieces[j].length
    BY PieceIs
  <2>4. b < a /\ a <= b + m
    BY <2>2, <2>3
  <2>5. CASE j < i
    BY <1>1, <1>5, <1>6, <2>3, <2>4, <2>5
  <2>6. CASE j = i
    BY <1>2, <2>3, <2>4, <2>6
  <2>7. CASE i < j
    <3>1. a + length <= b
      BY <1>1, <1>2, <1>3, <2>3, <2>7 DEF Laid, PiecesLaid
    <3> QED
      BY <1>3, <2>4, <3>1
  <2> QED
    BY <1>1, <2>5, <2>6, <2>7
<1> QED
  BY <1>2, <1>4, <1>5, <1>6

LEMMA Joins ==
  ASSUME Laid, PiecesAreCut
  PROVE  FlattenSeq([i \in 1 .. Len(pieces) |-> PieceData(i)]) = All
<1>1. PICK n \in Nat : n = Len(pieces) /\ DOMAIN pieces = 1 .. n
  BY LenProperties DEF PiecesAreCut
<1>2. PICK parts : parts = [i \in 1 .. n |-> PieceData(i)]
  OBVIOUS
<1>3. parts \in Seq(Seq(Bytes)) /\ Len(parts) = n
  <2>1. \A i \in 1 .. n : PieceData(i) \in Seq(Bytes)
    BY <1>1, PieceDataIs
  <2>2. parts \in [1 .. n -> Seq(Bytes)]
    BY <1>2, <2>1
  <2> QED
    BY <2>2
<1>4. \A i \in 1 .. n : /\ parts[i] = PieceData(i) /\ Len(parts[i]) = pieces[i].length
                        /\ pieces[i].length \in Nat /\ pieces[i].offset \in Nat
                        /\ pieces[i].offset + pieces[i].length <= Len(All)
  BY <1>1, <1>2, PieceDataIs, PieceIs
<1>5. PICK ends : ends = EndsOf
  OBVIOUS
<1>6. /\ ends[0] = 0 /\ \A i \in 1 .. n : ends[i] = pieces[i].offset + pieces[i].length
  BY <1>1, <1>5 DEF EndsOf
<1>7. \A i \in 1 .. n : pieces[i].offset = ends[i - 1]
  BY <1>1, <1>5, NoGap DEF PiecesAreCut
<1>8. Sums(ends, Len(parts), Lengths(parts))
  <2>1. \A i \in 1 .. n : Lengths(parts)[i] = pieces[i].length
    BY <1>3, <1>4 DEF Lengths
  <2>2. ASSUME NEW i \in 0 .. n PROVE ends[i] \in Nat
    <3>1. CASE i = 0
      BY <1>6, <3>1
    <3>2. CASE i # 0
      <4>1. i \in 1 .. n
        BY <3>2
      <4>2. PICK a \in Nat, m \in Nat : a = pieces[i].offset /\ m = pieces[i].length
        BY <1>4, <4>1
      <4> QED
        BY <1>6, <4>1, <4>2
    <3> QED
      BY <3>1, <3>2
  <2>3. ends \in [0 .. n -> Nat]
    <3>1. ends = [i \in 0 .. n |-> ends[i]]
      BY <1>1, <1>5, Zenon DEF EndsOf
    <3> QED
      BY <2>2, <3>1
  <2>4. \A i \in 1 .. n : ends[i] = ends[i - 1] + pieces[i].length
    BY <1>6, <1>7
  <2> QED
    BY <1>3, <1>6, <2>1, <2>3, <2>4 DEF Sums
<1>9. PICK s : s = FlattenSeq(parts) /\ Flattened(Bytes, parts, ends, s)
  BY <1>3, <1>8, FlattenedIs
<1>10. s \in Seq(Bytes) /\ Len(s) = ends[n]
  BY <1>3, <1>9 DEF Flattened
<1>11. All \in Seq(Bytes) /\ Len(All) \in Nat
  BY LenProperties DEF Laid, FilesLaid
<1>12. ends[n] = Len(All)
  <2>1. ends[n] \in Nat
    BY <1>10, LenProperties
  <2>2. ends[n] <= Len(All)
    <3>1. CASE n = 0
      BY <1>6, <1>11, <3>1
    <3>2. CASE n # 0
      BY <1>4, <1>6, <3>2
    <3> QED
      BY <3>1, <3>2
  <2>3. ASSUME ends[n] < Len(All) PROVE FALSE
    <3>1. Len(All) \in 1 .. Len(All)
      BY <1>11, <2>1, <2>3
    <3>2. PICK j \in DOMAIN pieces : Len(All) \in pieces[j].offset + 1 .. pieces[j].offset + pieces[j].length
      BY <3>1 DEF PiecesAreCut, PiecesReach
    <3>3. j \in 1 .. n
      BY <1>1
    <3>4. Len(All) <= ends[j]
      BY <1>4, <1>6, <3>2, <3>3
    <3>5. ends[j] <= ends[n]
      <4>1. \A i \in 1 .. n : pieces[i].length \in Nat
        BY <1>4
      <4>2. PICK length : length = Lengths(parts)
        OBVIOUS
      <4>3. \A i \in 1 .. n : length[i] \in Nat
        BY <1>3, <1>4, <4>2 DEF Lengths
      <4>4. Sums(ends, n, length)
        BY <1>3, <1>8, <4>2
      <4>5. n \in 0 .. n /\ j \in 0 .. n
        BY <3>3
      <4> QED
        BY <4>3, <4>4, <4>5, SumsGrow
    <3>6. ends[j] \in Nat
      BY <1>4, <1>6, <3>3
    <3> QED
      BY <1>11, <2>1, <2>3, <3>4, <3>5, <3>6
  <2> QED
    BY <1>11, <2>1, <2>2, <2>3
<1>13. ASSUME NEW b \in 1 .. Len(All) PROVE s[b] = All[b]
  <2>1. PICK i \in DOMAIN pieces : b \in pieces[i].offset + 1 .. pieces[i].offset + pieces[i].length
    BY DEF PiecesAreCut, PiecesReach
  <2>2. i \in 1 .. n
    BY <1>1
  <2>3. PICK a \in Nat, m \in Nat : a = pieces[i].offset /\ m = pieces[i].length /\ b \in a + 1 .. a + m
    BY <1>4, <2>1, <2>2
  <2>4. PICK o \in 1 .. m : b = a + o
    <3>1. b - a \in 1 .. m /\ b = a + (b - a)
      BY <2>3
    <3> QED
      BY <3>1
  <2>5. s[ends[i - 1] + o] = parts[i][o]
    BY <1>3, <1>4, <1>9, <2>2, <2>3, <2>4 DEF Flattened
  <2>6. ends[i - 1] = a
    BY <1>7, <2>2, <2>3
  <2>7. PieceData(i)[o] = All[a + o]
    BY <2>3, <2>4, PieceDataIs
  <2> QED
    BY <1>4, <2>2, <2>4, <2>5, <2>6, <2>7
<1>14. s = All
  BY <1>10, <1>11, <1>12, <1>13, SameSeq
<1> QED
  BY <1>1, <1>2, <1>9, <1>14

LEMMA CutCovers ==
  ASSUME Laid, PiecesAreCut
  PROVE  PiecesCoverContent
BY OnlyItsOwn, Joins DEF PiecesCoverContent, All

--------------------------------------------------------------------------------
(* Trees within trees: a subtree of nothing but padding, a row of roots.    *)

(* What the recursive function of ZeroHash stands for.                      *)
Paired(depth, f) == [k \in 0 .. depth |-> IF k = 0 THEN <<0>> ELSE <<f[k - 1], f[k - 1]>>]

LEMMA PairedExists ==
  ASSUME NEW depth \in Nat
  PROVE  \E f : f = Paired(depth, f)
<1> DEFINE T == {m \in 0 .. depth : \E g : g = Paired(m, g)}
<1>1. 0 \in T
  <2>1. PICK g : g = [k \in 0 .. 0 |-> <<0>>]
    OBVIOUS
  <2>2. g = Paired(0, g)
    <3>1. \A k \in 0 .. 0 : k = 0
      OBVIOUS
    <3> QED
      BY <2>1, <3>1 DEF Paired
  <2> QED
    BY <2>2
<1>2. ASSUME NEW m \in 0 .. depth, m # 0, m - 1 \in T PROVE m \in T
  <2>1. PICK g : g = Paired(m - 1, g)
    BY <1>2
  <2>2. PICK f : f = [k \in 0 .. m |-> IF k = m THEN <<g[m - 1], g[m - 1]>> ELSE g[k]]
    OBVIOUS
  <2>3. f[m] = <<g[m - 1], g[m - 1]>> /\ \A k \in 0 .. m - 1 : f[k] = g[k]
    BY <1>2, <2>2
  <2>4. \A k \in 0 .. m - 1 : g[k] = IF k = 0 THEN <<0>> ELSE <<g[k - 1], g[k - 1]>>
    BY <2>1, Zenon DEF Paired
  <2>5. ASSUME NEW k \in 0 .. m PROVE f[k] = IF k = 0 THEN <<0>> ELSE <<f[k - 1], f[k - 1]>>
    <3>1. CASE k = m
      <4>1. m - 1 \in 0 .. m - 1
        BY <1>2
      <4> QED
        BY <1>2, <2>3, <3>1, <4>1
    <3>2. CASE k # m
      <4>1. k \in 0 .. m - 1 /\ (k # 0 => k - 1 \in 0 .. m - 1)
        BY <1>2, <3>2
      <4> QED
        BY <2>3, <2>4, <4>1
    <3> QED
      BY <3>1, <3>2
  <2>6. f = [k \in 0 .. m |-> f[k]]
    BY <2>2, Zenon
  <2>7. f = Paired(m, f)
    BY <2>5, <2>6, Zenon DEF Paired
  <2> QED
    BY <2>7
<1> HIDE DEF T
<1>3. depth \in T
  BY <1>1, <1>2, Induction
<1> QED
  BY <1>3 DEF T

LEMMA ZeroHashes ==
  ASSUME NEW depth \in Nat
  PROVE  \E f : f = Paired(depth, f) /\ \A k \in 0 .. depth : ZeroHash(k) = f[k]
<1>1. PICK f : f = Paired(depth, f)
  BY PairedExists
<1>2. ASSUME NEW k \in 0 .. depth PROVE ZeroHash(k) = f[k]
  <2>1. PICK g : g = (CHOOSE h : h = Paired(k, h)) /\ g = Paired(k, g)
    <3>1. k \in Nat
      OBVIOUS
    <3>2. \E h : h = Paired(k, h)
      BY <3>1, PairedExists
    <3> QED
      BY <3>2, Zenon
  <2>2. ZeroHash(k) = g[k]
    BY <2>1, Zenon DEF ZeroHash, Paired
  <2>3. \A j \in 0 .. k : g[j] = IF j = 0 THEN <<0>> ELSE <<g[j - 1], g[j - 1]>>
    BY <2>1, Zenon DEF Paired
  <2>4. \A j \in 0 .. depth : f[j] = IF j = 0 THEN <<0>> ELSE <<f[j - 1], f[j - 1]>>
    BY <1>1, Zenon DEF Paired
  <2> DEFINE T == {j \in 0 .. k : g[j] = f[j]}
  <2>0. k \in Nat /\ k <= depth
    OBVIOUS
  <2>5. 0 \in T
    <3>1. 0 \in 0 .. k /\ 0 \in 0 .. depth
      BY <2>0
    <3> QED
      BY <2>3, <2>4, <3>1
  <2>6. ASSUME NEW j \in 0 .. k, j # 0, j - 1 \in T PROVE j \in T
    <3>0. j \in 0 .. depth
      BY <2>0
    <3>1. g[j] = <<g[j - 1], g[j - 1]>> /\ f[j] = <<f[j - 1], f[j - 1]>>
      BY <2>3, <2>4, <2>6, <3>0, Zenon
    <3>2. g[j - 1] = f[j - 1]
      BY <2>6
    <3> QED
      BY <3>1, <3>2
  <2> HIDE DEF T
  <2>8. k \in T
    BY <2>0, <2>5, <2>6, Induction
  <2> QED
    BY <2>2, <2>8 DEF T
<1> QED
  BY <1>1, <1>2

LEMMA ZeroHashIs ==
  ASSUME NEW k \in Nat
  PROVE  ZeroHash(0) = <<0>> /\ ZeroHash(k + 1) = <<ZeroHash(k), ZeroHash(k)>>
<1>1. PICK f : f = Paired(k + 1, f) /\ \A j \in 0 .. k + 1 : ZeroHash(j) = f[j]
  <2>1. k + 1 \in Nat
    OBVIOUS
  <2> QED
    BY <2>1, ZeroHashes, Zenon
<1>2. \A j \in 0 .. k + 1 : f[j] = IF j = 0 THEN <<0>> ELSE <<f[j - 1], f[j - 1]>>
  BY <1>1, Zenon DEF Paired
<1>3. 0 \in 0 .. k + 1 /\ k + 1 \in 0 .. k + 1 /\ k \in 0 .. k + 1 /\ k + 1 # 0 /\ k + 1 - 1 = k
  OBVIOUS
<1>4. f[0] = <<0>>
  BY <1>2, <1>3, Zenon
<1>5. f[k + 1] = <<f[k], f[k]>>
  <2>1. PICK l \in 0 .. k + 1 : l = k + 1 /\ l # 0 /\ l - 1 = k
    BY <1>3
  <2>2. f[l] = <<f[l - 1], f[l - 1]>>
    BY <1>2, <2>1, Zenon
  <2> QED
    BY <2>1, <2>2, Zenon
<1>6. ZeroHash(0) = f[0] /\ ZeroHash(k + 1) = f[k + 1] /\ ZeroHash(k) = f[k]
  BY <1>1, <1>3, Zenon
<1> QED
  BY <1>3, <1>4, <1>5, <1>6

(* A tree of nothing but padding.                                           *)
LEMMA ZeroTree ==
  ASSUME NEW depth \in Nat, NEW leaves, NEW f, Tree(depth, leaves, f),
         \A i \in 1 .. Power(depth) : leaves[i] = ZeroHash(0)
  PROVE  f[depth][1] = ZeroHash(depth)
<1> DEFINE T == {k \in 0 .. depth : \A i \in 1 .. Power(depth - k) : f[k][i] = ZeroHash(k)}
<1>1. 0 \in T
  <2>1. depth - 0 = depth
    OBVIOUS
  <2> QED
    BY <2>1 DEF Tree
<1>2. ASSUME NEW k \in 0 .. depth, k # 0, k - 1 \in T PROVE k \in T
  <2>1. PICK l \in Nat : l = depth - k /\ depth - (k - 1) = l + 1
    OBVIOUS
  <2>2. PICK h \in Nat : h = Power(l) /\ Power(l + 1) = 2 * h
    BY <2>1, PowerIs
  <2>3. PICK m \in Nat : m = k - 1 /\ k = m + 1
    BY <1>2
  <2>4. ASSUME NEW i \in 1 .. h PROVE f[k][i] = ZeroHash(k)
    <3>1. f[k][i] = <<f[k - 1][2 * i - 1], f[k - 1][2 * i]>>
      BY <1>2, <2>1, <2>2, TreeRows
    <3>2. 2 * i - 1 \in 1 .. 2 * h /\ 2 * i \in 1 .. 2 * h
      OBVIOUS
    <3>3. f[m][2 * i - 1] = ZeroHash(m) /\ f[m][2 * i] = ZeroHash(m)
      BY <1>2, <2>1, <2>2, <2>3, <3>2
    <3>4. ZeroHash(m + 1) = <<ZeroHash(m), ZeroHash(m)>>
      BY ZeroHashIs
    <3> QED
      BY <2>3, <3>1, <3>3, <3>4
  <2> QED
    BY <2>1, <2>2, <2>4
<1> HIDE DEF T
<1>3. depth \in T
  BY <1>1, <1>2, Induction
<1>4. depth - depth = 0 /\ 1 \in 1 .. Power(0)
  BY PowerIs
<1> QED
  BY <1>3, <1>4 DEF T

(* Every tree has its rows, and they are no others.                         *)
LEMMA TreeExists ==
  ASSUME NEW depth \in Nat, NEW leaves, Rowed(Power(depth), leaves)
  PROVE  \E f : Tree(depth, leaves, f)
<1>1. PICK f : f = Rows(leaves, depth, f)
  BY RowsExist
<1>2. \A k \in 0 .. depth : f[k] = IF k = 0 THEN leaves ELSE Parents(f[k - 1])
  BY <1>1, Zenon DEF Rows
<1>3. f[0] = leaves /\ \A k \in 1 .. depth : f[k] = Parents(f[k - 1])
  BY <1>2
<1> QED
  BY <1>3 DEF Tree

LEMMA TreesAreOne ==
  ASSUME NEW depth \in Nat, NEW leaves, NEW f, NEW g, Tree(depth, leaves, f), Tree(depth, leaves, g)
  PROVE  f[depth] = g[depth]
<1> DEFINE T == {k \in 0 .. depth : f[k] = g[k]}
<1>1. 0 \in T
  BY DEF Tree
<1>2. ASSUME NEW k \in 0 .. depth, k # 0, k - 1 \in T PROVE k \in T
  <2>1. k \in 1 .. depth
    BY <1>2
  <2>2. f[k] = Parents(f[k - 1]) /\ g[k] = Parents(g[k - 1])
    BY <2>1 DEF Tree
  <2> QED
    BY <1>2, <2>2
<1> HIDE DEF T
<1>3. depth \in T
  BY <1>1, <1>2, Induction
<1> QED
  BY <1>3 DEF T

(* Where the tree above a part of the leaves is in the whole.               *)
LEMMA SubTree ==
  ASSUME NEW depth \in Nat, NEW leaves, NEW f, Tree(depth, leaves, f),
         NEW q \in 0 .. depth, NEW part, NEW g, Tree(q, part, g),
         NEW m \in Nat, m + 1 <= Power(depth - q),
         \A j \in 1 .. Power(q) : part[j] = leaves[m * Power(q) + j]
  PROVE  g[q][1] = f[q][m + 1]
<1>0. q \in Nat /\ depth - q \in Nat
  OBVIOUS
<1>1. PICK r \in Nat : r = Power(depth - q) /\ m + 1 <= r
  BY <1>0, PowerIs
<1> DEFINE T == {k \in 0 .. q : \A j \in 1 .. Power(q - k) : g[k][j] = f[k][m * Power(q - k) + j]}
<1>2. 0 \in T
  <2>1. q - 0 = q /\ 0 \in 0 .. q
    BY <1>0
  <2> QED
    BY <2>1 DEF Tree
<1>3. ASSUME NEW k \in 0 .. q, k # 0, k - 1 \in T PROVE k \in T
  <2>1. PICK l \in Nat : l = q - k /\ q - (k - 1) = l + 1
    BY <1>0
  <2>2. PICK h \in Nat \ {0} : h = Power(l) /\ Power(l + 1) = 2 * h
    BY <2>1, PowerIs
  <2>3. Power(depth - k) = r * h
    <3>1. depth - k = (depth - q) + l
      BY <1>0, <2>1
    <3> QED
      BY <1>0, <1>1, <2>1, <2>2, <3>1, PowerAdds
  <2>4. PICK at \in Nat : at = m * h /\ m * (2 * h) = 2 * at /\ at + h <= r * h
    <3>1. (m + 1) * h <= r * h /\ (m + 1) * h = m * h + h /\ m * h \in Nat /\ m * (2 * h) = 2 * (m * h)
      BY <1>1
    <3> QED
      BY <3>1
  <2>5. ASSUME NEW j \in 1 .. h PROVE g[k][j] = f[k][at + j]
    <3>1. k \in 0 .. depth
      BY <1>0
    <3>2. PICK room \in Nat : room = r * h /\ at + h <= room
      BY <1>1, <2>4
    <3>3. at + j \in 1 .. Power(depth - k)
      BY <2>3, <3>2
    <3>4. f[k][at + j] = <<f[k - 1][2 * (at + j) - 1], f[k - 1][2 * (at + j)]>>
      BY <1>3, <3>1, <3>3, TreeRows
    <3>5. g[k][j] = <<g[k - 1][2 * j - 1], g[k - 1][2 * j]>>
      BY <1>0, <1>3, <2>1, <2>2, TreeRows
    <3>6. \A i \in 1 .. 2 * h : g[k - 1][i] = f[k - 1][2 * at + i]
      BY <1>3, <2>1, <2>2, <2>4
    <3>7. 2 * j - 1 \in 1 .. 2 * h /\ 2 * j \in 1 .. 2 * h
          /\ 2 * at + (2 * j - 1) = 2 * (at + j) - 1 /\ 2 * at + 2 * j = 2 * (at + j)
      OBVIOUS
    <3>8. g[k - 1][2 * j - 1] = f[k - 1][2 * (at + j) - 1] /\ g[k - 1][2 * j] = f[k - 1][2 * (at + j)]
      BY <3>6, <3>7
    <3> QED
      BY <3>4, <3>5, <3>8
  <2> QED
    BY <2>1, <2>2, <2>4, <2>5
<1> HIDE DEF T
<1>4. q \in T
  BY <1>0, <1>2, <1>3, Induction
<1>5. q - q = 0 /\ Power(0) = 1 /\ 1 \in 1 .. 1 /\ m * 1 + 1 = m + 1
  BY <1>0, PowerIs
<1> QED
  BY <1>4, <1>5 DEF T

--------------------------------------------------------------------------------
(* What the parser accepts: a layer and the root above it.                  *)

(* A tree that is more than one piece is the tree of its piece layer.        *)
LEMMA DepthOfLayer ==
  ASSUME NEW n \in Nat, PieceLength < n, NEW q, q = PieceLayerDepth,
         NEW c, c = CeilDiv(n, PieceLength), NEW d, d = Depth(n)
  PROVE  /\ q \in Nat /\ d \in Nat /\ q \in 0 .. d /\ d - q \in Nat /\ c \in Nat \ {0}
         /\ c <= Power(d - q) /\ Depth(c) = d - q
<1>1. PICK p \in Nat \ {0} : p = PieceLength /\ p = Power(q) /\ q \in Nat
  BY LengthIs, LengthIsPower
<1>2. d \in Nat /\ n <= Power(d) /\ (d # 0 => Power(d - 1) < n) /\ Power(d) \in Nat
  BY DepthIs, PowerIs
<1>3. q < d
  <2> SUFFICES ASSUME ~ (q < d) PROVE FALSE
    OBVIOUS
  <2>1. Power(d) <= Power(q)
    BY <1>1, <1>2, PowerGrows
  <2> QED
    BY <1>1, <1>2, <2>1
<1>4. PICK e \in Nat : e = d - q /\ e # 0 /\ d = q + e /\ e - 1 \in Nat /\ d - 1 = q + (e - 1)
  BY <1>1, <1>2, <1>3
<1>5. PICK r \in Nat : r = Power(e) /\ Power(d) = p * r
  <2>1. PICK r \in Nat : r = Power(e)
    BY PowerIs
  <2>2. Power(q + e) = Power(q) * Power(e)
    BY <1>1, PowerAdds
  <2> QED
    BY <1>1, <1>4, <2>1, <2>2
<1>6. PICK h \in Nat : h = Power(e - 1) /\ Power(d - 1) = p * h
  <2>1. PICK h \in Nat : h = Power(e - 1)
    BY <1>4, PowerIs
  <2>2. Power(q + (e - 1)) = Power(q) * Power(e - 1)
    BY <1>1, <1>4, PowerAdds
  <2> QED
    BY <1>1, <1>4, <2>1, <2>2
<1>7. c \in Nat /\ \A k \in Nat : k + 1 <= c <=> k * PieceLength < n
  BY CeilIs
<1>8. c <= r
  <2>1. r * PieceLength = p * r
    BY <1>1
  <2>2. ~ (r * PieceLength < n)
    <3>1. PICK all \in Nat : all = p * r
      OBVIOUS
    <3> QED
      BY <1>2, <1>5, <2>1, <3>1
  <2> QED
    BY <1>7, <2>2
<1>9. h + 1 <= c
  <2>1. h * PieceLength = p * h
    BY <1>1
  <2>2. h * PieceLength < n
    BY <1>1, <1>2, <1>3, <1>6, <2>1
  <2> QED
    BY <1>7, <2>2
<1>10. Depth(c) = e
  <2>1. c <= Power(e) /\ (e # 0 => Power(e - 1) < c)
    BY <1>5, <1>6, <1>7, <1>8, <1>9
  <2> QED
    BY <1>7, <2>1, DepthIsOne
<1>11. c \in Nat \ {0}
  BY <1>6, <1>7, <1>9
<1>12. c <= Power(d - q) /\ Depth(c) = d - q
  BY <1>4, <1>5, <1>8, <1>10
<1>13. q \in Nat /\ d \in Nat /\ q \in 0 .. d /\ d - q \in Nat
  BY <1>1, <1>2, <1>3
<1> QED
  BY <1>11, <1>12, <1>13

(* The bytes of piece m + 1 of a file as leaves.                            *)
ChunkRow(m, data, row) ==
  /\ Rowed(PieceLength, row)
  /\ GroupRoot(Leaves(Chunks(data, PieceLength)[m + 1])) = MerkleRoot(row, 0)
  /\ \A j \in 1 .. PieceLength :
       row[j] = IF m * PieceLength + j <= Len(data) THEN <<data[m * PieceLength + j]>> ELSE ZeroHash(0)

LEMMA ChunkIsRow ==
  ASSUME NEW data \in Seq(Bytes), NEW m \in Nat, m + 1 <= CeilDiv(Len(data), PieceLength)
  PROVE  \E row : ChunkRow(m, data, row)
<1>1. PICK n \in Nat : n = Len(data)
  BY LenProperties
<1>2. PICK p \in Nat \ {0} : p = PieceLength
  BY LengthIs
<1>3. PICK at \in Nat : at = m * PieceLength /\ at < n
  BY <1>1, CeilIs, TimesIs
<1>4. PICK u \in Nat \ {0} : u = UpToLength(n - at) /\ at + u <= n /\ u <= p /\ (u # p => at + u = n)
  <2>1. UpToLength(n - at) = IF n - at < p THEN n - at ELSE p
    BY <1>2 DEF UpToLength
  <2> QED
    BY <1>1, <1>2, <1>3, <2>1
<1>5. PICK chunk : chunk = Chunks(data, PieceLength)[m + 1] /\ chunk = SubSeq(data, at + 1, at + u)
  BY <1>1, <1>3, <1>4, ChunkIs
<1>6. chunk \in Seq(Bytes) /\ Len(chunk) = u /\ \A k \in 1 .. u : chunk[k] = data[at + k]
  <2>1. at + u <= Len(data) /\ u \in Nat
    BY <1>1, <1>4
  <2>2. PICK from \in Nat, count \in Nat : from = at /\ count = u
    BY <1>3, <2>1
  <2>3. /\ SubSeq(data, from + 1, from + count) \in Seq(Bytes) /\ Len(SubSeq(data, from + 1, from + count)) = count
        /\ \A k \in 1 .. count : SubSeq(data, from + 1, from + count)[k] = data[from + k]
    BY <2>1, <2>2, Part
  <2> QED
    BY <1>5, <2>2, <2>3
<1>7. u \in 1 .. PieceLength
  BY <1>2, <1>4
<1>8. PICK row : GroupRow(u, chunk, row)
  BY <1>6, <1>7, GroupIs
<1>9. ASSUME NEW j \in 1 .. p PROVE row[j] = IF at + j <= n THEN <<data[at + j]>> ELSE ZeroHash(0)
  <2>1. CASE j <= u
    <3>1. j \in 1 .. u /\ at + j <= n
      BY <1>4, <2>1
    <3> QED
      BY <1>6, <1>8, <3>1 DEF GroupRow
  <2>2. CASE ~ (j <= u)
    <3>1. u < j /\ ~ (at + j <= n)
      BY <1>4, <2>2
    <3> QED
      BY <1>2, <1>8, <3>1 DEF GroupRow
  <2> QED
    BY <2>1, <2>2
<1>10. Rowed(PieceLength, row) /\ GroupRoot(Leaves(chunk)) = MerkleRoot(row, 0)
  BY <1>8 DEF GroupRow
<1> QED
  BY <1>1, <1>2, <1>3, <1>5, <1>9, <1>10 DEF ChunkRow

(* A root over a whole power of two of leaves is that of their tree.         *)
LEMMA WholeRoot ==
  ASSUME NEW q \in Nat, NEW row, Rowed(Power(q), row), NEW layer
  PROVE  \E g : Tree(q, row, g) /\ MerkleRoot(row, layer) = g[q][1]
<1>1. PICK p \in Nat \ {0} : p = Power(q) /\ Depth(p) = q
  BY PowerIs, DepthOfPower
<1>2. PICK leaves, g : RootOf(p, row, layer, leaves, g)
  BY <1>1, RootIs
<1>3. \A i \in 1 .. p : leaves[i] = row[i]
  BY <1>1, <1>2 DEF RootOf
<1>4. Tree(q, leaves, g) /\ MerkleRoot(row, layer) = g[q][1]
  BY <1>1, <1>2 DEF RootOf
<1>5. leaves = row
  <2>1. Rowed(p, leaves) /\ Rowed(p, row)
    BY <1>1, <1>4 DEF Tree
  <2> QED
    BY <1>3, <2>1, Zenon DEF Rowed
<1> QED
  BY <1>4, <1>5

LEMMA LayerIsRow ==
  ASSUME NEW data \in Seq(Bytes), NEW n, n = Len(data), PieceLength < n,
         NEW q, q = PieceLayerDepth, NEW d, d = Depth(n),
         NEW leaves, NEW f, RootOf(n, Leaves(data), 0, leaves, f),
         NEW m \in Nat, m + 1 <= Power(d - q)
  PROVE  f[q][m + 1] = IF m + 1 <= CeilDiv(n, PieceLength) THEN PieceLayer(data)[m + 1] ELSE ZeroHash(q)
<1>1. n \in Nat
  BY LenProperties
<1>2. PICK c \in Nat \ {0} : c = CeilDiv(n, PieceLength)
  BY <1>1, DepthOfLayer
<1>3. q \in Nat /\ d \in Nat /\ q \in 0 .. d /\ d - q \in Nat
  BY <1>1, DepthOfLayer
<1>4. PICK p \in Nat \ {0} : p = PieceLength /\ p = Power(q)
  BY LengthIs, LengthIsPower
<1>5. Tree(d, leaves, f) /\ \A i \in 1 .. Power(d) : leaves[i] = IF i <= n THEN Leaves(data)[i] ELSE ZeroHash(0)
  BY DEF RootOf
<1>6. \A i \in 1 .. n : Leaves(data)[i] = <<data[i]>>
  BY <1>1, LeavesTell
<1>7. PICK at \in Nat : at = m * p /\ at = m * PieceLength
  BY <1>4
<1>8. ASSUME NEW j \in 1 .. p
      PROVE  leaves[at + j] = IF at + j <= n THEN <<data[at + j]>> ELSE ZeroHash(0)
  <2>1. PICK r \in Nat : r = Power(d - q) /\ m + 1 <= r
    BY <1>3, PowerIs
  <2>2. Power(d) = r * p
    <3>1. (d - q) + q = d
      BY <1>3
    <3> QED
      BY SMTT(60), <1>3, <1>4, <2>1, <3>1, PowerAdds
  <2>3. (m + 1) * p <= r * p /\ (m + 1) * p = m * p + p
    BY <2>1
  <2>4. PICK all \in Nat : all = r * p /\ at + p <= all
    BY <1>7, <2>3
  <2>5. at + j \in 1 .. Power(d) /\ (at + j <= n => at + j \in 1 .. n)
    BY <1>1, <2>2, <2>4
  <2> QED
    BY <1>5, <1>6, <2>5
<1>9. ASSUME NEW row, NEW g, Tree(q, row, g),
             \A j \in 1 .. p : row[j] = IF at + j <= n THEN <<data[at + j]>> ELSE ZeroHash(0)
      PROVE  g[q][1] = f[q][m + 1]
  <2>1. \A j \in 1 .. Power(q) : row[j] = leaves[m * Power(q) + j]
    BY <1>4, <1>7, <1>8, <1>9
  <2> QED
    BY SMTT(60), <1>3, <1>5, <1>9, <2>1, SubTree
<1>10. CASE m + 1 <= c
  <2>0. PICK row : ChunkRow(m, data, row)
    BY <1>2, <1>10, ChunkIsRow
  <2>1. /\ Rowed(p, row) /\ GroupRoot(Leaves(Chunks(data, PieceLength)[m + 1])) = MerkleRoot(row, 0)
        /\ \A j \in 1 .. p : row[j] = IF at + j <= n THEN <<data[at + j]>> ELSE ZeroHash(0)
    BY <1>4, <1>7, <2>0 DEF ChunkRow
  <2>2. PICK g : Tree(q, row, g) /\ MerkleRoot(row, 0) = g[q][1]
    BY <1>3, <1>4, <2>1, WholeRoot
  <2>3. m + 1 \in 1 .. CeilDiv(Len(data), PieceLength)
    BY <1>2, <1>10
  <2>4. PieceLayer(data)[m + 1] = GroupRoot(Leaves(Chunks(data, PieceLength)[m + 1]))
    BY <2>3, PieceLayerIs
  <2> QED
    BY <1>2, <1>9, <1>10, <2>1, <2>2, <2>4
<1>11. CASE ~ (m + 1 <= c)
  <2>1. PICK row : row = [j \in 1 .. p |-> ZeroHash(0)]
    OBVIOUS
  <2>2. row = [j \in 1 .. p |-> row[j]] /\ \A j \in 1 .. p : row[j] = ZeroHash(0)
    BY <2>1, Zenon
  <2>3. PICK g : Tree(q, row, g)
    BY <1>3, <1>4, <2>2, TreeExists DEF Rowed
  <2>4. ~ (m * PieceLength < n)
    BY <1>1, <1>2, <1>11, CeilIs
  <2>5. \A j \in 1 .. p : ~ (at + j <= n)
    BY <1>1, <1>7, <2>4
  <2>6. g[q][1] = f[q][m + 1]
    BY <1>9, <2>2, <2>3, <2>5
  <2>7. g[q][1] = ZeroHash(q)
    BY <1>3, <1>4, <2>2, <2>3, ZeroTree
  <2> QED
    BY <1>2, <1>11, <2>6, <2>7
<1> QED
  BY <1>10, <1>11

(* The rows above one row are the rows of its tree.                         *)
LEMMA UpperTree ==
  ASSUME NEW d \in Nat, NEW leaves, NEW f, Tree(d, leaves, f), NEW q \in 0 .. d
  PROVE  \E g : Tree(d - q, f[q], g) /\ g[d - q] = f[d]
<1>1. PICK e \in Nat : e = d - q /\ q \in Nat /\ q + e = d
  OBVIOUS
<1>2. PICK g : g = [k \in 0 .. e |-> f[q + k]]
  OBVIOUS
<1>3. \A k \in 0 .. e : g[k] = f[q + k]
  BY <1>2
<1>4. g[0] = f[q] /\ g[e] = f[d]
  <2>1. 0 \in 0 .. e /\ e \in 0 .. e /\ q + 0 = q
    BY <1>1
  <2> QED
    BY <1>1, <1>3, <2>1
<1>5. ASSUME NEW k \in 1 .. e PROVE g[k] = Parents(g[k - 1])
  <2>1. k \in 0 .. e /\ k - 1 \in 0 .. e /\ q + k \in 1 .. d /\ q + (k - 1) = q + k - 1
    BY <1>1
  <2>2. f[q + k] = Parents(f[q + k - 1])
    BY <2>1 DEF Tree
  <2> QED
    BY <1>3, <2>1, <2>2
<1>6. Rowed(Power(e), f[q])
  BY <1>1, TreeRows
<1> QED
  BY <1>1, <1>4, <1>5, <1>6 DEF Tree

(* The layer the creator writes is the one the parser finds right.           *)
LEMMA LayerVerifies ==
  ASSUME NEW data \in Seq(Bytes), NEW n, n = Len(data), PieceLength < n
  PROVE  VerifyPieceLayer(FileRoot(data), PieceLayer(data), n)
<1>1. n \in Nat
  BY LenProperties
<1>2. PICK q, d, c : q = PieceLayerDepth /\ d = Depth(n) /\ c = CeilDiv(n, PieceLength)
  OBVIOUS
<1>3. /\ q \in Nat /\ d \in Nat /\ q \in 0 .. d /\ d - q \in Nat /\ c \in Nat \ {0}
      /\ c <= Power(d - q) /\ Depth(c) = d - q
  BY <1>1, <1>2, DepthOfLayer
<1>4. PICK p \in Nat \ {0} : p = PieceLength
  BY LengthIs
<1>5. n \in Nat \ {0} /\ Rowed(n, Leaves(data))
  BY <1>1, <1>4, LeavesTell
<1>6. PICK leaves, f : RootOf(n, Leaves(data), 0, leaves, f)
  BY <1>5, RootIs
<1>7. Tree(d, leaves, f) /\ FileRoot(data) = f[d][1]
  BY <1>2, <1>6 DEF RootOf, FileRoot
<1>8. PICK layer : layer = PieceLayer(data) /\ Rowed(c, layer) /\ Len(layer) = c
  BY <1>2, PieceLayerIs
<1>9. PICK upper, h : RootOf(c, layer, q, upper, h)
  BY <1>3, <1>8, RootIs
<1>10. Tree(d - q, upper, h) /\ MerkleRoot(layer, q) = h[d - q][1]
  BY <1>3, <1>9 DEF RootOf
<1>11. \A i \in 1 .. Power(d - q) : upper[i] = IF i <= c THEN layer[i] ELSE ZeroHash(q)
  BY <1>3, <1>9 DEF RootOf
<1>12. PICK r \in Nat : r = Power(d - q)
  BY <1>3, PowerIs
<1>13. ASSUME NEW i \in 1 .. r PROVE upper[i] = f[q][i]
  <2>1. PICK m \in Nat : m = i - 1 /\ i = m + 1
    BY <1>12
  <2>2. f[q][m + 1] = IF m + 1 <= CeilDiv(n, PieceLength) THEN PieceLayer(data)[m + 1] ELSE ZeroHash(q)
    BY <1>2, <1>6, <1>12, <2>1, LayerIsRow
  <2> QED
    BY <1>2, <1>8, <1>11, <1>12, <2>1, <2>2
<1>14. upper = f[q]
  <2>1. Rowed(r, upper)
    BY <1>10, <1>12 DEF Tree
  <2>2. Rowed(r, f[q])
    BY <1>3, <1>7, <1>12, TreeRows
  <2> QED
    BY <1>13, <2>1, <2>2, Zenon DEF Rowed
<1>15. PICK g : Tree(d - q, f[q], g) /\ g[d - q] = f[d]
  BY <1>3, <1>7, UpperTree
<1>16. h[d - q] = g[d - q]
  BY <1>3, <1>10, <1>14, <1>15, TreesAreOne
<1>17. MerkleRoot(layer, q) = FileRoot(data)
  BY <1>7, <1>10, <1>15, <1>16
<1> QED
  BY <1>1, <1>2, <1>4, <1>5, <1>8, <1>17 DEF VerifyPieceLayer

LEMMA RootIsSome ==
  ASSUME NEW data \in Seq(Bytes), Len(data) # 0
  PROVE  FileRoot(data) # << >>
<1>1. PICK n \in Nat \ {0} : n = Len(data)
  BY LenProperties
<1>2. PICK row : row = Leaves(data) /\ Rowed(n, row) /\ \A i \in 1 .. n : row[i] = <<data[i]>>
  BY <1>1, LeavesTell
<1>3. row[1] = <<data[1]>> /\ row[1] # << >>
  <2>1. 1 \in 1 .. n
    BY <1>1
  <2>2. row[1] = <<data[1]>>
    BY <1>2, <2>1
  <2>3. <<data[1]>> # << >>
    OBVIOUS
  <2> QED
    BY <2>2, <2>3, Zenon
<1>4. MerkleRoot(row, 0) # << >>
  BY <1>2, <1>3, RootTells
<1> QED
  BY <1>2, <1>4 DEF FileRoot

LEMMA AcceptedV2 ==
  ASSUME ContentInit, HasV2(generation), FilesLaid
  PROVE  V2Accepted(info)
<1>1. TreeIs
  BY TreeOfV2
<1>2. DOMAIN info.tree = Files
  BY <1>1 DEF TreeIs
<1>3. ASSUME NEW f \in Files
      PROVE  /\ (info.tree[f].length = 0) = (info.tree[f].root = << >>)
             /\ info.tree[f].length > PieceLength =>
                  VerifyPieceLayer(info.tree[f].root, info.tree[f].layer, info.tree[f].length)
  <2>1. PICK len \in Nat : len = layout[f] /\ info.tree[f].length = len
    BY <1>1, FileIs DEF TreeIs
  <2>2. PICK bytes \in Seq(Bytes) : bytes = FileBytes(layout, f) /\ Len(bytes) = len
    BY <2>1, FileIs, FileBytesIs
  <2>3. CASE len = 0
    <3>1. info.tree[f].root = << >>
      BY <1>1, <2>1, <2>3 DEF TreeIs
    <3> QED
      BY <2>1, <2>3, <3>1, LengthIs
  <2>4. CASE len # 0
    <3>1. info.tree[f].root = FileRoot(bytes)
      BY <1>1, <2>1, <2>2, <2>4 DEF TreeIs
    <3>2. FileRoot(bytes) # << >>
      BY <2>2, <2>4, RootIsSome
    <3>3. len > PieceLength => VerifyPieceLayer(info.tree[f].root, info.tree[f].layer, len)
      <4> SUFFICES ASSUME len > PieceLength PROVE VerifyPieceLayer(info.tree[f].root, info.tree[f].layer, len)
        OBVIOUS
      <4>1. info.tree[f].layer = PieceLayer(bytes)
        BY <1>1, <2>1, <2>2 DEF TreeIs
      <4>2. PieceLength < len
        BY LengthIs
      <4> QED
        BY <2>2, <3>1, <4>1, <4>2, LayerVerifies
    <3> QED
      BY <2>1, <2>4, <3>1, <3>2, <3>3
  <2> QED
    BY <2>3, <2>4
<1> QED
  BY <1>2, <1>3 DEF V2Accepted

--------------------------------------------------------------------------------
(* A layer that is asked for two by two.                                    *)

(* The roots of two files differ.                                           *)
LEMMA FirstLeaf ==
  ASSUME NEW d \in Nat, NEW e \in Nat, NEW x, NEW y, NEW a, NEW b, NEW f, NEW g,
         Tree(d, a, f), Tree(e, b, g), a[1] = <<x>>, b[1] = <<y>>, d <= e, f[d][1] = g[e][1]
  PROVE  x = y
<1>1. ASSUME NEW depth \in Nat, NEW leaves, NEW h, Tree(depth, leaves, h), NEW k \in 1 .. depth
      PROVE  h[k][1] = <<h[k - 1][1], h[k - 1][2]>>
  <2>1. k \in 0 .. depth /\ k # 0 /\ depth - k \in Nat
    OBVIOUS
  <2>2. 1 \in 1 .. Power(depth - k)
    BY <2>1, PowerIs
  <2>3. h[k][1] = <<h[k - 1][2 * 1 - 1], h[k - 1][2 * 1]>>
    BY <1>1, <2>1, <2>2, TreeRows
  <2> QED
    BY <2>3
<1> DEFINE T == {k \in 0 .. d : f[d - k][1] = g[e - k][1]}
<1>2. 0 \in T
  <2>1. d - 0 = d /\ e - 0 = e
    OBVIOUS
  <2> QED
    BY <2>1
<1>3. ASSUME NEW k \in 0 .. d, k # 0, k - 1 \in T PROVE k \in T
  <2>1. PICK i \in 1 .. d : i = d - (k - 1) /\ i - 1 = d - k
    BY <1>3
  <2>2. PICK j \in 1 .. e : j = e - (k - 1) /\ j - 1 = e - k
    BY <1>3
  <2>3. f[i][1] = g[j][1]
    BY <1>3, <2>1, <2>2
  <2>4. f[i][1] = <<f[i - 1][1], f[i - 1][2]>>
    BY <1>1
  <2>5. g[j][1] = <<g[j - 1][1], g[j - 1][2]>>
    BY <1>1
  <2>6. f[i - 1][1] = g[j - 1][1]
    <3>1. <<f[i - 1][1], f[i - 1][2]>> = <<g[j - 1][1], g[j - 1][2]>>
      BY <2>3, <2>4, <2>5, Zenon
    <3> QED
      BY <3>1
  <2> QED
    BY <2>1, <2>2, <2>6
<1> HIDE DEF T
<1>4. d \in T
  BY <1>2, <1>3, Induction
<1>5. f[0][1] = g[e - d][1]
  <2>1. d - d = 0
    OBVIOUS
  <2> QED
    BY <1>4, <2>1 DEF T
<1>6. g[e - d][1] = <<x>>
  BY <1>5 DEF Tree
<1>7. CASE e = d
  <2>1. e - d = 0
    BY <1>7
  <2>2. <<x>> = <<y>>
    BY <1>6, <2>1 DEF Tree
  <2> QED
    BY <2>2
<1>8. CASE e # d
  <2>1. PICK k \in 1 .. e : k = e - d
    BY <1>8
  <2>2. g[k][1] = <<g[k - 1][1], g[k - 1][2]>>
    BY <1>1
  <2>3. PICK u, v : g[k][1] = <<u, v>>
    BY <2>2
  <2>4. <<x>> # <<u, v>>
    <3>1. Len(<<x>>) = 1 /\ Len(<<u, v>>) = 2
      OBVIOUS
    <3> QED
      BY <3>1
  <2> QED
    BY <1>6, <2>1, <2>3, <2>4
<1> QED
  BY <1>7, <1>8

LEMMA RootsApart ==
  ASSUME FilesLaid, NEW f \in Files, NEW g \in Files, layout[f] # 0, layout[g] # 0,
         FileRoot(FileBytes(layout, f)) = FileRoot(FileBytes(layout, g))
  PROVE  f = g
<1>1. ASSUME NEW h \in Files, layout[h] # 0
      PROVE  \E d, leaves, t : /\ d \in Nat /\ Tree(d, leaves, t) /\ leaves[1] = <<<<h, 1>>>>
                               /\ FileRoot(FileBytes(layout, h)) = t[d][1]
  <2>1. PICK n \in Nat \ {0} : n = layout[h]
    BY <1>1, FileIs
  <2>2. PICK bytes \in Seq(Bytes) : /\ bytes = FileBytes(layout, h) /\ Len(bytes) = n
                                    /\ \A o \in 1 .. n : bytes[o] = <<h, o>>
    BY <2>1, FileIs, FileBytesIs
  <2>3. Rowed(n, Leaves(bytes)) /\ \A i \in 1 .. n : Leaves(bytes)[i] = <<bytes[i]>>
    BY <2>2, LeavesTell
  <2>4. PICK leaves, t : RootOf(n, Leaves(bytes), 0, leaves, t)
    BY <2>3, RootIs
  <2>5. Depth(n) \in Nat /\ 1 \in 1 .. Power(Depth(n)) /\ 1 <= n
    <3>1. PICK d \in Nat : d = Depth(n)
      BY DepthIs
    <3>2. PICK p \in Nat \ {0} : p = Power(d)
      BY <3>1, PowerIs
    <3>3. 1 \in 1 .. p /\ 1 <= n
      BY <2>1, <3>2
    <3> QED
      BY <3>1, <3>2, <3>3
  <2>6. leaves[1] = Leaves(bytes)[1]
    BY <2>4, <2>5 DEF RootOf
  <2>7. Leaves(bytes)[1] = <<bytes[1]>> /\ bytes[1] = <<h, 1>>
    BY <2>1, <2>2, <2>3
  <2> QED
    BY <2>2, <2>4, <2>5, <2>6, <2>7 DEF RootOf, FileRoot
<1>2. PICK d, a, s : /\ d \in Nat /\ Tree(d, a, s) /\ a[1] = <<<<f, 1>>>>
                     /\ FileRoot(FileBytes(layout, f)) = s[d][1]
  BY <1>1
<1>3. PICK e, b, t : /\ e \in Nat /\ Tree(e, b, t) /\ b[1] = <<<<g, 1>>>>
                     /\ FileRoot(FileBytes(layout, g)) = t[e][1]
  BY <1>1
<1>4. s[d][1] = t[e][1]
  BY <1>2, <1>3
<1>5. CASE d <= e
  <2>1. <<f, 1>> = <<g, 1>>
    BY <1>2, <1>3, <1>4, <1>5, FirstLeaf
  <2> QED
    BY <2>1
<1>6. CASE ~ (d <= e)
  <2>1. e <= d
    BY <1>2, <1>3, <1>6
  <2>2. <<g, 1>> = <<f, 1>>
    BY <1>2, <1>3, <1>4, <2>1, FirstLeaf
  <2> QED
    BY <2>2
<1> QED
  BY <1>5, <1>6

(* A sequence taken two by two is whole.                                    *)
Lesser(x, y) == IF x < y THEN x ELSE y
Pairs(S, layer, parts) ==
  /\ parts \in Seq(Seq(S)) /\ Len(parts) = CeilDiv(Len(layer), 2)
  /\ \A k \in 1 .. Len(parts) :
       /\ Len(parts[k]) = Lesser(2 * k, Len(layer)) - (2 * k - 2)
       /\ \A o \in 1 .. Len(parts[k]) : parts[k][o] = layer[2 * k - 2 + o]

LEMMA PairsJoin ==
  ASSUME NEW S, NEW layer \in Seq(S), NEW parts, Pairs(S, layer, parts)
  PROVE  FlattenSeq(parts) = layer
<1>1. PICK c \in Nat : c = Len(layer)
  BY LenProperties
<1>2. PICK n \in Nat : n = Len(parts) /\ n = (c + 1) \div 2 /\ (c = 2 * n \/ c = 2 * n - 1)
  <2>1. Len(parts) = (c + 2 - 1) \div 2
    BY <1>1 DEF Pairs, CeilDiv
  <2>2. c + 2 - 1 = c + 1 /\ (c + 1) \div 2 \in Nat
        /\ (c = 2 * ((c + 1) \div 2) \/ c = 2 * ((c + 1) \div 2) - 1)
    OBVIOUS
  <2> QED
    BY <2>1, <2>2
<1>3. PICK at : at = [k \in 0 .. n |-> Lesser(2 * k, c)]
  OBVIOUS
<1>4. at \in [0 .. n -> Nat] /\ at[0] = 0 /\ at[n] = c
  <2>1. \A k \in 0 .. n : Lesser(2 * k, c) \in Nat
    BY DEF Lesser
  <2>2. Lesser(2 * 0, c) = 0 /\ Lesser(2 * n, c) = c
    BY <1>2 DEF Lesser
  <2> QED
    BY <1>3, <2>1, <2>2
<1>5. ASSUME NEW k \in 1 .. n PROVE at[k - 1] = 2 * k - 2 /\ at[k] = Lesser(2 * k, c)
  <2>1. k - 1 \in 0 .. n /\ k \in 0 .. n
    OBVIOUS
  <2>2. 2 * (k - 1) = 2 * k - 2 /\ Lesser(2 * (k - 1), c) = 2 * (k - 1)
    BY <1>2 DEF Lesser
  <2> QED
    BY <1>3, <2>1, <2>2
<1>6. Sums(at, Len(parts), Lengths(parts))
  <2>1. ASSUME NEW k \in 1 .. n PROVE at[k] = at[k - 1] + Lengths(parts)[k]
    <3>1. Lengths(parts)[k] = Lesser(2 * k, c) - (2 * k - 2)
      BY <1>1, <1>2 DEF Lengths, Pairs
    <3>2. Lesser(2 * k, c) \in Nat
      BY DEF Lesser
    <3> QED
      BY <1>5, <3>1, <3>2
  <2> QED
    BY <1>2, <1>4, <2>1 DEF Sums
<1>7. PICK s : s = FlattenSeq(parts) /\ Flattened(S, parts, at, s)
  BY <1>6, FlattenedIs DEF Pairs
<1>8. s \in Seq(S) /\ Len(s) = c
  BY <1>2, <1>4, <1>7 DEF Flattened
<1>9. ASSUME NEW i \in 1 .. c PROVE s[i] = layer[i]
  <2>1. PICK k \in 1 .. n : i = 2 * k - 1 \/ i = 2 * k
    <3>1. (i + 1) \div 2 \in 1 .. n /\ (i = 2 * ((i + 1) \div 2) - 1 \/ i = 2 * ((i + 1) \div 2))
      BY <1>2
    <3> QED
      BY <3>1
  <2>2. PICK o \in Nat : o = i - (2 * k - 2) /\ i = 2 * k - 2 + o
    BY <2>1
  <2>3. Len(parts[k]) = Lesser(2 * k, c) - (2 * k - 2)
    BY <1>1, <1>2 DEF Pairs
  <2>4. o \in 1 .. Len(parts[k])
    <3>1. o \in 1 .. Lesser(2 * k, c) - (2 * k - 2)
      BY <2>1, <2>2 DEF Lesser
    <3> QED
      BY <2>3, <3>1
  <2>5. s[at[k - 1] + o] = parts[k][o]
    BY <1>2, <1>7, <2>4 DEF Flattened
  <2>6. parts[k][o] = layer[2 * k - 2 + o]
    BY <1>2, <2>4 DEF Pairs
  <2> QED
    BY <1>5, <2>2, <2>5, <2>6
<1>10. s = layer
  BY <1>1, <1>8, <1>9, SameSeq
<1> QED
  BY <1>7, <1>10

(* The answer of a peer that found the file.                                *)
ResponseOf(tree, root, file, index, length) ==
  LET count == CeilDiv(tree[file].length, PieceLength)
      layer == IF count = 1 THEN <<root>> ELSE tree[file].layer
      upTo == IF index + length < count THEN index + length ELSE count
      selected == SubSeq(layer, index + 1, upTo)
  IN selected \o [i \in 1 .. length - Len(selected) |-> ZeroHash(PieceLayerDepth)]

(* What a magnet download gets for its requests is the layer of its file.    *)
LEMMA FetchedIs ==
  ASSUME FilesLaid, TreeIs, NEW f \in Files, layout[f] > PieceLength
  PROVE  FetchedLayer(info.tree, f) = info.tree[f].layer
<1>1. PICK p \in Nat \ {0} : p = PieceLength
  BY LengthIs
<1>2. PICK len \in Nat : len = layout[f] /\ len > p /\ info.tree[f].length = len
  BY <1>1, FileIs DEF TreeIs
<1>3. PICK bytes \in Seq(Bytes) : bytes = FileBytes(layout, f) /\ Len(bytes) = len
  BY <1>2, FileIs, FileBytesIs
<1>4. info.tree[f].root = FileRoot(bytes) /\ info.tree[f].layer = PieceLayer(bytes)
  BY <1>1, <1>2, <1>3 DEF TreeIs
<1>5. PICK c \in Nat : c = CeilDiv(len, PieceLength) /\ 2 <= c
  <2>1. 1 * PieceLength < len
    BY <1>1, <1>2
  <2>2. 1 + 1 <= CeilDiv(len, PieceLength) /\ CeilDiv(len, PieceLength) \in Nat
    BY <2>1, CeilIs
  <2> QED
    BY <2>2
<1>6. PICK layer : /\ layer = PieceLayer(bytes) /\ Rowed(c, layer) /\ Len(layer) = c
  BY <1>3, <1>5, PieceLayerIs
<1>7. PICK S : layer \in Seq(S) /\ ZeroHash(PieceLayerDepth) \in S
  <2>1. PICK R : R = {layer[i] : i \in 1 .. c} \cup {ZeroHash(PieceLayerDepth)}
    OBVIOUS
  <2>2. layer \in [1 .. c -> R]
    BY <1>6, <2>1 DEF Rowed
  <2>3. layer \in Seq(R)
    BY <1>5, <2>2
  <2> QED
    BY <2>1, <2>3
<1>8. DOMAIN info.tree = Files
  BY DEF TreeIs
<1>9. f = CHOOSE g \in DOMAIN info.tree : info.tree[g].root = info.tree[f].root /\ info.tree[g].length > 0
  <2>1. ASSUME NEW g \in Files, info.tree[g].root = info.tree[f].root, info.tree[g].length > 0 PROVE g = f
    <3>1. layout[g] # 0 /\ layout[f] # 0
      BY <1>2, <2>1, FileIs DEF TreeIs
    <3>2. FileRoot(FileBytes(layout, g)) = FileRoot(FileBytes(layout, f))
      BY <2>1, <3>1 DEF TreeIs
    <3> QED
      BY <3>1, <3>2, RootsApart
  <2>2. info.tree[f].length > 0
    BY <1>2
  <2> QED
    BY <1>8, <2>1, <2>2
<1> DEFINE Upto(k) == IF 2 * k - 2 + 2 < c THEN 2 * k - 2 + 2 ELSE c
           Chosen(k) == SubSeq(layer, 2 * k - 2 + 1, Upto(k))
           Filler(k) == [i \in 1 .. 2 - Len(Chosen(k)) |-> ZeroHash(PieceLayerDepth)]
           Wanted(k) == IF c - (2 * k - 2) < 2 THEN 1 ELSE 2
<1>10. ASSUME NEW k PROVE HashResponse(info.tree, info.tree[f].root, 2 * k - 2, 2) = Chosen(k) \o Filler(k)
  <2>1. PICK root : root = info.tree[f].root
    OBVIOUS
  <2>2. PICK tree : tree = info.tree
    OBVIOUS
  <2>3. f = CHOOSE g \in DOMAIN tree : tree[g].root = root /\ tree[g].length > 0
    BY <1>9, <2>1, <2>2
  <2>4. CeilDiv(tree[f].length, PieceLength) = c /\ c # 1 /\ tree[f].layer = layer
    BY <1>2, <1>4, <1>5, <1>6, <2>2
  <2>5. HashResponse(tree, root, 2 * k - 2, 2) = ResponseOf(tree, root, f, 2 * k - 2, 2)
    <3>1. HashResponse(tree, root, 2 * k - 2, 2) =
            ResponseOf(tree, root, CHOOSE g \in DOMAIN tree : tree[g].root = root /\ tree[g].length > 0,
                       2 * k - 2, 2)
      BY DEF HashResponse, ResponseOf
    <3> QED
      BY <2>3, <3>1, Zenon
  <2>6. ResponseOf(tree, root, f, 2 * k - 2, 2) = Chosen(k) \o Filler(k)
    BY <2>4 DEF ResponseOf
  <2> QED
    BY <2>1, <2>2, <2>5, <2>6
<1>11. FetchedLayer(info.tree, f) =
         FlattenSeq([k \in 1 .. CeilDiv(c, 2) |-> SubSeq(Chosen(k) \o Filler(k), 1, Wanted(k))])
  BY <1>2, <1>5, <1>10 DEF FetchedLayer
<1>12. PICK n \in Nat : n = CeilDiv(c, 2) /\ (c = 2 * n \/ c = 2 * n - 1)
  <2>1. CeilDiv(c, 2) = (c + 2 - 1) \div 2
    BY DEF CeilDiv
  <2>2. c + 2 - 1 = c + 1 /\ (c + 1) \div 2 \in Nat
        /\ (c = 2 * ((c + 1) \div 2) \/ c = 2 * ((c + 1) \div 2) - 1)
    OBVIOUS
  <2> QED
    BY <2>1, <2>2
<1>13. ASSUME NEW k \in 1 .. n
       PROVE  /\ SubSeq(Chosen(k) \o Filler(k), 1, Wanted(k)) \in Seq(S)
              /\ Len(SubSeq(Chosen(k) \o Filler(k), 1, Wanted(k))) = Lesser(2 * k, c) - (2 * k - 2)
              /\ \A o \in 1 .. Lesser(2 * k, c) - (2 * k - 2) :
                   SubSeq(Chosen(k) \o Filler(k), 1, Wanted(k))[o] = layer[2 * k - 2 + o]
  <2>1. PICK from \in Nat : from = 2 * k - 2
    OBVIOUS
  <2>2. PICK u \in 1 .. 2 : u = Lesser(2 * k, c) - (2 * k - 2) /\ from + u = Upto(k) /\ u = Wanted(k) /\ from + u <= c
    BY <1>12, <2>1 DEF Lesser
  <2>3. PICK s \in Seq(S) : s = Chosen(k) /\ Len(s) = u /\ \A o \in 1 .. u : s[o] = layer[from + o]
    <3>1. Chosen(k) = SubSeq(layer, from + 1, from + u)
      BY <2>1, <2>2
    <3>2. u \in Nat /\ from + u <= Len(layer)
      BY <1>6, <2>2
    <3>3. PICK count \in Nat : count = u /\ from + count <= Len(layer)
      BY <3>2
    <3>4. /\ SubSeq(layer, from + 1, from + count) \in Seq(S)
          /\ Len(SubSeq(layer, from + 1, from + count)) = count
          /\ \A o \in 1 .. count : SubSeq(layer, from + 1, from + count)[o] = layer[from + o]
      <4>1. layer \in Seq(S)
        BY <1>7, Zenon
      <4>2. from \in Nat /\ count \in Nat /\ from + count <= Len(layer)
        BY <2>1, <3>3, Zenon
      <4>3. PartOf(S, layer, from, count, SubSeq(layer, from + 1, from + count))
        BY <4>1, <4>2, PartIs, Zenon
      <4> QED
        BY <4>3, Zenon DEF PartOf
    <3> QED
      BY <3>1, <3>3, <3>4, Zenon
  <2>4. PICK t \in Seq(S) : t = Filler(k)
    <3>1. PICK m \in Nat : m = 2 - Len(s)
      <4>1. Len(s) = u
        BY <2>3, Zenon
      <4>2. 2 - u \in Nat
        BY <2>2
      <4> QED
        BY <4>1, <4>2
    <3>2. PICK z : z = [i \in 1 .. m |-> ZeroHash(PieceLayerDepth)]
      OBVIOUS
    <3>3. z \in [1 .. m -> S]
      BY <1>7, <3>2
    <3>4. z \in Seq(S)
      BY <3>3
    <3> QED
      BY <2>3, <3>1, <3>2, <3>4
  <2> HIDE DEF Chosen, Filler
  <2>5. /\ s \o t \in Seq(S) /\ Len(s \o t) = Len(s) + Len(t)
        /\ \A o \in 1 .. Len(s) + Len(t) : (s \o t)[o] = IF o <= Len(s) THEN s[o] ELSE t[o - Len(s)]
    BY ConcatProperties
  <2>6. PICK pair \in Seq(S) : pair = s \o t /\ u <= Len(pair) /\ \A o \in 1 .. u : pair[o] = layer[from + o]
    <3>1. PICK m \in Nat : m = Len(t)
      BY LenProperties
    <3>2. \A o \in 1 .. u : o \in 1 .. Len(s) + Len(t) /\ o <= Len(s)
      BY <2>3, <3>1
    <3>3. u <= Len(s \o t)
      BY <2>3, <2>5, <3>1
    <3>4. \A o \in 1 .. u : (s \o t)[o] = s[o]
      BY <2>5, <3>2
    <3>5. \A o \in 1 .. u : (s \o t)[o] = layer[from + o]
      BY <2>3, <3>4, Zenon
    <3> QED
      BY <2>5, <3>3, <3>5, Zenon
  <2>7. /\ SubSeq(pair, 0 + 1, 0 + u) \in Seq(S) /\ Len(SubSeq(pair, 0 + 1, 0 + u)) = u
        /\ \A o \in 1 .. u : SubSeq(pair, 0 + 1, 0 + u)[o] = pair[0 + o]
    <3>1. u \in Nat /\ 0 + u <= Len(pair)
      BY <2>6
    <3> QED
      BY <3>1, Part
  <2>8. 0 + 1 = 1 /\ 0 + u = u /\ \A o \in 1 .. u : 0 + o = o
    OBVIOUS
  <2>9. PICK cut : cut = SubSeq(pair, 1, u) /\ cut \in Seq(S) /\ Len(cut) = u /\ \A o \in 1 .. u : cut[o] = pair[o]
    BY <2>7, <2>8
  <2>10. cut = SubSeq(Chosen(k) \o Filler(k), 1, Wanted(k))
    BY <2>2, <2>3, <2>4, <2>6, <2>9
  <2>11. \A o \in 1 .. u : cut[o] = layer[2 * k - 2 + o]
    BY <2>1, <2>6, <2>9
  <2>12. cut \in Seq(S) /\ Len(cut) = Lesser(2 * k, c) - (2 * k - 2)
         /\ \A o \in 1 .. Lesser(2 * k, c) - (2 * k - 2) : cut[o] = layer[2 * k - 2 + o]
    BY <2>2, <2>9, <2>11
  <2> QED
    BY <2>10, <2>12
<1>14. PICK parts : parts = [k \in 1 .. n |-> SubSeq(Chosen(k) \o Filler(k), 1, Wanted(k))]
  OBVIOUS
<1>15. \A k \in 1 .. n : parts[k] = SubSeq(Chosen(k) \o Filler(k), 1, Wanted(k))
  BY <1>14
<1>16. parts = [k \in 1 .. n |-> parts[k]]
  BY <1>14, Zenon
<1>17. FetchedLayer(info.tree, f) = FlattenSeq(parts)
  BY <1>11, <1>12, <1>14
<1> HIDE DEF Chosen, Filler, Wanted
<1>18. ASSUME NEW k \in 1 .. n
       PROVE  /\ parts[k] \in Seq(S) /\ Len(parts[k]) = Lesser(2 * k, c) - (2 * k - 2)
              /\ \A o \in 1 .. Len(parts[k]) : parts[k][o] = layer[2 * k - 2 + o]
  BY <1>13, <1>15, Zenon
<1>19. parts \in Seq(Seq(S)) /\ Len(parts) = n
  <2>1. parts \in [1 .. n -> Seq(S)]
    BY <1>16, <1>18
  <2> QED
    BY <2>1
<1>20. Pairs(S, layer, parts)
  BY <1>6, <1>12, <1>18, <1>19 DEF Pairs
<1>21. FlattenSeq(parts) = layer
  BY <1>7, <1>20, PairsJoin
<1> QED
  BY <1>4, <1>6, <1>17, <1>21

--------------------------------------------------------------------------------
(* What the parser accepts: the list and the stream of a hybrid torrent.    *)

LEMMA TimesMod ==
  ASSUME NEW a \in Nat
  PROVE  (a * PieceLength) % PieceLength = 0
<1>1. PICK p \in Nat \ {0} : p = PieceLength
  BY LengthIs
<1>2. PICK x \in Nat : x = a * PieceLength
  BY TimesIs
<1>3. PICK q \in Nat : \E r \in Nat : r < PieceLength /\ x = q * PieceLength + r /\ x % PieceLength = r
  BY DivMod
<1>4. PICK r \in Nat : r < PieceLength /\ x = q * PieceLength + r /\ x % PieceLength = r
  BY <1>3
<1>5. PICK y \in Nat : y = q * PieceLength /\ (q + 1) * PieceLength = y + p
  BY <1>1, TimesIs
<1>6. (a + 1) * PieceLength = x + p
  BY <1>1, <1>2, TimesIs
<1>7. ~ (q + 1 <= a)
  <2>1. ASSUME q + 1 <= a PROVE FALSE
    <3>1. y + p <= x
      BY <1>2, <1>5, <2>1, TimesGrow
    <3> QED
      BY <1>1, <1>4, <1>5, <3>1
  <2> QED
    BY <2>1
<1>8. ~ (a + 1 <= q)
  <2>1. ASSUME a + 1 <= q PROVE FALSE
    <3>1. x + p <= y
      BY <1>5, <1>6, <2>1, TimesGrow
    <3> QED
      BY <1>1, <1>4, <1>5, <3>1
  <2> QED
    BY <2>1
<1>9. x = y
  BY <1>2, <1>5, <1>7, <1>8
<1> QED
  BY <1>2, <1>4, <1>5, <1>9

LEMMA CeilAdds ==
  ASSUME NEW a \in Nat, NEW length \in Nat
  PROVE  CeilDiv(a * PieceLength + length, PieceLength) = a + CeilDiv(length, PieceLength)
<1>1. PICK q \in Nat : \E r \in Nat : r < PieceLength /\ length = q * PieceLength + r
  BY DivMod
<1>2. PICK r \in Nat : r < PieceLength /\ length = q * PieceLength + r
  BY <1>1
<1>3. PICK x \in Nat, y \in Nat : x = a * PieceLength /\ y = q * PieceLength
  BY TimesIs
<1>4. (a + q) * PieceLength = x + y
  BY <1>3, TimesAdd
<1>5. a * PieceLength + length = (a + q) * PieceLength + r
  BY <1>2, <1>3, <1>4
<1>6. CeilDiv(q * PieceLength + r, PieceLength) = IF r = 0 THEN q ELSE q + 1
  BY <1>2, CeilTimes
<1>7. CeilDiv((a + q) * PieceLength + r, PieceLength) = IF r = 0 THEN a + q ELSE a + q + 1
  <2>1. PICK m \in Nat : m = a + q
    OBVIOUS
  <2>2. CeilDiv(m * PieceLength + r, PieceLength) = IF r = 0 THEN m ELSE m + 1
    BY <1>2, CeilTimes
  <2> QED
    BY <2>1, <2>2
<1> QED
  BY <1>2, <1>5, <1>6, <1>7

LEMMA ChunksLength ==
  ASSUME NEW S, NEW s \in Seq(S)
  PROVE  Len(Chunks(s, PieceLength)) = CeilDiv(Len(s), PieceLength)
<1>1. Len(s) \in Nat
  BY LenProperties
<1>2. PICK c \in Nat : c = CeilDiv(Len(s), PieceLength)
  BY <1>1, CeilIs
<1>3. PICK chunks : chunks = Chunks(s, PieceLength)
  OBVIOUS
<1>4. Rowed(c, chunks)
  BY <1>2, <1>3, Zenon DEF Chunks, Rowed
<1> QED
  BY <1>2, <1>3, <1>4, FunctionIsSeq DEF Rowed

(* The real files of the list are the files of the layout.                  *)
LEMMA RealAre ==
  ASSUME NEW lengths \in Seq(Nat), NEW at, FilesSums(at, lengths), NEW list, HybridFiles(lengths, at, list)
  PROVE  /\ Len(RealFiles(list)) = Len(lengths) /\ LengthsOf(RealFiles(list)) = lengths
         /\ \A f \in 1 .. Len(lengths) : RealFiles(list)[f].length = lengths[f]
<1>1. PICK n \in Nat, last \in Nat : n = Len(lengths) /\ last = Len(list) /\ last = at[n] /\ list \in Seq(ListEntries)
  BY LenProperties DEF HybridFiles
<1>2. \A i \in 1 .. last : list[i] \in ListEntries
  BY <1>1, ElementOfSeq
<1>3. PICK rb : Sums(rb, last, Ones(list))
  BY <1>1, RealBeforeIs
<1>4. PICK parts : parts = [i \in 1 .. last |-> IF list[i].padding THEN << >> ELSE <<list[i]>>]
  OBVIOUS
<1>5. ASSUME NEW i \in 1 .. last
      PROVE  /\ parts[i] \in Seq(ListEntries) /\ Len(parts[i]) = Ones(list)[i]
             /\ ~ list[i].padding => 1 \in 1 .. Len(parts[i]) /\ parts[i][1] = list[i]
  <2>1. PICK entry \in ListEntries : entry = list[i]
    BY <1>2
  <2>2. Ones(list)[i] = IF list[i].padding THEN 0 ELSE 1
    BY <1>1 DEF Ones
  <2>3. CASE list[i].padding
    <3>1. parts[i] = << >>
      BY <1>4, <2>3
    <3> QED
      BY <2>2, <2>3, <3>1
  <2>4. CASE ~ list[i].padding
    <3>1. <<entry>> \in Seq(ListEntries) /\ Len(<<entry>>) = 1 /\ <<entry>>[1] = entry
      OBVIOUS
    <3>2. parts[i] = <<entry>>
      BY <1>4, <2>1, <2>4
    <3> QED
      BY <2>1, <2>2, <2>4, <3>1, <3>2
  <2> QED
    BY <2>3, <2>4
<1>6. parts \in Seq(Seq(ListEntries)) /\ Len(parts) = last
  <2>1. Rowed(last, parts)
    BY <1>4, Zenon DEF Rowed
  <2>2. parts \in [1 .. last -> Seq(ListEntries)]
    BY <1>5, <2>1 DEF Rowed
  <2> QED
    BY <2>2
<1>7. Sums(rb, Len(parts), Lengths(parts))
  <2>1. \A i \in 1 .. last : Lengths(parts)[i] = Ones(list)[i]
    BY <1>5, <1>6 DEF Lengths
  <2> QED
    BY <1>3, <1>6, <2>1 DEF Sums
<1>8. PICK real : real = FlattenSeq(parts) /\ Flattened(ListEntries, parts, rb, real)
  BY <1>6, <1>7, FlattenedIs
<1>9. RealFiles(list) = real
  BY <1>1, <1>4, <1>8 DEF RealFiles
<1>10. ASSUME NEW f \in 0 .. n PROVE rb[at[f]] = f
  <2>1. f \in 0 .. Len(lengths) /\ Sums(rb, Len(list), Ones(list))
    BY <1>1, <1>3
  <2> QED
    BY <2>1, RealUpTo
<1>11. real \in Seq(ListEntries) /\ Len(real) = n
  <2>1. n \in 0 .. n
    BY <1>1
  <2> QED
    BY <1>1, <1>6, <1>8, <1>10, <2>1 DEF Flattened
<1>12. ASSUME NEW f \in 1 .. n PROVE real[f].length = lengths[f]
  <2>1. PICK a \in Nat : a = at[f - 1]
    <3>1. f - 1 \in 0 .. n
      OBVIOUS
    <3> QED
      BY <1>1, <3>1 DEF FilesSums, Sums
  <2>2. 1 \in 1 .. EntriesOf(lengths)[f]
    <3>1. PICK e \in Nat : e = EntriesOf(lengths)[f] /\ 1 <= e
      BY SMTT(60), <1>1, PadOfIs
    <3> QED
      BY <3>1
  <2>3. EntryAt(lengths, at, list, f, 1, a + 1)
    BY <1>1, <2>1, <2>2, EntryAtIs
  <2>4. a + 1 \in 1 .. last /\ ~ list[a + 1].padding /\ list[a + 1].length = lengths[f]
    BY <1>1, <2>3 DEF EntryAt
  <2>5. real[rb[a + 1 - 1] + 1] = list[a + 1]
    <3>1. PICK i \in 1 .. last : i = a + 1
      BY <2>4
    <3>2. 1 \in 1 .. Len(parts[i]) /\ parts[i][1] = list[i]
      BY <1>5, <2>4, <3>1
    <3>3. i \in 1 .. Len(parts)
      BY <1>6
    <3>4. real[rb[i - 1] + 1] = parts[i][1]
      BY <1>8, <3>2, <3>3 DEF Flattened
    <3> QED
      BY <3>1, <3>2, <3>4
  <2>6. rb[a + 1 - 1] = f - 1
    <3>1. a + 1 - 1 = a /\ f - 1 \in 0 .. n
      BY <2>1
    <3> QED
      BY <1>10, <2>1, <3>1
  <2>7. f - 1 + 1 = f
    OBVIOUS
  <2> QED
    BY <2>4, <2>5, <2>6, <2>7
<1>13. PICK of : of = LengthsOf(real)
  OBVIOUS
<1>14. of = [f \in 1 .. n |-> real[f].length]
  BY <1>11, <1>13 DEF LengthsOf
<1>15. \A f \in 1 .. n : lengths[f] \in Nat
  BY <1>1, ElementOfSeq
<1>16. of \in [1 .. n -> Nat] /\ \A f \in 1 .. n : of[f] = lengths[f]
  BY <1>12, <1>14, <1>15
<1>17. of \in Seq(Nat) /\ Len(of) = n
  BY <1>16
<1>18. of = lengths
  BY <1>1, <1>16, <1>17, SameSeq
<1> QED
  BY <1>1, <1>9, <1>11, <1>12, <1>13, <1>18

LEMMA TreeLengths ==
  ASSUME layout \in Seq(Nat), TreeIs
  PROVE  LengthsOf(info.tree) = layout
<1>1. PICK n \in Nat : n = Len(layout) /\ Files = 1 .. n /\ \A f \in 1 .. n : layout[f] \in Nat
  BY LenProperties, ElementOfSeq DEF Files
<1>2. PICK tree : tree = info.tree /\ Rowed(n, tree) /\ \A g \in 1 .. n : tree[g].length = layout[g]
  BY <1>1 DEF TreeIs, Rowed
<1>3. Len(tree) = n
  BY <1>1, <1>2, FunctionIsSeq DEF Rowed
<1>4. PICK of : of = LengthsOf(tree)
  OBVIOUS
<1>5. of = [f \in 1 .. n |-> tree[f].length]
  BY <1>3, <1>4 DEF LengthsOf
<1>6. of \in [1 .. n -> Nat] /\ \A f \in 1 .. n : of[f] = layout[f]
  BY <1>1, <1>2, <1>5
<1>7. of \in Seq(Nat) /\ Len(of) = n
  BY <1>6
<1>8. of = layout
  BY <1>1, <1>6, <1>7, SameSeq
<1> QED
  BY <1>2, <1>4, <1>8

(* Where every entry of the list of a hybrid torrent is in the stream.       *)
ListLaid(at, sat, ls, list) ==
  /\ layout \in Seq(Nat) /\ FilesSums(at, layout) /\ HybridFiles(layout, at, list)
  /\ StreamSums(sat) /\ Sums(ls, Len(list), LengthsOf(list))

LEMMA ListLengths ==
  ASSUME NEW list \in Seq(ListEntries)
  PROVE  \A i \in 1 .. Len(list) : LengthsOf(list)[i] = list[i].length /\ list[i].length \in Nat
<1>1. \A i \in 1 .. Len(list) : list[i] \in ListEntries
  BY ElementOfSeq
<1> QED
  BY <1>1 DEF LengthsOf, ListEntries

LEMMA FileStarts ==
  ASSUME NEW at, NEW sat, NEW ls, NEW list, ListLaid(at, sat, ls, list), NEW f \in 0 .. Len(layout)
  PROVE  ls[at[f]] = sat[f]
<1>1. PICK n \in Nat, last \in Nat : n = Len(layout) /\ last = Len(list) /\ Files = 1 .. n
  BY LenProperties DEF ListLaid, HybridFiles, Files
<1>2. layout \in Seq(Nat) /\ FilesSums(at, layout) /\ HybridFiles(layout, at, list) /\ list \in Seq(ListEntries)
      /\ \A g \in 1 .. n : layout[g] \in Nat
  BY <1>1, ElementOfSeq DEF ListLaid, HybridFiles
<1>3. PICK T : T = {g \in 0 .. n : ls[at[g]] = sat[g]}
  OBVIOUS
<1>4. at \in [0 .. n -> Nat] /\ at[0] = 0 /\ \A g \in 1 .. n : at[g] = at[g - 1] + EntriesOf(layout)[g]
  BY <1>1, <1>2 DEF FilesSums, Sums
<1>5. sat \in [0 .. n -> Nat] /\ sat[0] = 0 /\ \A g \in 1 .. n : sat[g] = sat[g - 1] + PaddedLengths[g]
  BY <1>1 DEF ListLaid, StreamSums, Sums
<1>6. ls[0] = 0 /\ \A i \in 1 .. last : ls[i] = ls[i - 1] + list[i].length
  BY <1>1, <1>2, ListLengths DEF ListLaid, Sums
<1>7. 0 \in T
  BY <1>1, <1>3, <1>4, <1>5, <1>6
<1>8. ASSUME NEW g \in 0 .. n, g # 0, g - 1 \in T PROVE g \in T
  <2>1. g \in 1 .. n /\ g - 1 \in 0 .. n /\ ls[at[g - 1]] = sat[g - 1]
    BY <1>3, <1>8
  <2>2. PICK pad \in Nat : pad = PadOf(layout, g) /\ EntriesOf(layout)[g] = IF pad > 0 THEN 2 ELSE 1
    BY <1>1, <1>2, <2>1, PadOfIs
  <2>3. PICK a \in Nat : a = at[g - 1] /\ at[g] = a + IF pad > 0 THEN 2 ELSE 1
    BY <1>4, <2>1, <2>2
  <2>4. PICK len \in Nat, s \in Nat : len = layout[g] /\ s = sat[g - 1] /\ sat[g] = s + (len + pad)
    <3>1. layout[g] \in Nat /\ sat[g - 1] \in Nat
      BY <1>2, <1>5, <2>1
    <3>2. PaddedLengths[g] = layout[g] + pad
      BY <1>1, <2>1, <2>2 DEF PaddedLengths
    <3> QED
      BY <1>5, <2>1, <3>1, <3>2
  <2>5. 1 \in 1 .. EntriesOf(layout)[g] /\ (pad > 0 => 2 \in 1 .. EntriesOf(layout)[g])
    BY <2>2
  <2>6. EntryAt(layout, at, list, g, 1, a + 1)
    BY <1>1, <1>2, <2>1, <2>3, <2>5, EntryAtIs
  <2>7. a + 1 \in 1 .. last /\ list[a + 1].length = len
    BY <1>1, <2>4, <2>6 DEF EntryAt
  <2>8. ls[a + 1] = s + len
    <3>1. ls[a + 1] = ls[a + 1 - 1] + list[a + 1].length
      BY <1>6, <2>7
    <3>2. a + 1 - 1 = a
      OBVIOUS
    <3> QED
      BY <2>1, <2>3, <2>4, <2>7, <3>1, <3>2
  <2>9. CASE pad > 0
    <3>1. EntryAt(layout, at, list, g, 2, a + 2)
      BY <1>1, <1>2, <2>1, <2>3, <2>5, <2>9, EntryAtIs
    <3>2. a + 2 \in 1 .. last /\ list[a + 2].length = pad
      BY <1>1, <2>2, <3>1 DEF EntryAt
    <3>3. ls[a + 2] = ls[a + 2 - 1] + list[a + 2].length
      BY <1>6, <3>2
    <3>4. a + 2 - 1 = a + 1
      OBVIOUS
    <3>5. ls[a + 2] = s + (len + pad)
      <4>1. ls[a + 2] = ls[a + 1] + pad
        BY <3>2, <3>3, <3>4, Zenon
      <4> QED
        BY <2>2, <2>4, <2>8, <4>1
    <3>6. at[g] = a + 2 /\ sat[g] = s + (len + pad)
      BY <2>3, <2>4, <2>9
    <3> QED
      BY <1>3, <3>5, <3>6
  <2>10. CASE ~ (pad > 0)
    BY <1>3, <2>1, <2>3, <2>4, <2>8, <2>10
  <2> QED
    BY <2>9, <2>10
<1>9. 0 .. n \subseteq T
  BY <1>7, <1>8, Induction
<1> QED
  BY <1>1, <1>3, <1>9

LEMMA StreamBeforeIs ==
  ASSUME NEW list \in Seq(ListEntries), NEW ls, Sums(ls, Len(list), LengthsOf(list)),
         NEW a \in Nat, a + 1 \in 1 .. Len(list)
  PROVE  StreamBefore(list, a + 1) = ls[a]
<1>1. PICK last \in Nat : last = Len(list) /\ a + 1 \in 1 .. last
  BY LenProperties
<1>2. PICK part : part = SubSeq(list, 1, a)
  OBVIOUS
<1>3. part \in Seq(ListEntries) /\ Len(part) = a /\ \A g \in 1 .. a : part[g] = list[g]
  <2>1. 0 + a <= Len(list)
    BY <1>1
  <2>2. /\ SubSeq(list, 0 + 1, 0 + a) \in Seq(ListEntries) /\ Len(SubSeq(list, 0 + 1, 0 + a)) = a
        /\ \A g \in 1 .. a : SubSeq(list, 0 + 1, 0 + a)[g] = list[0 + g]
    BY <2>1, Part
  <2>3. 0 + 1 = 1 /\ 0 + a = a /\ \A g \in 1 .. a : 0 + g = g
    OBVIOUS
  <2> QED
    BY <1>2, <2>2, <2>3
<1>4. PICK of : of = LengthsOf(part)
  OBVIOUS
<1>5. of = [g \in 1 .. a |-> part[g].length]
  BY <1>3, <1>4 DEF LengthsOf
<1>6. \A g \in 1 .. a : part[g].length = LengthsOf(list)[g] /\ part[g].length \in Nat
  <2>1. \A g \in 1 .. a : g \in 1 .. last
    BY <1>1
  <2> QED
    BY <1>1, <1>3, <2>1, ListLengths
<1>7. of \in [1 .. a -> Nat] /\ \A g \in 1 .. a : of[g] = LengthsOf(list)[g]
  BY <1>5, <1>6
<1>8. of \in Seq(Nat) /\ Len(of) = a
  BY <1>7
<1>9. a \in 0 .. last /\ Sums(ls, last, LengthsOf(list))
  BY <1>1
<1>10. Total(of) = ls[a]
  BY <1>7, <1>8, <1>9, TotalUpTo
<1>11. a + 1 - 1 = a
  OBVIOUS
<1> QED
  BY <1>2, <1>4, <1>10, <1>11 DEF StreamBefore

EntrySound(list, i) ==
  /\ list[i].padding => list[i].length > 0 /\ RealBefore(list, i) > 0
  /\ ~ list[i].padding /\ RealBefore(list, i) > 1 => StreamBefore(list, i) % PieceLength = 0

LEMMA EntriesAreSound ==
  ASSUME NEW at, NEW sat, NEW ls, NEW list, ListLaid(at, sat, ls, list), NEW i \in 1 .. Len(list)
  PROVE  EntrySound(list, i)
<1>1. PICK n \in Nat, last \in Nat : n = Len(layout) /\ last = Len(list) /\ last = at[n] /\ Files = 1 .. n
  BY LenProperties DEF ListLaid, HybridFiles, Files
<1>2. layout \in Seq(Nat) /\ FilesSums(at, layout) /\ HybridFiles(layout, at, list) /\ list \in Seq(ListEntries)
  BY DEF ListLaid, HybridFiles
<1>3. PICK rb : Sums(rb, Len(list), Ones(list)) /\ \A j \in 0 .. Len(list) : RealBefore(list, j) = rb[j]
  BY <1>2, RealBeforeIs
<1>4. PICK f \in 1 .. Len(layout) : \E o \in 1 .. EntriesOf(layout)[f] : i = at[f - 1] + o
  <2>1. i \in 1 .. at[Len(layout)]
    BY <1>1
  <2> QED
    BY <1>2, <2>1, EntryPlaceIn, SMTT(60)
<1>5. PICK o \in 1 .. EntriesOf(layout)[f] : i = at[f - 1] + o
  BY <1>4
<1>6. EntryAt(layout, at, list, f, o, at[f - 1] + o)
  BY <1>2, EntryAtIs
<1>7. EntryAt(layout, at, list, f, o, i)
  BY <1>5, <1>6
<1>8. PICK pad \in Nat : pad = PadOf(layout, f)
  BY <1>2, PadOfIs
<1>9. CASE o = 1
  <2>1. ~ list[i].padding
    BY <1>7, <1>9 DEF EntryAt
  <2>2. PICK a \in Nat : a = at[f - 1] /\ i = a + 1
    <3>1. f - 1 \in 0 .. n
      BY <1>1
    <3>2. at[f - 1] \in Nat
      BY <1>1, <1>2, <3>1 DEF FilesSums, Sums
    <3> QED
      BY <1>5, <1>9, <3>2
  <2>3. StreamBefore(list, i) = ls[a]
    BY <1>2, <2>2, StreamBeforeIs DEF ListLaid
  <2>4. f - 1 \in 0 .. Len(layout) /\ f - 1 < Len(layout)
    BY <1>1
  <2>5. ls[a] = sat[f - 1]
    BY <2>2, <2>4, FileStarts
  <2>6. PICK mat : MapSums(mat)
    BY <1>2, CountsAre
  <2>7. sat[f - 1] = mat[f - 1] * PieceLength
    BY <1>2, <2>4, <2>6, StreamAtPieces DEF ListLaid
  <2>8. PICK m \in Nat : m = mat[f - 1]
    BY <2>4, <2>6 DEF MapSums, Sums
  <2>9. (m * PieceLength) % PieceLength = 0
    BY TimesMod
  <2>10. StreamBefore(list, i) % PieceLength = 0
    BY <2>3, <2>5, <2>7, <2>8, <2>9
  <2> QED
    BY <2>1, <2>10, Zenon DEF EntrySound
<1>10. CASE o # 1
  <2>1. list[i].padding /\ list[i].length = pad /\ pad > 0 /\ i = at[f]
    BY <1>7, <1>8, <1>10 DEF EntryAt
  <2>2. rb[at[f]] = f
    <3>1. f \in 0 .. Len(layout)
      BY <1>1
    <3> QED
      BY <1>2, <1>3, <3>1, RealUpTo
  <2>3. RealBefore(list, i) = f
    <3>1. i \in 0 .. Len(list)
      BY <1>1
    <3> QED
      BY <1>3, <2>1, <2>2, <3>1
  <2>4. list[i].length > 0 /\ RealBefore(list, i) > 0
    BY <1>1, <2>1, <2>3
  <2> QED
    BY <2>1, <2>4, Zenon DEF EntrySound
<1> QED
  BY <1>9, <1>10

(* The stream has as many pieces as the map.                                *)
LEMMA StreamHasItsPieces ==
  ASSUME layout \in Seq(Nat), NEW sat, StreamSums(sat), NEW mat, MapSums(mat)
  PROVE  CeilDiv(sat[Len(layout)], PieceLength) = mat[Len(layout)]
<1>1. PICK n \in Nat : n = Len(layout) /\ Files = 1 .. n /\ \A g \in 1 .. n : layout[g] \in Nat
  BY LenProperties, ElementOfSeq DEF Files
<1>2. sat \in [0 .. n -> Nat] /\ sat[0] = 0 /\ \A g \in 1 .. n : sat[g] = sat[g - 1] + PaddedLengths[g]
  BY <1>1 DEF StreamSums, Sums
<1>3. mat \in [0 .. n -> Nat] /\ mat[0] = 0 /\ \A g \in 1 .. n : mat[g] = mat[g - 1] + Counts[g]
  BY <1>1 DEF MapSums, Sums
<1>4. CASE n = 0
  <2>1. CeilDiv(0 * PieceLength + 0, PieceLength) = 0
    <3>1. 0 < PieceLength
      BY LengthIs
    <3> QED
      BY <3>1, CeilTimes
  <2>2. 0 * PieceLength + 0 = 0
    BY LengthIs
  <2> QED
    BY <1>1, <1>2, <1>3, <1>4, <2>1, <2>2
<1>5. CASE n # 0
  <2>1. n \in 1 .. n /\ n - 1 \in 0 .. n /\ n - 1 < n
    BY <1>5
  <2>2. PICK a \in Nat, length \in Nat : a = mat[n - 1] /\ length = layout[n]
    BY <1>1, <1>3, <2>1
  <2>3. PICK x \in Nat : x = a * PieceLength
    BY TimesIs
  <2>4. sat[n - 1] = x
    BY <1>1, <2>1, <2>2, <2>3, StreamAtPieces
  <2>5. PaddedLengths[n] = length
    <3>1. PadOf(layout, n) = 0
      BY <1>1 DEF PadOf
    <3> QED
      BY <1>1, <2>1, <2>2, <3>1 DEF PaddedLengths
  <2>6. sat[n] = a * PieceLength + length
    BY <1>2, <2>1, <2>3, <2>4, <2>5
  <2>7. CeilDiv(a * PieceLength + length, PieceLength) = a + CeilDiv(length, PieceLength)
    BY CeilAdds
  <2>8. mat[n] = a + CeilDiv(length, PieceLength)
    <3>1. Counts[n] = CeilDiv(length, PieceLength)
      BY <1>1, <2>1, <2>2, CountsAre
    <3> QED
      BY <1>3, <2>1, <2>2, <3>1
  <2> QED
    BY <1>1, <2>6, <2>7, <2>8
<1> QED
  BY <1>4, <1>5

--------------------------------------------------------------------------------
(* What the creator writes is accepted.                                     *)

LEMMA AcceptedV1 ==
  ASSUME ContentInit, FilesLaid, generation = "v1"
  PROVE  V1Accepted(info)
<1>1. layout \in Seq(Nat) /\ info = Metainfo(layout, "v1")
  BY ContentAssumption DEF ContentInit
<1>2. info.pieces = Chunks(All, PieceLength) /\ LengthsOf(info.files) = layout
  BY <1>1, StreamOfV1, FilesOfV1 DEF Metainfo, HasV1, All
<1>3. All \in Seq(Bytes) /\ Len(All) \in Nat /\ Total(layout) = Len(All)
  <2>1. PICK at : SumsOf(at, layout)
    BY LayoutSums
  <2>2. Len(All) = at[Len(layout)] /\ All \in Seq(Bytes)
    BY <1>1, <2>1, ContentIs DEF All
  <2>3. Total(layout) = at[Len(layout)]
    BY <1>1, <2>1, TotalIs DEF SumsOf
  <2> QED
    BY <2>2, <2>3, LenProperties
<1>4. Len(Chunks(All, PieceLength)) = CeilDiv(Len(All), PieceLength)
  BY <1>3, ChunksLength
<1> QED
  BY <1>2, <1>3, <1>4 DEF V1Accepted

(* What is known of the list, the stream and the map of a hybrid torrent.     *)
HybridParts(at, sat, ls, mat, list, stream) ==
  /\ info.files = list /\ info.pieces = Chunks(stream, PieceLength) /\ TreeIs
  /\ ListLaid(at, sat, ls, list) /\ StreamOf(sat, stream) /\ MapSums(mat)

LEMMA HybridIs ==
  ASSUME ContentInit, FilesLaid, generation = "hybrid"
  PROVE  \E at, sat, ls, mat, list, stream : HybridParts(at, sat, ls, mat, list, stream)
<1>1. layout \in Seq(Nat) /\ info = Metainfo(layout, "hybrid") /\ TreeIs
  BY ContentAssumption, TreeOfV2 DEF ContentInit, HasV2
<1>2. PICK n \in Nat : n = Len(layout) /\ Files = 1 .. n /\ \A g \in 1 .. n : layout[g] \in Nat
  BY <1>1, LenProperties, ElementOfSeq DEF Files
<1>3. \A g \in 1 .. n : PadOf(layout, g) \in Nat /\ EntriesOf(layout)[g] \in Nat
  BY <1>1, <1>2, PadOfIs
<1>4. PICK list, stream : list = V1Files(layout, "hybrid") /\ stream = V1Stream(layout, "hybrid")
  OBVIOUS
<1>5. info.files = list /\ info.pieces = Chunks(stream, PieceLength)
  BY <1>1, <1>4 DEF Metainfo, HasV1
<1>6. PICK at : FilesSums(at, layout)
  <2>1. PICK length : length = EntriesOf(layout)
    OBVIOUS
  <2>2. \A g \in 1 .. n : length[g] \in Nat
    BY <1>3, <2>1
  <2>3. PICK at : Sums(at, n, length)
    BY <2>2, SumsExist
  <2> QED
    BY <1>2, <2>1, <2>3 DEF FilesSums
<1>7. HybridFiles(layout, at, list)
  BY <1>1, <1>4, <1>6, FilesOfHybrid
<1>8. PICK sat : StreamSums(sat)
  <2>1. \A g \in 1 .. n : PaddedLengths[g] \in Nat
    BY <1>2, <1>3 DEF PaddedLengths
  <2>2. PICK sat : Sums(sat, n, PaddedLengths)
    BY <2>1, SumsExist
  <2> QED
    BY <1>2, <2>2 DEF StreamSums
<1>9. StreamOf(sat, stream)
  BY <1>1, <1>4, <1>8, StreamIs
<1>10. PICK ls : Sums(ls, Len(list), LengthsOf(list))
  <2>1. PICK last \in Nat : last = Len(list) /\ list \in Seq(ListEntries)
    BY <1>7, LenProperties DEF HybridFiles
  <2>2. PICK length : length = LengthsOf(list)
    OBVIOUS
  <2>3. \A i \in 1 .. last : length[i] \in Nat
    BY <2>1, <2>2, ListLengths
  <2>4. PICK ls : Sums(ls, last, length)
    BY <2>1, <2>3, SumsExist
  <2> QED
    BY <2>1, <2>2, <2>4
<1>11. PICK mat : MapSums(mat)
  BY <1>1, CountsAre
<1>12. ListLaid(at, sat, ls, list)
  BY <1>1, <1>6, <1>7, <1>8, <1>10 DEF ListLaid
<1> QED
  BY <1>1, <1>5, <1>9, <1>11, <1>12 DEF HybridParts

LEMMA ListIsAsLong ==
  ASSUME NEW at, NEW sat, NEW ls, NEW list, ListLaid(at, sat, ls, list)
  PROVE  Total(LengthsOf(list)) = sat[Len(layout)]
<1>1. PICK n \in Nat, last \in Nat : n = Len(layout) /\ last = Len(list) /\ last = at[n] /\ list \in Seq(ListEntries)
  BY LenProperties DEF ListLaid, HybridFiles
<1>2. PICK of : of = LengthsOf(list)
  OBVIOUS
<1>3. of \in Seq(Nat) /\ Len(of) = last
  <2>1. Rowed(last, of)
    BY <1>1, <1>2, Zenon DEF LengthsOf, Rowed
  <2>2. \A i \in 1 .. last : of[i] \in Nat
    BY <1>1, <1>2, ListLengths
  <2>3. of \in [1 .. last -> Nat]
    BY <2>1, <2>2 DEF Rowed
  <2> QED
    BY <2>3
<1>4. Sums(ls, Len(of), of)
  BY <1>1, <1>2, <1>3 DEF ListLaid
<1>5. Total(of) = ls[Len(of)]
  BY <1>3, <1>4, TotalIs
<1>6. ls[at[n]] = sat[n]
  <2>1. n \in 0 .. Len(layout)
    BY <1>1
  <2> QED
    BY <1>1, <2>1, FileStarts
<1> QED
  BY <1>1, <1>2, <1>3, <1>5, <1>6

LEMMA AcceptedHybrid ==
  ASSUME ContentInit, FilesLaid, generation = "hybrid"
  PROVE  V1Accepted(info) /\ HybridAccepted(info)
<1>1. PICK at, sat, ls, mat, list, stream : HybridParts(at, sat, ls, mat, list, stream)
  BY HybridIs
<1>2. /\ info.files = list /\ info.pieces = Chunks(stream, PieceLength) /\ TreeIs
      /\ ListLaid(at, sat, ls, list) /\ StreamOf(sat, stream) /\ MapSums(mat)
  BY <1>1 DEF HybridParts
<1>3. layout \in Seq(Nat) /\ FilesSums(at, layout) /\ HybridFiles(layout, at, list) /\ StreamSums(sat)
  BY <1>2 DEF ListLaid
<1>4. PICK n \in Nat : n = Len(layout) /\ Files = 1 .. n
  BY <1>3, LenProperties DEF Files
<1>5. stream \in Seq(Bytes) /\ Len(stream) = sat[n]
  BY <1>2, <1>4 DEF StreamOf
<1>6. Len(info.pieces) = CeilDiv(sat[n], PieceLength)
  BY <1>2, <1>5, ChunksLength
<1>7. V1Accepted(info)
  <2>1. Total(LengthsOf(list)) = sat[n]
    BY <1>2, <1>4, ListIsAsLong
  <2> QED
    BY <1>2, <1>6, <2>1 DEF V1Accepted
<1>8. Len(info.pieces) = Len(PieceMap(info.tree))
  <2>1. CeilDiv(sat[n], PieceLength) = mat[n]
    BY <1>2, <1>3, <1>4, StreamHasItsPieces
  <2>2. Len(PieceMap(info.tree)) = mat[n]
    BY <1>2, <1>4, MapIs
  <2> QED
    BY <1>6, <2>1, <2>2
<1>9. PICK real : real = RealFiles(list)
  OBVIOUS
<1>10. Len(real) = n /\ LengthsOf(real) = layout /\ \A f \in 1 .. n : real[f].length = layout[f]
  BY <1>3, <1>4, <1>9, RealAre
<1>11. LengthsOf(real) = LengthsOf(info.tree)
  BY <1>2, <1>3, <1>10, TreeLengths
<1>12. ASSUME NEW m \in 1 .. Len(real) - 1 PROVE PaddingAfter(list, m) = PadTo(real[m].length)
  <2>1. m \in Files /\ m < Len(layout) /\ m \in 1 .. n
    BY <1>4, <1>10
  <2>2. PaddingAfter(list, m) = PadOf(layout, m)
    BY <1>2, <2>1, PaddingAfterFile
  <2>3. PadOf(layout, m) = PadTo(layout[m])
    BY <2>1 DEF PadOf
  <2> QED
    BY <1>10, <2>1, <2>2, <2>3
<1>13. ASSUME NEW i \in DOMAIN list PROVE EntrySound(list, i)
  <2>1. list \in Seq(ListEntries)
    BY <1>3 DEF HybridFiles
  <2>2. i \in 1 .. Len(list)
    BY <2>1, LenProperties
  <2> QED
    BY <1>2, <2>2, EntriesAreSound
<1>14. HybridAccepted(info)
  BY <1>2, <1>8, <1>9, <1>11, <1>12, <1>13, Zenon DEF HybridAccepted, EntrySound
<1> QED
  BY <1>7, <1>14

(* What the creator writes is accepted, and so are the layers served for it. *)
LEMMA CreatedAccepted ==
  ASSUME ContentInit, FilesLaid
  PROVE  CreatedIsAccepted
<1>1. generation \in {"v1", "v2", "hybrid"}
  BY DEF ContentInit, Generations
<1>2. HasV1(generation) => V1Accepted(info)
  BY <1>1, AcceptedV1, AcceptedHybrid DEF HasV1
<1>3. HasV2(generation) => V2Accepted(info)
  BY AcceptedV2
<1>4. generation = "hybrid" => HybridAccepted(info)
  BY AcceptedHybrid
<1>5. ASSUME NEW f \in DOMAIN info.tree, info.tree[f].length > PieceLength
      PROVE  FetchedLayer(info.tree, f) = info.tree[f].layer
  <2>1. CASE HasV2(generation)
    <3>1. TreeIs
      BY <2>1, TreeOfV2
    <3>2. f \in Files /\ info.tree[f].length = layout[f]
      BY <3>1 DEF TreeIs
    <3> QED
      BY <1>5, <3>1, <3>2, FetchedIs
  <2>2. CASE ~ HasV2(generation)
    <3>1. info.tree = << >>
      BY <2>2 DEF ContentInit, Metainfo
    <3>2. DOMAIN << >> = {}
      OBVIOUS
    <3> QED
      BY <3>1, <3>2
  <2> QED
    BY <2>1, <2>2
<1> QED
  BY <1>2, <1>3, <1>4, <1>5 DEF CreatedIsAccepted, Accepted

--------------------------------------------------------------------------------
(* The invariant of the payload: where the files, the pieces and the padding *)
(* are never changes, and what is complete is kept.                          *)
PayloadInv == CreatedIsAccepted /\ PiecesAreCut /\ ContentInv

LEMMA CutStays ==
  ASSUME PiecesAreCut, Laid, UNCHANGED torrentVars
  PROVE  PiecesAreCut'
<1>1. layout' = layout /\ pieces' = pieces
  BY DEF torrentVars
<1>2. Laid'
  BY LaidStays
<1>3. PiecesReach'
  BY <1>1 DEF PiecesAreCut, PiecesReach, All
<1>4. (pieces \in Seq({pieces[i] : i \in DOMAIN pieces}))'
  BY <1>1 DEF PiecesAreCut
<1> QED
  BY <1>2, <1>3, <1>4 DEF PiecesAreCut, Laid

LEMMA AcceptedStays == ASSUME CreatedIsAccepted, UNCHANGED torrentVars PROVE CreatedIsAccepted'
<1>1. info' = info /\ generation' = generation
  BY DEF torrentVars
<1> QED
  BY <1>1, Zenon DEF CreatedIsAccepted, Accepted

LEMMA TorrentStays == [ContentNext]_contentVars => UNCHANGED torrentVars
BY Zenon DEF ContentNext, contentVars, PrepareStorage, WriteSegment, EndWrite, BreakOff, BeginWrite, Damage

LEMMA PayloadInvInit == ContentInit => PayloadInv
<1> SUFFICES ASSUME ContentInit PROVE PayloadInv
  OBVIOUS
<1>1. FilesLaid /\ PiecesAreCut
  BY PiecesAreCutAtFirst
<1>2. Laid
  BY <1>1 DEF PiecesAreCut, Laid
<1>3. HeldInv
  BY <1>2, HeldAtFirst
<1>4. CreatedIsAccepted
  BY <1>1, CreatedAccepted
<1> QED
  BY <1>1, <1>2, <1>3, <1>4 DEF PayloadInv, ContentInv

LEMMA PayloadInvNext == PayloadInv /\ [ContentNext]_contentVars => PayloadInv'
<1> SUFFICES ASSUME PayloadInv, [ContentNext]_contentVars PROVE PayloadInv'
  OBVIOUS
<1>1. ContentInv'
  BY ContentStep DEF PayloadInv
<1>2. PiecesAreCut'
  BY TorrentStays, CutStays DEF PayloadInv, ContentInv
<1>3. CreatedIsAccepted'
  BY TorrentStays, AcceptedStays DEF PayloadInv
<1> QED
  BY <1>1, <1>2, <1>3 DEF PayloadInv

LEMMA PayloadInvSound == PayloadInv => ContentSound
<1> SUFFICES ASSUME PayloadInv PROVE ContentSound
  OBVIOUS
<1>1. PiecesCoverContent
  BY CutCovers DEF PayloadInv, ContentInv
<1>2. FilesHoldTheirOwn
  BY DEF PayloadInv, ContentInv, HeldInv
<1>3. CompleteIsOnDisk
  BY HeldOnDisk DEF PayloadInv
<1>4. ServedIsHashed
  BY HeldServed DEF PayloadInv
<1>5. CreatedIsAccepted
  BY DEF PayloadInv
<1> QED
  BY <1>1, <1>2, <1>3, <1>4, <1>5 DEF ContentSound

LEMMA PayloadInvTypes == PayloadInv => ContentTypeOK
BY HeldTypes DEF PayloadInv

(* Whatever the lengths of the files, the generation of the torrent and the  *)
(* power of two it is cut by, the parser accepts what the creator writes, a  *)
(* magnet download is served the piece layers it asks for, the pieces cover  *)
(* the content and each verifies its own bytes alone; whatever crashes and   *)
(* damages there are, files hold nothing but their own bytes, a check finds  *)
(* exactly the pieces that are wholly there, and uploads send what the       *)
(* creator hashed (create, _load_and_parse, _fetch_v2_piece_layers,          *)
(* _write_range, prepare_storage, read_block).                               *)
THEOREM ContentIsSound == ContentSpec => []ContentSound
BY PayloadInvInit, PayloadInvNext, PayloadInvSound, PTL DEF ContentSpec

(* The types of the payload.                                                *)
THEOREM ContentTypesHold == ContentSpec => []ContentTypeOK
BY PayloadInvInit, PayloadInvNext, PayloadInvTypes, PTL DEF ContentSpec
================================================================================
