----------------------------- MODULE Rom_proofs -----------------------------
(***************************************************************************)
(* Proofs about what the ROM computes: the functions on words are right    *)
(* for every word of 32 bits, the checksum is the remainder for every      *)
(* message, and a host finds its files on the disk whatever page the       *)
(* generator was given, because the decompression inverts the compression  *)
(* of every text.                                                          *)
(*                                                                         *)
(* The loops of the code are recursive functions.  What holds of their     *)
(* every turn is shown by the least turn at which it would not (Least); a  *)
(* function with such a recursion exists because its first turns do        *)
(* (LoopExists).                                                           *)
(***************************************************************************)
EXTENDS Rom, FiniteSetTheorems, SequenceTheorems, WellFoundedInduction, TLAPS

-----------------------------------------------------------------------------
(* Loops. *)

\* A set of numbers that is not empty has a least one.
LEMMA Least ==
    ASSUME NEW T, T \subseteq Nat, T # {}
    PROVE  \E n \in T : \A m \in T : n <= m
<1> DEFINE R == {ss \in Nat \X Nat : ss[1] < ss[2]}
<1>1. IsWellFoundedOn(R, Nat)
  BY NatLessThanWellFounded DEF OpToRel
<1> HIDE DEF R
<1>2. PICK n \in T : \A m \in T : <<m, n>> \notin R
  BY <1>1, WFMin
<1>3. \A m \in T : ~(m < n)
  BY <1>2 DEF R
<1>. QED
  BY <1>3

\* n turns of a loop from a, where G[i] is its i-th turn.
Loops(n, S, a, G) ==
    \E f \in [0..n -> S] : f[0] = a /\ \A i \in 1..n : f[i] = G[i][f[i - 1]]

\* n turns of a loop can always be made, so a recursion over them is a function.
LEMMA LoopExists ==
    ASSUME NEW n \in Nat, NEW S, NEW a \in S, NEW G \in [Nat -> [S -> S]]
    PROVE  Loops(n, S, a, G)
<1> DEFINE Bad == {k \in Nat : ~Loops(k, S, a, G)}
<1>1. SUFFICES ASSUME Bad # {} PROVE FALSE
  OBVIOUS
<1>2. PICK k \in Bad : \A m \in Bad : k <= m
  <2>1. Bad \subseteq Nat
    OBVIOUS
  <2>. QED
    BY <1>1, <2>1, Least
<1>3. k # 0
  <2>1. Loops(0, S, a, G)
    <3>1. [i \in 0..0 |-> a] \in [0..0 -> S]
      OBVIOUS
    <3>2. [i \in 0..0 |-> a][0] = a /\ 1..0 = {}
      OBVIOUS
    <3>. QED
      BY <3>1, <3>2, Zenon DEF Loops
  <2>. QED
    BY <2>1
<1>4. k - 1 \in Nat /\ k - 1 \notin Bad
  <2>1. k - 1 \in Nat /\ ~(k <= k - 1)
    BY <1>3
  <2> HIDE DEF Bad
  <2>. QED
    BY <1>2, <2>1
<1>5. PICK f \in [0..(k - 1) -> S] : f[0] = a /\ \A i \in 1..(k - 1) : f[i] = G[i][f[i - 1]]
  BY <1>4 DEF Loops
<1> DEFINE g == [i \in 0..k |-> IF i = k THEN G[k][f[k - 1]] ELSE f[i]]
<1>6. g \in [0..k -> S]
  <2>1. f[k - 1] \in S /\ G[k] \in [S -> S]
    BY <1>4
  <2>2. \A i \in 0..k : i # k => i \in 0..(k - 1)
    BY <1>4
  <2>. QED
    BY <2>1, <2>2
<1>7. g[0] = a
  BY <1>3, <1>4, <1>5
<1>8. ASSUME NEW i \in 1..k PROVE g[i] = G[i][g[i - 1]]
  <2>1. i - 1 \in 0..k /\ i - 1 # k /\ i \in 0..k
    OBVIOUS
  <2>2. g[i - 1] = f[i - 1]
    BY <2>1
  <2>3. CASE i = k
    BY <2>2, <2>3
  <2>4. CASE i # k
    <3>1. g[i] = f[i]
      BY <2>1, <2>4
    <3>2. i \in 1..(k - 1)
      BY <2>4
    <3>. QED
      BY <1>5, <2>2, <3>1, <3>2
  <2>. QED
    BY <2>3, <2>4
<1>9. Loops(k, S, a, G)
  <2> HIDE DEF g
  <2>. QED
    BY <1>6, <1>7, <1>8 DEF Loops
<1>. QED
  BY <1>2, <1>9

\* What every turn of a loop keeps, it keeps from the first turn to the last.
LEMMA LoopKeeps ==
    ASSUME NEW n \in Nat, NEW S, NEW f, f[0] \in S,
           \A i \in 1..n : f[i - 1] \in S => f[i] \in S
    PROVE  \A i \in 0..n : f[i] \in S
<1> DEFINE Bad == {i \in 0..n : f[i] \notin S}
<1>1. SUFFICES ASSUME Bad # {} PROVE FALSE
  OBVIOUS
<1>2. PICK k \in Bad : \A m \in Bad : k <= m
  <2>1. Bad \subseteq Nat
    OBVIOUS
  <2>. QED
    BY <1>1, <2>1, Least
<1>3. k \in 1..n
  OBVIOUS
<1>4. k - 1 \notin Bad
  <2>1. k - 1 \in Nat /\ ~(k <= k - 1)
    BY <1>3
  <2> HIDE DEF Bad
  <2>. QED
    BY <1>2, <2>1
<1>. QED
  BY <1>3, <1>4

\* Two loops begin alike, and a turn that finds them alike leaves them alike.
SameTurns(n, f, g) ==
    f[0] = g[0] /\ \A i \in 1..n : f[i - 1] = g[i - 1] => f[i] = g[i]
\* They are alike after each turn.
SameResults(n, f, g) == \A i \in 0..n : f[i] = g[i]

\* Two loops that start alike and take alike turns end alike.
LEMMA LoopsAgree ==
    ASSUME NEW n \in Nat, NEW f, NEW g, SameTurns(n, f, g)
    PROVE  SameResults(n, f, g)
<1> USE DEF SameTurns, SameResults
<1> DEFINE Bad == {i \in 0..n : f[i] # g[i]}
<1>1. SUFFICES ASSUME Bad # {} PROVE FALSE
  OBVIOUS
<1>2. PICK k \in Bad : \A m \in Bad : k <= m
  <2>1. Bad \subseteq Nat
    OBVIOUS
  <2>. QED
    BY <1>1, <2>1, Least
<1>3. k \in 1..n
  OBVIOUS
<1>4. k - 1 \notin Bad
  <2>1. k - 1 \in Nat /\ ~(k <= k - 1)
    BY <1>3
  <2> HIDE DEF Bad
  <2>. QED
    BY <1>2, <2>1
<1>. QED
  BY <1>3, <1>4

-----------------------------------------------------------------------------
(* Words. *)

\* The bits of a register, as an interval.
LEMMA BitIs == \A b : b \in Bit <=> b \in Int /\ 0 <= b /\ b <= 31
  BY DEF Bit

\* A shift to the right moves each bit down, and drops those that leave the word.
LEMMA LsrIs ==
    ASSUME NEW w \in SUBSET Bit, NEW n \in Nat
    PROVE  /\ Lsr(w, n) \in SUBSET Bit
           /\ \A b : b \in Lsr(w, n) <=> b \in Bit /\ b + n \in w
  BY BitIs DEF Lsr, Shifted

\* A shift to the left moves each bit up, and drops those that leave the word.
LEMMA LslIs ==
    ASSUME NEW w \in SUBSET Bit, NEW n \in Nat
    PROVE  /\ Lsl(w, n) \in SUBSET Bit
           /\ \A b : b \in Lsl(w, n) <=> b \in Bit /\ b - n \in w
  BY BitIs DEF Lsl, Shifted

\* An upper bound in a set is its maximum.
LEMMA MaxIs ==
    ASSUME NEW s \in SUBSET Int, NEW m \in s, \A e \in s : e <= m
    PROVE  Max(s) = m
<1>1. \A x \in s : (\A y \in s : x >= y) => x = m
  OBVIOUS
<1>2. \A y \in s : m >= y
  OBVIOUS
<1>. QED
  BY <1>1, <1>2, Zenon DEF Max

\* A lower bound in a set is its minimum.
LEMMA MinIs ==
    ASSUME NEW s \in SUBSET Int, NEW m \in s, \A e \in s : m <= e
    PROVE  Min(s) = m
<1>1. \A x \in s : (\A y \in s : x <= y) => x = m
  OBVIOUS
<1>2. \A y \in s : m <= y
  OBVIOUS
<1>. QED
  BY <1>1, <1>2, Zenon DEF Min

\* A word that is not zero has a highest one.
LEMMA WordMax ==
    ASSUME NEW w \in SUBSET Bit, w # {}
    PROVE  \E m \in w : (\A e \in w : e <= m) /\ Max(w) = m /\ m \in 0..31
<1>1. PICK n \in {31 - e : e \in w} : \A k \in {31 - e : e \in w} : n <= k
  <2>1. {31 - e : e \in w} \subseteq Nat
    BY BitIs
  <2>2. {31 - e : e \in w} # {}
    OBVIOUS
  <2>. QED
    BY <2>1, <2>2, Least
<1>2. PICK m \in w : n = 31 - m
  OBVIOUS
<1>3. \A e \in w : e <= m
  <2>. TAKE e \in w
  <2>1. n <= 31 - e
    BY <1>1
  <2>. QED
    BY <2>1, <1>2 DEF Bit
<1>. QED
  BY <1>3, MaxIs DEF Bit

\* A word that is not zero has a lowest one.
LEMMA WordMin ==
    ASSUME NEW w \in SUBSET Bit, w # {}
    PROVE  \E m \in w : (\A e \in w : m <= e) /\ Min(w) = m /\ m \in 0..31
<1>0. w \subseteq Nat
  BY BitIs
<1>1. PICK m \in w : \A e \in w : m <= e
  BY <1>0, Least
<1>. QED
  BY <1>1, MinIs DEF Bit

\* What a shift to the right leaves shows where the highest one is (clz32).
LEMMA TopAt ==
    ASSUME NEW w \in SUBSET Bit, NEW n \in Bit
    PROVE  Lsr(w, n) # {} <=> w # {} /\ Max(w) >= n
<1>1. n \in Nat
  BY BitIs
<1>2. \A b : b \in Lsr(w, n) <=> b \in Bit /\ b + n \in w
  BY <1>1, LsrIs
<1>3. CASE w = {}
  BY <1>2, <1>3
<1>4. CASE w # {}
  <2>1. PICK m \in w : (\A e \in w : e <= m) /\ Max(w) = m /\ m \in 0..31
    BY <1>4, WordMax
  <2>2. m >= n => m - n \in Lsr(w, n)
    <3>. SUFFICES ASSUME m >= n PROVE m - n \in Bit /\ (m - n) + n \in w
      BY <1>2
    <3>1. (m - n) + n = m
      BY <1>1, <2>1
    <3>. QED
      BY <1>1, <2>1, <3>1, BitIs
  <2>3. \A b \in Lsr(w, n) : m >= n
    BY <1>1, <1>2, <2>1, BitIs
  <2>. QED
    BY <1>4, <2>1, <2>2, <2>3, Zenon
<1>. QED
  BY <1>3, <1>4

\* The table of six bits, read with the word shifted down, finds the highest one.
LEMMA TopTable ==
    ASSUME NEW w \in SUBSET Bit, NEW n \in Bit, Lsr(w, n) # {}
    PROVE  clz6_table(Lsr(w, n)) = 5 + n - Max(w)
<1>1. PICK m \in w : (\A e \in w : e <= m) /\ Max(w) = m /\ m \in 0..31
  BY WordMax DEF Lsr, Shifted
<1>2. \A b : b \in Lsr(w, n) <=> \E e \in w : b = e - n /\ e >= n
  BY DEF Lsr, Shifted, Bit
<1>3. m - n \in Lsr(w, n)
  BY <1>1, <1>2 DEF Bit
<1>4. Lsr(w, n) \in SUBSET Int /\ \A b \in Lsr(w, n) : b <= m - n
  BY <1>1, <1>2 DEF Bit
<1>5. Max(Lsr(w, n)) = m - n
  BY <1>3, <1>4, MaxIs
<1>. QED
  BY <1>1, <1>5 DEF clz6_table, Bit

\* clz32 counts the zeros before the first one.
THEOREM LeadingZeros ==
    \A w \in SUBSET Bit : clz32(w) = IF w = {} THEN 32 ELSE 31 - Max(w)
<1>. SUFFICES ASSUME NEW w \in SUBSET Bit PROVE clz32(w) = IF w = {} THEN 32 ELSE 31 - Max(w)
  OBVIOUS
<1> DEFINE half == Lsr(w, 16)
           v    == IF half # {} THEN half ELSE w
           from == IF half # {} THEN 0 ELSE 16
           top  == IF v = {} THEN -1 ELSE Max(v)
<1>1. v \in SUBSET Bit
  BY DEF Lsr, Shifted
<1>2. v = {} \/ Max(v) \in 0..15
  <2>1. CASE half # {}
    <3>0. half \in SUBSET Bit /\ \A b : b \in half <=> b \in Bit /\ b + 16 \in w
      BY LsrIs
    <3>1. PICK m \in half : Max(half) = m
      BY <2>1, <3>0, WordMax
    <3>2. m \in Bit /\ m + 16 \in Bit
      BY <3>0
    <3>3. m \in 0..15
      BY <3>2 DEF Bit
    <3>. QED
      BY <2>1, <3>1, <3>3, Zenon
  <2>2. CASE half = {}
    <3>1. SUFFICES ASSUME w # {} PROVE Max(w) \in 0..15
      BY <2>2
    <3>2. PICK m \in w : Max(w) = m
      BY <3>1, WordMax
    <3>3. ~(m >= 16)
      BY <2>2, <3>1, <3>2, TopAt, BitIs, 16 \in Bit
    <3>. QED
      BY <3>2, <3>3, BitIs
  <2>. QED
    BY <2>1, <2>2
<1>3. clz32(w) = 15 - top + from
  <2>1. \A n \in Bit : Lsr(v, n) # {} <=> top >= n
    <3>1. \A n \in Bit : Lsr(v, n) # {} <=> v # {} /\ Max(v) >= n
      BY <1>1, TopAt
    <3>2. \A n \in Bit : ~(-1 >= n)
      BY BitIs
    <3>. QED
      BY <3>1, <3>2, Zenon
  <2>2. \A n \in Bit : Lsr(v, n) # {} => clz6_table(Lsr(v, n)) = 5 + n - top
    <3>1. \A n \in Bit : Lsr(v, n) # {} => v # {}
      BY DEF Lsr, Shifted
    <3>. QED
      BY <1>1, <3>1, TopTable
  <2>3. clz6_table(v) = IF v = {} THEN 6 ELSE 5 - top
    BY DEF clz6_table
  <2>4. top \in -1..15 /\ from \in {0, 16}
    BY <1>2
  <2>5. clz32(w) = CASE Lsr(v, 10) # {} -> clz6_table(Lsr(v, 10)) + from
         [] Lsr(v, 10) = {} /\ Lsr(v, 4) # {} -> clz6_table(Lsr(v, 4)) + from + 6
         [] OTHER -> clz6_table(v) + from + 12 - 2
    BY DEF clz32
  <2>6. 10 \in Bit /\ 4 \in Bit
    BY DEF Bit
  <2>7. v = {} => top = -1
    OBVIOUS
  <2> HIDE DEF v, from, top
  <2>8. CASE top >= 10
    <3>1. Lsr(v, 10) # {}
      BY <2>1, <2>6, <2>8
    <3>. QED
      BY <2>2, <2>4, <2>5, <2>6, <3>1
  <2>9. CASE top >= 4 /\ ~(top >= 10)
    <3>1. Lsr(v, 10) = {} /\ Lsr(v, 4) # {}
      BY <2>1, <2>6, <2>9
    <3>. QED
      BY <2>2, <2>4, <2>5, <2>6, <3>1
  <2>10. CASE ~(top >= 4)
    <3>1. Lsr(v, 10) = {} /\ Lsr(v, 4) = {}
      BY <2>1, <2>4, <2>6, <2>10
    <3>2. clz32(w) = clz6_table(v) + from + 12 - 2
      BY <2>5, <3>1
    <3>. QED
      BY <2>3, <2>4, <2>7, <3>2
  <2>. QED
    BY <2>4, <2>8, <2>9, <2>10
<1>4. CASE half # {}
  <2>1. clz6_table(half) = 5 + 16 - Max(w) /\ clz6_table(half) = 5 - Max(half)
    BY <1>4, TopTable DEF Bit, clz6_table
  <2>2. Max(half) \in Int /\ Max(w) \in Int
    <3>1. w # {}
      BY <1>4 DEF Lsr, Shifted
    <3>. QED
    BY <1>2, <1>4, <3>1, WordMax
  <2>3. w # {}
    BY <1>4 DEF Lsr, Shifted
  <2>. QED
    BY <1>3, <1>4, <2>1, <2>2, <2>3
<1>5. CASE half = {}
  BY <1>2, <1>3, <1>5
<1>. QED
  BY <1>4, <1>5

\* What a shift to the left leaves shows where the lowest one is (ctz32).
LEMMA BottomAt ==
    ASSUME NEW w \in SUBSET Bit, NEW n \in Bit
    PROVE  Lsl(w, n) # {} <=> w # {} /\ Min(w) + n <= 31
<1>1. n \in Nat
  BY BitIs
<1>2. \A b : b \in Lsl(w, n) <=> b \in Bit /\ b - n \in w
  BY <1>1, LslIs
<1>3. CASE w = {}
  BY <1>2, <1>3
<1>4. CASE w # {}
  <2>1. PICK m \in w : (\A e \in w : m <= e) /\ Min(w) = m /\ m \in 0..31
    BY <1>4, WordMin
  <2>2. m + n <= 31 => m + n \in Lsl(w, n)
    <3>. SUFFICES ASSUME m + n <= 31 PROVE m + n \in Bit /\ (m + n) - n \in w
      BY <1>2
    <3>1. (m + n) - n = m
      BY <1>1, <2>1
    <3>. QED
      BY <1>1, <2>1, <3>1, BitIs
  <2>3. \A b \in Lsl(w, n) : m + n <= 31
    <3>. TAKE b \in Lsl(w, n)
    <3>1. m <= b - n
      BY <1>2, <2>1
    <3>. QED
      BY <1>1, <1>2, <2>1, <3>1, BitIs
  <2>. QED
    BY <1>4, <2>1, <2>2, <2>3, Zenon
<1>. QED
  BY <1>3, <1>4

\* Shifted up and down again, a word keeps its lowest one at its lower end.
LEMMA BottomOf ==
    ASSUME NEW w \in SUBSET Bit, NEW n \in Bit, NEW k \in Bit,
           w # {}, Min(w) + n \in k..31
    PROVE  LET u == Lsr(Lsl(w, n), k)
           IN  /\ Min(w) + n - k \in u
               /\ \A e \in u : Min(w) + n - k <= e /\ e \in 0..(31 - k)
<1>1. n \in Nat /\ k \in Nat /\ k <= 31
  BY BitIs
<1>2. /\ Lsl(w, n) \in SUBSET Bit
      /\ \A b : b \in Lsl(w, n) <=> b \in Bit /\ b - n \in w
  BY <1>1, LslIs
<1>3. \A b : b \in Lsr(Lsl(w, n), k) <=> b \in Bit /\ b + k \in Lsl(w, n)
  BY <1>1, <1>2, LsrIs
<1>4. PICK m \in w : (\A e \in w : m <= e) /\ Min(w) = m /\ m \in 0..31
  BY WordMin
<1>5. m + n - k \in Lsr(Lsl(w, n), k)
  <2>1. (m + n - k) + k = m + n /\ (m + n) - n = m
    BY <1>1, <1>4
  <2>2. m + n - k \in Bit /\ m + n \in Bit
    BY <1>1, <1>4, BitIs
  <2>. QED
    BY <1>2, <1>3, <1>4, <2>1, <2>2
<1>6. ASSUME NEW e \in Lsr(Lsl(w, n), k) PROVE m + n - k <= e /\ e \in 0..(31 - k)
  <2>1. e \in Bit /\ e + k \in Bit /\ (e + k) - n \in w
    BY <1>2, <1>3
  <2>2. m <= (e + k) - n
    BY <1>4, <2>1
  <2>. QED
    BY <1>1, <1>4, <2>1, <2>2, BitIs
<1>. QED
  BY <1>4, <1>5, <1>6

\* ctz32 counts the zeros after the last one.
THEOREM TrailingZeros ==
    \A w \in SUBSET Bit : ctz32(w) = IF w = {} THEN 32 ELSE Min(w)
<1>. SUFFICES ASSUME NEW w \in SUBSET Bit PROVE ctz32(w) = IF w = {} THEN 32 ELSE Min(w)
  OBVIOUS
<1> DEFINE low  == Lsl(w, 16)
           v    == IF low # {} THEN low ELSE w
           from == IF low # {} THEN 0 ELSE 16
           end  == IF v = {} THEN 32 ELSE Min(v)
<1>0. {4, 6, 10, 12, 16, 26, 28, 0} \subseteq Bit
  BY BitIs
<1>1. v \in SUBSET Bit
  BY LslIs, 16 \in Nat
<1>2. end \in 16..32 /\ (IF w = {} THEN 32 ELSE Min(w)) = end - 16 + from
  <2>1. CASE w = {}
    <3>1. low = {}
      BY <2>1 DEF Lsl, Shifted
    <3>. QED
      BY <2>1, <3>1
  <2>2. CASE w # {}
    <3>1. PICK m \in w : (\A e \in w : m <= e) /\ Min(w) = m /\ m \in 0..31
      BY <2>2, WordMin
    <3>2. CASE low = {}
      <4>1. ~(m + 16 <= 31)
        BY <1>0, <2>2, <3>1, <3>2, BottomAt
      <4>. QED
        BY <2>2, <3>1, <3>2, <4>1
    <3>3. CASE low # {}
      <4>1. low \in SUBSET Bit /\ \A b : b \in low <=> b \in Bit /\ b - 16 \in w
        BY LslIs, 16 \in Nat
      <4>2. m + 16 <= 31
        BY <1>0, <2>2, <3>1, <3>3, BottomAt
      <4>3. m + 16 \in low
        <5>1. (m + 16) - 16 = m /\ m + 16 \in Bit
          BY <3>1, <4>2, BitIs
        <5>. QED
          BY <3>1, <4>1, <5>1
      <4>4. \A b \in low : m + 16 <= b
        <5>. TAKE b \in low
        <5>1. b - 16 \in w /\ b \in Bit
          BY <4>1
        <5>2. m <= b - 16
          BY <3>1, <5>1
        <5>. QED
          BY <3>1, <5>1, <5>2, BitIs
      <4>5. low \in SUBSET Int
        BY <4>1, BitIs
      <4> HIDE DEF low
      <4>6. Min(low) = m + 16
        BY <4>3, <4>4, <4>5, MinIs
      <4>. QED
        BY <2>2, <3>1, <3>3, <4>2, <4>6
    <3>. QED
      BY <3>2, <3>3
  <2>. QED
    BY <2>1, <2>2
<1>3. ctz32(w) = CASE Lsl(v, 6) = {}  -> ctz6_table(Lsr(v, 26)) + from + 10
         [] Lsl(v, 6) # {} /\ Lsl(v, 12) = {} -> ctz6_table(Lsr(Lsl(v, 6), 26)) + from + 4
         [] OTHER -> ctz6_table(Lsr(Lsl(v, 12), 28) \cup {4}) + from
  BY DEF ctz32
<1>4. from \in {0, 16} /\ (v = {} <=> end = 32) /\ (v # {} => end = Min(v))
  <2>1. v # {} => Min(v) \in 0..31
    BY <1>1, WordMin
  <2>. QED
    BY <2>1
<1> HIDE DEF v, from, end
<1>5. \A n \in {6, 12} : Lsl(v, n) # {} <=> end + n <= 31
  <2>1. \A n \in {6, 12} : Lsl(v, n) # {} <=> v # {} /\ Min(v) + n <= 31
    BY <1>0, <1>1, BottomAt
  <2>. QED
    BY <1>4, <2>1
<1>6. CASE end + 6 > 31
  <2>1. Lsl(v, 6) = {}
    BY <1>2, <1>5, <1>6
  <2>2. ctz6_table(Lsr(v, 26)) = end - 26
    <3>0. Lsl(v, 0) = v
      <4>1. \A b : b \in Lsl(v, 0) <=> b \in Bit /\ b - 0 \in v
        BY <1>1, LslIs, 0 \in Nat
      <4>2. \A b \in Bit : b - 0 = b
        BY BitIs
      <4>. QED
        BY <1>1, <4>1, <4>2
    <3>1. CASE v = {}
      BY <1>4, <3>1 DEF ctz6_table, Lsr, Shifted
    <3>2. CASE v # {}
      <4>1. Min(v) \in 0..31 /\ Min(v) = end
        BY <1>1, <1>4, <3>2, WordMin
      <4>2. Min(v) + 0 \in 26..31
        BY <1>6, <4>1
      <4>3. /\ Min(v) + 0 - 26 \in Lsr(v, 26)
            /\ \A e \in Lsr(v, 26) : Min(v) + 0 - 26 <= e /\ e \in 0..(31 - 26)
        BY <1>0, <1>1, <3>0, <3>2, <4>2, BottomOf
      <4>4. Min(Lsr(v, 26)) = Min(v) + 0 - 26
        BY <4>3, MinIs
      <4>. QED
        BY <4>1, <4>3, <4>4 DEF ctz6_table
    <3>. QED
      BY <3>1, <3>2
  <2>. QED
    BY <1>2, <1>3, <1>4, <2>1, <2>2
<1>7. CASE end + 6 <= 31 /\ end + 12 > 31
  <2>1. Lsl(v, 6) # {} /\ Lsl(v, 12) = {}
    BY <1>2, <1>5, <1>7
  <2>2. ctz6_table(Lsr(Lsl(v, 6), 26)) = end - 20
    <3>1. v # {} /\ Min(v) = end /\ Min(v) + 6 \in 26..31
      BY <1>2, <1>4, <1>7
    <3>2. /\ Min(v) + 6 - 26 \in Lsr(Lsl(v, 6), 26)
          /\ \A e \in Lsr(Lsl(v, 6), 26) : Min(v) + 6 - 26 <= e /\ e \in 0..(31 - 26)
      BY <1>0, <1>1, <3>1, BottomOf
    <3>3. Min(Lsr(Lsl(v, 6), 26)) = Min(v) + 6 - 26
      BY <3>2, MinIs
    <3>. QED
      BY <1>2, <3>1, <3>2, <3>3 DEF ctz6_table
  <2>. QED
    BY <1>2, <1>3, <1>4, <2>1, <2>2
<1>8. CASE end + 12 <= 31
  <2>1. Lsl(v, 6) # {} /\ Lsl(v, 12) # {}
    BY <1>2, <1>5, <1>8
  <2> DEFINE u == Lsr(Lsl(v, 12), 28)
  <2>2. ctz6_table(u \cup {4}) = end - 16
    <3>1. v # {} /\ Min(v) = end /\ Min(v) + 12 \in 28..31
      BY <1>2, <1>4, <1>8
    <3>2. /\ Min(v) + 12 - 28 \in u
          /\ \A e \in u : Min(v) + 12 - 28 <= e /\ e \in 0..(31 - 28)
      BY <1>0, <1>1, <3>1, BottomOf
    <3> HIDE DEF u
    <3>3. /\ end - 16 \in u \cup {4}
          /\ u \cup {4} \in SUBSET Int
          /\ \A e \in u \cup {4} : end - 16 <= e
      BY <1>2, <1>8, <3>1, <3>2
    <3>4. Min(u \cup {4}) = end - 16
      BY <3>3, MinIs
    <3>. QED
      BY <3>4 DEF ctz6_table
  <2>. QED
    BY <1>2, <1>3, <1>4, <2>1, <2>2
<1>. QED
  BY <1>2, <1>6, <1>7, <1>8

\* Where a bit goes in an exchange of neighbours of n bits.
Partner(b, n) == IF b % (2 * n) >= n THEN b - n ELSE b + n

\* The mask that reverse32 works out from another one is the mask of odd bits.
LEMMA UpperBitsAre == UpperBits = {b \in Bit : b % 2 >= 1}
<1>1. UpperPairs \in SUBSET Bit /\ 1 \in Nat
  BY DEF UpperPairs
<1>2. \A b : b \in Lsr(UpperPairs, 1) <=> b \in Bit /\ b + 1 \in UpperPairs
  BY <1>1, LsrIs
<1>3. \A b \in Bit : b + 1 \in Bit <=> b # 31
  BY BitIs
<1>4. \A b \in Bit : b \in UpperBits <=> b % 2 >= 1
  <2>. TAKE b \in Bit
  <2>1. b \in UpperBits <=> ((b # 31 /\ (b + 1) % 4 >= 2) # (b % 4 >= 2))
    BY <1>2, <1>3 DEF UpperBits, Xor, UpperPairs
  <2>. QED
    BY <2>1, BitIs
<1>5. UpperBits \subseteq Bit
  BY <1>1, <1>2 DEF UpperBits, Xor
<1>. QED
  BY <1>4, <1>5

\* Each exchange of reverse32 takes a bit from its partner.
LEMMA Swapped ==
    ASSUME NEW w \in SUBSET Bit, NEW n \in {1, 2, 4}
    PROVE  LET mask == {b \in Bit : b % (2 * n) >= n}
           IN  /\ Swap(w, n, mask) \in SUBSET Bit
               /\ \A b \in Bit : /\ b \in Swap(w, n, mask) <=> Partner(b, n) \in w
                                /\ Partner(b, n) \in Bit
<1> DEFINE mask == {b \in Bit : b % (2 * n) >= n}
<1>1. n \in Nat /\ w \cap mask \in SUBSET Bit
  OBVIOUS
<1>2. /\ Lsl(w, n) \in SUBSET Bit
      /\ \A b : b \in Lsl(w, n) <=> b \in Bit /\ b - n \in w
  BY <1>1, LslIs
<1>3. /\ Lsr(w \cap mask, n) \in SUBSET Bit
      /\ \A b : b \in Lsr(w \cap mask, n) <=> b \in Bit /\ b + n \in w \cap mask
  BY <1>1, LsrIs
<1>4. ASSUME NEW b \in Bit
      PROVE  /\ b \in Swap(w, n, mask) <=> Partner(b, n) \in w
             /\ Partner(b, n) \in Bit
  <2>1. b \in Swap(w, n, mask) <=>
            (b \in mask /\ b - n \in w) \/ (b + n \in mask /\ b + n \in w)
    BY <1>2, <1>3 DEF Swap
  <2>2. b + n \in mask <=> b + n \in Bit /\ (b + n) % (2 * n) >= n
    OBVIOUS
  <2>3. CASE b % (2 * n) >= n
    <3>1. b \in mask /\ ~((b + n) % (2 * n) >= n) /\ b - n \in Bit
      <4>1. CASE n = 1
        BY <2>3, <4>1, BitIs
      <4>2. CASE n = 2
        BY <2>3, <4>2, BitIs
      <4>3. CASE n = 4
        BY <2>3, <4>3, BitIs
      <4>. QED
        BY <4>1, <4>2, <4>3
    <3>. QED
      BY <2>1, <2>2, <2>3, <3>1 DEF Partner
  <2>4. CASE ~(b % (2 * n) >= n)
    <3>1. b \notin mask /\ (b + n) % (2 * n) >= n /\ b + n \in Bit
      <4>1. CASE n = 1
        BY <2>4, <4>1, BitIs
      <4>2. CASE n = 2
        BY <2>4, <4>2, BitIs
      <4>3. CASE n = 4
        BY <2>4, <4>3, BitIs
      <4>. QED
        BY <4>1, <4>2, <4>3
    <3>. QED
      BY <2>1, <2>2, <2>4, <3>1 DEF Partner
  <2>. QED
    BY <2>3, <2>4
<1>5. Swap(w, n, mask) \in SUBSET Bit
  BY <1>2, <1>3 DEF Swap
<1>. QED
  BY <1>4, <1>5

\* Where the reversal of bytes moves a bit.
RevAt(b) == 8 * (3 - (b \div 8)) + (b % 8)

\* The bytes of a word reversed twice are in order.
LEMMA RevTwice == \A b \in Bit : RevAt(b) \in Bit /\ RevAt(RevAt(b)) = b
<1>. SUFFICES ASSUME NEW b \in Bit PROVE RevAt(b) \in Bit /\ RevAt(RevAt(b)) = b
  OBVIOUS
<1>1. b \in {0, 1, 2, 3, 4, 5, 6, 7, 8, 9, 10, 11, 12, 13, 14, 15,
         16, 17, 18, 19, 20, 21, 22, 23, 24, 25, 26, 27, 28, 29, 30, 31}
  BY BitIs
<1>2. RevAt(b) \in 0..31 /\ RevAt(RevAt(b)) = b
  BY <1>1 DEF RevAt
<1>. QED
  BY <1>2 DEF Bit

\* The three exchanges and the reversal of bytes move every bit to its mirror.
LEMMA PartnersOfRev == \A b \in Bit : Partner(Partner(Partner(RevAt(b), 4), 2), 1) = 31 - b
<1>. SUFFICES ASSUME NEW b \in Bit PROVE Partner(Partner(Partner(RevAt(b), 4), 2), 1) = 31 - b
  OBVIOUS
<1>1. b \in {0, 1, 2, 3, 4, 5, 6, 7, 8, 9, 10, 11, 12, 13, 14, 15,
         16, 17, 18, 19, 20, 21, 22, 23, 24, 25, 26, 27, 28, 29, 30, 31}
  BY BitIs
<1>. QED
  BY <1>1 DEF RevAt, Partner

\* The instruction takes a bit from the mirrored byte.
LEMMA RevIs ==
    ASSUME NEW w \in SUBSET Bit
    PROVE  /\ Rev(w) \in SUBSET Bit
           /\ \A b \in Bit : /\ b \in Rev(w) <=> RevAt(b) \in w
                            /\ RevAt(b) \in Bit
<1>1. \A b \in Bit : RevAt(b) \in Bit /\ RevAt(RevAt(b)) = b
  BY RevTwice
<1>2. Rev(w) = {RevAt(b) : b \in w}
  BY DEF Rev, RevAt
<1>. QED
  BY <1>1, <1>2

\* reverse32 reverses the bits of a word.
THEOREM Reversed ==
    \A w \in SUBSET Bit : reverse32(w) = {31 - b : b \in w}
<1>. SUFFICES ASSUME NEW w \in SUBSET Bit PROVE reverse32(w) = {31 - b : b \in w}
  OBVIOUS
<1> DEFINE one  == Swap(w, 1, UpperBits)
           two  == Swap(one, 2, UpperPairs)
           four == Swap(two, 4, UpperHalf)
<1>1. one \in SUBSET Bit /\ \A b \in Bit : b \in one <=> Partner(b, 1) \in w
  <2>1. UpperBits = {b \in Bit : b % (2 * 1) >= 1}
    BY UpperBitsAre
  <2>. QED
    BY <2>1, Swapped
<1>2. two \in SUBSET Bit /\ \A b \in Bit : /\ b \in two <=> Partner(b, 2) \in one
                                       /\ Partner(b, 2) \in Bit
  <2> HIDE DEF one
  <2>1. UpperPairs = {b \in Bit : b % (2 * 2) >= 2}
    BY DEF UpperPairs
  <2>. QED
    BY <1>1, <2>1, Swapped
<1>3. four \in SUBSET Bit /\ \A b \in Bit : /\ b \in four <=> Partner(b, 4) \in two
                                        /\ Partner(b, 4) \in Bit
  <2> HIDE DEF two
  <2>1. UpperHalf = {b \in Bit : b % (2 * 4) >= 4}
    BY DEF UpperHalf
  <2>. QED
    BY <1>2, <2>1, Swapped
<1>4. reverse32(w) = Rev(four)
  BY DEF reverse32
<1> HIDE DEF one, two, four
<1>5. /\ Rev(four) \in SUBSET Bit
      /\ \A b \in Bit : b \in Rev(four) <=> RevAt(b) \in four /\ RevAt(b) \in Bit
  BY <1>3, RevIs
<1>6. \A b \in Bit : b \in Rev(four) <=> 31 - b \in w
  <2>. TAKE b \in Bit
  <2>1. RevAt(b) \in Bit
    BY RevIs
  <2>2. Partner(Partner(Partner(RevAt(b), 4), 2), 1) = 31 - b
    BY PartnersOfRev
  <2>. QED
    BY <1>1, <1>2, <1>3, <1>5, <2>1, <2>2
<1>7. \A b \in Bit : b \in {31 - e : e \in w} <=> 31 - b \in w
  BY BitIs
<1>8. {31 - e : e \in w} \subseteq Bit
  BY BitIs
<1>. QED
  BY <1>4, <1>5, <1>6, <1>7, <1>8

\* The long division is a loop that goes through n turns.
LEMMA RemainderIs ==
    ASSUME NEW s \in SUBSET Nat, NEW n \in Nat
    PROVE  \E f \in [0..n -> SUBSET Nat] :
              /\ f[0] = s
              /\ \A i \in 1..n : f[i] = Divide(f[i - 1], n - i)
              /\ Remainder(s, n) = f[n]
<1> DEFINE step == [i \in Nat |-> [t \in SUBSET Nat |-> IF i <= n THEN Divide(t, n - i) ELSE {}]]
<1>0. ASSUME NEW t \in SUBSET Nat, NEW i \in Nat, i <= n
      PROVE  Divide(t, n - i) \in SUBSET Nat
  <2>1. \A e \in Polynomial \cup {32} : e + (n - i) \in Nat
    BY <1>0 DEF Polynomial
  <2>. QED
    BY <2>1 DEF Divide, Xor, Shifted
<1>1. step \in [Nat -> [SUBSET Nat -> SUBSET Nat]]
  BY <1>0
<1>2. PICK f \in [0..n -> SUBSET Nat] :
             f[0] = s /\ \A i \in 1..n : f[i] = step[i][f[i - 1]]
  <2> HIDE DEF step
  <2>1. Loops(n, SUBSET Nat, s, step)
    BY <1>1, LoopExists
  <2>. QED
    BY <2>1 DEF Loops
<1>3. ASSUME NEW i \in 1..n PROVE f[i] = Divide(f[i - 1], n - i)
  <2>1. i - 1 \in 0..n /\ i \in Nat /\ i <= n
    OBVIOUS
  <2>2. f[i - 1] \in SUBSET Nat
    BY <2>1, Zenon
  <2>3. f[i] = step[i][f[i - 1]]
    BY <1>2, Zenon
  <2>. QED
    BY <2>1, <2>2, <2>3
<1>4. f = [i \in 0..n |-> IF i = 0 THEN s ELSE Divide(f[i - 1], n - i)]
  <2>1. \A i \in 0..n : i # 0 => i \in 1..n
    OBVIOUS
  <2>2. \A i \in 0..n : f[i] = IF i = 0 THEN s ELSE Divide(f[i - 1], n - i)
    BY <1>2, <1>3, <2>1
  <2>. QED
    BY <2>2, Zenon
<1> DEFINE rest == CHOOSE r : r = [i \in 0..n |-> IF i = 0 THEN s ELSE Divide(r[i - 1], n - i)]
<1>5. rest = [i \in 0..n |-> IF i = 0 THEN s ELSE Divide(rest[i - 1], n - i)]
  BY <1>4, Zenon
<1>6. Remainder(s, n) = rest[n]
  BY Zenon DEF Remainder
<1> HIDE DEF rest
<1>7. rest[0] = s
  BY <1>5
<1>8. \A i \in 1..n : rest[i] = Divide(rest[i - 1], n - i)
  <2>1. \A i \in 1..n : i \in 0..n /\ i # 0
    OBVIOUS
  <2>. QED
    BY <1>5, <2>1
<1>9. \A i \in 0..n : rest[i] \in SUBSET Nat
  <2>1. \A i \in 1..n : rest[i - 1] \in SUBSET Nat => rest[i] \in SUBSET Nat
    <3>1. \A i \in 1..n : i \in Nat /\ i <= n
      OBVIOUS
    <3>. QED
      BY <1>0, <1>8, <3>1
  <2>2. rest[0] \in SUBSET Nat
    BY <1>7
  <2>. QED
    BY <2>1, <2>2, LoopKeeps
<1>10. rest \in [0..n -> SUBSET Nat]
  BY <1>5, <1>9
<1>. QED
  BY <1>6, <1>7, <1>8, <1>10

\* A bit of an exclusive or.
LEMMA XorIs == \A s, t : \A e : e \in Xor(s, t) <=> ~(e \in s <=> e \in t)
  BY DEF Xor

\* A bit of a polynomial that is moved to another degree.
LEMMA ShiftedIs ==
    ASSUME NEW s \in SUBSET Int, NEW n \in Int
    PROVE  /\ Shifted(s, n) \in SUBSET Int
           /\ \A e \in Int : e \in Shifted(s, n) <=> e - n \in s
  BY DEF Shifted

\* A bit after one turn of bit_loop (crc32_small).
LEMMA BitStepIs ==
    ASSUME NEW w \in SUBSET Bit
    PROVE  /\ BitStep(w) \in SUBSET Bit
           /\ \A e \in Int : e \in BitStep(w) <=>
                 ~((e \in Bit /\ e - 1 \in w) <=> (31 \in w /\ e \in Polynomial))
<1>1. /\ Lsl(w, 1) \in SUBSET Bit
      /\ \A b : b \in Lsl(w, 1) <=> b \in Bit /\ b - 1 \in w
  BY LslIs, 1 \in Nat
<1>2. Polynomial \subseteq Bit
  BY BitIs DEF Polynomial
<1>. QED
  BY <1>1, <1>2, XorIs DEF BitStep, Xor

\* A step of the division does to the sum, wherever it stands, what a turn of
\* bit_loop does to the register.
LEMMA DivideShifted ==
    ASSUME NEW below \in SUBSET Int, NEW w \in SUBSET Bit, NEW d \in Nat,
           \A e \in below : e < 32 + d
    PROVE  Divide(Xor(below, Shifted(w, d + 1)), d) = Xor(below, Shifted(BitStep(w), d))
<1> DEFINE s == Xor(below, Shifted(w, d + 1))
           G == Polynomial \cup {32}
<1>1. /\ Shifted(w, d + 1) \in SUBSET Int
      /\ \A e \in Int : e \in Shifted(w, d + 1) <=> e - (d + 1) \in w
  BY ShiftedIs, BitIs
<1>2. /\ Shifted(BitStep(w), d) \in SUBSET Int
      /\ \A e \in Int : e \in Shifted(BitStep(w), d) <=> e - d \in BitStep(w)
  BY ShiftedIs, BitIs, BitStepIs
<1>3. /\ Shifted(G, d) \in SUBSET Int
      /\ \A e \in Int : e \in Shifted(G, d) <=> e - d \in Polynomial \/ e = 32 + d
  <2>1. G \in SUBSET Int
    BY DEF Polynomial
  <2>2. \A e \in Int : e \in Shifted(G, d) <=> e - d \in G
    BY <2>1, ShiftedIs
  <2>. QED
    BY <2>1, <2>2, ShiftedIs
<1>4. s \in SUBSET Int /\ \A e \in Int : e \in s <=> ~(e \in below <=> e - (d + 1) \in w)
  BY <1>1, XorIs DEF Xor
<1>5. 32 + d \in s <=> 31 \in w
  <2>1. 32 + d \in Int /\ 32 + d \notin below /\ (32 + d) - (d + 1) = 31
    OBVIOUS
  <2>. QED
    BY <1>4, <2>1
<1>6. Divide(s, d) = IF 31 \in w THEN Xor(s, Shifted(G, d)) ELSE s
  BY <1>5 DEF Divide
<1> HIDE DEF s, G
<1>7. /\ Divide(s, d) \in SUBSET Int
      /\ \A e \in Int : e \in Divide(s, d) <=>
            ~(e \in s <=> 31 \in w /\ (e - d \in Polynomial \/ e = 32 + d))
  <2>1. CASE 31 \in w
    <3>1. Divide(s, d) = Xor(s, Shifted(G, d))
      BY <1>6, <2>1
    <3>2. \A e \in Int : e \in Xor(s, Shifted(G, d)) <=> ~(e \in s <=> e \in Shifted(G, d))
      BY XorIs
    <3>3. Xor(s, Shifted(G, d)) \in SUBSET Int
      BY <1>3, <1>4 DEF Xor
    <3>. QED
      BY <1>3, <2>1, <3>1, <3>2, <3>3
  <2>2. CASE 31 \notin w
    BY <1>4, <1>6, <2>2
  <2>. QED
    BY <2>1, <2>2
<1>8. ASSUME NEW e \in Int
      PROVE  e \in Divide(s, d) <=> ~(e \in below <=> e - d \in BitStep(w))
  <2>1. e - (d + 1) = (e - d) - 1 /\ e - d \in Int
    OBVIOUS
  <2>2. (e - d) - 1 \in w => e - d \in Bit \/ (e = 32 + d /\ 31 \in w)
    <3>. SUFFICES ASSUME (e - d) - 1 \in w, e - d \notin Bit PROVE e = 32 + d /\ 31 \in w
      OBVIOUS
    <3>1. (e - d) - 1 = 31
      BY BitIs
    <3>. QED
      BY <3>1
  <2>3. e = 32 + d => e - d \notin Bit /\ e - d \notin Polynomial /\ (e - d) - 1 = 31
    BY BitIs DEF Polynomial
  <2>4. e - d \in BitStep(w) <=>
            ~((e - d \in Bit /\ (e - d) - 1 \in w) <=> (31 \in w /\ e - d \in Polynomial))
    BY <2>1, BitStepIs
  <2>5. e \in s <=> ~(e \in below <=> (e - d) - 1 \in w)
    BY <1>4, <2>1
  <2>6. CASE e = 32 + d
    BY <1>7, <2>3, <2>4, <2>5, <2>6
  <2>7. CASE e # 32 + d
    BY <1>7, <2>2, <2>4, <2>5, <2>7
  <2>. QED
    BY <2>6, <2>7
<1>9. \A e \in Int : e \in Xor(below, Shifted(BitStep(w), d)) <=>
                        ~(e \in below <=> e - d \in BitStep(w))
  BY <1>2, XorIs
<1>10. Xor(below, Shifted(BitStep(w), d)) \in SUBSET Int
  BY <1>2 DEF Xor
<1>11. Divide(s, d) = Xor(below, Shifted(BitStep(w), d))
  BY <1>7, <1>8, <1>9, <1>10
<1>. QED
  BY <1>11 DEF s

\* One turn of byte_loop goes through eight turns of bit_loop (crc32_small).
LEMMA ByteStepIs ==
    ASSUME NEW sum \in SUBSET Bit, NEW byte \in SUBSET (0..7)
    PROVE  \E r \in [0..8 -> SUBSET Bit] :
              /\ r[0] = Lsl(Xor(byte, Rev(sum)), 24)
              /\ \A i \in 1..8 : r[i] = BitStep(r[i - 1])
              /\ ByteStep(sum, byte) = Xor(Lsl(sum, 8), r[8])
<1> DEFINE step  == [i \in Nat |-> [w \in SUBSET Bit |-> BitStep(w)]]
           start == Lsl(Xor(byte, Rev(sum)), 24)
<1>1. step \in [Nat -> [SUBSET Bit -> SUBSET Bit]]
  BY BitStepIs
<1>2. start \in SUBSET Bit
  BY DEF Lsl
<1>3. PICK r \in [0..8 -> SUBSET Bit] :
             r[0] = start /\ \A i \in 1..8 : r[i] = step[i][r[i - 1]]
  <2> HIDE DEF step, start
  <2>1. Loops(8, SUBSET Bit, start, step)
    BY <1>1, <1>2, LoopExists
  <2>. QED
    BY <2>1 DEF Loops
<1>4. ASSUME NEW i \in 1..8 PROVE r[i] = BitStep(r[i - 1])
  <2>1. i - 1 \in 0..8 /\ i \in Nat
    OBVIOUS
  <2>2. r[i - 1] \in SUBSET Bit
    BY <2>1, Zenon
  <2>3. r[i] = step[i][r[i - 1]]
    BY <1>3, Zenon
  <2>. QED
    BY <2>1, <2>2, <2>3
<1>5. r = [i \in 0..8 |-> IF i = 0 THEN start ELSE BitStep(r[i - 1])]
  <2>1. \A i \in 0..8 : i # 0 => i \in 1..8
    OBVIOUS
  <2>2. \A i \in 0..8 : r[i] = IF i = 0 THEN start ELSE BitStep(r[i - 1])
    BY <1>3, <1>4, <2>1
  <2>. QED
    BY <2>2, Zenon
<1> DEFINE r4 == CHOOSE f : f = [i \in 0..8 |-> IF i = 0 THEN start ELSE BitStep(f[i - 1])]
<1>6. r4 = [i \in 0..8 |-> IF i = 0 THEN start ELSE BitStep(r4[i - 1])]
  BY <1>5, Zenon
<1>7. ByteStep(sum, byte) = Xor(Lsl(sum, 8), r4[8])
  BY Zenon DEF ByteStep
<1> HIDE DEF r4, start
<1>8. r4[0] = start
  BY <1>6
<1>9. \A i \in 1..8 : r4[i] = BitStep(r4[i - 1])
  <2>1. \A i \in 1..8 : i \in 0..8 /\ i # 0
    OBVIOUS
  <2>. QED
    BY <1>6, <2>1
<1>10. \A i \in 0..8 : r4[i] \in SUBSET Bit
  <2>1. \A i \in 1..8 : r4[i - 1] \in SUBSET Bit => r4[i] \in SUBSET Bit
    BY <1>9, BitStepIs
  <2>2. r4[0] \in SUBSET Bit
    BY <1>2, <1>8
  <2>. QED
    BY <2>1, <2>2, LoopKeeps
<1>11. r4 \in [0..8 -> SUBSET Bit]
  BY <1>6, <1>10
<1>. QED
  BY <1>7, <1>8, <1>9, <1>11 DEF start

\* The sum goes through a turn of byte_loop for each byte (crc32_small).
LEMMA CrcIs ==
    ASSUME NEW bytes \in Seq(SUBSET (0..7)), NEW seed \in SUBSET Bit
    PROVE  \E f \in [0..Len(bytes) -> SUBSET Bit] :
              /\ f[0] = seed
              /\ \A i \in 1..Len(bytes) : f[i] = ByteStep(f[i - 1], bytes[i])
              /\ crc32_small(bytes, seed) = f[Len(bytes)]
<1> DEFINE n == Len(bytes)
           step == [i \in Nat |-> [w \in SUBSET Bit |->
                       IF i \in 1..n THEN ByteStep(w, bytes[i]) ELSE {}]]
<1>1. n \in Nat
  OBVIOUS
<1>0. ASSUME NEW i \in 1..n, NEW w \in SUBSET Bit
      PROVE  ByteStep(w, bytes[i]) \in SUBSET Bit
  <2>1. bytes[i] \in SUBSET (0..7)
    OBVIOUS
  <2>2. PICK r \in [0..8 -> SUBSET Bit] : ByteStep(w, bytes[i]) = Xor(Lsl(w, 8), r[8])
    BY <2>1, ByteStepIs
  <2>3. r[8] \in SUBSET Bit /\ Lsl(w, 8) \in SUBSET Bit
    BY DEF Lsl
  <2>. QED
    BY <2>2, <2>3 DEF Xor
<1>2. step \in [Nat -> [SUBSET Bit -> SUBSET Bit]]
  BY <1>0
<1>3. PICK f \in [0..n -> SUBSET Bit] :
             f[0] = seed /\ \A i \in 1..n : f[i] = step[i][f[i - 1]]
  <2> HIDE DEF step, n
  <2>1. Loops(n, SUBSET Bit, seed, step)
    BY <1>1, <1>2, LoopExists
  <2>. QED
    BY <2>1 DEF Loops
<1>4. ASSUME NEW i \in 1..n PROVE f[i] = ByteStep(f[i - 1], bytes[i])
  <2>1. i - 1 \in 0..n /\ i \in Nat
    BY <1>1
  <2>2. f[i - 1] \in SUBSET Bit
    BY <2>1, Zenon
  <2>3. f[i] = step[i][f[i - 1]]
    BY <1>3, Zenon
  <2>. QED
    BY <2>1, <2>2, <2>3
<1>5. f = [i \in 0..n |-> IF i = 0 THEN seed ELSE ByteStep(f[i - 1], bytes[i])]
  <2>1. \A i \in 0..n : i # 0 => i \in 1..n
    BY <1>1
  <2>2. \A i \in 0..n : f[i] = IF i = 0 THEN seed ELSE ByteStep(f[i - 1], bytes[i])
    BY <1>3, <1>4, <2>1
  <2>. QED
    BY <2>2, Zenon
<1> DEFINE sum == CHOOSE g : g = [i \in 0..n |-> IF i = 0 THEN seed ELSE ByteStep(g[i - 1], bytes[i])]
<1>6. sum = [i \in 0..n |-> IF i = 0 THEN seed ELSE ByteStep(sum[i - 1], bytes[i])]
  BY <1>5, Zenon
<1>7. crc32_small(bytes, seed) = sum[n]
  BY Zenon DEF crc32_small
<1> HIDE DEF sum
<1>8. sum[0] = seed
  BY <1>1, <1>6
<1>9. \A i \in 1..n : sum[i] = ByteStep(sum[i - 1], bytes[i])
  <2>1. \A i \in 1..n : i \in 0..n /\ i # 0
    BY <1>1
  <2>. QED
    BY <1>6, <2>1
<1>10. \A i \in 0..n : sum[i] \in SUBSET Bit
  <2>1. \A i \in 1..n : sum[i - 1] \in SUBSET Bit => sum[i] \in SUBSET Bit
    BY <1>0, <1>9
  <2>2. sum[0] \in SUBSET Bit
    BY <1>8
  <2>. QED
    BY <1>1, <2>1, <2>2, LoopKeeps
<1>11. sum \in [0..n -> SUBSET Bit]
  BY <1>6, <1>10
<1>. QED
  BY <1>7, <1>8, <1>9, <1>11

\* The reversal brings the upper byte of the sum down to the byte (crc32_small).
LEMMA RevLow ==
    ASSUME NEW w \in SUBSET Bit
    PROVE  \A x \in 24..31 : x - 24 \in Rev(w) <=> x \in w
<1>. TAKE x \in 24..31
<1>1. x - 24 \in Bit
  BY BitIs
<1>2. RevAt(x - 24) = x
  <2>1. x \in {24, 25, 26, 27, 28, 29, 30, 31}
    OBVIOUS
  <2>. QED
    BY <2>1 DEF RevAt
<1>. QED
  BY <1>1, <1>2, RevIs

\* D is what eight steps of the division make of a sum and a byte at their place
\* above the rest of the message.
DividesByte(D, m, sum, byte, rest) ==
    /\ \A e \in rest : e < 32 + m
    /\ D[0] = Xor(Xor(rest, Shifted(byte, m + 32)), Shifted(sum, m + 8))
    /\ \A k \in 1..8 : D[k] = Divide(D[k - 1], m + 8 - k)

\* Eight steps of the division take the sum and the byte at their place above
\* the rest of the message to the sum that byte_loop makes of them.
LEMMA ByteDivided ==
    ASSUME NEW m \in Nat, NEW sum \in SUBSET Bit, NEW byte \in SUBSET (0..7),
           NEW rest \in SUBSET Int, NEW D, DividesByte(D, m, sum, byte, rest)
    PROVE  D[8] = Xor(rest, Shifted(ByteStep(sum, byte), m))
<1> DEFINE low   == Lsl(sum, 8)
           below == Xor(rest, Shifted(low, m))
<1>0. /\ \A e \in rest : e < 32 + m
      /\ D[0] = Xor(Xor(rest, Shifted(byte, m + 32)), Shifted(sum, m + 8))
      /\ \A k \in 1..8 : D[k] = Divide(D[k - 1], m + 8 - k)
  BY DEF DividesByte
<1>1. PICK r \in [0..8 -> SUBSET Bit] :
             /\ r[0] = Lsl(Xor(byte, Rev(sum)), 24)
             /\ \A i \in 1..8 : r[i] = BitStep(r[i - 1])
             /\ ByteStep(sum, byte) = Xor(low, r[8])
  BY ByteStepIs
<1>2. /\ low \in SUBSET Bit
      /\ \A b : b \in low <=> b \in Bit /\ b - 8 \in sum
  BY LslIs, 8 \in Nat
<1> HIDE DEF low
<1>3. /\ Shifted(low, m) \in SUBSET Int
      /\ \A e \in Int : e \in Shifted(low, m) <=> e - m \in low
  BY <1>2, ShiftedIs, BitIs
<1>4. /\ below \in SUBSET Int
      /\ \A e \in Int : e \in below <=> ~(e \in rest <=> e - m \in low)
  BY <1>3, XorIs DEF Xor
<1>5. \A e \in below : e < 32 + m
  <2>. TAKE e \in below
  <2>1. e \in rest \/ e - m \in low
    BY <1>4
  <2>2. CASE e \in rest
    BY <1>0, <2>2
  <2>3. CASE e - m \in low
    BY <1>2, <1>4, <2>3, BitIs
  <2>. QED
    BY <2>1, <2>2, <2>3
<1> HIDE DEF below
<1>6. D[0] = Xor(below, Shifted(r[0], m + 8))
  <2>1. /\ Shifted(byte, m + 32) \in SUBSET Int
        /\ \A e \in Int : e \in Shifted(byte, m + 32) <=> e - (m + 32) \in byte
    BY ShiftedIs
  <2>2. /\ Shifted(sum, m + 8) \in SUBSET Int
        /\ \A e \in Int : e \in Shifted(sum, m + 8) <=> e - (m + 8) \in sum
    BY ShiftedIs, BitIs
  <2>3. r[0] \in SUBSET Bit
    OBVIOUS
  <2>4. /\ Shifted(r[0], m + 8) \in SUBSET Int
        /\ \A e \in Int : e \in Shifted(r[0], m + 8) <=> e - (m + 8) \in r[0]
    BY <2>3, ShiftedIs, BitIs
  <2>5. \A b : b \in r[0] <=> b \in Bit /\ b - 24 \in Xor(byte, Rev(sum))
    <3>1. Xor(byte, Rev(sum)) \in SUBSET Bit
      <4>1. Rev(sum) \in SUBSET Bit
        BY RevIs
      <4>2. byte \in SUBSET Bit
        BY BitIs
      <4>. QED
        BY <4>1, <4>2 DEF Xor
    <3>. QED
      BY <1>1, <3>1, LslIs, 24 \in Nat
  <2>6. ASSUME NEW x \in Int
        PROVE  x \in r[0] <=> x \in 24..31 /\ ~(x - 24 \in byte <=> x \in sum)
    <3>1. x \in r[0] <=> x \in Bit /\ ~(x - 24 \in byte <=> x - 24 \in Rev(sum))
      BY <2>5, XorIs
    <3>2. CASE x \in 24..31
      BY <3>1, <3>2, RevLow, BitIs
    <3>3. CASE x \notin 24..31
      <4>1. x \in Bit => ~(x - 24 \in Bit) /\ ~(x - 24 \in 0..7)
        BY <3>3, BitIs
      <4>2. x - 24 \in Rev(sum) => x - 24 \in Bit
        BY RevIs
      <4>. QED
        BY <3>1, <3>3, <4>1, <4>2
    <3>. QED
      BY <3>2, <3>3
  <2>7. ASSUME NEW e \in Int
        PROVE  e \in D[0] <=> e \in Xor(below, Shifted(r[0], m + 8))
    <3>1. e \in D[0] <=> ~(~(e \in rest <=> e - (m + 32) \in byte) <=> e - (m + 8) \in sum)
      BY <1>0, <2>1, <2>2, XorIs
    <3>2. e \in Xor(below, Shifted(r[0], m + 8)) <=>
            ~(~(e \in rest <=> e - m \in low) <=> e - (m + 8) \in r[0])
      BY <1>4, <2>4, XorIs
    <3> DEFINE x == e - (m + 8)
    <3>3. x \in Int /\ e - (m + 32) = x - 24 /\ (e - m) - 8 = x
      OBVIOUS
    <3>4. e - m \in low <=> e - m \in Bit /\ x \in sum
      BY <1>2, <3>3
    <3>5. x \in sum => (e - m \in Bit <=> ~(x \in 24..31))
      <4>. SUFFICES ASSUME x \in Bit PROVE e - m \in Bit <=> ~(x \in 24..31)
        OBVIOUS
      <4>. QED
        BY <3>3, BitIs
    <3>6. x - 24 \in byte => x \in 24..31
      <4>1. x - 24 \in byte => x - 24 \in 0..7
        OBVIOUS
      <4>. QED
        BY <3>3, <4>1
    <3>7. x \in r[0] <=> x \in 24..31 /\ ~(x - 24 \in byte <=> x \in sum)
      BY <2>6, <3>3
    <3>8. e \in D[0] <=> ~(~(e \in rest <=> x - 24 \in byte) <=> x \in sum)
      BY <3>1, <3>3
    <3>9. e \in Xor(below, Shifted(r[0], m + 8)) <=>
            ~(~(e \in rest <=> e - m \in low) <=> x \in r[0])
      BY <3>2
    <3> HIDE DEF x
    <3>. QED
      BY <3>4, <3>5, <3>6, <3>7, <3>8, <3>9
  <2>8. D[0] \in SUBSET Int /\ Xor(below, Shifted(r[0], m + 8)) \in SUBSET Int
    BY <1>0, <1>4, <2>1, <2>2, <2>4 DEF Xor
  <2>. QED
    BY <2>7, <2>8
<1>7. \A k \in 0..8 : D[k] = Xor(below, Shifted(r[k], m + 8 - k))
  <2> DEFINE Bad == {k \in 0..8 : D[k] # Xor(below, Shifted(r[k], m + 8 - k))}
  <2>1. SUFFICES ASSUME Bad # {} PROVE FALSE
    OBVIOUS
  <2>2. PICK k \in Bad : \A j \in Bad : k <= j
    <3>1. Bad \subseteq Nat
      OBVIOUS
    <3>. QED
      BY <2>1, <3>1, Least
  <2>3. k # 0
    <3>1. m + 8 - 0 = m + 8
      OBVIOUS
    <3>. QED
      BY <1>6, <3>1
  <2>4. k \in 1..8 /\ k - 1 \in 0..8 /\ ~(k <= k - 1)
    BY <2>3
  <2>5. k - 1 \notin Bad
    <3> HIDE DEF Bad
    <3>. QED
      BY <2>2, <2>4
  <2>6. D[k - 1] = Xor(below, Shifted(r[k - 1], m + 8 - (k - 1)))
    BY <2>4, <2>5
  <2>7. m + 8 - (k - 1) = (m + 8 - k) + 1 /\ m + 8 - k \in Nat /\ m + 8 - k >= m
    BY <2>4
  <2>8. \A e \in below : e < 32 + (m + 8 - k)
    BY <1>4, <1>5, <2>7
  <2>9. r[k - 1] \in SUBSET Bit
    BY <2>4
  <2>10. Divide(D[k - 1], m + 8 - k) = Xor(below, Shifted(BitStep(r[k - 1]), m + 8 - k))
    BY <1>4, <2>6, <2>7, <2>8, <2>9, DivideShifted
  <2>11. D[k] = Divide(D[k - 1], m + 8 - k) /\ r[k] = BitStep(r[k - 1])
    BY <1>0, <1>1, <2>4
  <2>12. k \notin Bad
    BY <2>10, <2>11
  <2>. QED
    BY <2>12
<1>8. D[8] = Xor(below, Shifted(r[8], m))
  <2>1. 8 \in 0..8 /\ m + 8 - 8 = m
    OBVIOUS
  <2>. QED
    BY <1>7, <2>1
<1>9. r[8] \in SUBSET Bit /\ ByteStep(sum, byte) \in SUBSET Int
  BY <1>1, <1>2, BitIs DEF Xor
<1>10. /\ Shifted(r[8], m) \in SUBSET Int
       /\ \A e \in Int : e \in Shifted(r[8], m) <=> e - m \in r[8]
  BY <1>9, ShiftedIs, BitIs
<1>11. /\ Shifted(ByteStep(sum, byte), m) \in SUBSET Int
       /\ \A e \in Int : e \in Shifted(ByteStep(sum, byte), m) <=> e - m \in ByteStep(sum, byte)
  BY <1>9, ShiftedIs
<1>12. ASSUME NEW e \in Int
       PROVE  e \in D[8] <=> e \in Xor(rest, Shifted(ByteStep(sum, byte), m))
  <2>1. e \in D[8] <=> ~(~(e \in rest <=> e - m \in low) <=> e - m \in r[8])
    BY <1>4, <1>8, <1>10, XorIs
  <2>2. e - m \in ByteStep(sum, byte) <=> ~(e - m \in low <=> e - m \in r[8])
    BY <1>1, XorIs
  <2>. QED
    BY <1>11, <2>1, <2>2, XorIs
<1>13. D[8] \in SUBSET Int /\ Xor(rest, Shifted(ByteStep(sum, byte), m)) \in SUBSET Int
  BY <1>4, <1>8, <1>10, <1>11 DEF Xor
<1>. QED
  BY <1>12, <1>13

\* The bytes of a message after the first i, in their places.
LaterBytes(bytes, i) ==
    UNION {Shifted(bytes[j], 8 * (Len(bytes) - j)) : j \in (i + 1)..Len(bytes)}

\* The bytes that follow lie below the place of the one before them.
LEMMA TailIs ==
    ASSUME NEW bytes \in Seq(SUBSET (0..7)), NEW i \in 0..Len(bytes)
    PROVE  /\ LaterBytes(bytes, i) \in SUBSET Int
           /\ \A e \in Int : e \in LaterBytes(bytes, i) <=>
                 \E j \in (i + 1)..Len(bytes) : e - 8 * (Len(bytes) - j) \in bytes[j]
           /\ \A e \in LaterBytes(bytes, i) : e < 8 * (Len(bytes) - i)
<1> DEFINE n == Len(bytes)
<1>1. n \in Nat /\ \A j \in (i + 1)..n : bytes[j] \in SUBSET (0..7) /\ j \in 1..n
  OBVIOUS
<1>2. ASSUME NEW j \in (i + 1)..n
      PROVE  /\ Shifted(bytes[j], 8 * (n - j)) \in SUBSET Int
             /\ \A e \in Int : e \in Shifted(bytes[j], 8 * (n - j)) <=> e - 8 * (n - j) \in bytes[j]
  <2>1. bytes[j] \in SUBSET Int /\ 8 * (n - j) \in Int
    BY <1>1
  <2>. QED
    BY <2>1, ShiftedIs
<1>3. LaterBytes(bytes, i) \in SUBSET Int
  BY <1>2 DEF LaterBytes
<1>4. \A e \in Int : e \in LaterBytes(bytes, i) <=>
                        \E j \in (i + 1)..n : e - 8 * (n - j) \in bytes[j]
  BY <1>2 DEF LaterBytes
<1>5. ASSUME NEW e \in LaterBytes(bytes, i) PROVE e < 8 * (n - i)
  <2>1. PICK j \in (i + 1)..n : e - 8 * (n - j) \in bytes[j]
    BY <1>3, <1>4
  <2>2. e - 8 * (n - j) <= 7 /\ e \in Int
    BY <1>1, <1>3, <2>1
  <2>. QED
    BY <1>1, <2>2
<1>. QED
  BY <1>3, <1>4, <1>5

\* A byte joins those that follow it without touching their bits.
LEMMA TailStep ==
    ASSUME NEW bytes \in Seq(SUBSET (0..7)), NEW i \in 1..Len(bytes)
    PROVE  LaterBytes(bytes, i - 1) = Xor(LaterBytes(bytes, i), Shifted(bytes[i], 8 * (Len(bytes) - i)))
<1> DEFINE n == Len(bytes)
<1>1. n \in Nat /\ i - 1 \in 0..n /\ i \in 0..n /\ (i - 1) + 1 = i
  OBVIOUS
<1>2. bytes[i] \in SUBSET (0..7)
  OBVIOUS
<1>3. /\ Shifted(bytes[i], 8 * (n - i)) \in SUBSET Int
      /\ \A e \in Int : e \in Shifted(bytes[i], 8 * (n - i)) <=> e - 8 * (n - i) \in bytes[i]
  <2>1. bytes[i] \in SUBSET Int
    BY <1>2
  <2>2. 8 * (n - i) \in Int
    BY <1>1
  <2>. QED
    BY <2>1, <2>2, ShiftedIs
<1>4. ASSUME NEW e \in Int
      PROVE  e \in LaterBytes(bytes, i - 1) <=>
                e \in Xor(LaterBytes(bytes, i), Shifted(bytes[i], 8 * (n - i)))
  <2>1. e \in LaterBytes(bytes, i - 1) <=> \E j \in i..n : e - 8 * (n - j) \in bytes[j]
    BY <1>1, TailIs
  <2>2. e \in LaterBytes(bytes, i) <=> \E j \in (i + 1)..n : e - 8 * (n - j) \in bytes[j]
    BY <1>1, TailIs
  <2>3. e - 8 * (n - i) \in bytes[i] => e \notin LaterBytes(bytes, i)
    <3>1. e \in LaterBytes(bytes, i) => e < 8 * (n - i)
      BY <1>1, TailIs
    <3>2. e - 8 * (n - i) \in bytes[i] => e - 8 * (n - i) >= 0
      BY <1>2
    <3>. QED
      BY <1>1, <3>1, <3>2
  <2>4. \A j : j \in i..n <=> j = i \/ j \in (i + 1)..n
    BY <1>1
  <2>5. e \in LaterBytes(bytes, i - 1) <=> e - 8 * (n - i) \in bytes[i] \/ e \in LaterBytes(bytes, i)
    BY <2>1, <2>2, <2>4, Zenon
  <2>6. e \in Xor(LaterBytes(bytes, i), Shifted(bytes[i], 8 * (n - i))) <=>
            ~(e \in LaterBytes(bytes, i) <=> e \in Shifted(bytes[i], 8 * (n - i)))
    BY XorIs
  <2>. QED
    BY <1>3, <2>3, <2>5, <2>6
<1>5. /\ LaterBytes(bytes, i - 1) \in SUBSET Int
      /\ Xor(LaterBytes(bytes, i), Shifted(bytes[i], 8 * (n - i))) \in SUBSET Int
  BY <1>1, <1>3, TailIs DEF Xor
<1>. QED
  BY <1>4, <1>5

\* Degrees add up over an exclusive or.
LEMMA ShiftedXor ==
    ASSUME NEW s \in SUBSET Int, NEW t \in SUBSET Int, NEW n \in Int, NEW k \in Int
    PROVE  Shifted(Xor(s, Shifted(t, k)), n) = Xor(Shifted(s, n), Shifted(t, n + k))
<1>1. \A e \in Int : e \in Shifted(t, k) <=> e - k \in t
  BY ShiftedIs
<1>2. Shifted(t, k) \in SUBSET Int /\ Xor(s, Shifted(t, k)) \in SUBSET Int
  BY ShiftedIs DEF Xor
<1>3. ASSUME NEW e \in Int
      PROVE  e \in Shifted(Xor(s, Shifted(t, k)), n) <=> e \in Xor(Shifted(s, n), Shifted(t, n + k))
  <2>1. e - n \in Int /\ n + k \in Int /\ (e - n) - k = e - (n + k)
    OBVIOUS
  <2>2. e \in Shifted(Xor(s, Shifted(t, k)), n) <=> ~(e - n \in s <=> e - (n + k) \in t)
    BY <1>1, <1>2, <2>1, ShiftedIs, XorIs
  <2>3. e \in Shifted(s, n) <=> e - n \in s
    BY ShiftedIs
  <2>4. e \in Shifted(t, n + k) <=> e - (n + k) \in t
    BY <2>1, ShiftedIs
  <2>. QED
    BY <2>2, <2>3, <2>4, XorIs
<1>4. /\ Shifted(Xor(s, Shifted(t, k)), n) \in SUBSET Int
      /\ Shifted(s, n) \in SUBSET Int /\ Shifted(t, n + k) \in SUBSET Int
  BY <1>2, ShiftedIs
<1>. QED
  BY <1>3, <1>4 DEF Xor

\* crc32_small works out the remainder of the message, whatever its length and
\* the seed.
THEOREM ChecksumRight ==
    \A bytes \in Seq(SUBSET (0..7)), seed \in SUBSET Bit :
        crc32_small(bytes, seed) = Checksum(bytes, seed)
<1>. SUFFICES ASSUME NEW bytes \in Seq(SUBSET (0..7)), NEW seed \in SUBSET Bit
              PROVE  crc32_small(bytes, seed) = Checksum(bytes, seed)
  OBVIOUS
<1> DEFINE n        == Len(bytes)
           dividend == Xor(Shifted(Number(bytes), 32), Shifted(seed, 8 * n))
           rest(i)  == Shifted(LaterBytes(bytes, i), 32)
<1>1. n \in Nat /\ 8 * n \in Nat
  OBVIOUS
<1>2. PICK f \in [0..n -> SUBSET Bit] :
             /\ f[0] = seed
             /\ \A i \in 1..n : f[i] = ByteStep(f[i - 1], bytes[i])
             /\ crc32_small(bytes, seed) = f[n]
  BY CrcIs
<1>3. Number(bytes) = LaterBytes(bytes, 0)
  BY DEF Number, LaterBytes
<1>4. dividend \in SUBSET Nat
  <2>1. Number(bytes) \in SUBSET Nat
    <3>1. \A j \in 1..n : bytes[j] \in SUBSET Nat /\ 8 * (n - j) \in Nat
      BY <1>1
    <3>. QED
      BY <3>1 DEF Number, Shifted
  <2>2. Shifted(Number(bytes), 32) \in SUBSET Nat
    BY <2>1 DEF Shifted
  <2>3. Shifted(seed, 8 * n) \in SUBSET Nat
    BY <1>1, BitIs DEF Shifted
  <2>. QED
    BY <2>2, <2>3 DEF Xor
<1>5. PICK R \in [0..(8 * n) -> SUBSET Nat] :
             /\ R[0] = dividend
             /\ \A i \in 1..(8 * n) : R[i] = Divide(R[i - 1], 8 * n - i)
             /\ Remainder(dividend, 8 * n) = R[8 * n]
  <2> HIDE DEF dividend
  <2>. QED
    BY <1>1, <1>4, RemainderIs
<1>6. Checksum(bytes, seed) = R[8 * n]
  BY <1>5 DEF Checksum
<1>7. \A i \in 0..n : rest(i) \in SUBSET Int /\ \A e \in rest(i) : e < 32 + 8 * (n - i)
  <2>. TAKE i \in 0..n
  <2>1. LaterBytes(bytes, i) \in SUBSET Int /\ \A e \in LaterBytes(bytes, i) : e < 8 * (n - i)
    BY TailIs
  <2>. QED
    BY <1>1, <2>1 DEF Shifted
<1>8. \A i \in 0..n : R[8 * i] = Xor(rest(i), Shifted(f[i], 8 * (n - i)))
  <2> DEFINE Bad == {i \in 0..n : R[8 * i] # Xor(rest(i), Shifted(f[i], 8 * (n - i)))}
  <2>1. SUFFICES ASSUME Bad # {} PROVE FALSE
    BY Zenon
  <2>2. PICK i \in Bad : \A j \in Bad : i <= j
    <3>1. Bad \subseteq Nat
      BY <1>1
    <3>. QED
      BY <2>1, <3>1, Least
  <2>3. i # 0
    <3>1. 8 * 0 = 0 /\ 8 * (n - 0) = 8 * n
      BY <1>1
    <3>2. R[8 * 0] = Xor(rest(0), Shifted(f[0], 8 * (n - 0)))
      BY <1>2, <1>3, <1>5, <3>1
    <3>. QED
      BY <3>2
  <2>4. i \in 1..n /\ i - 1 \in 0..n /\ i \in 0..n /\ ~(i <= i - 1)
    BY <1>1, <2>3
  <2>5. R[8 * (i - 1)] = Xor(rest(i - 1), Shifted(f[i - 1], 8 * (n - (i - 1))))
    <3>1. i - 1 \notin Bad
      <4> HIDE DEF Bad
      <4>. QED
        BY <2>2, <2>4
    <3>. QED
      BY <2>4, <3>1
  <2> DEFINE m == 8 * (n - i)
             D == [k \in 0..8 |-> R[8 * (i - 1) + k]]
  <2>6. m \in Nat /\ 8 * (n - (i - 1)) = m + 8 /\ 32 + m = m + 32
    BY <1>1, <2>4
  <2>7. bytes[i] \in SUBSET (0..7) /\ f[i - 1] \in SUBSET Bit
    <3>1. bytes[i] \in SUBSET (0..7)
      BY <2>4
    <3>2. f[i - 1] \in SUBSET Bit
      BY <2>4, Zenon
    <3>. QED
      BY <3>1, <3>2
  <2>8. rest(i - 1) = Xor(rest(i), Shifted(bytes[i], m + 32))
    <3>1. LaterBytes(bytes, i - 1) = Xor(LaterBytes(bytes, i), Shifted(bytes[i], m))
      BY <2>4, TailStep
    <3>2. LaterBytes(bytes, i) \in SUBSET Int
      BY <2>4, TailIs
    <3>3. bytes[i] \in SUBSET Int /\ 32 \in Int
      <4>1. \A b \in 0..7 : b \in Int
        OBVIOUS
      <4>2. bytes[i] \in SUBSET Int
        BY <2>7, <4>1, Zenon
      <4>3. 32 \in Int
        OBVIOUS
      <4>. QED
        BY <4>2, <4>3
    <3>4. m \in Int
      BY <2>6
    <3> HIDE DEF m
    <3>. QED
      BY <2>6, <3>1, <3>2, <3>3, <3>4, ShiftedXor
  <2>9. D[0] = Xor(Xor(rest(i), Shifted(bytes[i], m + 32)), Shifted(f[i - 1], m + 8))
    <3>1. D[0] = R[8 * (i - 1)]
      BY <2>4
    <3>. QED
      BY <2>5, <2>6, <2>8, <3>1, Zenon
  <2>10. \A k \in 1..8 : D[k] = Divide(D[k - 1], m + 8 - k)
    <3>. TAKE k \in 1..8
    <3>1. /\ k \in 0..8 /\ k - 1 \in 0..8
          /\ 8 * (i - 1) + k \in 1..(8 * n)
          /\ (8 * (i - 1) + k) - 1 = 8 * (i - 1) + (k - 1)
          /\ 8 * n - (8 * (i - 1) + k) = m + 8 - k
      BY <1>1, <2>4
    <3>2. D[k] = R[8 * (i - 1) + k] /\ D[k - 1] = R[8 * (i - 1) + (k - 1)]
      BY <3>1
    <3>3. R[8 * (i - 1) + k] = Divide(R[8 * (i - 1) + (k - 1)], m + 8 - k)
      BY <1>5, <3>1
    <3>. QED
      BY <3>2, <3>3
  <2>11. D[8] = Xor(rest(i), Shifted(ByteStep(f[i - 1], bytes[i]), m))
    <3>1. rest(i) \in SUBSET Int /\ \A e \in rest(i) : e < 32 + m
      BY <1>7, <2>4
    <3> HIDE DEF D, m, rest
    <3>2. DividesByte(D, m, f[i - 1], bytes[i], rest(i))
      BY <2>9, <2>10, <3>1, Zenon DEF DividesByte
    <3>. QED
      <4>1. PICK w \in SUBSET Bit : w = f[i - 1]
        BY <2>7
      <4>2. PICK b \in SUBSET (0..7) : b = bytes[i]
        BY <2>7
      <4>3. PICK t \in SUBSET Int : t = rest(i)
        BY <3>1
      <4>4. DividesByte(D, m, w, b, t) /\ m \in Nat
        BY <2>6, <3>2, <4>1, <4>2, <4>3
      <4>5. D[8] = Xor(t, Shifted(ByteStep(w, b), m))
        BY <4>4, ByteDivided
      <4>. QED
        BY <4>1, <4>2, <4>3, <4>5
  <2>12. D[8] = R[8 * i] /\ f[i] = ByteStep(f[i - 1], bytes[i])
    <3>1. 8 * (i - 1) + 8 = 8 * i
      BY <2>4
    <3>. QED
      BY <1>2, <2>4, <3>1
  <2>13. i \notin Bad
    BY <2>11, <2>12
  <2>. QED
    BY <2>13
<1>9. R[8 * n] = Xor(rest(n), Shifted(f[n], 8 * (n - n)))
  BY <1>1, <1>8
<1>10. rest(n) = {}
  <2>1. (n + 1)..n = {}
    BY <1>1
  <2>. QED
    BY <2>1 DEF LaterBytes, Shifted
<1>11. Shifted(f[n], 8 * (n - n)) = f[n]
  <2>1. 8 * (n - n) = 0 /\ n \in 0..n
    BY <1>1
  <2>2. f[n] \in SUBSET Bit
    BY <2>1
  <2>3. \A b \in Bit : b + 0 = b
    BY BitIs
  <2>. QED
    BY <2>1, <2>2, <2>3 DEF Shifted
<1>. QED
  BY <1>2, <1>6, <1>9, <1>10, <1>11 DEF Xor

\* A digit is one where the bit is in the word.
LEMMA DigitIs ==
    \A w, b : /\ Digit(w, b) \in {0, 1}
              /\ b \in w => Digit(w, b) = 1
              /\ b \notin w => Digit(w, b) = 0
  BY DEF Digit

\* c is the carry of the sum s of v and w.
Carries(v, w, s, c) ==
    /\ c \in [0..32 -> {0, 1}] /\ c[0] = 0
    /\ \A b \in Bit : Digit(s, b) + 2 * c[b + 1] = Digit(v, b) + Digit(w, b) + c[b]

\* The adder of a register has its carries.
LEMMA AddIs ==
    ASSUME NEW v, NEW w
    PROVE  Add(v, w) \in SUBSET Bit /\ \E c : Carries(v, w, Add(v, w), c)
<1>. DEFINE step == [i \in Nat |-> [t \in {0, 1} |->
                        (Digit(v, i - 1) + Digit(w, i - 1) + t) \div 2]]
<1>0. \A i \in Nat, t \in {0, 1} : (Digit(v, i - 1) + Digit(w, i - 1) + t) \div 2 \in {0, 1}
  <2>1. \A x, y, t \in {0, 1} : (x + y + t) \div 2 \in {0, 1}
    OBVIOUS
  <2>. TAKE i \in Nat, t \in {0, 1}
  <2>. PICK x \in {0, 1} : x = Digit(v, i - 1)
    BY DigitIs, Zenon
  <2>. PICK y \in {0, 1} : y = Digit(w, i - 1)
    BY DigitIs, Zenon
  <2>. QED
    BY <2>1, Zenon
<1>1. step \in [Nat -> [{0, 1} -> {0, 1}]]
  BY <1>0, Zenon
<1>2. PICK f \in [0..32 -> {0, 1}] : f[0] = 0 /\ \A i \in 1..32 : f[i] = step[i][f[i - 1]]
  <2>. HIDE DEF step
  <2>1. Loops(32, {0, 1}, 0, step)
    BY <1>1, LoopExists
  <2>. QED
    BY <2>1 DEF Loops
<1>3. ASSUME NEW i \in 1..32
      PROVE  f[i] = (Digit(v, i - 1) + Digit(w, i - 1) + f[i - 1]) \div 2
  <2>1. i - 1 \in 0..32 /\ i \in Nat
    OBVIOUS
  <2>2. f[i - 1] \in {0, 1}
    BY <2>1, Zenon
  <2>3. f[i] = step[i][f[i - 1]]
    BY <1>2, Zenon
  <2>. QED
    BY <2>1, <2>2, <2>3, Zenon
<1>4. f = [b \in 0..32 |->
             IF b = 0 THEN 0 ELSE (Digit(v, b - 1) + Digit(w, b - 1) + f[b - 1]) \div 2]
  <2>1. \A b \in 0..32 : b # 0 => b \in 1..32
    OBVIOUS
  <2>2. \A b \in 0..32 : f[b] =
           IF b = 0 THEN 0 ELSE (Digit(v, b - 1) + Digit(w, b - 1) + f[b - 1]) \div 2
    BY <1>2, <1>3, <2>1, Zenon
  <2>. QED
    BY <2>2, Zenon
<1>. DEFINE carry == CHOOSE c : c = [b \in 0..32 |->
             IF b = 0 THEN 0 ELSE (Digit(v, b - 1) + Digit(w, b - 1) + c[b - 1]) \div 2]
<1>5. carry = [b \in 0..32 |->
             IF b = 0 THEN 0 ELSE (Digit(v, b - 1) + Digit(w, b - 1) + carry[b - 1]) \div 2]
  BY <1>4, Zenon
<1>6. Add(v, w) = {b \in Bit : (Digit(v, b) + Digit(w, b) + carry[b]) % 2 = 1}
  BY Zenon DEF Add
<1>. HIDE DEF carry
<1>7. carry[0] = 0
  BY <1>5
<1>8. \A b \in 1..32 : carry[b] = (Digit(v, b - 1) + Digit(w, b - 1) + carry[b - 1]) \div 2
  <2>1. \A b \in 1..32 : b \in 0..32 /\ b # 0
    OBVIOUS
  <2>. QED
    BY <1>5, <2>1, Zenon
<1>9. \A b \in 0..32 : carry[b] \in {0, 1}
  <2>1. \A b \in 1..32 : carry[b - 1] \in {0, 1} => carry[b] \in {0, 1}
    <3>1. \A b \in 1..32 : b \in Nat
      OBVIOUS
    <3>. QED
      BY <1>0, <1>8, <3>1, Zenon
  <2>2. carry[0] \in {0, 1}
    BY <1>7
  <2>. QED
    BY <2>1, <2>2, LoopKeeps
<1>10. carry \in [0..32 -> {0, 1}]
  BY <1>5, <1>9, Zenon
<1>11. ASSUME NEW b \in Bit
       PROVE  Digit(Add(v, w), b) + 2 * carry[b + 1] = Digit(v, b) + Digit(w, b) + carry[b]
  <2>1. b \in 0..32 /\ b + 1 \in 1..32 /\ (b + 1) - 1 = b
    BY DEF Bit
  <2>2. carry[b + 1] = (Digit(v, b) + Digit(w, b) + carry[b]) \div 2
    BY <1>8, <2>1, Zenon
  <2>. PICK x \in {0, 1} : x = Digit(v, b)
    BY DigitIs, Zenon
  <2>. PICK y \in {0, 1} : y = Digit(w, b)
    BY DigitIs, Zenon
  <2>. PICK t \in {0, 1} : t = carry[b]
    BY <1>9, <2>1, Zenon
  <2>. PICK s \in {0, 1} : s = Digit(Add(v, w), b)
    BY DigitIs, Zenon
  <2>3. s = 1 <=> (x + y + t) % 2 = 1
    BY <1>6 DEF Digit
  <2>4. s + 2 * ((x + y + t) \div 2) = x + y + t
    BY <2>3
  <2>. QED
    BY <2>2, <2>4, Zenon
<1>12. Carries(v, w, Add(v, w), carry)
  BY <1>7, <1>10, <1>11, Zenon DEF Carries
<1>. QED
  BY <1>6, <1>12, Zenon

\* The number in three and in six bits from p.
F3(w, p) == Digit(w, p) + 2 * Digit(w, p + 1) + 4 * Digit(w, p + 2)
F6(w, p) == F3(w, p) + 8 * F3(w, p + 3)

\* Fields of three and of six bits are within their widths.
LEMMA FieldTypes ==
    ASSUME NEW w, NEW p
    PROVE  F3(w, p) \in 0..7 /\ F6(w, p) \in 0..63
<1>1. \A x, y, z \in {0, 1} : x + 2 * y + 4 * z \in 0..7
  OBVIOUS
<1>2. \A q : F3(w, q) \in 0..7
  <2>. TAKE q
  <2>. QED
    BY <1>1, DigitIs, Zenon DEF F3
<1>3. \A x, y \in 0..7 : x + 8 * y \in 0..63
  OBVIOUS
<1>. QED
  BY <1>2, <1>3, Zenon DEF F6

\* The sum of two fields of three bits, with the carries into and out of it.
LEMMA Add3 ==
    ASSUME NEW v, NEW w, NEW s, NEW c, Carries(v, w, s, c), NEW p \in 0..29
    PROVE  F3(s, p) + 8 * c[p + 3] = F3(v, p) + F3(w, p) + c[p]
<1>1. p \in Bit /\ p + 1 \in Bit /\ p + 2 \in Bit
  BY DEF Bit
<1>2. p + 1 \in 0..32 /\ p + 2 \in 0..32 /\ p + 3 \in 0..32 /\ p \in 0..32
  OBVIOUS
<1>3. (p + 1) + 1 = p + 2 /\ (p + 2) + 1 = p + 3
  OBVIOUS
<1>4. /\ Digit(s, p) + 2 * c[p + 1] = Digit(v, p) + Digit(w, p) + c[p]
      /\ Digit(s, p + 1) + 2 * c[p + 2] = Digit(v, p + 1) + Digit(w, p + 1) + c[p + 1]
      /\ Digit(s, p + 2) + 2 * c[p + 3] = Digit(v, p + 2) + Digit(w, p + 2) + c[p + 2]
  BY <1>1, <1>3, Zenon DEF Carries
<1>5. /\ c[p] \in {0, 1} /\ c[p + 1] \in {0, 1} /\ c[p + 2] \in {0, 1} /\ c[p + 3] \in {0, 1}
  BY <1>2, Zenon DEF Carries
<1>6. \A x : /\ Digit(x, p) \in {0, 1} /\ Digit(x, p + 1) \in {0, 1} /\ Digit(x, p + 2) \in {0, 1}
             /\ F3(x, p) = Digit(x, p) + 2 * Digit(x, p + 1) + 4 * Digit(x, p + 2)
  BY DigitIs, Zenon DEF F3
<1>. QED
  BY <1>4, <1>5, <1>6

\* Two words add up in a field of six bits, with the carry in and out.
LEMMA Add6 ==
    ASSUME NEW v, NEW w, NEW s, NEW c, Carries(v, w, s, c), NEW p \in 0..26
    PROVE  F6(s, p) + 64 * c[p + 6] = F6(v, p) + F6(w, p) + c[p]
<1>1. p \in 0..29 /\ p + 3 \in 0..29 /\ (p + 3) + 3 = p + 6
  OBVIOUS
<1>2. /\ F3(s, p) + 8 * c[p + 3] = F3(v, p) + F3(w, p) + c[p]
      /\ F3(s, p + 3) + 8 * c[p + 6] = F3(v, p + 3) + F3(w, p + 3) + c[p + 3]
  <2>1. \A q \in 0..29 : F3(s, q) + 8 * c[q + 3] = F3(v, q) + F3(w, q) + c[q]
    BY Add3
  <2>. QED
    BY <1>1, <2>1, Zenon
<1>3. p \in 0..32 /\ p + 3 \in 0..32 /\ p + 6 \in 0..32
  OBVIOUS
<1>4. c[p] \in {0, 1} /\ c[p + 3] \in {0, 1} /\ c[p + 6] \in {0, 1}
  BY <1>3, Zenon DEF Carries
<1>5. \A x : /\ F3(x, p) \in 0..7 /\ F3(x, p + 3) \in 0..7
             /\ F6(x, p) = F3(x, p) + 8 * F3(x, p + 3)
  BY FieldTypes, Zenon DEF F6
<1>6. /\ F6(s, p) = F3(s, p) + 8 * F3(s, p + 3) /\ F6(v, p) = F3(v, p) + 8 * F3(v, p + 3)
      /\ F6(w, p) = F3(w, p) + 8 * F3(w, p + 3)
      /\ F3(s, p) \in Int /\ F3(s, p + 3) \in Int /\ F3(v, p) \in Int
      /\ F3(v, p + 3) \in Int /\ F3(w, p) \in Int /\ F3(w, p + 3) \in Int
  BY <1>5
<1>7. c[p] \in Int /\ c[p + 3] \in Int /\ c[p + 6] \in Int
  BY <1>4
<1>. QED
  BY <1>2, <1>6, <1>7

\* The bits above a field at the top are none of a word.
LEMMA AddTop ==
    ASSUME NEW v \in SUBSET Bit, NEW w \in SUBSET Bit, NEW s \in SUBSET Bit, NEW c,
           Carries(v, w, s, c), c[30] = 0, F3(v, 30) + F3(w, 30) <= 3
    PROVE  F3(s, 30) = F3(v, 30) + F3(w, 30)
<1>1. 30 \in Bit /\ 31 \in Bit /\ 32 \notin Bit /\ 30 + 1 = 31 /\ 31 + 1 = 32 /\ 30 + 2 = 32
  BY DEF Bit
<1>2. /\ Digit(s, 30) + 2 * c[31] = Digit(v, 30) + Digit(w, 30) + 0
      /\ Digit(s, 31) + 2 * c[32] = Digit(v, 31) + Digit(w, 31) + c[31]
  BY <1>1, Zenon DEF Carries
<1>3. Digit(v, 32) = 0 /\ Digit(w, 32) = 0 /\ Digit(s, 32) = 0
  BY <1>1, SMT DEF Digit
<1>4. \A x : F3(x, 30) = Digit(x, 30) + 2 * Digit(x, 31) + 4 * Digit(x, 32)
  BY <1>1, Zenon DEF F3
<1>5. c[31] \in {0, 1} /\ c[32] \in {0, 1}
  <2>1. 31 \in 0..32 /\ 32 \in 0..32
    OBVIOUS
  <2>. QED
    BY <2>1, Zenon DEF Carries
<1>6. \A x : Digit(x, 30) \in {0, 1} /\ Digit(x, 31) \in {0, 1}
  BY DigitIs, Zenon
<1>. QED
  BY <1>2, <1>3, <1>4, <1>5, <1>6

\* Where no field overflows, the fields of the sum are the sums of the fields.
LEMMA AddTriads ==
    ASSUME NEW v \in SUBSET Bit, NEW w \in SUBSET Bit,
           \A k \in 0..9 : F3(v, 3 * k) + F3(w, 3 * k) <= 7,
           F3(v, 30) + F3(w, 30) <= 3
    PROVE  \A k \in 0..10 : F3(Add(v, w), 3 * k) = F3(v, 3 * k) + F3(w, 3 * k)
<1>. DEFINE s == Add(v, w)
<1>1. PICK c : s \in SUBSET Bit /\ Carries(v, w, s, c)
  BY AddIs, Zenon
<1>. HIDE DEF s
<1>. DEFINE f == [k \in 0..10 |-> c[3 * k]]
<1>2. ASSUME NEW k \in 0..9, c[3 * k] = 0
      PROVE  F3(s, 3 * k) = F3(v, 3 * k) + F3(w, 3 * k) /\ c[3 * (k + 1)] = 0
  <2>1. 3 * k \in 0..29 /\ 3 * (k + 1) = 3 * k + 3 /\ 3 * (k + 1) \in 0..32
    OBVIOUS
  <2>. PICK p \in 0..29 : p = 3 * k
    BY <2>1, Zenon
  <2>2. F3(s, p) + 8 * c[p + 3] = F3(v, p) + F3(w, p) + c[p]
    BY <1>1, Add3
  <2>3. F3(v, p) + F3(w, p) <= 7 /\ c[p] = 0
    BY <1>2, Zenon
  <2>4. F3(s, p) \in 0..7 /\ F3(v, p) \in 0..7 /\ F3(w, p) \in 0..7
    BY FieldTypes, Zenon
  <2>5. c[p + 3] \in {0, 1}
    <3>1. p + 3 \in 0..32
      OBVIOUS
    <3>. QED
      BY <1>1, <3>1, Zenon DEF Carries
  <2>6. c[p + 3] = 0
    BY <2>2, <2>3, <2>4, <2>5
  <2>7. F3(s, p) = F3(v, p) + F3(w, p)
    BY <2>2, <2>3, <2>4, <2>6
  <2>. QED
    BY <2>1, <2>6, <2>7, Zenon
<1>3. \A k \in 0..10 : f[k] \in {0}
  <2>1. f[0] \in {0}
    <3>1. 3 * 0 = 0 /\ 0 \in 0..10
      OBVIOUS
    <3>. QED
      BY <1>1, <3>1, Zenon DEF Carries
  <2>2. \A k \in 1..10 : f[k - 1] \in {0} => f[k] \in {0}
    <3>. SUFFICES ASSUME NEW k \in 1..10, f[k - 1] \in {0} PROVE f[k] \in {0}
      OBVIOUS
    <3>1. k - 1 \in 0..9 /\ k - 1 \in 0..10 /\ k \in 0..10 /\ (k - 1) + 1 = k
      OBVIOUS
    <3>2. c[3 * (k - 1)] = 0
      BY <3>1, Zenon
    <3>. QED
      BY <1>2, <3>1, <3>2, Zenon
  <2>. HIDE DEF f
  <2>. QED
    BY <2>1, <2>2, LoopKeeps
<1>4. \A k \in 0..10 : c[3 * k] = 0
  BY <1>3, Zenon
<1>5. F3(s, 30) = F3(v, 30) + F3(w, 30)
  <2>1. 10 \in 0..10 /\ 3 * 10 = 30
    OBVIOUS
  <2>2. c[30] = 0
    BY <1>4, <2>1, Zenon
  <2>. QED
    BY <1>1, <2>2, AddTop
<1>6. \A k \in 0..9 : F3(s, 3 * k) = F3(v, 3 * k) + F3(w, 3 * k)
  <2>1. \A k \in 0..9 : k \in 0..10
    OBVIOUS
  <2>. QED
    BY <1>2, <1>4, <2>1, Zenon
<1>. SUFFICES ASSUME NEW k \in 0..10 PROVE F3(s, 3 * k) = F3(v, 3 * k) + F3(w, 3 * k)
  BY Zenon DEF s
<1>7. k \in 0..9 \/ 3 * k = 30
  OBVIOUS
<1>. QED
  BY <1>5, <1>6, <1>7, Zenon

\* Words whose fields of six bits do not overflow add up field by field.
LEMMA AddSixes ==
    ASSUME NEW v \in SUBSET Bit, NEW w \in SUBSET Bit, NEW r \in {0, 2},
           r = 2 => \A b \in 0..1 : b \notin v /\ b \notin w,
           \A k \in 0..4 : F6(v, r + 6 * k) + F6(w, r + 6 * k) <= 63
    PROVE  /\ \A k \in 0..4 : F6(Add(v, w), r + 6 * k) = F6(v, r + 6 * k) + F6(w, r + 6 * k)
           /\ r = 2 => \A b \in 0..1 : b \notin Add(v, w)
<1>. DEFINE s == Add(v, w)
<1>1. PICK c : s \in SUBSET Bit /\ Carries(v, w, s, c)
  BY AddIs, Zenon
<1>. HIDE DEF s
<1>. DEFINE f == [k \in 0..5 |-> c[r + 6 * k]]
<1>2. ASSUME NEW k \in 0..4, c[r + 6 * k] = 0
      PROVE  F6(s, r + 6 * k) = F6(v, r + 6 * k) + F6(w, r + 6 * k) /\ c[r + 6 * (k + 1)] = 0
  <2>1. r + 6 * k \in 0..26 /\ r + 6 * (k + 1) = (r + 6 * k) + 6
    OBVIOUS
  <2>. PICK p \in 0..26 : p = r + 6 * k
    BY <2>1, Zenon
  <2>2. F6(s, p) + 64 * c[p + 6] = F6(v, p) + F6(w, p) + c[p]
    BY <1>1, Add6
  <2>3. F6(v, p) + F6(w, p) <= 63 /\ c[p] = 0
    BY <1>2, Zenon
  <2>4. F6(s, p) \in 0..63 /\ F6(v, p) \in 0..63 /\ F6(w, p) \in 0..63
    BY FieldTypes, Zenon
  <2>5. c[p + 6] \in {0, 1}
    <3>1. p + 6 \in 0..32
      OBVIOUS
    <3>. QED
      BY <1>1, <3>1, Zenon DEF Carries
  <2>6. c[p + 6] = 0
    BY <2>2, <2>3, <2>4, <2>5
  <2>7. F6(s, p) = F6(v, p) + F6(w, p)
    BY <2>2, <2>3, <2>4, <2>6
  <2>. QED
    BY <2>1, <2>6, <2>7, Zenon
<1>3. c[r] = 0 /\ (r = 2 => \A b \in 0..1 : b \notin s)
  <2>1. CASE r = 0
    BY <1>1, <2>1 DEF Carries
  <2>2. CASE r = 2
    <3>1. \A b \in 0..1 : Digit(v, b) = 0 /\ Digit(w, b) = 0
      BY <2>2, DigitIs, Zenon
    <3>2. 0 \in Bit /\ 1 \in Bit /\ 0 \in 0..1 /\ 1 \in 0..1 /\ 0 + 1 = 1 /\ 1 + 1 = 2
      BY DEF Bit
    <3>3. c[1] \in {0, 1} /\ c[2] \in {0, 1}
      <4>1. 1 \in 0..32 /\ 2 \in 0..32
        OBVIOUS
      <4>. QED
        BY <1>1, <4>1, Zenon DEF Carries
    <3>4. Digit(s, 0) + 2 * c[1] = 0 + 0 + 0
      BY <1>1, <3>1, <3>2, Zenon DEF Carries
    <3>5. Digit(s, 1) + 2 * c[2] = 0 + 0 + c[1]
      BY <1>1, <3>1, <3>2, Zenon DEF Carries
    <3>6. Digit(s, 0) \in {0, 1} /\ Digit(s, 1) \in {0, 1}
      BY DigitIs, Zenon
    <3>7. Digit(s, 0) = 0 /\ Digit(s, 1) = 0 /\ c[2] = 0
      BY <3>3, <3>4, <3>5, <3>6
    <3>8. 0 \notin s /\ 1 \notin s
      BY <3>7 DEF Digit
    <3>. QED
      BY <2>2, <3>7, <3>8
  <2>. QED
    BY <2>1, <2>2, Zenon
<1>4. \A k \in 0..5 : f[k] \in {0}
  <2>1. f[0] \in {0}
    <3>1. r + 6 * 0 = r /\ 0 \in 0..5
      OBVIOUS
    <3>. QED
      BY <1>3, <3>1, Zenon
  <2>2. \A k \in 1..5 : f[k - 1] \in {0} => f[k] \in {0}
    <3>. SUFFICES ASSUME NEW k \in 1..5, f[k - 1] \in {0} PROVE f[k] \in {0}
      OBVIOUS
    <3>1. k - 1 \in 0..4 /\ k - 1 \in 0..5 /\ k \in 0..5 /\ (k - 1) + 1 = k
      OBVIOUS
    <3>2. c[r + 6 * (k - 1)] = 0
      BY <3>1, Zenon
    <3>. QED
      BY <1>2, <3>1, <3>2, Zenon
  <2>. HIDE DEF f
  <2>. QED
    BY <2>1, <2>2, LoopKeeps
<1>5. \A k \in 0..5 : c[r + 6 * k] = 0
  BY <1>4, Zenon
<1>6. \A k \in 0..4 : F6(s, r + 6 * k) = F6(v, r + 6 * k) + F6(w, r + 6 * k)
  <2>1. \A k \in 0..4 : k \in 0..5
    OBVIOUS
  <2>. QED
    BY <1>2, <1>5, <2>1, Zenon
<1>. QED
  BY <1>3, <1>6, Zenon DEF s

\* What is known of a power of two.
Doubles(n) == 2^n \in Nat /\ 2^n >= 1 /\ 2^(n + 1) = 2 * 2^n

\* The powers of two that a word has, each twice the one before.
LEMMA Powers == \A n \in 0..32 : Doubles(n)
<1>1. /\ Doubles(0) /\ Doubles(1) /\ Doubles(2) /\ Doubles(3) /\ Doubles(4) /\ Doubles(5)
      /\ Doubles(6) /\ Doubles(7) /\ Doubles(8) /\ Doubles(9) /\ Doubles(10)
  BY DEF Doubles
<1>2. /\ Doubles(11) /\ Doubles(12) /\ Doubles(13) /\ Doubles(14) /\ Doubles(15)
      /\ Doubles(16) /\ Doubles(17) /\ Doubles(18) /\ Doubles(19) /\ Doubles(20)
  BY DEF Doubles
<1>3. /\ Doubles(21) /\ Doubles(22) /\ Doubles(23) /\ Doubles(24) /\ Doubles(25) /\ Doubles(26)
      /\ Doubles(27) /\ Doubles(28) /\ Doubles(29) /\ Doubles(30) /\ Doubles(31) /\ Doubles(32)
  BY DEF Doubles
<1>. QED
  BY <1>1, <1>2, <1>3

\* The value of a word is a sum over its bits.
LEMMA ValueIs ==
    ASSUME NEW w
    PROVE  \E f : /\ f \in [0..32 -> Nat] /\ f[0] = 0
                  /\ \A b \in Bit : f[b + 1] = IF b \in w THEN f[b] + 2^b ELSE f[b]
                  /\ Value(w) = f[32]
<1>. DEFINE Step(b, t) == IF b - 1 \in w THEN t + 2^(b - 1) ELSE t
           step == [b \in Nat |-> [t \in Nat |-> IF b \in 1..32 THEN Step(b, t) ELSE t]]
<1>0. ASSUME NEW b \in 1..32, NEW t \in Nat PROVE Step(b, t) \in Nat
  <2>1. b - 1 \in 0..32
    OBVIOUS
  <2>2. 2^(b - 1) \in Nat
    BY <2>1, Powers, Zenon DEF Doubles
  <2>. QED
    BY <2>2
<1>1. step \in [Nat -> [Nat -> Nat]]
  BY <1>0, Zenon
<1>2. PICK f \in [0..32 -> Nat] : f[0] = 0 /\ \A b \in 1..32 : f[b] = step[b][f[b - 1]]
  <2>. HIDE DEF step
  <2>0. 0 \in Nat
    OBVIOUS
  <2>1. Loops(32, Nat, 0, step)
    BY <1>1, <2>0, LoopExists
  <2>. QED
    BY <2>1 DEF Loops
<1>3. \A b \in 0..32 : b # 0 => b \in 1..32
  OBVIOUS
<1>4. \A b \in 0..32 : f[b] = IF b = 0 THEN 0 ELSE Step(b, f[b - 1])
  <2>. HIDE DEF Step
  <2>1. \A b \in 1..32 : b \in Nat /\ b - 1 \in 0..32
    OBVIOUS
  <2>2. \A b \in 1..32 : f[b] = Step(b, f[b - 1])
    <3>. TAKE b \in 1..32
    <3>1. f[b - 1] \in Nat
      BY <2>1, Zenon
    <3>. QED
      BY <1>2, <2>1, <3>1, Zenon
  <2>. QED
    BY <1>2, <1>3, <2>2, Zenon
<1>5. f = [b \in 0..32 |-> IF b = 0 THEN 0
             ELSE IF b - 1 \in w THEN f[b - 1] + 2^(b - 1) ELSE f[b - 1]]
  BY <1>4, Zenon
<1>. DEFINE sum == CHOOSE r : r = [b \in 0..32 |-> IF b = 0 THEN 0
             ELSE IF b - 1 \in w THEN r[b - 1] + 2^(b - 1) ELSE r[b - 1]]
<1>6. sum = [b \in 0..32 |-> IF b = 0 THEN 0
             ELSE IF b - 1 \in w THEN sum[b - 1] + 2^(b - 1) ELSE sum[b - 1]]
  BY <1>5, Zenon
<1>7. Value(w) = sum[32]
  BY Zenon DEF Value
<1>. HIDE DEF sum
<1>8. \A b \in 0..32 : sum[b] = IF b = 0 THEN 0 ELSE Step(b, sum[b - 1])
  BY <1>6, Zenon
<1>9. sum[0] = 0
  <2>1. 0 \in 0..32
    OBVIOUS
  <2>. QED
    BY <1>8, <2>1, Zenon
<1>10. \A b \in 0..32 : sum[b] \in Nat
  <2>. HIDE DEF Step
  <2>1. \A b \in 1..32 : b \in 0..32 /\ b # 0
    OBVIOUS
  <2>2. \A b \in 1..32 : sum[b - 1] \in Nat => sum[b] \in Nat
    BY <1>0, <1>8, <2>1, Zenon
  <2>3. sum[0] \in Nat
    BY <1>9
  <2>. QED
    BY <2>2, <2>3, LoopKeeps
<1>11. sum \in [0..32 -> Nat]
  BY <1>6, <1>10, Zenon
<1>12. \A b \in Bit : sum[b + 1] = IF b \in w THEN sum[b] + 2^b ELSE sum[b]
  <2>1. \A b \in Bit : b + 1 \in 0..32 /\ b + 1 # 0 /\ (b + 1) - 1 = b
    BY DEF Bit
  <2>. QED
    BY <1>8, <2>1, Zenon
<1>. QED
  BY <1>7, <1>9, <1>11, <1>12, Zenon

\* f is the sum of the multiplication of v by w, bit by bit.
Multiplies(v, w, f) ==
    /\ f \in [0..32 -> SUBSET Bit] /\ f[0] = {}
    /\ \A b \in Bit : f[b + 1] = IF b \in w THEN Add(f[b], Lsl(v, b)) ELSE f[b]
    /\ Mul(v, w) = f[32]

\* The multiplication of registers is a loop over the bits of the second one.
LEMMA MulIs ==
    ASSUME NEW v, NEW w
    PROVE  \E f : Multiplies(v, w, f)
<1>. DEFINE Step(b, t) == IF b - 1 \in w THEN Add(t, Lsl(v, b - 1)) ELSE t
           step == [b \in Nat |-> [t \in SUBSET Bit |-> IF b \in 1..32 THEN Step(b, t) ELSE t]]
<1>0. ASSUME NEW b \in 1..32, NEW t \in SUBSET Bit PROVE Step(b, t) \in SUBSET Bit
  BY AddIs, Zenon
<1>1. step \in [Nat -> [SUBSET Bit -> SUBSET Bit]]
  BY <1>0, Zenon
<1>2. PICK f \in [0..32 -> SUBSET Bit] : f[0] = {} /\ \A b \in 1..32 : f[b] = step[b][f[b - 1]]
  <2>. HIDE DEF step
  <2>0. {} \in SUBSET Bit
    OBVIOUS
  <2>1. Loops(32, SUBSET Bit, {}, step)
    BY <1>1, <2>0, LoopExists
  <2>. QED
    BY <2>1 DEF Loops
<1>3. \A b \in 0..32 : b # 0 => b \in 1..32
  OBVIOUS
<1>4. \A b \in 0..32 : f[b] = IF b = 0 THEN {} ELSE Step(b, f[b - 1])
  <2>. HIDE DEF Step
  <2>1. \A b \in 1..32 : b \in Nat /\ b - 1 \in 0..32
    OBVIOUS
  <2>2. \A b \in 1..32 : f[b] = Step(b, f[b - 1])
    <3>. TAKE b \in 1..32
    <3>1. f[b - 1] \in SUBSET Bit
      BY <2>1, Zenon
    <3>. QED
      BY <1>2, <2>1, <3>1, Zenon
  <2>. QED
    BY <1>2, <1>3, <2>2, Zenon
<1>5. f = [b \in 0..32 |-> IF b = 0 THEN {}
             ELSE IF b - 1 \in w THEN Add(f[b - 1], Lsl(v, b - 1)) ELSE f[b - 1]]
  BY <1>4, Zenon
<1>. DEFINE sum == CHOOSE r : r = [b \in 0..32 |-> IF b = 0 THEN {}
             ELSE IF b - 1 \in w THEN Add(r[b - 1], Lsl(v, b - 1)) ELSE r[b - 1]]
<1>6. sum = [b \in 0..32 |-> IF b = 0 THEN {}
             ELSE IF b - 1 \in w THEN Add(sum[b - 1], Lsl(v, b - 1)) ELSE sum[b - 1]]
  BY <1>5, Zenon
<1>7. Mul(v, w) = sum[32]
  BY Zenon DEF Mul
<1>. HIDE DEF sum
<1>8. \A b \in 0..32 : sum[b] = IF b = 0 THEN {} ELSE Step(b, sum[b - 1])
  BY <1>6, Zenon
<1>9. sum[0] = {}
  <2>1. 0 \in 0..32
    OBVIOUS
  <2>. QED
    BY <1>8, <2>1, Zenon
<1>10. \A b \in 0..32 : sum[b] \in SUBSET Bit
  <2>. HIDE DEF Step
  <2>1. \A b \in 1..32 : b \in 0..32 /\ b # 0
    OBVIOUS
  <2>2. \A b \in 1..32 : sum[b - 1] \in SUBSET Bit => sum[b] \in SUBSET Bit
    BY <1>0, <1>8, <2>1, Zenon
  <2>3. sum[0] \in SUBSET Bit
    BY <1>9
  <2>. QED
    BY <2>2, <2>3, LoopKeeps
<1>11. sum \in [0..32 -> SUBSET Bit]
  BY <1>6, <1>10, Zenon
<1>12. \A b \in Bit : sum[b + 1] = IF b \in w THEN Add(sum[b], Lsl(v, b)) ELSE sum[b]
  <2>1. \A b \in Bit : b + 1 \in 0..32 /\ b + 1 # 0 /\ (b + 1) - 1 = b
    BY DEF Bit
  <2>. QED
    BY <1>8, <2>1, Zenon
<1>. QED
  BY <1>7, <1>9, <1>11, <1>12, Zenon DEF Multiplies

\* What no turn changes is the same after many.
LEMMA Stays ==
    ASSUME NEW f, NEW i \in Nat, NEW j \in Nat, i <= j, \A k \in i..(j - 1) : f[k + 1] = f[k]
    PROVE  f[j] = f[i]
<1>1. PICK n \in Nat : n = j - i
  OBVIOUS
<1>. DEFINE g == [k \in 0..n |-> f[i + k]]
<1>2. i + n = j /\ i + 0 = i /\ 0 \in 0..n /\ n \in 0..n
  BY <1>1
<1>3. g[0] = f[i] /\ g[n] = f[j]
  BY <1>2, Zenon
<1>4. ASSUME NEW k \in 1..n, g[k - 1] \in {f[i]} PROVE g[k] \in {f[i]}
  <2>1. /\ k \in 0..n /\ k - 1 \in 0..n /\ i + (k - 1) \in i..(j - 1)
        /\ (i + (k - 1)) + 1 = i + k
    BY <1>1
  <2>2. g[k] = f[i + k] /\ g[k - 1] = f[i + (k - 1)]
    BY <2>1, Zenon
  <2>. QED
    BY <1>4, <2>1, <2>2, Zenon
<1>. HIDE DEF g
<1>5. \A k \in 0..n : g[k] \in {f[i]}
  <2>1. g[0] \in {f[i]}
    BY <1>3, Zenon
  <2>. QED
    <3>. PICK S : S = {f[i]}
      BY Zenon
    <3>1. \A k \in 1..n : g[k - 1] \in S => g[k] \in S
      BY <1>4, Zenon
    <3>2. g[0] \in S
      BY <2>1, Zenon
    <3>3. \A k \in 0..n : g[k] \in S
      BY <3>1, <3>2, LoopKeeps
    <3>. QED
      BY <3>3, Zenon
<1>. QED
  BY <1>2, <1>3, <1>5, Zenon

\* The value of six bits is the number in their field.
LEMMA SmallValue ==
    ASSUME NEW x \in SUBSET (0..5)
    PROVE  Value(x) = F6(x, 0)
<1>1. PICK f :
             /\ f \in [0..32 -> Nat] /\ f[0] = 0
             /\ \A b \in Bit : f[b + 1] = IF b \in x THEN f[b] + 2^b ELSE f[b]
             /\ Value(x) = f[32]
  BY ValueIs, Zenon
<1>2. f[32] = f[6]
  <2>1. \A b \in 6..31 : b \in Bit /\ b \notin x
    BY DEF Bit
  <2>2. \A b \in 6..31 : f[b + 1] = f[b]
    BY <1>1, <2>1, Zenon
  <2>3. 6 \in Nat /\ 32 \in Nat /\ 6 <= 32 /\ 32 - 1 = 31
    OBVIOUS
  <2>4. \A b \in 6..(32 - 1) : f[b + 1] = f[b]
    BY <2>2, <2>3, Zenon
  <2>. QED
    BY <2>3, <2>4, Stays
<1>3. ASSUME NEW b \in 0..5 PROVE f[b + 1] = f[b] + Digit(x, b) * 2^b
  <2>1. b \in Bit /\ b \in 0..32
    BY DEF Bit
  <2>2. f[b + 1] = IF b \in x THEN f[b] + 2^b ELSE f[b]
    BY <1>1, <2>1, Zenon
  <2>. PICK p \in Nat : p = 2^b
    BY <2>1, Powers DEF Doubles
  <2>. PICK m \in Nat : m = f[b]
    BY <1>1, <2>1, Zenon
  <2>3. CASE b \in x
    <3>1. m + p = m + 1 * p
      OBVIOUS
    <3>. QED
      BY <2>2, <2>3, <3>1, DigitIs, Zenon
  <2>4. CASE b \notin x
    <3>1. m = m + 0 * p
      OBVIOUS
    <3>. QED
      BY <2>2, <2>4, <3>1, DigitIs, Zenon
  <2>. QED
    BY <2>3, <2>4, Zenon
<1>4. /\ f[0 + 1] = f[0] + Digit(x, 0) * 2^0 /\ f[1 + 1] = f[1] + Digit(x, 1) * 2^1
      /\ f[2 + 1] = f[2] + Digit(x, 2) * 2^2 /\ f[3 + 1] = f[3] + Digit(x, 3) * 2^3
      /\ f[4 + 1] = f[4] + Digit(x, 4) * 2^4 /\ f[5 + 1] = f[5] + Digit(x, 5) * 2^5
  <2>1. 0 \in 0..5 /\ 1 \in 0..5 /\ 2 \in 0..5 /\ 3 \in 0..5 /\ 4 \in 0..5 /\ 5 \in 0..5
    OBVIOUS
  <2>. QED
    BY <1>3, <2>1, Zenon
<1>5. /\ Digit(x, 0) \in {0, 1} /\ Digit(x, 1) \in {0, 1} /\ Digit(x, 2) \in {0, 1}
      /\ Digit(x, 3) \in {0, 1} /\ Digit(x, 4) \in {0, 1} /\ Digit(x, 5) \in {0, 1}
  BY DigitIs, Zenon
<1>6. F6(x, 0) = (Digit(x, 0) + 2 * Digit(x, 1) + 4 * Digit(x, 2))
                 + 8 * (Digit(x, 3) + 2 * Digit(x, 4) + 4 * Digit(x, 5))
  BY DEF F6, F3
<1>7. f[6] = F6(x, 0)
  BY <1>1, <1>4, <1>5, <1>6
<1>. QED
  BY <1>1, <1>2, <1>7, Zenon

\* The multiplication of popcount32 adds the word at three places.
LEMMA SpreadIs ==
    ASSUME NEW v
    PROVE  Mul(v, Spread) = Add(Add(Add({}, Lsl(v, 2)), Lsl(v, 14)), Lsl(v, 26))
<1>. PICK f : Multiplies(v, Spread, f)
  BY MulIs, Zenon
<1>1. /\ f \in [0..32 -> SUBSET Bit] /\ f[0] = {}
      /\ \A b \in Bit : f[b + 1] = IF b \in Spread THEN Add(f[b], Lsl(v, b)) ELSE f[b]
      /\ Mul(v, Spread) = f[32]
  BY Zenon DEF Multiplies
<1>2. ASSUME NEW i \in 0..32, NEW j \in 0..32, i <= j, \A k \in i..(j - 1) : k \notin Spread
      PROVE  f[j] = f[i]
  <2>1. \A k \in i..(j - 1) : k \in Bit
    BY DEF Bit
  <2>2. \A k \in i..(j - 1) : f[k + 1] = f[k]
    BY <1>1, <1>2, <2>1, Zenon
  <2>3. i \in Nat /\ j \in Nat
    OBVIOUS
  <2>. QED
    BY <1>2, <2>2, <2>3, Stays
<1>3. f[2] = f[0] /\ f[14] = f[3] /\ f[26] = f[15] /\ f[32] = f[27]
  <2>1. /\ \A k \in 0..(2 - 1) : k \notin Spread
        /\ \A k \in 3..(14 - 1) : k \notin Spread
        /\ \A k \in 15..(26 - 1) : k \notin Spread
        /\ \A k \in 27..(32 - 1) : k \notin Spread
    BY DEF Spread
  <2>2. f[2] = f[0]
    BY <1>2, <2>1, SMT
  <2>3. f[14] = f[3]
    BY <1>2, <2>1, SMT
  <2>4. f[26] = f[15]
    BY <1>2, <2>1, SMT
  <2>5. f[32] = f[27]
    BY <1>2, <2>1, SMT
  <2>. QED
    BY <2>2, <2>3, <2>4, <2>5, Zenon
<1>4. f[3] = Add(f[2], Lsl(v, 2)) /\ f[15] = Add(f[14], Lsl(v, 14)) /\ f[27] = Add(f[26], Lsl(v, 26))
  <2>1. /\ 2 \in Bit /\ 14 \in Bit /\ 26 \in Bit
        /\ 2 \in Spread /\ 14 \in Spread /\ 26 \in Spread
        /\ 2 + 1 = 3 /\ 14 + 1 = 15 /\ 26 + 1 = 27
    BY DEF Bit, Spread
  <2>2. \A b \in Bit : b \in Spread => f[b + 1] = Add(f[b], Lsl(v, b))
    BY <1>1, Zenon
  <2>3. f[3] = Add(f[2], Lsl(v, 2))
    BY <2>1, <2>2, SMT
  <2>4. f[15] = Add(f[14], Lsl(v, 14))
    BY <2>1, <2>2, SMT
  <2>5. f[27] = Add(f[26], Lsl(v, 26))
    BY <2>1, <2>2, SMT
  <2>. QED
    BY <2>3, <2>4, <2>5, Zenon
<1>. QED
  BY <1>1, <1>3, <1>4, Zenon

-----------------------------------------------------------------------------
\* The ones of a word in its k-th three bits.
Ones(w, k) == Digit(w, 3 * k) + Digit(w, 3 * k + 1) + Digit(w, 3 * k + 2)

\* The first masks of popcount32 leave one bit in each field of three.
LEMMA ThirdsAre ==
    ASSUME NEW w \in SUBSET Bit, NEW n \in 0..2, NEW k \in 0..10
    PROVE  F3(Lsr(w, n) \cap EveryThird, 3 * k) = Digit(w, 3 * k + n)
<1>. DEFINE x == Lsr(w, n) \cap EveryThird
<1>1. \A b : b \in Lsr(w, n) <=> b \in Bit /\ b + n \in w
  BY LsrIs
<1>2. 3 * k \in EveryThird /\ 3 * k \in Bit /\ 3 * k + 1 \notin EveryThird /\ 3 * k + 2 \notin EveryThird
  BY DEF EveryThird, Bit
<1>3. 3 * k \in x <=> 3 * k + n \in w
  BY <1>1, <1>2, Zenon
<1>4. 3 * k + 1 \notin x /\ 3 * k + 2 \notin x
  BY <1>2, Zenon
<1>. HIDE DEF x
<1>5. Digit(x, 3 * k) = Digit(w, 3 * k + n)
  BY <1>3, Zenon DEF Digit
<1>6. Digit(x, 3 * k + 1) = 0 /\ Digit(x, 3 * k + 2) = 0
  BY <1>4, DigitIs, Zenon
<1>7. Digit(w, 3 * k + n) \in {0, 1}
  BY DigitIs, Zenon
<1>8. F3(x, 3 * k) = Digit(w, 3 * k + n)
  BY <1>5, <1>6, <1>7 DEF F3
<1>. QED
  BY <1>8 DEF x

\* popcount32 first counts the ones of each three bits.
LEMMA TriadsAre ==
    ASSUME NEW w \in SUBSET Bit
    PROVE  \A k \in 0..10 :
              F3(Add(Add(w \cap EveryThird, Lsr(w, 1) \cap EveryThird),
                     Lsr(w, 2) \cap EveryThird), 3 * k) = Ones(w, k)
<1>. DEFINE x(n)   == Lsr(w, n) \cap EveryThird
            y      == Add(x(0), x(1))
            triads == Add(y, x(2))
<1>1. w \cap EveryThird = x(0)
  <2>1. Lsr(w, 0) = w
    <3>1. \A b : b \in Lsr(w, 0) <=> b \in Bit /\ b + 0 \in w
      BY LsrIs
    <3>2. \A b \in Bit : b + 0 = b
      BY DEF Bit
    <3>. QED
      BY <3>1, <3>2
  <2>. QED
    BY <2>1, Zenon
<1>2. \A n \in 0..2 : x(n) \in SUBSET Bit
  BY LsrIs
<1>3. \A n \in 0..2, k \in 0..10 : F3(x(n), 3 * k) = Digit(w, 3 * k + n)
  BY ThirdsAre
<1>. HIDE DEF x
<1>4. 0 \in 0..2 /\ 1 \in 0..2 /\ 2 \in 0..2 /\ 10 \in 0..10 /\ 3 * 10 = 30
  OBVIOUS
<1>5. x(0) \in SUBSET Bit /\ x(1) \in SUBSET Bit /\ x(2) \in SUBSET Bit /\ y \in SUBSET Bit
  BY <1>2, <1>4, AddIs, Zenon
<1>6. \A k \in 0..10 : /\ F3(x(0), 3 * k) = Digit(w, 3 * k)
                       /\ F3(x(1), 3 * k) = Digit(w, 3 * k + 1)
                       /\ F3(x(2), 3 * k) = Digit(w, 3 * k + 2)
  <2>. TAKE k \in 0..10
  <2>1. 3 * k + 0 = 3 * k
    OBVIOUS
  <2>. QED
    BY <1>3, <1>4, <2>1, Zenon
<1>7. \A k \in 0..10 : F3(y, 3 * k) = Digit(w, 3 * k) + Digit(w, 3 * k + 1)
  <2>1. \A k \in 0..10 : F3(x(0), 3 * k) + F3(x(1), 3 * k) <= 2
    <3>. TAKE k \in 0..10
    <3>1. Digit(w, 3 * k) \in {0, 1} /\ Digit(w, 3 * k + 1) \in {0, 1}
      BY DigitIs, Zenon
    <3>. QED
      BY <1>6, <3>1
  <2>2. \A k \in 0..9 : F3(x(0), 3 * k) + F3(x(1), 3 * k) <= 7
    <3>. TAKE k \in 0..9
    <3>1. k \in 0..10 /\ F3(x(0), 3 * k) \in 0..7 /\ F3(x(1), 3 * k) \in 0..7
      BY FieldTypes
    <3>. QED
      BY <2>1, <3>1
  <2>3. F3(x(0), 30) + F3(x(1), 30) <= 3
    <3>1. F3(x(0), 30) \in 0..7 /\ F3(x(1), 30) \in 0..7
      BY FieldTypes
    <3>2. F3(x(0), 30) + F3(x(1), 30) <= 2
      BY <1>4, <2>1, Zenon
    <3>. QED
      BY <3>1, <3>2
  <2>4. \A k \in 0..10 : F3(y, 3 * k) = F3(x(0), 3 * k) + F3(x(1), 3 * k)
    BY <1>5, <2>2, <2>3, AddTriads
  <2>. QED
    BY <1>6, <2>4, Zenon
<1>. HIDE DEF y
<1>8. \A k \in 0..10 : F3(triads, 3 * k) = Ones(w, k)
  <2>1. \A k \in 0..10 : F3(y, 3 * k) + F3(x(2), 3 * k) <= 3
    <3>. TAKE k \in 0..10
    <3>1. Digit(w, 3 * k) \in {0, 1} /\ Digit(w, 3 * k + 1) \in {0, 1} /\ Digit(w, 3 * k + 2) \in {0, 1}
      BY DigitIs, Zenon
    <3>. QED
      BY <1>6, <1>7, <3>1
  <2>2. \A k \in 0..9 : F3(y, 3 * k) + F3(x(2), 3 * k) <= 7
    <3>. TAKE k \in 0..9
    <3>1. k \in 0..10 /\ F3(y, 3 * k) \in 0..7 /\ F3(x(2), 3 * k) \in 0..7
      BY FieldTypes
    <3>. QED
      BY <2>1, <3>1
  <2>3. F3(y, 30) + F3(x(2), 30) <= 3
    BY <1>4, <2>1, Zenon
  <2>4. \A k \in 0..10 : F3(triads, 3 * k) = F3(y, 3 * k) + F3(x(2), 3 * k)
    BY <1>5, <2>2, <2>3, AddTriads
  <2>. HIDE DEF triads
  <2>. QED
    BY <1>6, <1>7, <2>4, Zenon DEF Ones
<1>. QED
  BY <1>1, <1>8, Zenon DEF y, x

\* A shift to the right moves the fields down.
LEMMA ShiftedDown ==
    ASSUME NEW w \in SUBSET Bit, NEW n \in Nat, NEW p \in Nat
    PROVE  F3(Lsr(w, n), p) = F3(w, p + n) /\ F6(Lsr(w, n), p) = F6(w, p + n)
<1>1. ASSUME NEW b \in Nat PROVE Digit(Lsr(w, n), b) = Digit(w, b + n)
  <2>1. b \in Lsr(w, n) <=> b + n \in w
    <3>1. b \in Lsr(w, n) <=> b \in Bit /\ b + n \in w
      BY LsrIs
    <3>2. b + n \in Bit => b \in Bit
      BY DEF Bit
    <3>. QED
      BY <3>1, <3>2, Zenon
  <2>. QED
    BY <2>1, Zenon DEF Digit
<1>2. ASSUME NEW q \in Nat PROVE F3(Lsr(w, n), q) = F3(w, q + n)
  <2>1. /\ q + 1 \in Nat /\ q + 2 \in Nat /\ (q + 1) + n = (q + n) + 1
        /\ (q + 2) + n = (q + n) + 2
    OBVIOUS
  <2>2. /\ Digit(Lsr(w, n), q) = Digit(w, q + n)
        /\ Digit(Lsr(w, n), q + 1) = Digit(w, (q + n) + 1)
        /\ Digit(Lsr(w, n), q + 2) = Digit(w, (q + n) + 2)
    BY <1>1, <2>1, Zenon
  <2>. QED
    BY <2>2, Zenon DEF F3
<1>3. p + 3 \in Nat /\ (p + 3) + n = (p + n) + 3
  OBVIOUS
<1>. QED
  BY <1>2, <1>3, Zenon DEF F6

\* A shift to the left moves the fields up.
LEMMA ShiftedUp ==
    ASSUME NEW w \in SUBSET Bit, NEW n \in Nat, NEW p \in 0..26
    PROVE  F6(Lsl(w, n), p) = F6(w, p - n)
<1>1. ASSUME NEW b \in Bit PROVE Digit(Lsl(w, n), b) = Digit(w, b - n)
  <2>1. b \in Lsl(w, n) <=> b - n \in w
    BY LslIs
  <2>. QED
    BY <2>1, Zenon DEF Digit
<1>2. ASSUME NEW q \in 0..29 PROVE F3(Lsl(w, n), q) = F3(w, q - n)
  <2>1. /\ q \in Bit /\ q + 1 \in Bit /\ q + 2 \in Bit /\ (q + 1) - n = (q - n) + 1
        /\ (q + 2) - n = (q - n) + 2
    BY DEF Bit
  <2>2. /\ Digit(Lsl(w, n), q) = Digit(w, q - n)
        /\ Digit(Lsl(w, n), q + 1) = Digit(w, (q - n) + 1)
        /\ Digit(Lsl(w, n), q + 2) = Digit(w, (q - n) + 2)
    BY <1>1, <2>1, Zenon
  <2>. QED
    BY <2>2, Zenon DEF F3
<1>3. p \in 0..29 /\ p + 3 \in 0..29 /\ (p + 3) - n = (p - n) + 3
  OBVIOUS
<1>. QED
  BY <1>2, <1>3, Zenon DEF F6

\* A field outside of a word is zero.
LEMMA NoField ==
    ASSUME NEW w \in SUBSET Bit, NEW p \in Int, p <= -6 \/ p >= 32
    PROVE  F3(w, p) = 0 /\ F6(w, p) = 0
<1>1. /\ p \notin Bit /\ p + 1 \notin Bit /\ p + 2 \notin Bit
      /\ p + 3 \notin Bit /\ (p + 3) + 1 \notin Bit /\ (p + 3) + 2 \notin Bit
  BY DEF Bit
<1>2. /\ Digit(w, p) = 0 /\ Digit(w, p + 1) = 0 /\ Digit(w, p + 2) = 0
      /\ Digit(w, p + 3) = 0 /\ Digit(w, (p + 3) + 1) = 0 /\ Digit(w, (p + 3) + 2) = 0
  BY <1>1, DigitIs, Zenon
<1>3. F3(w, p) = 0
  BY <1>2 DEF F3
<1>4. F3(w, p + 3) = 0
  BY <1>2 DEF F3
<1>. QED
  BY <1>3, <1>4 DEF F6

\* popcount32 then counts the ones of each six bits.
LEMMA PairsAre ==
    ASSUME NEW t \in SUBSET Bit, NEW n \in [0..11 -> 0..3], n[10] <= 2, n[11] = 0,
           \A k \in 0..10 : F3(t, 3 * k) = n[k]
    PROVE  \A j \in 0..5 : F6(Add(t, Lsr(t, 3)) \cap LowerTriads, 6 * j) = n[2 * j] + n[2 * j + 1]
<1>. DEFINE u     == Lsr(t, 3)
            s     == Add(t, u)
            pairs == s \cap LowerTriads
<1>1. u \in SUBSET Bit /\ s \in SUBSET Bit
  BY LsrIs, AddIs
<1>2. \A k \in 0..10 : F3(u, 3 * k) = n[k + 1]
  <2>. TAKE k \in 0..10
  <2>1. 3 * k \in Nat /\ 3 * k + 3 = 3 * (k + 1) /\ 3 \in Nat
    OBVIOUS
  <2>2. F3(u, 3 * k) = F3(t, 3 * (k + 1))
    BY <2>1, ShiftedDown, Zenon
  <2>3. CASE k = 10
    <3>1. 3 * (k + 1) \in Int /\ 3 * (k + 1) >= 32 /\ k + 1 = 11
      BY <2>3
    <3>2. F3(t, 3 * (k + 1)) = 0
      BY <3>1, NoField
    <3>. QED
      BY <2>2, <3>1, <3>2, Zenon
  <2>4. CASE k # 10
    <3>1. k + 1 \in 0..10
      BY <2>4
    <3>. QED
      BY <2>2, <3>1, Zenon
  <2>. QED
    BY <2>3, <2>4, Zenon
<1>. HIDE DEF u
<1>3. \A k \in 0..10 : F3(s, 3 * k) = n[k] + n[k + 1]
  <2>1. \A k \in 0..10 : n[k] \in 0..3 /\ n[k + 1] \in 0..3
    OBVIOUS
  <2>2. \A k \in 0..9 : F3(t, 3 * k) + F3(u, 3 * k) <= 7
    <3>. TAKE k \in 0..9
    <3>1. k \in 0..10
      OBVIOUS
    <3>2. F3(t, 3 * k) = n[k] /\ F3(u, 3 * k) = n[k + 1]
      BY <1>2, <3>1, Zenon
    <3>. QED
      BY <2>1, <3>1, <3>2
  <2>3. F3(t, 30) + F3(u, 30) <= 3
    <3>1. 10 \in 0..10 /\ 3 * 10 = 30 /\ 10 + 1 = 11
      OBVIOUS
    <3>2. F3(t, 30) = n[10] /\ F3(u, 30) = 0
      BY <1>2, <3>1, Zenon
    <3>. QED
      BY <2>1, <3>1, <3>2
  <2>4. \A k \in 0..10 : F3(s, 3 * k) = F3(t, 3 * k) + F3(u, 3 * k)
    BY <1>1, <2>2, <2>3, AddTriads
  <2>. QED
    BY <1>2, <2>4, Zenon
<1>. HIDE DEF s
<1>. SUFFICES ASSUME NEW j \in 0..5 PROVE F6(pairs, 6 * j) = n[2 * j] + n[2 * j + 1]
  BY Zenon DEF s, u
<1>. PICK p \in 0..30 : p = 6 * j
  OBVIOUS
<1>4. F3(s, p) = n[2 * j] + n[2 * j + 1]
  <2>1. 2 * j \in 0..10 /\ 3 * (2 * j) = p
    OBVIOUS
  <2>. QED
    BY <1>3, <2>1, Zenon
<1>5. /\ \A i \in 0..2 : p + i \in Bit => p + i \in LowerTriads
      /\ \A i \in 3..5 : p + i \notin LowerTriads
  BY DEF LowerTriads
<1>6. F3(pairs, p) = F3(s, p)
  <2>1. \A i \in 0..2 : p + i \in pairs <=> p + i \in s
    BY <1>1, <1>5, Zenon
  <2>2. 0 \in 0..2 /\ 1 \in 0..2 /\ 2 \in 0..2 /\ p + 0 = p
    OBVIOUS
  <2>. HIDE DEF pairs
  <2>3. /\ Digit(pairs, p) = Digit(s, p) /\ Digit(pairs, p + 1) = Digit(s, p + 1)
        /\ Digit(pairs, p + 2) = Digit(s, p + 2)
    BY <2>1, <2>2, Zenon DEF Digit
  <2>. QED
    BY <2>3, Zenon DEF F3
<1>7. F3(pairs, p + 3) = 0
  <2>1. 3 \in 3..5 /\ 4 \in 3..5 /\ 5 \in 3..5 /\ (p + 3) + 1 = p + 4 /\ (p + 3) + 2 = p + 5
    OBVIOUS
  <2>2. p + 3 \notin pairs /\ p + 4 \notin pairs /\ p + 5 \notin pairs
    BY <1>5, <2>1, Zenon
  <2>. HIDE DEF pairs
  <2>3. /\ Digit(pairs, p + 3) = 0 /\ Digit(pairs, (p + 3) + 1) = 0
        /\ Digit(pairs, (p + 3) + 2) = 0
    BY <2>1, <2>2, DigitIs, Zenon
  <2>. QED
    BY <2>3 DEF F3
<1>. HIDE DEF pairs
<1>8. F6(pairs, p) = F3(pairs, p)
  <2>1. F3(pairs, p) \in 0..7
    BY FieldTypes, Zenon
  <2>. QED
    BY <1>7, <2>1 DEF F6
<1>. QED
  BY <1>4, <1>6, <1>8, Zenon

\* popcount32 then counts the ones of each twelve bits.
LEMMA SumsAre ==
    ASSUME NEW x \in SUBSET Bit, NEW m \in [0..6 -> 0..6], m[6] = 0,
           \A j \in 0..5 : F6(x, 6 * j) = m[j]
    PROVE  \A j \in 0..4 : F6(Add(x, Lsr(x, 6)), 6 * j) = m[j] + m[j + 1]
<1>. DEFINE y == Lsr(x, 6)
<1>1. y \in SUBSET Bit
  BY LsrIs
<1>2. \A j \in 0..4 : F6(y, 6 * j) = m[j + 1]
  <2>. TAKE j \in 0..4
  <2>1. 6 * j \in Nat /\ 6 \in Nat /\ 6 * j + 6 = 6 * (j + 1) /\ j + 1 \in 0..5
    OBVIOUS
  <2>2. F6(y, 6 * j) = F6(x, 6 * (j + 1))
    <3>1. F6(y, 6 * j) = F6(x, 6 * j + 6)
      BY <2>1, ShiftedDown, Zenon
    <3>. QED
      BY <2>1, <3>1, Zenon
  <2>. QED
    BY <2>1, <2>2, Zenon
<1>. HIDE DEF y
<1>3. \A j \in 0..4 : F6(x, 0 + 6 * j) = m[j] /\ F6(y, 0 + 6 * j) = m[j + 1]
  <2>. TAKE j \in 0..4
  <2>1. 0 + 6 * j = 6 * j /\ j \in 0..5
    OBVIOUS
  <2>. QED
    BY <1>2, <2>1, Zenon
<1>4. \A j \in 0..4 : m[j] \in 0..6 /\ m[j + 1] \in 0..6
  OBVIOUS
<1>5. \A j \in 0..4 : F6(x, 0 + 6 * j) + F6(y, 0 + 6 * j) <= 63
  <2>. TAKE j \in 0..4
  <2>1. F6(x, 0 + 6 * j) \in 0..6 /\ F6(y, 0 + 6 * j) \in 0..6
    BY <1>3, <1>4, Zenon
  <2>. QED
    BY <2>1
<1>6. \A j \in 0..4 : F6(Add(x, y), 0 + 6 * j) = F6(x, 0 + 6 * j) + F6(y, 0 + 6 * j)
  <2>1. 0 \in {0, 2} /\ 0 # 2
    OBVIOUS
  <2>. QED
    BY <1>1, <1>5, <2>1, AddSixes
<1>. SUFFICES ASSUME NEW j \in 0..4 PROVE F6(Add(x, y), 6 * j) = m[j] + m[j + 1]
  BY Zenon DEF y
<1>7. 0 + 6 * j = 6 * j
  OBVIOUS
<1>. QED
  BY <1>3, <1>6, <1>7, Zenon

\* The multiplication of popcount32 adds up three of these counts at its top.
LEMMA ProductIs ==
    ASSUME NEW s \in SUBSET Bit, NEW m \in [0..4 -> 0..12],
           \A j \in 0..4 : F6(s, 6 * j) = m[j]
    PROVE  /\ Mul(s, Spread) \in SUBSET Bit
           /\ F6(Mul(s, Spread), 26) = m[4] + m[2] + m[0]
<1>. DEFINE a == Lsl(s, 2)
            b == Lsl(s, 14)
            c == Lsl(s, 26)
<1>1. a \in SUBSET Bit /\ b \in SUBSET Bit /\ c \in SUBSET Bit
  BY LslIs
<1>2. \A i \in 0..1 : i \notin a /\ i \notin b /\ i \notin c
  <2>. TAKE i \in 0..1
  <2>1. \A n \in {2, 14, 26} : n \in Nat /\ i - n \notin Bit
    BY DEF Bit
  <2>2. \A n \in {2, 14, 26} : i \notin Lsl(s, n)
    <3>. TAKE n \in {2, 14, 26}
    <3>1. i \in Lsl(s, n) <=> i \in Bit /\ i - n \in s
      BY <2>1, LslIs
    <3>. QED
      BY <2>1, <3>1, Zenon
  <2>. QED
    BY <2>2, Zenon
<1>3. \A j \in 0..4 : /\ F6(a, 2 + 6 * j) = F6(s, 6 * j)
                      /\ F6(b, 2 + 6 * j) = F6(s, 6 * (j - 2))
                      /\ F6(c, 2 + 6 * j) = F6(s, 6 * (j - 4))
  <2>. TAKE j \in 0..4
  <2>1. /\ 2 + 6 * j \in 0..26 /\ (2 + 6 * j) - 2 = 6 * j
        /\ (2 + 6 * j) - 14 = 6 * (j - 2) /\ (2 + 6 * j) - 26 = 6 * (j - 4)
        /\ 2 \in Nat /\ 14 \in Nat /\ 26 \in Nat
    OBVIOUS
  <2>2. \A n \in Nat : F6(Lsl(s, n), 2 + 6 * j) = F6(s, (2 + 6 * j) - n)
    BY <2>1, ShiftedUp, Zenon
  <2>. QED
    BY <2>1, <2>2, Zenon
<1>4. ASSUME NEW i \in Int, i \in -4..4 PROVE F6(s, 6 * i) = IF i < 0 THEN 0 ELSE m[i]
  <2>1. CASE i < 0
    <3>1. 6 * i \in Int /\ 6 * i <= -6
      BY <1>4, <2>1
    <3>. QED
      BY <2>1, <3>1, NoField
  <2>2. CASE ~(i < 0)
    <3>1. i \in 0..4
      BY <1>4, <2>2
    <3>. QED
      BY <2>2, <3>1, Zenon
  <2>. QED
    BY <2>1, <2>2
<1>. HIDE DEF a, b, c
<1>5. \A j \in 0..4 : F6(a, 2 + 6 * j) \in 0..12 /\ F6(b, 2 + 6 * j) \in 0..12 /\ F6(c, 2 + 6 * j) \in 0..12
  <2>. TAKE j \in 0..4
  <2>1. \A i \in -4..4 : i \in Int /\ F6(s, 6 * i) \in 0..12
    <3>. TAKE i \in -4..4
    <3>1. i \in Int /\ 0 \in 0..12 /\ (~(i < 0) => m[i] \in 0..12)
      OBVIOUS
    <3>. QED
      BY <1>4, <3>1, Zenon
  <2>2. j \in -4..4 /\ j - 2 \in -4..4 /\ j - 4 \in -4..4
    OBVIOUS
  <2>. QED
    BY <1>3, <2>1, <2>2, Zenon
<1>6. F6(a, 26) = m[4] /\ F6(b, 26) = m[2] /\ F6(c, 26) = m[0]
  <2>1. /\ 4 \in 0..4 /\ 2 + 6 * 4 = 26 /\ 4 - 2 = 2 /\ 4 - 4 = 0
        /\ 2 \in 0..4 /\ 0 \in 0..4
    OBVIOUS
  <2>2. /\ F6(a, 26) = F6(s, 6 * 4) /\ F6(b, 26) = F6(s, 6 * 2) /\ F6(c, 26) = F6(s, 6 * 0)
    BY <1>3, <2>1, Zenon
  <2>. QED
    BY <2>1, <2>2, Zenon
<1>. DEFINE m1 == Add({}, a)
            m2 == Add(m1, b)
            m3 == Add(m2, c)
<1>7. Mul(s, Spread) = m3
  BY SpreadIs, Zenon DEF a, b, c
<1>8. m1 \in SUBSET Bit /\ m2 \in SUBSET Bit /\ m3 \in SUBSET Bit /\ {} \in SUBSET Bit /\ 2 \in {0, 2}
  BY AddIs
<1>9. 4 \in 0..4 /\ 2 + 6 * 4 = 26
  OBVIOUS
<1>10. /\ \A j \in 0..4 : F6(m1, 2 + 6 * j) = F6(a, 2 + 6 * j)
       /\ \A i \in 0..1 : i \notin m1
  <2>1. \A j \in 0..4 : F6({}, 2 + 6 * j) = 0
    BY DEF F6, F3, Digit
  <2>2. \A j \in 0..4 : F6({}, 2 + 6 * j) + F6(a, 2 + 6 * j) = F6(a, 2 + 6 * j)
    <3>. TAKE j \in 0..4
    <3>. PICK x \in 0..12 : x = F6(a, 2 + 6 * j)
      BY <1>5, Zenon
    <3>1. 0 + x = x
      OBVIOUS
    <3>. QED
      BY <2>1, <3>1, Zenon
  <2>3. \A j \in 0..4 : F6({}, 2 + 6 * j) + F6(a, 2 + 6 * j) <= 63
    <3>. TAKE j \in 0..4
    <3>1. F6(a, 2 + 6 * j) \in 0..12
      BY <1>5, Zenon
    <3>. QED
      BY <2>2, <3>1
  <2>4. /\ \A j \in 0..4 : F6(m1, 2 + 6 * j) = F6({}, 2 + 6 * j) + F6(a, 2 + 6 * j)
        /\ \A i \in 0..1 : i \notin m1
    BY <1>1, <1>2, <1>8, <2>3, AddSixes
  <2>. QED
    BY <2>2, <2>4, Zenon
<1>. HIDE DEF m1
<1>11. /\ \A j \in 0..4 : F6(m2, 2 + 6 * j) = F6(a, 2 + 6 * j) + F6(b, 2 + 6 * j)
       /\ \A i \in 0..1 : i \notin m2
  <2>1. \A j \in 0..4 : F6(m1, 2 + 6 * j) + F6(b, 2 + 6 * j) <= 63
    <3>. TAKE j \in 0..4
    <3>1. F6(m1, 2 + 6 * j) \in 0..12 /\ F6(b, 2 + 6 * j) \in 0..12
      BY <1>5, <1>10, Zenon
    <3>. QED
      BY <3>1
  <2>2. /\ \A j \in 0..4 : F6(m2, 2 + 6 * j) = F6(m1, 2 + 6 * j) + F6(b, 2 + 6 * j)
        /\ \A i \in 0..1 : i \notin m2
    BY <1>1, <1>2, <1>8, <1>10, <2>1, AddSixes
  <2>. QED
    BY <1>10, <2>2, Zenon
<1>. HIDE DEF m2
<1>12. \A j \in 0..4 : F6(m3, 2 + 6 * j) = F6(m2, 2 + 6 * j) + F6(c, 2 + 6 * j)
  <2>1. \A j \in 0..4 : F6(m2, 2 + 6 * j) + F6(c, 2 + 6 * j) <= 63
    <3>. TAKE j \in 0..4
    <3>1. F6(a, 2 + 6 * j) \in 0..12 /\ F6(b, 2 + 6 * j) \in 0..12 /\ F6(c, 2 + 6 * j) \in 0..12
      BY <1>5, Zenon
    <3>2. F6(m2, 2 + 6 * j) = F6(a, 2 + 6 * j) + F6(b, 2 + 6 * j)
      BY <1>11, Zenon
    <3>. QED
      BY <3>1, <3>2
  <2>. QED
    BY <1>1, <1>2, <1>8, <1>11, <2>1, AddSixes
<1>13. F6(m3, 26) = m[4] + m[2] + m[0]
  <2>1. F6(m3, 26) = F6(m2, 26) + F6(c, 26)
    BY <1>9, <1>12, Zenon
  <2>2. F6(m2, 26) = F6(a, 26) + F6(b, 26)
    BY <1>9, <1>11, Zenon
  <2>. QED
    BY <1>6, <2>1, <2>2, Zenon
<1>. QED
  BY <1>7, <1>8, <1>13, Zenon

\* The ones of a word are those of its threes of bits.
LEMMA CountIs ==
    ASSUME NEW w \in SUBSET Bit
    PROVE  Cardinality(w) = Ones(w, 0) + Ones(w, 1) + Ones(w, 2) + Ones(w, 3) + Ones(w, 4)
                            + Ones(w, 5) + Ones(w, 6) + Ones(w, 7) + Ones(w, 8) + Ones(w, 9)
                            + Ones(w, 10)
<1>. DEFINE Below(b) == {e \in w : e < b}
            count(b) == Cardinality(Below(b))
<1>0. \A e \in w : e \in Int /\ 0 <= e /\ e <= 31
  BY BitIs
<1>1. IsFiniteSet(Bit)
  <2>1. 0 \in Int /\ 31 \in Int
    OBVIOUS
  <2>2. \A i, j \in Int : IsFiniteSet(i..j)
    BY FS_Interval
  <2>. QED
    BY <2>1, <2>2, Zenon DEF Bit
<1>2. \A b : IsFiniteSet(Below(b)) /\ count(b) \in Nat
  <2>. TAKE b
  <2>1. Below(b) \subseteq Bit
    OBVIOUS
  <2>2. IsFiniteSet(Below(b))
    BY <1>1, <2>1, FS_Subset, Zenon
  <2>. QED
    BY <2>2, FS_CardinalityType, Zenon
<1>3. ASSUME NEW b \in Nat PROVE count(b + 1) = count(b) + Digit(w, b)
  <2>1. CASE b \in w
    <3>1. Below(b + 1) = Below(b) \cup {b} /\ b \notin Below(b)
      <4>1. ~(b < b) /\ \A e \in Int : e < b + 1 <=> e < b \/ e = b
        OBVIOUS
      <4>2. \A e \in w : e < b + 1 <=> e < b \/ e = b
        BY <1>0, <4>1, Zenon
      <4>. QED
        BY <2>1, <4>1, <4>2, Zenon
    <3>. HIDE DEF Below
    <3>2. Cardinality(Below(b) \cup {b}) = Cardinality(Below(b)) + 1
      BY <1>2, <3>1, FS_AddElement, Zenon
    <3>. QED
      BY <2>1, <3>1, <3>2, DigitIs, Zenon
  <2>2. CASE b \notin w
    <3>1. Below(b + 1) = Below(b)
      BY <1>0, <2>2
    <3>. HIDE DEF Below
    <3>2. Digit(w, b) = 0
      BY <2>2, DigitIs, Zenon
    <3>3. count(b) \in Nat
      BY <1>2, Zenon
    <3>. HIDE DEF count
    <3>4. count(b) + 0 = count(b)
      BY <3>3
    <3>. QED
      BY <3>1, <3>2, <3>4, Zenon DEF count
  <2>. QED
    BY <2>1, <2>2, Zenon
<1>4. count(0) = 0
  <2>1. Below(0) = {}
    BY <1>0
  <2>. QED
    BY <2>1, FS_EmptySet, Zenon
<1>5. count(33) = Cardinality(w)
  <2>1. Below(33) = w
    BY <1>0
  <2>. QED
    BY <2>1, Zenon
<1>. HIDE DEF count
<1>6. ASSUME NEW k \in Nat PROVE count(3 * (k + 1)) = count(3 * k) + Ones(w, k)
  <2>1. 3 * k \in Nat /\ 3 * k + 1 \in Nat /\ 3 * k + 2 \in Nat
    OBVIOUS
  <2>2. (3 * k + 1) + 1 = 3 * k + 2 /\ (3 * k + 2) + 1 = 3 * (k + 1)
    OBVIOUS
  <2>3. /\ count(3 * k + 1) = count(3 * k) + Digit(w, 3 * k)
        /\ count(3 * k + 2) = count(3 * k + 1) + Digit(w, 3 * k + 1)
        /\ count(3 * (k + 1)) = count(3 * k + 2) + Digit(w, 3 * k + 2)
    BY <1>3, <2>1, <2>2, Zenon
  <2>4. Digit(w, 3 * k) \in {0, 1} /\ Digit(w, 3 * k + 1) \in {0, 1} /\ Digit(w, 3 * k + 2) \in {0, 1}
    BY DigitIs, Zenon
  <2>5. count(3 * k) \in Nat
    BY <1>2, Zenon DEF count
  <2>. QED
    BY <2>3, <2>4, <2>5 DEF Ones
<1>7. /\ count(3) = count(0) + Ones(w, 0) /\ count(6) = count(3) + Ones(w, 1)
      /\ count(9) = count(6) + Ones(w, 2) /\ count(12) = count(9) + Ones(w, 3)
      /\ count(15) = count(12) + Ones(w, 4) /\ count(18) = count(15) + Ones(w, 5)
      /\ count(21) = count(18) + Ones(w, 6) /\ count(24) = count(21) + Ones(w, 7)
      /\ count(27) = count(24) + Ones(w, 8) /\ count(30) = count(27) + Ones(w, 9)
      /\ count(33) = count(30) + Ones(w, 10)
  <2>1. /\ 3 * (0 + 1) = 3 /\ 3 * 0 = 0 /\ 3 * (1 + 1) = 6 /\ 3 * 1 = 3 /\ 3 * (2 + 1) = 9
        /\ 3 * 2 = 6 /\ 3 * (3 + 1) = 12 /\ 3 * 3 = 9 /\ 3 * (4 + 1) = 15 /\ 3 * 4 = 12
        /\ 3 * (5 + 1) = 18 /\ 3 * 5 = 15 /\ 3 * (6 + 1) = 21 /\ 3 * 6 = 18
        /\ 3 * (7 + 1) = 24 /\ 3 * 7 = 21 /\ 3 * (8 + 1) = 27 /\ 3 * 8 = 24
        /\ 3 * (9 + 1) = 30 /\ 3 * 9 = 27 /\ 3 * (10 + 1) = 33 /\ 3 * 10 = 30
    OBVIOUS
  <2>2. /\ count(3) = count(0) + Ones(w, 0) /\ count(6) = count(3) + Ones(w, 1)
        /\ count(9) = count(6) + Ones(w, 2) /\ count(12) = count(9) + Ones(w, 3)
    BY <1>6, <2>1, SMT
  <2>3. /\ count(15) = count(12) + Ones(w, 4) /\ count(18) = count(15) + Ones(w, 5)
        /\ count(21) = count(18) + Ones(w, 6) /\ count(24) = count(21) + Ones(w, 7)
    BY <1>6, <2>1, SMT
  <2>4. /\ count(27) = count(24) + Ones(w, 8) /\ count(30) = count(27) + Ones(w, 9)
        /\ count(33) = count(30) + Ones(w, 10)
    BY <1>6, <2>1, SMT
  <2>. QED
    BY <2>2, <2>3, <2>4, Zenon
<1>8. \A k : Ones(w, k) \in 0..3
  <2>. TAKE k
  <2>1. \A x, y, z \in {0, 1} : x + y + z \in 0..3
    OBVIOUS
  <2>. QED
    BY <2>1, DigitIs, Zenon DEF Ones
<1>. QED
  BY <1>4, <1>5, <1>7, <1>8

\* popcount32 adds the ones of a word in fields of three, of six and of twelve
\* bits, and the multiplication adds the fields: for every word it is how many
\* bits are one.
THEOREM OnesCounted ==
    ASSUME NEW w \in SUBSET Bit
    PROVE  popcount32(w) = Cardinality(w)
<1>. DEFINE triads == Add(Add(w \cap EveryThird, Lsr(w, 1) \cap EveryThird),
                          Lsr(w, 2) \cap EveryThird)
            pairs  == Add(triads, Lsr(triads, 3)) \cap LowerTriads
            sums   == Add(pairs, Lsr(pairs, 6))
            top    == Lsr(Mul(sums, Spread), 26)
            n      == [k \in 0..11 |-> IF k = 11 THEN 0 ELSE Ones(w, k)]
            m      == [j \in 0..6 |-> IF j = 6 THEN 0 ELSE n[2 * j] + n[2 * j + 1]]
            t      == [j \in 0..4 |-> m[j] + m[j + 1]]
<1>1. popcount32(w) = Value(top)
  BY Zenon DEF popcount32
<1>2. triads \in SUBSET Bit /\ pairs \in SUBSET Bit /\ sums \in SUBSET Bit
  BY AddIs, Zenon
<1>3. \A k \in 0..10 : F3(triads, 3 * k) = Ones(w, k)
  BY TriadsAre, Zenon
<1>. HIDE DEF triads
<1>4. n \in [0..11 -> 0..3] /\ n[10] <= 2 /\ n[11] = 0 /\ \A k \in 0..10 : n[k] = Ones(w, k)
  <2>1. \A k : Ones(w, k) \in 0..3
    <3>. TAKE k
    <3>1. \A x, y, z \in {0, 1} : x + y + z \in 0..3
      OBVIOUS
    <3>. QED
      BY <3>1, DigitIs, Zenon DEF Ones
  <2>2. Ones(w, 10) <= 2
    <3>1. 3 * 10 = 30 /\ 3 * 10 + 2 \notin Bit
      BY DEF Bit
    <3>2. Digit(w, 3 * 10 + 2) = 0
      BY <3>1, DigitIs, Zenon
    <3>3. Digit(w, 3 * 10) \in {0, 1} /\ Digit(w, 3 * 10 + 1) \in {0, 1}
      BY DigitIs, Zenon
    <3>. QED
      BY <3>2, <3>3 DEF Ones
  <2>. QED
    BY <2>1, <2>2
<1>. HIDE DEF n
<1>5. \A j \in 0..5 : F6(pairs, 6 * j) = n[2 * j] + n[2 * j + 1]
  <2>1. \A k \in 0..10 : F3(triads, 3 * k) = n[k]
    BY <1>3, <1>4, Zenon
  <2>. QED
    BY <1>2, <1>4, <2>1, PairsAre
<1>. HIDE DEF pairs
<1>6. m \in [0..6 -> 0..6] /\ m[6] = 0 /\ \A j \in 0..5 : m[j] = n[2 * j] + n[2 * j + 1]
  <2>1. \A j \in 0..5 : n[2 * j] \in 0..3 /\ n[2 * j + 1] \in 0..3
    BY <1>4
  <2>. QED
    BY <2>1
<1>. HIDE DEF m
<1>7. \A j \in 0..4 : F6(sums, 6 * j) = m[j] + m[j + 1]
  <2>1. \A j \in 0..5 : F6(pairs, 6 * j) = m[j]
    BY <1>5, <1>6, Zenon
  <2>. QED
    BY <1>2, <1>6, <2>1, SumsAre
<1>. HIDE DEF sums
<1>8. t \in [0..4 -> 0..12] /\ \A j \in 0..4 : t[j] = m[j] + m[j + 1]
  <2>1. \A j \in 0..4 : m[j] \in 0..6 /\ m[j + 1] \in 0..6
    BY <1>6
  <2>. QED
    BY <2>1
<1>. HIDE DEF t
<1>9. Mul(sums, Spread) \in SUBSET Bit /\ F6(Mul(sums, Spread), 26) = t[4] + t[2] + t[0]
  <2>1. \A j \in 0..4 : F6(sums, 6 * j) = t[j]
    BY <1>7, <1>8, Zenon
  <2>. QED
    BY <1>2, <1>8, <2>1, ProductIs
<1>10. top \in SUBSET (0..5)
  <2>. PICK x \in SUBSET Bit : x = Mul(sums, Spread)
    BY <1>9, Zenon
  <2>1. \A b : b \in Lsr(x, 26) <=> b \in Bit /\ b + 26 \in x
    BY LsrIs
  <2>2. \A b \in Bit : b + 26 \in Bit => b \in 0..5
    BY DEF Bit
  <2>. QED
    BY <2>1, <2>2, Zenon
<1>11. F6(top, 0) = F6(Mul(sums, Spread), 26)
  <2>1. 0 \in Nat /\ 26 \in Nat /\ 0 + 26 = 26
    OBVIOUS
  <2>2. F6(Lsr(Mul(sums, Spread), 26), 0) = F6(Mul(sums, Spread), 0 + 26)
    BY <1>9, <2>1, ShiftedDown, SMT
  <2>. QED
    BY <2>1, <2>2, SMT
<1>12. Value(top) = t[4] + t[2] + t[0]
  BY <1>9, <1>10, <1>11, SmallValue, Zenon
<1>13. /\ t[4] = m[4] + m[5] /\ t[2] = m[2] + m[3] /\ t[0] = m[0] + m[1]
       /\ m[0] = n[0] + n[1] /\ m[1] = n[2] + n[3] /\ m[2] = n[4] + n[5]
       /\ m[3] = n[6] + n[7] /\ m[4] = n[8] + n[9] /\ m[5] = n[10] + n[11]
  BY <1>6, <1>8
<1>14. /\ n[0] = Ones(w, 0) /\ n[1] = Ones(w, 1) /\ n[2] = Ones(w, 2) /\ n[3] = Ones(w, 3)
       /\ n[4] = Ones(w, 4) /\ n[5] = Ones(w, 5) /\ n[6] = Ones(w, 6) /\ n[7] = Ones(w, 7)
       /\ n[8] = Ones(w, 8) /\ n[9] = Ones(w, 9) /\ n[10] = Ones(w, 10) /\ n[11] = 0
  BY <1>4
<1>15. /\ n[0] \in Int /\ n[1] \in Int /\ n[2] \in Int /\ n[3] \in Int /\ n[4] \in Int
       /\ n[5] \in Int /\ n[6] \in Int /\ n[7] \in Int /\ n[8] \in Int /\ n[9] \in Int
       /\ n[10] \in Int
  BY <1>4
<1>16. t[4] + t[2] + t[0] = n[0] + n[1] + n[2] + n[3] + n[4] + n[5] + n[6] + n[7] + n[8]
                            + n[9] + n[10]
  BY <1>13, <1>14, <1>15
<1>. QED
  BY <1>1, <1>12, <1>14, <1>16, CountIs, Zenon

-----------------------------------------------------------------------------
(* The size of the flash. *)

\* f is the sum of the values of the bits of w below each bit.
Evaluates(w, f) ==
    /\ f \in [0..32 -> Nat] /\ f[0] = 0
    /\ \A b \in Bit : f[b + 1] = f[b] + Digit(w, b) * 2^b
    /\ Value(w) = f[32]

\* Powers of two, for one exponent.
LEMMA PowerOf ==
    ASSUME NEW b \in 0..32
    PROVE  2^b \in Nat /\ 2^b >= 1 /\ 2^(b + 1) = 2 * 2^b
  BY Powers, Zenon DEF Doubles

\* The value of a word is that of its bits below each bit, at the last one.
LEMMA EvaluatesIs ==
    ASSUME NEW w
    PROVE  \E f : Evaluates(w, f)
<1>1. PICK f : /\ f \in [0..32 -> Nat] /\ f[0] = 0
               /\ \A b \in Bit : f[b + 1] = IF b \in w THEN f[b] + 2^b ELSE f[b]
               /\ Value(w) = f[32]
  BY ValueIs, Zenon
<1>2. ASSUME NEW b \in Bit PROVE f[b + 1] = f[b] + Digit(w, b) * 2^b
  <2>1. b \in 0..32
    BY DEF Bit
  <2>. PICK p \in Nat : p = 2^b
    BY <2>1, PowerOf
  <2>. PICK m \in Nat : m = f[b]
    BY <1>1, <2>1, Zenon
  <2>2. m + p = m + 1 * p /\ m = m + 0 * p
    OBVIOUS
  <2>3. f[b + 1] = IF b \in w THEN m + p ELSE m
    BY <1>1, Zenon
  <2>. QED
    BY <2>2, <2>3, Zenon DEF Digit
<1>. QED
  BY <1>1, <1>2, Zenon DEF Evaluates

\* What a bit adds to two values, and its carries to their difference.
Moves(p, f, g, x, y, c, d) ==
    y + 2 * d = x + c => ((g + y * p) + d * (2 * p)) - (f + x * p) = (g + c * p) - f

\* A carry moves from one bit to twice its value at the next.
LEMMA CarryMoves ==
    ASSUME NEW p \in Nat, NEW f \in Nat, NEW g \in Nat,
           NEW x \in {0, 1}, NEW y \in {0, 1}, NEW c \in {0, 1}, NEW d \in {0, 1}
    PROVE  Moves(p, f, g, x, y, c, d)
<1>. SUFFICES ASSUME y + 2 * d = x + c
              PROVE  ((g + y * p) + d * (2 * p)) - (f + x * p) = (g + c * p) - f
  BY DEF Moves
<1>1. \/ x = 0 /\ y = 0 /\ c = 0 /\ d = 0
      \/ x = 1 /\ y = 1 /\ c = 0 /\ d = 0
      \/ x = 0 /\ y = 1 /\ c = 1 /\ d = 0
      \/ x = 1 /\ y = 0 /\ c = 1 /\ d = 1
  OBVIOUS
<1>2. CASE x = 0 /\ y = 0 /\ c = 0 /\ d = 0
  BY <1>2
<1>3. CASE x = 1 /\ y = 1 /\ c = 0 /\ d = 0
  BY <1>3
<1>4. CASE x = 0 /\ y = 1 /\ c = 1 /\ d = 0
  BY <1>4
<1>5. CASE x = 1 /\ y = 0 /\ c = 1 /\ d = 1
  BY <1>5
<1>. QED
  BY <1>1, <1>2, <1>3, <1>4, <1>5, Zenon

\* One is added to the value.
LEMMA OneMore ==
    ASSUME NEW w \in SUBSET (0..29)
    PROVE  /\ Value(Add(w, {0})) = Value(w) + 1 /\ Value(w) \in Nat
           /\ Add(w, {0}) \in SUBSET (0..30)
<1>. DEFINE s == Add(w, {0})
<1>1. PICK c : s \in SUBSET Bit /\ Carries(w, {0}, s, c)
  BY AddIs, Zenon
<1>2. PICK f : Evaluates(w, f)
  BY EvaluatesIs, Zenon
<1>3. PICK g : Evaluates(s, g)
  BY EvaluatesIs, Zenon
<1>. HIDE DEF s
<1>4. \A b \in 0..32 : c[b] \in {0, 1} /\ f[b] \in Nat /\ g[b] \in Nat
  BY <1>1, <1>2, <1>3, Zenon DEF Carries, Evaluates
<1>5. \A b \in Bit : /\ Digit(s, b) + 2 * c[b + 1] = Digit(w, b) + Digit({0}, b) + c[b]
                     /\ f[b + 1] = f[b] + Digit(w, b) * 2^b
                     /\ g[b + 1] = g[b] + Digit(s, b) * 2^b
  BY <1>1, <1>2, <1>3, Zenon DEF Carries, Evaluates
<1>6. c[0] = 0 /\ f[0] = 0 /\ g[0] = 0 /\ Value(w) = f[32] /\ Value(s) = g[32]
  BY <1>1, <1>2, <1>3, Zenon DEF Carries, Evaluates
<1>. DEFINE h == [b \in 0..32 |-> (g[b] + c[b] * 2^b) - f[b]]
<1>7. h[1] = 1
  <2>1. 0 \in Bit /\ 0 + 1 = 1 /\ 1 \in 0..32 /\ 0 \in 0..32
    BY DEF Bit
  <2>2. Digit({0}, 0) = 1
    BY DEF Digit
  <2>3. 2^0 = 1 /\ 2^1 = 2
    OBVIOUS
  <2>4. /\ Digit(s, 0) + 2 * c[1] = Digit(w, 0) + 1 + 0
        /\ f[1] = 0 + Digit(w, 0) * 1 /\ g[1] = 0 + Digit(s, 0) * 1
    BY <1>5, <1>6, <2>1, <2>2, <2>3, Zenon
  <2>5. Digit(s, 0) \in {0, 1} /\ Digit(w, 0) \in {0, 1} /\ c[1] \in {0, 1}
    BY <1>4, <2>1, DigitIs, Zenon
  <2>6. (g[1] + c[1] * 2) - f[1] = 1
    BY <2>4, <2>5
  <2>. QED
    BY <2>1, <2>3, <2>6, Zenon
<1>8. ASSUME NEW b \in 1..30 PROVE h[b + 1] = h[b]
  <2>1. b \in Bit /\ b \in 0..32 /\ b + 1 \in 0..32 /\ b # 0
    BY DEF Bit
  <2>2. Digit({0}, b) = 0
    BY <2>1 DEF Digit
  <2>. PICK p \in Nat : p = 2^b
    BY <2>1, PowerOf
  <2>3. 2^(b + 1) = 2 * p
    BY <2>1, PowerOf
  <2>. PICK x \in {0, 1} : x = Digit(w, b)
    BY DigitIs, Zenon
  <2>. PICK y \in {0, 1} : y = Digit(s, b)
    BY DigitIs, Zenon
  <2>. PICK c0 \in {0, 1} : c0 = c[b]
    BY <1>4, <2>1, Zenon
  <2>. PICK c1 \in {0, 1} : c1 = c[b + 1]
    BY <1>4, <2>1, Zenon
  <2>. PICK f0 \in Nat : f0 = f[b]
    BY <1>4, <2>1, Zenon
  <2>. PICK g0 \in Nat : g0 = g[b]
    BY <1>4, <2>1, Zenon
  <2>4. y + 2 * c1 = x + 0 + c0 /\ f[b + 1] = f0 + x * p /\ g[b + 1] = g0 + y * p
    BY <1>5, <2>1, <2>2, Zenon
  <2>5. ((g0 + y * p) + c1 * (2 * p)) - (f0 + x * p) = (g0 + c0 * p) - f0
    <3>1. y + 2 * c1 = x + c0
      BY <2>4
    <3>. QED
      <4>1. Moves(p, f0, g0, x, y, c0, c1)
        BY CarryMoves
      <4>. QED
        BY <3>1, <4>1, Zenon DEF Moves
  <2>6. h[b] = (g0 + c0 * p) - f0 /\ h[b + 1] = (g[b + 1] + c1 * (2 * p)) - f[b + 1]
    BY <2>1, <2>3, Zenon
  <2>. HIDE DEF h
  <2>. QED
    BY <2>4, <2>5, <2>6, Zenon
<1>9. h[31] = 1
  <2>. HIDE DEF h
  <2>1. 1 \in Nat /\ 31 \in Nat /\ 1 <= 31 /\ 1..(31 - 1) = 1..30
    OBVIOUS
  <2>2. \A k \in 1..(31 - 1) : h[k + 1] = h[k]
    BY <1>8, <2>1, Zenon
  <2>3. h[31] = h[1]
    BY <2>1, <2>2, Stays
  <2>. QED
    BY <1>7, <2>3, Zenon
<1>10. c[31] = 0 /\ Digit(s, 31) = 0
  <2>1. 30 \in Bit /\ 31 \in Bit /\ 30 + 1 = 31 /\ 31 + 1 = 32 /\ 30 \in 0..32 /\ 31 \in 0..32 /\ 32 \in 0..32
    BY DEF Bit
  <2>2. Digit({0}, 30) = 0 /\ Digit({0}, 31) = 0 /\ Digit(w, 30) = 0 /\ Digit(w, 31) = 0
    BY DEF Digit
  <2>3. /\ Digit(s, 30) + 2 * c[31] = 0 + 0 + c[30]
        /\ Digit(s, 31) + 2 * c[32] = 0 + 0 + c[31]
    BY <1>5, <2>1, <2>2, Zenon
  <2>4. /\ Digit(s, 30) \in {0, 1} /\ Digit(s, 31) \in {0, 1}
        /\ c[30] \in {0, 1} /\ c[31] \in {0, 1} /\ c[32] \in {0, 1}
    BY <1>4, <2>1, DigitIs, Zenon
  <2>. QED
    BY <2>3, <2>4
<1>11. s \in SUBSET (0..30)
  <2>1. 31 \notin s
    BY <1>10 DEF Digit
  <2>2. \A b \in Bit : b # 31 => b \in 0..30
    BY DEF Bit
  <2>. QED
    BY <1>1, <2>1, <2>2, Zenon
<1>12. g[31] = f[31] + 1
  <2>1. 31 \in 0..32
    OBVIOUS
  <2>. PICK p \in Nat : p = 2^31
    BY <2>1, PowerOf
  <2>2. (g[31] + 0 * p) - f[31] = 1
    BY <1>9, <1>10, <2>1, Zenon
  <2>. HIDE DEF h
  <2>3. g[31] \in Nat /\ f[31] \in Nat
    BY <1>4, <2>1, Zenon
  <2>. QED
    BY <2>2, <2>3
<1>13. g[32] = g[31] /\ f[32] = f[31]
  <2>1. 31 \in 0..32 /\ 31 \in Bit /\ 31 + 1 = 32
    BY DEF Bit
  <2>. PICK p \in Nat : p = 2^31
    BY <2>1, PowerOf
  <2>2. Digit(w, 31) = 0
    BY DEF Digit
  <2>3. g[32] = g[31] + 0 * p /\ f[32] = f[31] + 0 * p
    BY <1>5, <1>10, <2>1, <2>2, Zenon
  <2>4. g[31] \in Nat /\ f[31] \in Nat
    BY <1>4, <2>1, Zenon
  <2>. QED
    BY <2>3, <2>4
<1>14. f[32] \in Nat
  <2>1. 32 \in 0..32
    OBVIOUS
  <2>. QED
    BY <1>4, <2>1, Zenon
<1>. QED
  BY <1>6, <1>11, <1>12, <1>13, <1>14, Zenon DEF s

\* The value of a word is between the power of its highest bit and the next.
LEMMA ValueBounds ==
    ASSUME NEW w \in SUBSET Bit, w # {}
    PROVE  /\ Max(w) \in w
           /\ 2^Max(w) <= Value(w) /\ Value(w) < 2 * 2^Max(w)
<1>1. PICK m \in w : (\A e \in w : e <= m) /\ Max(w) = m /\ m \in 0..31
  BY WordMax
<1>2. PICK f : Evaluates(w, f)
  BY EvaluatesIs, Zenon
<1>3. f[0] = 0 /\ Value(w) = f[32] /\ \A b \in Bit : f[b + 1] = f[b] + Digit(w, b) * 2^b
  BY <1>2, Zenon DEF Evaluates
<1>4. \A b \in 0..32 : f[b] \in Nat
  BY <1>2, Zenon DEF Evaluates
<1>. DEFINE h == [b \in 0..32 |-> IF f[b] < 2^b THEN 1 ELSE 0]
<1>5. \A b \in 0..32 : h[b] \in {1}
  <2>1. h[0] \in {1}
    <3>1. 0 \in 0..32
      OBVIOUS
    <3>2. 0 < 2^0
      OBVIOUS
    <3>. QED
      BY <1>3, <3>1, <3>2, Zenon
  <2>2. \A b \in 1..32 : h[b - 1] \in {1} => h[b] \in {1}
    <3>. SUFFICES ASSUME NEW b \in 1..32, h[b - 1] \in {1} PROVE h[b] \in {1}
      OBVIOUS
    <3>. PICK e \in 0..31 : e = b - 1
      OBVIOUS
    <3>1. e \in Bit /\ e \in 0..32 /\ e + 1 = b /\ b \in 0..32
      BY DEF Bit
    <3>2. f[e] < 2^e
      <4>1. 0 # 1 /\ e \in 0..32
        BY <3>1
      <4>. QED
        BY <4>1, Zenon
    <3>. PICK p \in Nat : p = 2^e
      BY <3>1, PowerOf
    <3>. PICK x \in {0, 1} : x = Digit(w, e)
      BY DigitIs, Zenon
    <3>. PICK k \in Nat : k = f[e]
      BY <1>4, <3>1, Zenon
    <3>3. f[b] = k + x * p
      BY <1>3, <3>1, Zenon
    <3>4. 2^b = 2 * p
      BY <3>1, PowerOf
    <3>5. k + x * p < 2 * p
      <4>1. k < p
        BY <3>2, Zenon
      <4>2. x = 0 \/ x = 1
        OBVIOUS
      <4>. QED
        BY <4>1, <4>2
    <3>6. f[b] < 2^b
      BY <3>3, <3>4, <3>5, Zenon
    <3>. QED
      BY <3>1, <3>6, Zenon
  <2>. HIDE DEF h
  <2>3. 32 \in Nat
    OBVIOUS
  <2>. QED
    BY <2>1, <2>2, <2>3, LoopKeeps
<1>6. f[m] < 2^m
  <2>1. m \in 0..32
    BY <1>1
  <2>2. 0 # 1
    OBVIOUS
  <2>. QED
    BY <1>5, <2>1, <2>2, Zenon
<1>7. f[32] = f[m + 1]
  <2>1. \A b \in (m + 1)..(32 - 1) : b \in Bit /\ b \in 0..32 /\ ~(b <= m)
    BY <1>1 DEF Bit
  <2>2. \A b \in (m + 1)..(32 - 1) : f[b + 1] = f[b]
    <3>. TAKE b \in (m + 1)..(32 - 1)
    <3>1. Digit(w, b) = 0
      BY <1>1, <2>1, DigitIs, Zenon
    <3>. PICK p \in Nat : p = 2^b
      BY <2>1, PowerOf
    <3>. PICK k \in Nat : k = f[b]
      BY <1>4, <2>1, Zenon
    <3>2. f[b + 1] = k + 0 * p
      BY <1>3, <2>1, <3>1, Zenon
    <3>. QED
      BY <3>2
  <2>3. m + 1 \in Nat /\ 32 \in Nat /\ m + 1 <= 32
    BY <1>1
  <2>. PICK i \in Nat : i = m + 1
    BY <2>3
  <2>4. f[32] = f[i]
    BY <2>2, <2>3, Stays
  <2>. QED
    BY <2>4, Zenon
<1>8. m \in Bit /\ m \in 0..32
  BY <1>1 DEF Bit
<1>. PICK p \in Nat : p = 2^m
  BY <1>8, PowerOf
<1>9. f[32] = f[m] + 1 * p
  BY <1>1, <1>3, <1>7, <1>8, DigitIs, Zenon
<1>. PICK k \in Nat : k = f[m]
  BY <1>4, <1>8, Zenon
<1>10. p <= k + 1 * p /\ k + 1 * p < 2 * p
  <2>1. k < p
    BY <1>6, Zenon
  <2>. QED
    BY <2>1
<1>. QED
  BY <1>1, <1>3, <1>9, <1>10, Zenon

\* flash_size_log2 takes the number of bits less one that the parameter table
\* gives, up to a gigabit, and the logarithm it returns is that of the bytes of
\* the flash, rounded down.
THEOREM SizeFound ==
    ASSUME NEW w \in SUBSET (0..29), Value(w) + 1 >= 2^11
    PROVE  SizeIs(Value(w) + 1, flash_size_log2(TRUE, w, 0))
<1>. DEFINE s == Add(w, {0})
<1>1. Value(s) = Value(w) + 1 /\ Value(w) \in Nat /\ s \in SUBSET (0..30)
  BY OneMore, Zenon
<1>. PICK v \in Nat : v = Value(w)
  BY <1>1, Zenon
<1>2. 31 \notin w
  OBVIOUS
<1>3. ArraySize(w) = Max(s)
  BY <1>2, Zenon DEF ArraySize, Log2
<1>. HIDE DEF s
<1>4. s # {}
  <2>. SUFFICES ASSUME s = {} PROVE FALSE
    OBVIOUS
  <2>. PICK f : Evaluates({}, f)
    BY EvaluatesIs, Zenon
  <2>1. /\ f[0] = 0 /\ Value({}) = f[32] /\ \A b \in 0..32 : f[b] \in Nat
        /\ \A b \in Bit : f[b + 1] = f[b] + Digit({}, b) * 2^b
    BY Zenon DEF Evaluates
  <2>2. \A b \in 0..31 : f[b + 1] = f[b]
    <3>. TAKE b \in 0..31
    <3>1. b \in Bit /\ b \in 0..32
      BY DEF Bit
    <3>. PICK p \in Nat : p = 2^b
      BY <3>1, PowerOf
    <3>. PICK k \in Nat : k = f[b]
      BY <2>1, <3>1, Zenon
    <3>2. Digit({}, b) = 0
      BY DEF Digit
    <3>3. f[b + 1] = k + 0 * p
      BY <2>1, <3>1, <3>2, Zenon
    <3>. QED
      BY <3>3
  <2>3. 0 \in Nat /\ 32 \in Nat /\ 0 <= 32 /\ 0..(32 - 1) = 0..31
    OBVIOUS
  <2>4. \A b \in 0..(32 - 1) : f[b + 1] = f[b]
    BY <2>2, <2>3, Zenon
  <2>5. f[32] = f[0]
    BY <2>3, <2>4, Stays
  <2>6. v + 1 = 0
    BY <1>1, <2>1, <2>5, Zenon
  <2>. QED
    BY <2>6
<1>5. s \in SUBSET Bit
  <2>1. \A b \in 0..30 : b \in Bit
    BY DEF Bit
  <2>. QED
    BY <1>1, <2>1, Zenon
<1>. PICK m : m = Max(s)
  BY Zenon
<1>6. m \in 0..30 /\ 2^m <= v + 1 /\ v + 1 < 2 * 2^m
  BY <1>1, <1>4, <1>5, ValueBounds, Zenon
<1>7. m >= 11
  <2>. DEFINE Small(n) == 2 * 2^n <= 2^11
  <2>1. /\ Small(0) /\ Small(1) /\ Small(2) /\ Small(3) /\ Small(4) /\ Small(5)
        /\ Small(6) /\ Small(7) /\ Small(8) /\ Small(9) /\ Small(10)
    OBVIOUS
  <2>2. ~Small(m)
    <3>. PICK p \in Nat : p = 2^m
      BY <1>6, PowerOf
    <3>. PICK q \in Nat : q = 2^11
      <4>1. 11 \in 0..32
        OBVIOUS
      <4>. QED
        BY <4>1, PowerOf
    <3>1. v + 1 >= q /\ v + 1 < 2 * p
      BY <1>6, Zenon
    <3>2. ~(2 * p <= q)
      BY <3>1
    <3>. QED
      BY <3>2, Zenon
  <2>. HIDE DEF Small
  <2>. QED
    BY <1>6, <2>1, <2>2
<1>8. flash_size_log2(TRUE, w, 0) = m - 3
  <2>1. m \in 11..37
    BY <1>6, <1>7
  <2>. QED
    BY <1>3, <2>1, Zenon DEF flash_size_log2
<1>. PICK n \in 8..27 : n = m - 3
  BY <1>6, <1>7
<1>9. 2^m = 8 * 2^n
  <2>1. n \in 0..32 /\ n + 1 \in 0..32 /\ n + 2 \in 0..32 /\ (n + 1) + 1 = n + 2 /\ (n + 2) + 1 = m
    BY <1>6
  <2>2. 2^n \in Nat /\ 2^(n + 1) = 2 * 2^n /\ 2^(n + 2) = 2 * 2^(n + 1) /\ 2^m = 2 * 2^(n + 2)
    BY <2>1, PowerOf, Zenon
  <2>. QED
    BY <2>2
<1>. PICK p \in Nat : p = 2^n
  <2>1. n \in 0..32
    OBVIOUS
  <2>. QED
    BY <2>1, PowerOf
<1>10. 8 * p <= v + 1 /\ v + 1 < 16 * p
  <2>1. 8 * p <= v + 1 /\ v + 1 < 2 * (8 * p)
    BY <1>6, <1>9, Zenon
  <2>. QED
    BY <2>1
<1>. QED
  BY <1>8, <1>10, Zenon DEF SizeIs

-----------------------------------------------------------------------------
(* The compression. *)

\* What a match is, field by field.
MatchOf(src, to, m) ==
    /\ m[1] \in 3..(Len(src) - to)
    /\ m[2] \in 0..(to - 1)
    /\ \A i \in 1..m[1] : src[to + i] = src[m[2] + i]

\* A match that compress finds lies before the position and within the text.
LEMMA MatchesAre ==
    ASSUME NEW S, NEW src \in Seq(S), NEW to \in 0..Len(src), NEW m \in Matches(src, to)
    PROVE  MatchOf(src, to, m)
<1>1. /\ m[1] \in 3..Smaller(MaxMatch, Len(src) - to)
      /\ m[2] \in Larger(0, to - Window)..(to - 1)
      /\ \A i \in 1..m[1] : src[to + i] = src[m[2] + i]
  BY DEF Matches
<1>2. Len(src) - to \in Nat /\ to \in Nat
  OBVIOUS
<1>3. /\ Smaller(MaxMatch, Len(src) - to) \in Int
      /\ Smaller(MaxMatch, Len(src) - to) <= Len(src) - to
  BY <1>2, CompressionAssumption DEF Smaller
<1>4. /\ Larger(0, to - Window) \in Int
      /\ Larger(0, to - Window) >= 0
  BY <1>2, CompressionAssumption DEF Larger
<1>. QED
  BY <1>1, <1>2, <1>3, <1>4 DEF MatchOf

\* Of the matches at a place one is the longest, and the first of its length.
LEMMA BestIs ==
    ASSUME NEW S, NEW src \in Seq(S), NEW to \in 0..Len(src), Matches(src, to) # {}
    PROVE  MatchOf(src, to, Best(src, to))
<1> DEFINE M    == Matches(src, to)
           lens == {Len(src) - m[1] : m \in M}
<1>1. \A m \in M : /\ m[1] \in 3..(Len(src) - to) /\ m[2] \in 0..(to - 1)
                   /\ m[1] \in Nat /\ m[2] \in Nat /\ Len(src) - m[1] \in Nat
  BY MatchesAre DEF MatchOf
<1> HIDE DEF M
<1>2. lens \subseteq Nat /\ lens # {}
  BY <1>1 DEF M
<1>3. PICK l \in lens : \A k \in lens : l <= k
  BY <1>2, Least
<1>4. PICK a \in M : l = Len(src) - a[1]
  OBVIOUS
<1>5. \A n \in M : a[1] >= n[1]
  <2>. TAKE n \in M
  <2>1. l <= Len(src) - n[1]
    BY <1>3
  <2>. QED
    BY <1>1, <1>4, <2>1
<1> DEFINE firsts == {m[2] : m \in {x \in M : x[1] = a[1]}}
<1>6. firsts \subseteq Nat /\ firsts # {}
  BY <1>1
<1>7. PICK p \in firsts : \A q \in firsts : p <= q
  BY <1>6, Least
<1>8. PICK b \in M : b[1] = a[1] /\ p = b[2]
  OBVIOUS
<1>9. \A n \in M : b[1] > n[1] \/ (b[1] = n[1] /\ b[2] <= n[2])
  <2>. TAKE n \in M
  <2>1. CASE n[1] = a[1]
    <3>1. n[2] \in firsts
      BY <2>1
    <3>. QED
      BY <1>7, <1>8, <2>1, <3>1
  <2>2. CASE n[1] # a[1]
    <3>1. a[1] \in Nat /\ n[1] \in Nat /\ a[1] >= n[1] /\ b[1] = a[1]
      BY <1>1, <1>5, <1>8, Zenon
    <3>. QED
      BY <2>2, <3>1, SMT
  <2>. QED
    BY <2>1, <2>2
<1>10. Best(src, to) \in M
  BY <1>9, Zenon DEF Best, M
<1>. QED
  BY <1>10, MatchesAre DEF M

\* What is in the buffer when the first k letters have been written.
Prefix(src, k) == [i \in 1..k |-> src[i]]

\* The letters that have been written are those of the text.
LEMMA PrefixIs ==
    ASSUME NEW S, NEW src \in Seq(S), NEW k \in 0..Len(src)
    PROVE  /\ Prefix(src, k) \in Seq(S)
           /\ Len(Prefix(src, k)) = k
           /\ \A i \in 1..k : Prefix(src, k)[i] = src[i]
  BY DEF Prefix

\* The buffer grows by the next letter of the text.
LEMMA PrefixGrows ==
    ASSUME NEW S, NEW src \in Seq(S), NEW k \in 0..Len(src), k < Len(src)
    PROVE  Append(Prefix(src, k), src[k + 1]) = Prefix(src, k + 1)
<1>1. /\ k + 1 \in 0..Len(src) /\ k + 1 \in 1..Len(src) /\ src[k + 1] \in S
      /\ \A i \in 1..(k + 1) : i = k + 1 \/ i \in 1..k
  OBVIOUS
<1> DEFINE p == Append(Prefix(src, k), src[k + 1])
<1>2. /\ p \in Seq(S) /\ Len(p) = k + 1
      /\ \A i \in 1..k : p[i] = Prefix(src, k)[i]
      /\ p[k + 1] = src[k + 1]
  <2>1. Prefix(src, k) \in Seq(S) /\ Len(Prefix(src, k)) = k
    BY PrefixIs
  <2>. QED
    BY <1>1, <2>1, AppendProperties
<1>3. /\ Prefix(src, k + 1) \in Seq(S) /\ Len(Prefix(src, k + 1)) = k + 1
      /\ \A i \in 1..(k + 1) : Prefix(src, k + 1)[i] = src[i]
  BY <1>1, PrefixIs
<1>4. \A i \in 1..(k + 1) : p[i] = Prefix(src, k + 1)[i]
  BY <1>1, <1>2, <1>3, PrefixIs
<1> HIDE DEF p
<1>5. p = Prefix(src, k + 1)
  BY <1>2, <1>3, <1>4, SeqEqual
<1>. QED
  BY <1>5 DEF p

\* A copy of a match writes the letters that follow in the text, also when it
\* overlaps with itself.
LEMMA CopyIs ==
    ASSUME NEW S, NEW src \in Seq(S), NEW to \in 0..Len(src), NEW m, MatchOf(src, to, m)
    PROVE  CopyBytes(Prefix(src, to), Copy(m[1], to - m[2])) = Prefix(src, to + m[1])
<1> DEFINE c   == Copy(m[1], to - m[2])
           buf == Prefix(src, to)
           g   == [i \in 0..m[1] |-> Prefix(src, to + i)]
<1>1. /\ m[1] \in 3..(Len(src) - to) /\ m[2] \in 0..(to - 1)
      /\ \A i \in 1..m[1] : src[to + i] = src[m[2] + i]
  BY DEF MatchOf
<1>2. c.len = m[1] /\ c.off = to - m[2]
  BY DEF Copy
<1>3. Len(buf) - c.off = m[2]
  <2>1. Len(buf) = to
    BY PrefixIs
  <2>. QED
    BY <1>1, <1>2, <2>1
<1>4. ASSUME NEW i \in 1..m[1]
      PROVE  g[i] = Append(g[i - 1], g[i - 1][m[2] + i])
  <2>1. /\ i \in 0..m[1] /\ i - 1 \in 0..m[1]
        /\ to + (i - 1) \in 0..Len(src) /\ to + (i - 1) < Len(src)
        /\ to + (i - 1) + 1 = to + i /\ m[2] + i \in 1..(to + (i - 1))
    <3>1. /\ m[1] \in Int /\ m[1] <= Len(src) - to /\ i \in Int /\ 1 <= i /\ i <= m[1]
          /\ m[2] \in Int /\ 0 <= m[2] /\ m[2] <= to - 1
          /\ Len(src) \in Int /\ to \in Int /\ 0 <= to
      BY <1>1
    <3>2. ASSUME NEW l \in Int, NEW f \in Int, NEW n \in Int, l = m[1], f = m[2], n = Len(src)
          PROVE  /\ i \in 0..l /\ i - 1 \in 0..l
                 /\ to + (i - 1) \in 0..n /\ to + (i - 1) < n
                 /\ to + (i - 1) + 1 = to + i /\ f + i \in 1..(to + (i - 1))
      <4>1. l <= n - to /\ i \in Int /\ 1 <= i /\ i <= l /\ 0 <= f /\ f <= to - 1 /\ 0 <= to /\ to \in Int
        BY <3>1, <3>2, Zenon
      <4>. QED
        BY <4>1, SMT
    <3>. QED
      BY <3>1, <3>2, Zenon
  <2>2. g[i] = Prefix(src, to + i) /\ g[i - 1] = Prefix(src, to + (i - 1))
    BY <2>1
  <2>3. Prefix(src, to + (i - 1))[m[2] + i] = src[to + i]
    BY <1>1, <2>1, PrefixIs
  <2>4. Append(Prefix(src, to + (i - 1)), src[to + (i - 1) + 1]) = Prefix(src, to + (i - 1) + 1)
    BY <2>1, PrefixGrows
  <2>. QED
    BY <2>1, <2>2, <2>3, <2>4
<1>5. g[0] = buf
  <2>1. to + 0 = to /\ 0 \in 0..m[1]
    BY <1>1
  <2>. QED
    BY <2>1
<1>6. g = [i \in 0..c.len |->
             IF i = 0 THEN buf ELSE Append(g[i - 1], g[i - 1][Len(buf) - c.off + i])]
  <2>1. \A i \in 0..m[1] : i # 0 => i \in 1..m[1]
    BY <1>1
  <2>2. \A i \in 0..m[1] : g[i] = IF i = 0 THEN buf
                                  ELSE Append(g[i - 1], g[i - 1][Len(buf) - c.off + i])
    BY <1>3, <1>4, <1>5, <2>1
  <2>3. g = [i \in 0..c.len |-> g[i]]
    BY <1>2
  <2> HIDE DEF g, c, buf
  <2>. QED
    BY <1>2, <2>2, <2>3, Zenon
<1> HIDE DEF g, c, buf
<1> DEFINE out == CHOOSE f : f = [i \in 0..c.len |->
               IF i = 0 THEN buf ELSE Append(f[i - 1], f[i - 1][Len(buf) - c.off + i])]
<1>7. out = [i \in 0..c.len |->
               IF i = 0 THEN buf ELSE Append(out[i - 1], out[i - 1][Len(buf) - c.off + i])]
  BY <1>6, Zenon
<1>8. CopyBytes(buf, c) = out[c.len]
  BY Zenon DEF CopyBytes
<1> HIDE DEF out
<1>9. \A i \in 0..m[1] : out[i] = g[i]
  <2>1. \A i \in 1..m[1] : i \in 0..m[1] /\ i # 0
    BY <1>1
  <2>2. \A i \in 1..m[1] : out[i] = Append(out[i - 1], out[i - 1][m[2] + i])
    BY <1>2, <1>3, <1>7, <2>1
  <2>3. out[0] = g[0]
    <3>1. 0 \in 0..c.len
      BY <1>1, <1>2
    <3>. QED
      BY <1>5, <1>7, <3>1
  <2>4. m[1] \in Nat
    BY <1>1
  <2>5. \A i \in 1..m[1] : out[i - 1] = g[i - 1] => out[i] = g[i]
    BY <1>4, <2>2
  <2>. HIDE DEF g
  <2>6. ASSUME NEW n \in Nat, n = m[1] PROVE \A i \in 0..n : out[i] = g[i]
    <3>1. \A i \in 1..n : out[i - 1] = g[i - 1] => out[i] = g[i]
      BY <2>5, <2>6, Zenon
    <3>2. SameTurns(n, out, g)
      BY <2>3, <3>1, Zenon DEF SameTurns
    <3>3. SameResults(n, out, g)
      BY <3>2, LoopsAgree, Zenon
    <3>. QED
      BY <3>3, Zenon DEF SameResults
  <2>. QED
    BY <2>4, <2>6, Zenon
<1>10. out[m[1]] = Prefix(src, to + m[1])
  <2>1. m[1] \in 0..m[1]
    BY <1>1
  <2>. QED
    BY <1>9, <2>1 DEF g
<1>. QED
  BY <1>2, <1>8, <1>10 DEF c, buf

\* What a compressed text is made of.
Symbol(src) == {Copy(l, o) : l, o \in Nat} \cup {Literal(src[i]) : i \in 1..Len(src)}

\* A copy of some letters is a symbol.
LEMMA CopyIsSymbol ==
    ASSUME NEW src, NEW l \in Nat, NEW o \in Nat, l > 0
    PROVE  Copy(l, o) \in Symbol(src) /\ Copy(l, o).len > 0
  <1>1. Copy(l, o) \in {Copy(x, y) : x, y \in Nat}
    OBVIOUS
  <1>2. Copy(l, o).len = l
    BY DEF Copy
  <1>. QED
    BY <1>1, <1>2 DEF Symbol

\* The data take the buffer from the first a letters to the first b.
Expands(src, data, a, b) ==
    /\ data \in Seq(Symbol(src))
    /\ \E g : /\ g[0] = Prefix(src, a)
              /\ \A i \in 1..Len(data) : g[i] = Expand(g[i - 1], data[i])
              /\ g[Len(data)] = Prefix(src, b)

\* No data leave the buffer as it is.
LEMMA NothingExpands ==
    ASSUME NEW src, NEW a
    PROVE  Expands(src, <<>>, a, a)
<1>1. <<>> \in Seq(Symbol(src)) /\ Len(<<>>) = 0
  BY EmptySeq
<1> DEFINE g == [i \in {0} |-> Prefix(src, a)]
<1>2. g[0] = Prefix(src, a) /\ 1..0 = {}
  OBVIOUS
<1>. QED
  BY <1>1, <1>2 DEF Expands

\* A symbol in front of the data.
LEMMA OneIs ==
    ASSUME NEW S, NEW e \in S, NEW d \in Seq(S)
    PROVE  /\ <<e>> \o d \in Seq(S)
           /\ Len(<<e>> \o d) = Len(d) + 1
           /\ (<<e>> \o d)[1] = e
           /\ \A i \in 2..(Len(d) + 1) : (<<e>> \o d)[i] = d[i - 1]
<1>1. <<e>> \in Seq(S) /\ Len(<<e>>) = 1 /\ <<e>>[1] = e /\ Len(d) \in Nat
  OBVIOUS
<1> DEFINE one == <<e>>
<1>2. /\ one \o d \in Seq(S) /\ Len(one \o d) = Len(one) + Len(d)
      /\ \A i \in 1..(Len(one) + Len(d)) :
            (one \o d)[i] = IF i <= Len(one) THEN one[i] ELSE d[i - Len(one)]
  BY <1>1, ConcatProperties
<1> HIDE DEF one
<1>3. Len(one) = 1 /\ one[1] = e
  BY <1>1 DEF one
<1>4. /\ one \o d \in Seq(S) /\ Len(one \o d) = Len(d) + 1 /\ (one \o d)[1] = e
      /\ \A i \in 2..(Len(d) + 1) : (one \o d)[i] = d[i - 1]
  BY <1>1, <1>2, <1>3
<1>. QED
  BY <1>4 DEF one

\* A symbol that takes the buffer on, before data that do (Expand).
LEMMA MoreExpands ==
    ASSUME NEW src, NEW a, NEW b, NEW c, NEW d, Expands(src, d, b, c),
           NEW e \in Symbol(src), Expand(Prefix(src, a), e) = Prefix(src, b)
    PROVE  Expands(src, <<e>> \o d, a, c)
<1>1. d \in Seq(Symbol(src)) /\ Len(d) \in Nat
  BY DEF Expands
<1>2. PICK g : /\ g[0] = Prefix(src, b)
               /\ \A i \in 1..Len(d) : g[i] = Expand(g[i - 1], d[i])
               /\ g[Len(d)] = Prefix(src, c)
  BY DEF Expands
<1> DEFINE all == <<e>> \o d
           h   == [i \in 0..(Len(d) + 1) |-> IF i = 0 THEN Prefix(src, a) ELSE g[i - 1]]
<1>3. /\ all \in Seq(Symbol(src)) /\ Len(all) = Len(d) + 1 /\ all[1] = e
      /\ \A i \in 2..(Len(d) + 1) : all[i] = d[i - 1]
  BY <1>1, OneIs
<1>4. /\ h[0] = Prefix(src, a)
      /\ \A i \in 1..(Len(d) + 1) : h[i] = g[i - 1]
  BY <1>1
<1> HIDE DEF h, all
<1>5. ASSUME NEW i \in 1..Len(all) PROVE h[i] = Expand(h[i - 1], all[i])
  <2>1. CASE i = 1
    <3>1. h[1] = g[0] /\ all[1] = e /\ h[0] = Prefix(src, a)
      BY <1>1, <1>3, <1>4
    <3>. QED
      BY <1>2, <2>1, <3>1
  <2>2. CASE i # 1
    <3>1. /\ i \in 2..(Len(d) + 1) /\ i \in 1..(Len(d) + 1) /\ i - 1 \in 1..(Len(d) + 1)
          /\ i - 1 \in 1..Len(d)
      BY <1>1, <1>3, <2>2
    <3>2. all[i] = d[i - 1] /\ h[i] = g[i - 1] /\ h[i - 1] = g[(i - 1) - 1]
      BY <1>3, <1>4, <3>1
    <3>3. g[i - 1] = Expand(g[(i - 1) - 1], d[i - 1])
      BY <1>2, <3>1
    <3>. QED
      BY <3>2, <3>3
  <2>. QED
    BY <2>1, <2>2
<1>6. h[Len(all)] = Prefix(src, c)
  <2>1. Len(d) + 1 \in 1..(Len(d) + 1) /\ (Len(d) + 1) - 1 = Len(d)
    BY <1>1
  <2>. QED
    BY <1>2, <1>3, <1>4, <2>1
<1>7. Expands(src, all, a, c)
  BY <1>3, <1>4, <1>5, <1>6, Zenon DEF Expands
<1>. QED
  BY <1>7 DEF all

\* Data that take the buffer from nothing to b letters decompress to those.
LEMMA DecompressIs ==
    ASSUME NEW src, NEW data, NEW b, Expands(src, data, 0, b)
    PROVE  poor_mans_text_decompress(data) = Prefix(src, b)
<1> DEFINE n == Len(data)
<1>1. n \in Nat
  BY LenProperties DEF Expands
<1>2. PICK g : /\ g[0] = Prefix(src, 0)
               /\ \A i \in 1..n : g[i] = Expand(g[i - 1], data[i])
               /\ g[n] = Prefix(src, b)
  BY DEF Expands
<1>3. Prefix(src, 0) = <<>>
  BY DEF Prefix
<1> DEFINE f == [i \in 0..n |-> g[i]]
<1>4. f = [i \in 0..n |-> IF i = 0 THEN <<>> ELSE Expand(f[i - 1], data[i])]
  <2>1. \A i \in 0..n : i # 0 => i \in 1..n /\ i - 1 \in 0..n
    BY <1>1
  <2>2. \A i \in 0..n : f[i] = IF i = 0 THEN <<>> ELSE Expand(f[i - 1], data[i])
    BY <1>2, <1>3, <2>1
  <2>3. f = [i \in 0..n |-> f[i]]
    OBVIOUS
  <2> HIDE DEF f
  <2>. QED
    BY <2>2, <2>3, Zenon
<1> HIDE DEF f
<1> DEFINE buf == CHOOSE r : r = [i \in 0..n |-> IF i = 0 THEN <<>> ELSE Expand(r[i - 1], data[i])]
<1>5. buf = [i \in 0..n |-> IF i = 0 THEN <<>> ELSE Expand(buf[i - 1], data[i])]
  BY <1>4, Zenon
<1>6. poor_mans_text_decompress(data) = buf[n]
  BY Zenon DEF poor_mans_text_decompress
<1> HIDE DEF buf
<1>7. \A i \in 0..n : buf[i] = g[i]
  <2>1. \A i \in 1..n : i \in 0..n /\ i # 0
    BY <1>1
  <2>2. \A i \in 1..n : buf[i] = Expand(buf[i - 1], data[i])
    BY <1>5, <2>1
  <2>3. buf[0] = g[0]
    BY <1>1, <1>2, <1>3, <1>5
  <2>4. \A i \in 1..n : buf[i - 1] = g[i - 1] => buf[i] = g[i]
    BY <1>2, <2>2
  <2>5. n \in Nat
    BY <1>1
  <2> HIDE DEF n
  <2>6. SameTurns(n, buf, g)
    BY <2>3, <2>4, Zenon DEF SameTurns
  <2>7. SameResults(n, buf, g)
    BY <2>5, <2>6, LoopsAgree, Zenon
  <2>. QED
    BY <2>7, Zenon DEF SameResults
<1>8. n \in 0..n
  BY <1>1
<1>. QED
  BY <1>2, <1>6, <1>7, <1>8

\* Where a turn of compress is after its match.
LEMMA AfterIs ==
    ASSUME NEW S, NEW src \in Seq(S), NEW to \in 0..Len(src), to < Len(src)
    PROVE  /\ After(src, to) \in to..Len(src)
           /\ Matches(src, to) = {} => After(src, to) = to
           /\ Matches(src, to) # {} => /\ MatchOf(src, to, Best(src, to))
                                       /\ After(src, to) = to + Best(src, to)[1]
<1>1. to \in Nat /\ Len(src) \in Nat
  OBVIOUS
<1>2. CASE Matches(src, to) = {}
  BY <1>1, <1>2 DEF After
<1>3. CASE Matches(src, to) # {}
  <2>1. MatchOf(src, to, Best(src, to))
    BY <1>3, BestIs
  <2>2. After(src, to) = to + Best(src, to)[1]
    BY <1>3 DEF After
  <2>3. Best(src, to)[1] \in 3..(Len(src) - to)
    BY <2>1 DEF MatchOf
  <2>4. PICK l \in 3..(Len(src) - to) : l = Best(src, to)[1]
    BY <2>3
  <2>5. After(src, to) \in to..Len(src)
    BY <1>1, <2>2, <2>4
  <2>. QED
    BY <1>3, <2>1, <2>2, <2>5
<1>. QED
  BY <1>2, <1>3

\* The turns of compress are well founded: each goes on after the place where it
\* begins.
LEMMA CompressIs ==
    ASSUME NEW S, NEW src \in Seq(S)
    PROVE  \E from :
              /\ from[Len(src)] = <<>> /\ from[Len(src) + 1] = <<>>
              /\ \A to \in 0..Len(src) : to < Len(src) =>
                    from[to] = Symbols(src, to) \o from[After(src, to) + 1]
              /\ compress(src) = from[0]
<1> DEFINE n == Len(src)
           Is(k, f) == f = [to \in k..(n + 1) |->
               IF to >= n THEN <<>> ELSE Symbols(src, to) \o f[After(src, to) + 1]]
           Bad == {j \in 0..(n + 1) : ~\E f : Is(n + 1 - j, f)}
<1>1. n \in Nat
  OBVIOUS
<1>2. Bad = {}
  <2>1. SUFFICES ASSUME Bad # {} PROVE FALSE
    BY Zenon
  <2>2. PICK j \in Bad : \A i \in Bad : j <= i
    <3>1. Bad \subseteq Nat
      BY <1>1
    <3> HIDE DEF Bad
    <3>. QED
      BY <2>1, <3>1, Least
  <2>3. j # 0
    <3> DEFINE f == [to \in (n + 1)..(n + 1) |-> <<>>]
    <3>1. \A to \in (n + 1)..(n + 1) : to >= n
      BY <1>1
    <3>2. f = [to \in (n + 1)..(n + 1) |->
                  IF to >= n THEN <<>> ELSE Symbols(src, to) \o f[After(src, to) + 1]]
      BY <3>1
    <3>3. n + 1 - 0 = n + 1
      BY <1>1
    <3> HIDE DEF f
    <3>4. Is(n + 1 - 0, f)
      BY <3>2, <3>3
    <3>5. 0 \notin Bad
      BY <3>4
    <3>. QED
      BY <3>5
  <2> DEFINE k == n + 1 - j
  <2>4. /\ j - 1 \in 0..(n + 1) /\ ~(j <= j - 1) /\ n + 1 - (j - 1) = k + 1
        /\ k \in 0..n
    BY <1>1, <2>3
  <2>5. \E f : Is(k + 1, f)
    <3>1. j - 1 \notin Bad
      <4> HIDE DEF Bad
      <4>. QED
        BY <2>2, <2>4
    <3>2. \E f : Is(n + 1 - (j - 1), f)
      <4> HIDE DEF Is
      <4>. QED
        BY <2>4, <3>1
    <3>. QED
      BY <2>4, <3>2
  <2>6. PICK f : Is(k + 1, f)
    BY <2>5
  <2> HIDE DEF k
  <2> DEFINE T(to, h) == IF to >= n THEN <<>> ELSE Symbols(src, to) \o h[After(src, to) + 1]
             g == [to \in k..(n + 1) |-> IF to = k THEN T(to, f) ELSE f[to]]
  <2>7. \A to \in (k + 1)..(n + 1) : g[to] = f[to] /\ f[to] = T(to, f)
    <3>1. f = [to \in (k + 1)..(n + 1) |-> T(to, f)]
      BY <2>6
    <3>2. \A to \in (k + 1)..(n + 1) : to \in k..(n + 1) /\ to # k
      BY <1>1, <2>4
    <3> HIDE DEF T
    <3>3. \A to \in (k + 1)..(n + 1) : f[to] = T(to, f)
      BY <3>1, Zenon
    <3>. QED
      BY <3>2, <3>3
  <2>8. \A to \in k..(n + 1) : T(to, g) = T(to, f)
    <3>. TAKE to \in k..(n + 1)
    <3>1. CASE to >= n
      BY <3>1
    <3>2. CASE ~(to >= n)
      <4>1. to \in 0..n /\ to < n
        BY <1>1, <2>4, <3>2
      <4>2. After(src, to) \in to..n
        BY <4>1, AfterIs
      <4>3. After(src, to) + 1 \in (k + 1)..(n + 1)
        BY <1>1, <2>4, <4>2
      <4>4. g[After(src, to) + 1] = f[After(src, to) + 1]
        BY <2>7, <4>3
      <4> HIDE DEF g
      <4>. QED
        BY <4>4
    <3>. QED
      BY <3>1, <3>2
  <2>9. \A to \in k..(n + 1) : g[to] = T(to, g)
    <3>1. \A to \in k..(n + 1) : to = k \/ to \in (k + 1)..(n + 1)
      BY <1>1, <2>4
    <3>2. k \in k..(n + 1)
      BY <1>1, <2>4
    <3>3. g[k] = T(k, f)
      BY <3>2
    <3> HIDE DEF T, g
    <3>. QED
      BY <2>7, <2>8, <3>1, <3>2, <3>3
  <2>10. g = [to \in k..(n + 1) |-> T(to, g)]
    <3>1. g = [to \in k..(n + 1) |-> g[to]]
      OBVIOUS
    <3> HIDE DEF T, g
    <3>. QED
      BY <2>9, <3>1, Zenon
  <2> HIDE DEF g
  <2>11. Is(k, g)
    BY <2>10
  <2>12. Is(n + 1 - j, g)
    BY <2>11 DEF k
  <2> HIDE DEF Is
  <2>13. j \notin Bad
    BY <2>12
  <2>. QED
    BY <2>13
<1>3. \E f : Is(0, f)
  <2>1. n + 1 \in 0..(n + 1) /\ n + 1 - (n + 1) = 0
    BY <1>1
  <2>2. n + 1 \notin Bad
    BY <1>2
  <2> HIDE DEF Is
  <2>3. \E f : Is(n + 1 - (n + 1), f)
    BY <2>1, <2>2
  <2>. QED
    BY <2>1, <2>3
<1> DEFINE from == CHOOSE f : f = [to \in 0..(n + 1) |->
               IF to >= n THEN <<>> ELSE Symbols(src, to) \o f[After(src, to) + 1]]
<1>4. from = [to \in 0..(n + 1) |->
               IF to >= n THEN <<>> ELSE Symbols(src, to) \o from[After(src, to) + 1]]
  BY <1>3, Zenon
<1>5. compress(src) = from[0]
  BY Zenon DEF compress
<1> HIDE DEF from
<1>6. from[n] = <<>> /\ from[n + 1] = <<>>
  <2>1. n \in 0..(n + 1) /\ n + 1 \in 0..(n + 1) /\ n >= n /\ n + 1 >= n
    BY <1>1
  <2>. QED
    BY <1>4, <2>1
<1>7. \A to \in 0..n : to < n => from[to] = Symbols(src, to) \o from[After(src, to) + 1]
  <2>. TAKE to \in 0..n
  <2>1. SUFFICES ASSUME to < n
                 PROVE  from[to] = Symbols(src, to) \o from[After(src, to) + 1]
    OBVIOUS
  <2>2. to \in 0..(n + 1) /\ ~(to >= n)
    BY <1>1, <2>1
  <2>. QED
    BY <1>4, <2>2
<1>. QED
  BY <1>5, <1>6, <1>7, Zenon

\* The symbols of a turn of compress, before those of the turns that follow, take
\* the buffer to the end of the text.
LEMMA ExpandsFrom ==
    ASSUME NEW S, NEW src \in Seq(S), NEW to \in 0..Len(src), to < Len(src), NEW d,
           IF After(src, to) = Len(src) THEN d = <<>>
           ELSE Expands(src, d, After(src, to) + 1, Len(src))
    PROVE  Expands(src, Symbols(src, to) \o d, to, Len(src))
<1> DEFINE n     == Len(src)
           after == After(src, to)
           best  == Best(src, to)
           copy  == Copy(best[1], to - best[2])
           lit   == Literal(src[after + 1])
           rest  == (IF after = n THEN <<>> ELSE <<lit>>) \o d
           Sym   == Symbol(src)
<1>1. /\ n \in Nat /\ to \in Nat
      /\ after \in to..n
      /\ Matches(src, to) = {} => after = to
      /\ Matches(src, to) # {} => MatchOf(src, to, best) /\ after = to + best[1]
  BY AfterIs
<1>2. d \in Seq(Sym)
  BY EmptySeq DEF Expands
<1>3. after # n => lit \in Sym /\ <<lit>> \in Seq(Sym) /\ Expand(Prefix(src, after), lit) = Prefix(src, after + 1)
  <2>. SUFFICES ASSUME after # n
                PROVE  lit \in Sym /\ <<lit>> \in Seq(Sym)
                       /\ Expand(Prefix(src, after), lit) = Prefix(src, after + 1)
    OBVIOUS
  <2>1. after \in 0..n /\ after < n /\ after + 1 \in 1..n
    BY <1>1
  <2>2. lit \in Sym
    BY <2>1 DEF Symbol
  <2>3. lit.len = 0 /\ lit.letter = src[after + 1]
    BY DEF Literal
  <2>4. Expand(Prefix(src, after), lit) = Append(Prefix(src, after), src[after + 1])
    BY <2>3 DEF Expand
  <2>5. Append(Prefix(src, after), src[after + 1]) = Prefix(src, after + 1)
    BY <2>1, PrefixGrows
  <2>. QED
    BY <2>2, <2>4, <2>5
<1>4. Expands(src, rest, after, n)
  <2>1. CASE after = n
    <3>1. rest = <<>>
      BY <2>1
    <3>. QED
      BY <2>1, <3>1, NothingExpands
  <2>2. CASE after # n
    <3>1. Expands(src, d, after + 1, n) /\ rest = <<lit>> \o d
      BY <2>2
    <3> HIDE DEF rest, lit, after, n
    <3>. QED
      BY <1>3, <2>2, <3>1, MoreExpands DEF Sym
  <2>. QED
    BY <2>1, <2>2
<1>5. CASE Matches(src, to) = {}
  <2>1. Symbols(src, to) = <<>> \o (IF after = n THEN <<>> ELSE <<lit>>)
    BY <1>5 DEF Symbols
  <2>2. (IF after = n THEN <<>> ELSE <<lit>>) \in Seq(Sym)
    BY <1>3, EmptySeq
  <2>3. Symbols(src, to) = (IF after = n THEN <<>> ELSE <<lit>>)
    <3> DEFINE s == IF after = n THEN <<>> ELSE <<lit>>
    <3>1. s \in Seq(Sym) /\ Symbols(src, to) = <<>> \o s
      BY <2>1, <2>2
    <3> HIDE DEF s
    <3>2. Symbols(src, to) = s
      BY <3>1, ConcatEmptySeq
    <3>. QED
      BY <3>2 DEF s
  <2>4. Symbols(src, to) \o d = rest
    BY <2>3
  <2>. QED
    BY <1>1, <1>4, <1>5, <2>4
<1>6. CASE Matches(src, to) # {}
  <2>1. Symbols(src, to) = <<copy>> \o (IF after = n THEN <<>> ELSE <<lit>>)
    BY <1>6 DEF Symbols
  <2>2. (IF after = n THEN <<>> ELSE <<lit>>) \in Seq(Sym)
    BY <1>3, EmptySeq
  <2>3. best[1] \in 3..(n - to) /\ best[2] \in 0..(to - 1)
    BY <1>1, <1>6 DEF MatchOf
  <2>4. copy \in Sym /\ copy.len > 0
    <3>1. best[1] \in Nat /\ best[1] > 0 /\ to - best[2] \in Nat
      BY <1>1, <2>3
    <3>. QED
      BY <3>1, CopyIsSymbol, Zenon
  <2>5. <<copy>> \in Seq(Sym)
    BY <2>4
  <2>6. Symbols(src, to) \o d = <<copy>> \o rest
    <3> DEFINE s == IF after = n THEN <<>> ELSE <<lit>>
               c == <<copy>>
    <3>1. s \in Seq(Sym) /\ c \in Seq(Sym) /\ Symbols(src, to) = c \o s /\ rest = s \o d
      BY <2>1, <2>2, <2>5
    <3> HIDE DEF s, c, rest, Sym
    <3>2. (c \o s) \o d = c \o (s \o d)
      BY <1>2, <3>1, ConcatAssociative
    <3>3. Symbols(src, to) \o d = c \o rest
      BY <3>1, <3>2, Zenon
    <3>. QED
      BY <3>3 DEF c
  <2>7. Expand(Prefix(src, to), copy) = Prefix(src, after)
    <3>1. CopyBytes(Prefix(src, to), copy) = Prefix(src, to + best[1])
      BY <1>1, <1>6, CopyIs
    <3>2. Expand(Prefix(src, to), copy) = CopyBytes(Prefix(src, to), copy)
      BY <2>4 DEF Expand
    <3>. QED
      BY <1>1, <1>6, <3>1, <3>2
  <2>8. Expands(src, <<copy>> \o rest, to, n)
    <3> HIDE DEF copy, rest, n, after
    <3>. QED
      BY <1>4, <2>4, <2>7, MoreExpands DEF Sym
  <2>. QED
    BY <2>6, <2>8
<1>. QED
  BY <1>5, <1>6

\* The ROM gets back the text that the generator compressed, whatever it is, if it
\* has a letter: on no data at all the loop of the source would not end.
THEOREM DecompressInverts ==
    ASSUME NEW S, NEW text \in Seq(S), text # <<>>
    PROVE  poor_mans_text_decompress(compress(text)) = text
<1> DEFINE n == Len(text)
<1>1. n \in Nat
  OBVIOUS
<1>2. PICK from :
         /\ from[n] = <<>> /\ from[n + 1] = <<>>
         /\ \A to \in 0..n : to < n => from[to] = Symbols(text, to) \o from[After(text, to) + 1]
         /\ compress(text) = from[0]
  BY CompressIs
<1>3. \A j \in 0..n : Expands(text, from[n - j], n - j, n)
  <2> DEFINE Bad == {j \in 0..n : ~Expands(text, from[n - j], n - j, n)}
  <2>1. SUFFICES ASSUME Bad # {} PROVE FALSE
    BY Zenon
  <2>2. PICK j \in Bad : \A i \in Bad : j <= i
    <3>1. Bad \subseteq Nat
      BY <1>1
    <3>. QED
      BY <2>1, <3>1, Least
  <2>3. j # 0
    <3>1. n - 0 = n
      BY <1>1
    <3>2. Expands(text, from[n - 0], n - 0, n)
      BY <1>2, <3>1, NothingExpands
    <3>. QED
      BY <3>2
  <2> DEFINE to == n - j
             after == After(text, to)
  <2>4. to \in 0..n /\ to < n
    BY <1>1, <2>3
  <2>5. after \in to..n
    BY <2>4, AfterIs
  <2>6. after # n => Expands(text, from[after + 1], after + 1, n)
    <3>. SUFFICES ASSUME after # n PROVE Expands(text, from[after + 1], after + 1, n)
      OBVIOUS
    <3> DEFINE i == n - (after + 1)
    <3>1. i \in 0..n /\ i < j /\ n - i = after + 1
      <4>. PICK x \in Int : x = after
        BY <1>1, <2>4, <2>5
      <4>. QED
        BY <1>1, <2>4, <2>5
    <3>2. i \notin Bad
      <4>1. ~(j <= i)
        BY <1>1, <3>1
      <4> HIDE DEF Bad
      <4>. QED
        BY <2>2, <4>1
    <3>. QED
      BY <3>1, <3>2
  <2>7. after = n => from[after + 1] = <<>>
    BY <1>2
  <2>8. Expands(text, Symbols(text, to) \o from[after + 1], to, n)
    <3>1. IF after = n THEN from[after + 1] = <<>>
          ELSE Expands(text, from[after + 1], after + 1, n)
      BY <2>6, <2>7
    <3> HIDE DEF to
    <3>. QED
      BY <2>4, <3>1, ExpandsFrom
  <2>9. from[to] = Symbols(text, to) \o from[after + 1]
    BY <1>2, <2>4
  <2>10. j \notin Bad
    BY <2>8, <2>9
  <2>. QED
    BY <2>10
<1>4. Expands(text, compress(text), 0, n)
  <2>1. n \in 0..n /\ n - n = 0
    BY <1>1
  <2>2. Expands(text, from[n - n], n - n, n)
    BY <1>3, <2>1
  <2>. QED
    BY <1>2, <2>1, <2>2
<1>5. Prefix(text, n) = text
  BY DEF Prefix
<1>. QED
  BY <1>4, <1>5, DecompressIs

-----------------------------------------------------------------------------
(* The disk. *)

\* The sizes of the disk that virtual_disk.c works out when it is compiled.
LEMMA Numbers ==
    /\ SectorCount = 262144 /\ VolumeSectorCount = 262143 /\ ClusterCount = 32768
    /\ ClusterSectors = 8 /\ RootDirectorySectors = 32 /\ SectorsPerFat = 129
    /\ FatCount = 2 /\ MaxRootDirectoryEntries = 512 /\ SectorSize = 512
<1>1. /\ SectorSize = 512 /\ VolumeSize = 134217728 /\ ClusterSize = 4096
      /\ FatCount = 2 /\ MaxRootDirectoryEntries = 512
  BY SMT DEF SectorSize, VolumeSize, ClusterSize, FatCount, MaxRootDirectoryEntries
<1>2. SectorCount = 262144 /\ ClusterCount = 32768 /\ ClusterSectors = 8 /\ RootDirectorySectors = 32
  BY <1>1, SMT DEF SectorCount, ClusterCount, ClusterSectors, RootDirectorySectors
<1>3. VolumeSectorCount = 262143
  BY <1>2, SMT DEF VolumeSectorCount
<1>4. SectorsPerFat = 129
  BY <1>1, <1>2, SMT DEF SectorsPerFat
<1>. QED
  BY <1>1, <1>2, <1>3, <1>4, SMT

\* What a host works out from the partition table and the boot sector.
LEMMA Places ==
    /\ Start = 1 /\ Volume = BootSector
    /\ Volume.bytes_per_sector = 512 /\ Volume.sectors_per_cluster = 8
    /\ Volume.reserved = 1 /\ Volume.fats = 2 /\ Volume.root_entries = 512
    /\ Volume.sectors = 262143 /\ Volume.sectors_per_fat = 129 /\ Volume.kind = "boot"
    /\ \A k : FatStart(k) = 2 + k * 129
    /\ RootStart = 260 /\ DataStart = 292 /\ Clusters = 32731
    /\ \A c : ClusterStart(c) = 292 + (c - 2) * 8
<1>1. Start = 1
  BY SMT DEF Start, vd_read_block, Mbr
<1>2. Volume = BootSector
  BY <1>1, SMT DEF Volume, vd_read_block
<1>3. /\ Volume.bytes_per_sector = 512 /\ Volume.sectors_per_cluster = 8
      /\ Volume.reserved = 1 /\ Volume.fats = 2 /\ Volume.root_entries = 512
      /\ Volume.sectors = 262143 /\ Volume.sectors_per_fat = 129 /\ Volume.kind = "boot"
  BY <1>2, Numbers, SMT DEF BootSector
<1>4. \A k : FatStart(k) = 2 + k * 129
  BY <1>1, <1>3, SMT DEF FatStart
<1>5. RootStart = 260
  BY <1>3, <1>4, SMT DEF RootStart
<1>6. DataStart = 292
  BY <1>3, <1>5, SMT DEF DataStart
<1>7. Clusters = 32731
  BY <1>1, <1>3, <1>6, SMT DEF Clusters
<1>8. \A c : ClusterStart(c) = 292 + (c - 2) * 8
  BY <1>3, <1>6, SMT DEF ClusterStart
<1>. QED
  BY <1>1, <1>2, <1>3, <1>4, <1>5, <1>6, <1>7, <1>8, SMT

\* How many clusters a host finds on the volume (boot_sector).
LEMMA CountOfClusters == Clusters = 32731
  BY Places, SMTT(30)

\* Where its FATs start.
LEMMA FatPlaces ==
    /\ \A k : FatStart(k) = 2 + k * 129
    /\ Volume.bytes_per_sector = 512
  BY Places, SMTT(30)

\* What a sector is, by its place.
LEMMA SectorIs ==
    ASSUME NEW lba \in Nat, NEW text, lba >= 2
    PROVE  /\ lba < 260 => vd_read_block(lba, text) =
                 IF (lba - 2) % 129 = 0 THEN FatSector ELSE Zero
           /\ lba = 260 => vd_read_block(lba, text) = RootSector(text)
           /\ lba >= 292 => vd_read_block(lba, text) = DataSector(lba - 292, text)
<1>1. /\ lba - 2 - SectorsPerFat * FatCount = lba - 260
      /\ lba - 260 - RootDirectorySectors = lba - 292
  BY Numbers, SMT
<1>2. vd_read_block(lba, text) =
          IF lba - 260 < 0 THEN (IF (lba - 2) % 129 = 0 THEN FatSector ELSE Zero)
          ELSE IF lba - 292 < 0 THEN (IF lba - 260 = 0 THEN RootSector(text) ELSE Zero)
          ELSE DataSector(lba - 292, text)
  BY <1>1, Numbers, SMT DEF vd_read_block
<1>. QED
  BY <1>2, SMT

\* The sector of a FAT in which the entry of a cluster is, and its place there.
InFat(c, q) == q \in 0..127 /\ (q = 0 <=> c < 256) /\ (c < 256 => c % 256 = c)

\* Every cluster has its entry in a FAT, and those of the first ones are in its
\* first sector (vd_read_block).
LEMMA EntryPlace ==
    ASSUME NEW c \in 2..(Clusters + 1)
    PROVE  InFat(c, (2 * c) \div 512)
<1>0. Clusters + 1 = 32732
  BY CountOfClusters, SMT
<1>1. c \in Nat /\ c <= 32732
  BY <1>0, SMT
<1>2. (2 * c) \div 512 \in 0..127
  BY <1>1, SMT
<1>3. (2 * c) \div 512 = 0 <=> c < 256
  BY <1>1, SMT
<1>4. c < 256 => c % 256 = c
  BY <1>1, SMT
<1>. QED
  BY <1>2, <1>3, <1>4, Zenon DEF InFat

\* What the FATs say of a cluster (vd_read_block).
LEMMA EntryIs ==
    ASSUME NEW k \in 0..1, NEW c \in 2..(Clusters + 1)
    PROVE  /\ c \in {2, 3} => FatEntry(k, c) = 65535
           /\ c \notin {2, 3} => FatEntry(k, c) = 0
<1> DEFINE q   == (2 * c) \div 512
           lba == FatStart(k) + q
<1>1. q \in 0..127 /\ (q = 0 <=> c < 256) /\ (c < 256 => c % 256 = c)
  BY EntryPlace, Zenon DEF InFat
<1>2. FatStart(k) = 2 + k * 129 /\ Volume.bytes_per_sector = 512 /\ 512 \div 2 = 256
  BY FatPlaces, SMT
<1>3. vd_read_block(lba, <<>>) = IF q = 0 THEN FatSector ELSE Zero
  <2> HIDE DEF q
  <2>1. lba \in Nat /\ lba >= 2 /\ lba < 260
    BY <1>1, <1>2, SMT
  <2>2. (lba - 2) % 129 = 0 <=> q = 0
    <3>0. q \in 0..127
      BY <1>1, Zenon
    <3>1. lba - 2 = q \/ lba - 2 = 129 + q
      BY <1>2, <3>0, SMT
    <3>2. (q % 129 = 0 <=> q = 0) /\ ((129 + q) % 129 = 0 <=> q = 0)
      BY <3>0, SMT
    <3> HIDE DEF lba
    <3>3. CASE lba - 2 = q
      BY <3>2, <3>3, SMT
    <3>4. CASE lba - 2 = 129 + q
      BY <3>2, <3>4, SMT
    <3>. QED
      BY <3>1, <3>3, <3>4, SMT
  <2> HIDE DEF lba
  <2>. QED
    BY <2>1, <2>2, SectorIs, SMT
<1>4. FatEntry(k, c) =
        IF vd_read_block(lba, <<>>).kind = "fat" /\ c % 256 < Len(vd_read_block(lba, <<>>).entries)
        THEN vd_read_block(lba, <<>>).entries[(c % 256) + 1] ELSE 0
  BY <1>2, SMT DEF FatEntry
<1>5. FatSector.kind = "fat" /\ FatSector.entries = <<16^4 - 8, 16^4 - 1, 16^4 - 1, 16^4 - 1>>
  BY SMT DEF FatSector
<1>6. Zero.kind # "fat"
  BY SMT DEF Zero
<1>7. CASE c \in {2, 3}
  <2>1. c % 256 = c /\ q = 0
    BY <1>1, <1>7, SMT
  <2>2. vd_read_block(lba, <<>>) = FatSector
    BY <1>3, <2>1, SMT
  <2> HIDE DEF lba, q
  <2>3. c < Len(FatSector.entries)
    BY <1>5, <1>7, SMT
  <2>. PICK sector : sector = vd_read_block(lba, <<>>)
    BY Zenon
  <2>4. sector = FatSector
    BY <2>2, Zenon
  <2>5. FatEntry(k, c) = IF sector.kind = "fat" /\ c < Len(sector.entries)
                         THEN sector.entries[c + 1] ELSE 0
    BY <1>4, <2>1, Zenon
  <2>6. FatEntry(k, c) = FatSector.entries[c + 1]
    BY <1>5, <2>3, <2>4, <2>5, Zenon
  <2>. QED
    BY <1>5, <1>7, <2>6, SMT
<1>8. CASE c \notin {2, 3}
  <2>1. c >= 4
    BY <1>8, SMT
  <2>2. CASE q = 0
    BY <1>1, <1>3, <1>4, <1>5, <2>1, <2>2, SMT
  <2>3. CASE q # 0
    BY <1>3, <1>4, <1>6, <2>3, SMT
  <2>. QED
    BY <2>2, <2>3, SMT
<1>. QED
  BY <1>7, <1>8, SMT

\* The clusters of the two files are the last of their chains.
LEMMA UsedEntry ==
    ASSUME NEW k \in 0..1, NEW c \in {2, 3}
    PROVE  FatEntry(k, c) = 65535
<1>1. 2 \in 2..(Clusters + 1) /\ 3 \in 2..(Clusters + 1)
  BY Places, SMTT(30)
<1>2. FatEntry(k, 2) = 65535 /\ FatEntry(k, 3) = 65535
  BY <1>1, EntryIs, SMT
<1>. QED
  BY <1>2, SMT

\* A function with one value changed, value by value.
LEMMA Altered ==
    ASSUME NEW D, NEW R, NEW f \in [D -> R], NEW i, NEW v
    PROVE  [f EXCEPT ![i] = v] = [k \in D |-> IF k = i THEN v ELSE f[k]]
  BY Zenon

\* The page in its sector is what the generator was given, with the serial number.
LEMMA PageIs ==
    ASSUME NEW text \in Texts
    PROVE  /\ WelcomePage(text) = [i \in 1..Len(text) |->
                                     IF i \in SerialPlaces(text) THEN Serial ELSE text[i]]
           /\ Len(text) \in 0..512
<1> DEFINE S == {text[i] : i \in DOMAIN text}
<1>1. text \in Seq(S) /\ Len(text) <= 512
  BY TextsAssumption, Numbers, SMT
<1> HIDE DEF S
<1>2. poor_mans_text_decompress(compress(text)) = text
  <2>1. \E i, j \in 1..(Len(text) - 1) : i < j
    BY TextsAssumption, Zenon
  <2>2. text # <<>>
    BY <1>1, <2>1, SMT
  <2>. QED
    BY <1>1, <2>2, DecompressInverts, SMT
<1>3. PICK i \in 1..(Len(text) - 1), j \in 1..(Len(text) - 1) :
        i < j /\ SerialPlaces(text) = {i, j}
  BY TextsAssumption, Zenon
<1>4. Len(text) \in Nat
  BY <1>1, SMT
<1>5. \A k \in 1..Len(text) : text[k] = PlaceHolder <=> k \in {i, j}
  BY <1>3, <1>4, SMT DEF SerialPlaces
<1>6. OffsetsFound(text) = {i, j}
  BY <1>3, <1>4, <1>5, SMT DEF OffsetsFound
<1>7. VersionOffset1(text) = i
  BY <1>3, <1>4, <1>6, SMT DEF VersionOffset1, First
<1>8. OffsetsFound(text) \ {VersionOffset1(text)} = {j}
  BY <1>3, <1>4, <1>6, <1>7, SMT
<1>9. VersionOffset2(text) = j
  BY <1>4, <1>8, SMT DEF VersionOffset2, First
<1>10. text \in [1..Len(text) -> S]
  BY <1>1, SMT
<1>11. WelcomePage(text) = [text EXCEPT ![i] = Serial, ![j] = Serial]
  BY <1>2, <1>7, <1>9, Zenon DEF WelcomePage
<1>12. WelcomePage(text) = [k \in 1..Len(text) |-> IF k \in {i, j} THEN Serial ELSE text[k]]
  <2>1. i \in 1..Len(text) /\ j \in 1..Len(text) /\ i # j
    BY <1>3, <1>4, SMT
  <2> DEFINE one == [text EXCEPT ![i] = Serial]
             two == [k \in 1..Len(text) |-> IF k = i THEN Serial ELSE text[k]]
  <2>2. one = two
    BY <1>10, Altered, Zenon
  <2>3. [two EXCEPT ![j] = Serial] =
            [k \in 1..Len(text) |-> IF k \in {i, j} THEN Serial ELSE text[k]]
    BY <2>1, Zenon
  <2>4. WelcomePage(text) = [one EXCEPT ![j] = Serial]
    BY <1>11, Zenon
  <2>. QED
    BY <2>2, <2>3, <2>4, Zenon
<1>13. Len(text) \in 0..512
  <2>1. \A n \in Nat : n <= 512 => n \in 0..512
    BY SMT
  <2>. QED
    BY <1>1, <1>4, <2>1, Zenon
<1>. QED
  BY <1>3, <1>12, <1>13, Zenon

\* The root directory has two files (vd_read_block).
LEMMA EntriesAre ==
    ASSUME NEW text
    PROVE  Entries(text) = {DirEntry("INDEX   HTM", 2, Len(text)), DirEntry("INFO_UF2TXT", 3, 62)}
<1> DEFINE index == DirEntry("INDEX   HTM", 2, Len(text))
           info  == DirEntry("INFO_UF2TXT", 3, 62)
           list  == <<index, info>>
<1>1. vd_read_block(RootStart, text) = RootSector(text)
  BY Places, SectorIs, SMTT(30)
<1>2. RootSector(text) = [kind |-> "dir", entries |-> list]
  BY Zenon DEF RootSector
<1> HIDE DEF index, info
<1>3. Len(list) = 2 /\ list[1] = index /\ list[2] = info
  BY SMT
<1> HIDE DEF list
<1>4. Entries(text) = {list[i] : i \in 1..2}
  <2>1. vd_read_block(RootStart, text).entries = list
    BY <1>1, <1>2, SMT
  <2>. QED
    BY <1>3, <2>1, Zenon DEF Entries
<1>5. Entries(text) = {index, info}
  BY <1>3, <1>4, SMT
<1>. QED
  BY <1>5, Zenon DEF index, info

\* Their names, sizes and clusters.
LEMMA EntryFields ==
    ASSUME NEW text, NEW f \in Entries(text)
    PROVE  /\ \/ f.cluster_lo = 2 /\ f.name = "INDEX   HTM" /\ f.size = Len(text)
              \/ f.cluster_lo = 3 /\ f.name = "INFO_UF2TXT" /\ f.size = 62
           /\ \A g \in Entries(text) \ {f} : g.cluster_lo # f.cluster_lo
<1> DEFINE index == DirEntry("INDEX   HTM", 2, Len(text))
           info  == DirEntry("INFO_UF2TXT", 3, 62)
<1>1. Entries(text) = {index, info}
  BY EntriesAre, Zenon
<1>2. \A name, cluster, size :
         /\ DirEntry(name, cluster, size).name = name
         /\ DirEntry(name, cluster, size).cluster_lo = cluster
         /\ DirEntry(name, cluster, size).size = size
  BY SMT DEF DirEntry
<1>3. /\ index.cluster_lo = 2 /\ index.name = "INDEX   HTM" /\ index.size = Len(text)
      /\ info.cluster_lo = 3 /\ info.name = "INFO_UF2TXT" /\ info.size = 62
  <2>1. /\ index.cluster_lo = 2 /\ index.name = "INDEX   HTM"
        /\ info.cluster_lo = 3 /\ info.name = "INFO_UF2TXT" /\ info.size = 62
    BY SMT DEF DirEntry
  <2>2. index.size = Len(text)
    BY SMT DEF DirEntry
  <2>. QED
    BY <2>1, <2>2, Zenon
<1> HIDE DEF index, info
<1>4. f = index \/ f = info
  BY <1>1, Zenon
<1>5. \/ f.cluster_lo = 2 /\ f.name = "INDEX   HTM" /\ f.size = Len(text)
      \/ f.cluster_lo = 3 /\ f.name = "INFO_UF2TXT" /\ f.size = 62
  BY <1>3, <1>4, Zenon
<1>6. index.cluster_lo # info.cluster_lo
  <2>1. 2 # 3
    BY SMT
  <2>. QED
    BY <1>3, <2>1, Zenon
<1>7. \A g \in Entries(text) \ {f} : g.cluster_lo # f.cluster_lo
  BY <1>1, <1>4, <1>6, Zenon
<1>. QED
  BY <1>5, <1>7, Zenon

\* The sectors of the cluster of a file, counted from the first cluster.
LEMMA ClusterIs ==
    ASSUME NEW c \in {2, 3}, NEW n \in 0..7, NEW text
    PROVE  vd_read_block(ClusterStart(c) + n, text) =
              IF n # 0 THEN Zero
              ELSE IF c = 2 THEN File(WelcomePage(text)) ELSE File(<<"info_uf2_txt">>)
<1>. DEFINE x == IF c = 2 THEN n ELSE 8 + n
<1>1. ClusterStart(c) = 292 + (c - 2) * 8
  BY Places, SMTT(30)
<1>2. /\ ClusterStart(c) + n = 292 + x /\ x \in 0..15 /\ (x % 8 = 0 <=> n = 0)
      /\ n = 0 => x \div 8 = c - 2
  <2>1. n % 8 = n /\ n \div 8 = 0 /\ (8 + n) % 8 = n /\ (8 + n) \div 8 = 1
    BY SMT
  <2>2. CASE c = 2
    <3>1. x = n
      BY <2>2, SMT
    <3>2. ClusterStart(c) = 292
      BY <1>1, <2>2, SMT
    <3>. HIDE DEF x
    <3>. QED
      BY <2>1, <2>2, <3>1, <3>2, SMT
  <2>3. CASE c = 3
    <3>1. x = 8 + n
      BY <2>3, SMT
    <3>2. ClusterStart(c) = 300
      BY <1>1, <2>3, SMT
    <3>. HIDE DEF x
    <3>. QED
      BY <2>1, <2>3, <3>1, <3>2, SMT
  <2>. QED
    BY <2>2, <2>3, Zenon
<1>. HIDE DEF x
<1>3. 292 + x \in Nat /\ 292 + x >= 292 /\ 292 + x >= 2 /\ (292 + x) - 292 = x
  BY <1>2, SMT
<1>4. vd_read_block(292 + x, text) = DataSector((292 + x) - 292, text)
  BY <1>3, SectorIs, SMT
<1>5. ClusterSectors = 8
  BY Numbers, SMT
<1>6. DataSector(x, text) = IF x % 8 # 0 THEN Zero
                            ELSE IF x \div 8 = 0 THEN File(WelcomePage(text))
                            ELSE IF x \div 8 = 1 THEN File(<<"info_uf2_txt">>) ELSE Zero
  BY <1>5, SMT DEF DataSector
<1>7. DataSector(x, text) = vd_read_block(ClusterStart(c) + n, text)
  BY <1>2, <1>3, <1>4, SMT
<1>8. CASE n # 0
  BY <1>2, <1>6, <1>7, <1>8, SMT
<1>9. CASE n = 0
  <2>1. x % 8 = 0 /\ (c = 2 <=> x \div 8 = 0) /\ (c # 2 => x \div 8 = 1)
    BY <1>2, <1>9, SMT
  <2>2. DataSector(x, text) =
            IF c = 2 THEN File(WelcomePage(text)) ELSE File(<<"info_uf2_txt">>)
    BY <1>6, <2>1, SMT
  <2>. QED
    BY <1>7, <1>9, <2>2, SMT
<1>. QED
  BY <1>8, <1>9, SMT

\* Either file is in a cluster of its own, and the host reads what it holds.
LEMMA FilesAreSound ==
    ASSUME NEW text \in Texts, NEW f \in Entries(text)
    PROVE  FileIsSound(f, text)
<1> DEFINE c         == f.cluster_lo
           sector(n) == vd_read_block(ClusterStart(c) + n, text)
<1>1. \/ c = 2 /\ f.name = "INDEX   HTM" /\ f.size = Len(text)
      \/ c = 3 /\ f.name = "INFO_UF2TXT" /\ f.size = 62
  BY EntryFields, Zenon
<1>2. \A g \in Entries(text) \ {f} : g.cluster_lo # c
  BY EntryFields, Zenon
<1>3. Len(text) \in 0..512
  BY PageIs, Zenon
<1>4. /\ Volume.bytes_per_sector = 512 /\ Volume.fats = 2
      /\ Volume.sectors_per_cluster = 8
  BY Places, SMTT(30)
<1>5. ContentOf(f, text) =
          IF f.name = "INFO_UF2TXT" THEN <<"info_uf2_txt">> ELSE WelcomePage(text)
  BY PageIs, Zenon DEF ContentOf
<1>. HIDE DEF c
<1>6. c \in {2, 3}
  BY <1>1, Zenon
<1>7. c \in 2..(Clusters + 1)
  BY <1>6, Places, SMTT(30)
<1>8. f.size <= Volume.bytes_per_sector
  <2> DEFINE sizes == 0..512
  <2>0. \A size \in sizes : size <= 512
    BY SMT
  <2>1. \A size \in sizes : size <= Volume.bytes_per_sector
    <3> HIDE DEF sizes
    <3>. QED
      BY <1>4, <2>0, Zenon
  <2>2. 62 \in sizes
    BY SMT
  <2>3. Len(text) \in sizes
    BY <1>3, Zenon
  <2>4. f.size = Len(text) \/ f.size = 62
    BY <1>1, Zenon
  <2> HIDE DEF sizes
  <2>. PICK size : size = f.size
    OBVIOUS
  <2>5. size \in sizes
    BY <2>2, <2>3, <2>4, Zenon
  <2>. QED
    BY <2>1, <2>5, Zenon
<1>9. \A k \in 0..(Volume.fats - 1) : EndOfChain(FatEntry(k, c))
  <2>1. 65535 >= 16^4 - 8
    BY SMT
  <2>2. 0..(Volume.fats - 1) = 0..1
    BY <1>4, SMT
  <2>3. \A k \in 0..1 : FatEntry(k, c) = 65535
    BY <1>6, UsedEntry, SMT
  <2>. QED
    BY <2>1, <2>2, <2>3, SMT DEF EndOfChain
<1>10. sector(0) = File(ContentOf(f, text))
  <2>0. 0 \in 0..7
    BY SMT
  <2>1. sector(0) = IF c = 2 THEN File(WelcomePage(text)) ELSE File(<<"info_uf2_txt">>)
    BY <1>6, <2>0, ClusterIs, Zenon
  <2>2. "INDEX   HTM" # "INFO_UF2TXT" /\ 2 # 3
    BY SMT
  <2>. QED
    BY <1>1, <1>5, <2>1, <2>2, Zenon
<1>11. \A n \in 1..(Volume.sectors_per_cluster - 1) : sector(n) = Zero
  <2>1. 1..(Volume.sectors_per_cluster - 1) = 1..7
    BY <1>4, SMT
  <2>2. \A n \in 1..7 : n \in 0..7 /\ n # 0
    BY SMT
  <2>3. \A n \in 1..7 : sector(n) = Zero
    BY <1>6, <2>2, ClusterIs, Zenon
  <2>. QED
    BY <2>1, <2>3, Zenon
<1>12. /\ f.cluster_lo \in 2..(Clusters + 1)
       /\ \A k \in 0..(Volume.fats - 1) : EndOfChain(FatEntry(k, f.cluster_lo))
       /\ vd_read_block(ClusterStart(f.cluster_lo) + 0, text) = File(ContentOf(f, text))
       /\ \A n \in 1..(Volume.sectors_per_cluster - 1) :
             vd_read_block(ClusterStart(f.cluster_lo) + n, text) = Zero
       /\ \A g \in Entries(text) \ {f} : g.cluster_lo # f.cluster_lo
  BY <1>2, <1>7, <1>9, <1>10, <1>11, Zenon DEF c
<1>. QED
  BY <1>8, <1>12, Zenon DEF FileIsSound

\* The parts of the volume lie one after another in the partition.
LEMMA VolumeSound == VolumeIsSound
<1>1. vd_read_block(0, <<>>).count = 262143
  BY Numbers, SMT DEF vd_read_block, Mbr
<1>2. \A k \in 0..(Volume.fats - 1) : vd_read_block(FatStart(k), <<>>).kind = "fat"
  <2>1. 0..(Volume.fats - 1) = 0..1
    BY Places, SMTT(30)
  <2>. SUFFICES ASSUME NEW k \in 0..1 PROVE vd_read_block(FatStart(k), <<>>).kind = "fat"
    BY <2>1, SMT
  <2>2. FatStart(k) = 2 \/ FatStart(k) = 131
    BY Places, SMTT(30)
  <2>3. vd_read_block(2, <<>>) = FatSector /\ vd_read_block(131, <<>>) = FatSector
    BY SectorIs, SMT
  <2>. QED
    BY <2>2, <2>3, SMT DEF FatSector
<1>. QED
  BY <1>1, <1>2, Places, Numbers, SMTT(30) DEF VolumeIsSound

\* No cluster is in use but those of the files.
LEMMA ClustersUsed ==
    ASSUME NEW k \in 0..1, NEW c \in 2..(Clusters + 1)
    PROVE  FatEntry(k, c) # 0 <=> \E f \in Entries(<<>>) : f.cluster_lo = c
<1>1. \A f \in Entries(<<>>) : f.cluster_lo = 2 \/ f.cluster_lo = 3
  BY EntryFields, Zenon
<1>2. \E f \in Entries(<<>>) : f.cluster_lo = 2
  <2>. DEFINE f == DirEntry("INDEX   HTM", 2, Len(<<>>))
  <2>1. f \in Entries(<<>>)
    BY EntriesAre, Zenon
  <2>2. f.cluster_lo = 2
    BY SMT DEF DirEntry
  <2>. QED
    BY <2>1, <2>2, Zenon
<1>3. \E f \in Entries(<<>>) : f.cluster_lo = 3
  <2>. DEFINE f == DirEntry("INFO_UF2TXT", 3, 62)
  <2>1. f \in Entries(<<>>)
    BY EntriesAre, Zenon
  <2>2. f.cluster_lo = 3
    BY SMT DEF DirEntry
  <2>. QED
    BY <2>1, <2>2, Zenon
<1>4. FatEntry(k, c) # 0 <=> c = 2 \/ c = 3
  BY EntryIs, SMT
<1>. QED
  BY <1>1, <1>2, <1>3, <1>4, Zenon

\* A host finds its files on the disk, whatever page the generator was given that
\* fits in a sector and has two places for the serial number, not at its very end.
THEOREM HostFinds == HostFindsFiles
<1>1. \A text \in Texts : \A f \in Entries(text) : FileIsSound(f, text)
  BY FilesAreSound, SMT
<1>2. \A k \in 0..(Volume.fats - 1), c \in 2..(Clusters + 1) :
         FatEntry(k, c) # 0 <=> \E f \in Entries(<<>>) : f.cluster_lo = c
  <2>1. 0..(Volume.fats - 1) = 0..1
    BY Places, SMTT(30)
  <2>. QED
    BY <2>1, ClustersUsed, Zenon
<1>. QED
  BY <1>1, <1>2, VolumeSound, Zenon DEF HostFindsFiles

-----------------------------------------------------------------------------
(* The ROM. *)

\* The functions that a program finds in the ROM are in order, for all words of
\* 32 bits and all messages of bytes that are tried on them.
THEOREM FunctionsRight == FunctionsAgree
<1>1. ASSUME NEW w \in Words PROVE BitsAgree(w)
  <2>1. w \in SUBSET Bit
    BY WordsAssumption
  <2>. QED
    BY <2>1, OnesCounted, Reversed, LeadingZeros, TrailingZeros, Zenon DEF BitsAgree
<1>2. ASSUME NEW bytes \in Messages, NEW seed \in {{}, Bit}
      PROVE  crc32_small(bytes, seed) = Checksum(bytes, seed)
  <2>1. bytes \in Seq(SUBSET (0..7)) /\ seed \in SUBSET Bit
    BY MessagesAssumption
  <2>. QED
    BY <2>1, ChecksumRight
<1>3. ASSUME NEW w \in Words, w \subseteq 0..29, Value(w) + 1 >= 2^11
      PROVE  SizeIs(Value(w) + 1, flash_size_log2(TRUE, w, 0))
  BY <1>3, SizeFound
<1>. QED
  BY <1>1, <1>2, <1>3, Zenon DEF FunctionsAgree

\* So whenever a program runs it finds the functions of the ROM in order.
THEOREM ProgramsHaveFunctions == StartSpec => []ProgramHasFunctions
<1>1. ProgramHasFunctions
  BY FunctionsRight, Zenon DEF ProgramHasFunctions
<1>. QED
  BY <1>1, PTL

\* So whenever USB runs a host finds its files on the disk.
THEOREM HostsHaveDisk == StartSpec => []UsbHasDisk
<1>1. UsbHasDisk
  BY HostFinds, Zenon DEF UsbHasDisk
<1>. QED
  BY <1>1, PTL

=============================================================================
