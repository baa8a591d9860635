------------------------------ MODULE RomWords ------------------------------
(***************************************************************************)
(* The functions of the ROM on words of 32 bits: popcount32, reverse32,    *)
(* clz32 and ctz32 (bit_functions.S), crc32_small (bootrom_misc.S), which  *)
(* checks the second stage of a boot, and the size of the flash as         *)
(* flash_size_log2 works it out.  A word is the set of its bits that are   *)
(* one, with the arithmetic of a register.                                 *)
(***************************************************************************)
EXTENDS Integers, Sequences, FiniteSets, FiniteSetsExt

CONSTANTS
    Words,      \* the arguments to try
    Messages    \* the sequences of bytes to check a sum of

Bit == 0..31

\* Arguments are words of a register.
ASSUME WordsAssumption == Words \subseteq SUBSET Bit
\* Messages are sequences of bytes.
ASSUME MessagesAssumption == Messages \subseteq Seq(SUBSET (0..7))

Shifted(s, n) == {b + n : b \in s}

Lsl(w, n) == Shifted(w, n) \cap Bit
Lsr(w, n) == Shifted(w, -n) \cap Bit
Xor(v, w) == (v \ w) \cup (w \ v)

Digit(w, b) == IF b \in w THEN 1 ELSE 0

\* The sum of two registers, bit by bit with its carry.
Add(v, w) ==
    LET carry[b \in 0..32] ==
            IF b = 0 THEN 0 ELSE (Digit(v, b - 1) + Digit(w, b - 1) + carry[b - 1]) \div 2
    IN {b \in Bit : (Digit(v, b) + Digit(w, b) + carry[b]) % 2 = 1}

Mul(v, w) ==
    LET sum[b \in 0..32] ==
            IF b = 0 THEN {}
            ELSE IF b - 1 \in w THEN Add(sum[b - 1], Lsl(v, b - 1)) ELSE sum[b - 1]
    IN sum[32]

\* The value of a word whose top bit is not set.
Value(w) ==
    LET sum[b \in 0..32] ==
            IF b = 0 THEN 0 ELSE IF b - 1 \in w THEN sum[b - 1] + 2^(b - 1) ELSE sum[b - 1]
    IN sum[32]

\* The instruction that reverses the bytes of a word.
Rev(w) == {8 * (3 - (b \div 8)) + (b % 8) : b \in w}

-----------------------------------------------------------------------------
(* bit_functions.S *)

\* 0x49249249, 0xC71C71C7 and 0x04004004
EveryThird  == {b \in Bit : b % 3 = 0}
LowerTriads == {b \in Bit : b % 6 < 3}
Spread      == {2, 14, 26}

popcount32(w) ==
    LET triads == Add(Add(w \cap EveryThird, Lsr(w, 1) \cap EveryThird),
                      Lsr(w, 2) \cap EveryThird)
        pairs  == Add(triads, Lsr(triads, 3)) \cap LowerTriads
        sums   == Add(pairs, Lsr(pairs, 6))
    IN Value(Lsr(Mul(sums, Spread), 26))

\* 0xcccccccc, 0xaaaaaaaa and 0xf0f0f0f0
UpperPairs == {b \in Bit : b % 4 >= 2}
UpperBits  == Xor(Lsr(UpperPairs, 1), UpperPairs)
UpperHalf  == {b \in Bit : b % 8 >= 4}

\* Neighbours change places under a mask of the upper ones.
Swap(w, n, mask) == (Lsl(w, n) \cap mask) \cup Lsr(w \cap mask, n)

reverse32(w) == Rev(Swap(Swap(Swap(w, 1, UpperBits), 2, UpperPairs), 4, UpperHalf))

\* The tables of six bits; those of four bits are read at the same place, which
\* counts two too many leading zeros.
clz6_table(w) == IF w = {} THEN 6 ELSE 5 - Max(w)
ctz6_table(w) == IF w = {} THEN 6 ELSE Min(w)

clz32(w) ==
    LET half == Lsr(w, 16)
        v    == IF half # {} THEN half ELSE w
        from == IF half # {} THEN 0 ELSE 16
    IN CASE Lsr(v, 10) # {} -> clz6_table(Lsr(v, 10)) + from
         [] Lsr(v, 10) = {} /\ Lsr(v, 4) # {} -> clz6_table(Lsr(v, 4)) + from + 6
         [] OTHER -> clz6_table(v) + from + 12 - 2

\* The bits are looked for from the upper end of the half, whose other bits are
\* shifted out; sixteen is added to the index in the table of the last four so
\* that they are never all zero.
ctz32(w) ==
    LET low  == Lsl(w, 16)
        v    == IF low # {} THEN low ELSE w
        from == IF low # {} THEN 0 ELSE 16
    IN CASE Lsl(v, 6) = {}  -> ctz6_table(Lsr(v, 26)) + from + 10
         [] Lsl(v, 6) # {} /\ Lsl(v, 12) = {} -> ctz6_table(Lsr(Lsl(v, 6), 26)) + from + 4
         [] OTHER -> ctz6_table(Lsr(Lsl(v, 12), 28) \cup {4}) + from

-----------------------------------------------------------------------------
(* crc32_small: bytes, as words, with the most significant bit first. *)

\* 0x04c11db7
Polynomial == {0, 1, 2, 4, 5, 7, 8, 10, 11, 12, 16, 22, 23, 26}

\* One turn of bit_loop.
BitStep(w) == IF 31 \in w THEN Xor(Lsl(w, 1), Polynomial) ELSE Lsl(w, 1)

\* Mutant of ByteStep: the byte is added to the other end of the sum.
ByteStepAtOtherEnd(sum, byte) ==
    LET r4[i \in 0..8] == IF i = 0 THEN Lsl(Xor(byte, sum), 24) ELSE BitStep(r4[i - 1])
    IN Xor(Lsl(sum, 8), r4[8])

\* One turn of byte_loop; Rev brings the upper byte of the sum down to the byte.
ByteStep(sum, byte) ==
    LET r4[i \in 0..8] == IF i = 0 THEN Lsl(Xor(byte, Rev(sum)), 24) ELSE BitStep(r4[i - 1])
    IN Xor(Lsl(sum, 8), r4[8])

crc32_small(bytes, seed) ==
    LET sum[i \in 0..Len(bytes)] == IF i = 0 THEN seed ELSE ByteStep(sum[i - 1], bytes[i])
    IN sum[Len(bytes)]

-----------------------------------------------------------------------------
(* flash_size_log2, after the flash has been read. *)

\* The position of the bit that is left when the loop ends.
Log2(w) == Max(w)

\* What the size in the parameter table says: a number of bits less one, or its
\* logarithm with the top bit set.
ArraySize(word) == IF 31 \in word THEN Value(word \ {31}) ELSE Log2(Add(word, {0}))

\* found is whether the magic and the id of the table are right.
flash_size_log2(found, word, jedec) ==
    IF found /\ ArraySize(word) \in 11..37 THEN ArraySize(word) - 3
    ELSE IF jedec \in 8..34 THEN jedec
    ELSE -1

-----------------------------------------------------------------------------
(***************************************************************************)
(* What they are to be.                                                    *)
(***************************************************************************)

\* A step of the long division of polynomials over the field of two elements: the
\* bit of degree 32 + d is cleared.
Divide(s, d) ==
    IF 32 + d \in s THEN Xor(s, Shifted(Polynomial \cup {32}, d)) ELSE s

\* The remainder of a polynomial of a degree below 32 + n.
Remainder(s, n) ==
    LET rest[i \in 0..n] == IF i = 0 THEN s ELSE Divide(rest[i - 1], n - i)
    IN rest[n]

\* The message, its first byte at the top.
Number(bytes) == UNION {Shifted(bytes[i], 8 * (Len(bytes) - i)) : i \in 1..Len(bytes)}

Checksum(bytes, seed) ==
    LET n == 8 * Len(bytes)
    IN Remainder(Xor(Shifted(Number(bytes), 32), Shifted(seed, n)), n)

\* A flash of so many bits, and the bytes it has.
SizeIs(bits, log) == 8 * 2^log <= bits /\ (log < 27 => bits < 16 * 2^log)

BitsAgree(w) ==
    /\ popcount32(w) = Cardinality(w)
    /\ reverse32(w) = {31 - b : b \in w}
    /\ clz32(w) = IF w = {} THEN 32 ELSE 31 - Max(w)
    /\ ctz32(w) = IF w = {} THEN 32 ELSE Min(w)

\* The functions of the table that programs find in the ROM do what they are
\* named for, on words with few ones, few zeros or one run of ones; the sum that
\* decides whether a boot goes on is the remainder of the message, whatever the
\* seed; and a size found in the parameter table is that of the flash
\* (popcount32, reverse32, clz32, ctz32, crc32_small, flash_size_log2).
FunctionsAgree ==
    /\ \A w \in Words : BitsAgree(w)
    /\ \A bytes \in Messages, seed \in {{}, Bit} :
          crc32_small(bytes, seed) = Checksum(bytes, seed)
    /\ \A w \in Words : w \subseteq 0..29 /\ Value(w) + 1 >= 2^11 =>
          SizeIs(Value(w) + 1, flash_size_log2(TRUE, w, 0))

=============================================================================
