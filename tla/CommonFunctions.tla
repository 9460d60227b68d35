-------------------------- MODULE CommonFunctions --------------------------
(***************************************************************************)
(* mbed-client-libservice/common_functions.h and source/libBits: integers  *)
(* in byte buffers, bit counts, serial numbers and bit strings.            *)
(*                                                                         *)
(* A buffer is a sequence of bytes, a byte an integer of CHAR_BIT bits: 8  *)
(* in the code, fewer where all values are to be tried.  A write returns   *)
(* the bytes it stores; the pointer it returns is the one behind them.     *)
(*                                                                         *)
(* An operator X_Suffix before an operator X is a faulty variant of X, the *)
(* way a slip in the code would change it; nothing uses it.                *)
(***************************************************************************)
EXTENDS Integers, SequencesExt, Bitwise

CONSTANT CHAR_BIT

ASSUME ByteAssumption == CHAR_BIT \in Nat \ {0}

Byte == 0..(2^CHAR_BIT - 1)
Zeros(n) == [i \in 1..n |-> 0]

-----------------------------------------------------------------------------
(* Integers in big-endian and little-endian (_inverse) order *)

ByteOf(value, place) == (value \div 2^(CHAR_BIT * place)) % 2^CHAR_BIT

BigEndian(value, n) == [i \in 1..n |-> ByteOf(value, n - i)]
LittleEndian(value, n) == [i \in 1..n |-> ByteOf(value, i - 1)]

\* The bytes of buf, each shifted to its place, added up.
FromBigEndian(buf) == FoldLeft(LAMBDA v, b : (v * 2^CHAR_BIT) + b, 0, buf)
FromLittleEndian(buf) == FoldRight(LAMBDA b, v : (v * 2^CHAR_BIT) + b, buf, 0)

common_write_64_bit(value) == BigEndian(value, 8)
common_read_64_bit(buf) == FromBigEndian(buf)
common_write_32_bit(value) == BigEndian(value, 4)
common_read_32_bit(buf) == FromBigEndian(buf)
common_write_32_bit_inverse(value) == LittleEndian(value, 4)
common_read_32_bit_inverse(buf) == FromLittleEndian(buf)
common_write_24_bit(value) == BigEndian(value, 3)
common_read_24_bit(buf) == FromBigEndian(buf)
common_write_24_bit_inverse(value) == LittleEndian(value, 3)
common_read_24_bit_inverse(buf) == FromLittleEndian(buf)
common_write_16_bit(value) == BigEndian(value, 2)
common_read_16_bit(buf) == FromBigEndian(buf)
common_write_16_bit_inverse(value) == LittleEndian(value, 2)
common_read_16_bit_inverse(buf) == FromLittleEndian(buf)

-----------------------------------------------------------------------------
(* Counting bits and comparing serial numbers *)

\* Of an 8-bit value: pairs, then nibbles, hold the number of their ones.
common_count_bits(value) ==
    LET pairs   == value - ((value \div 2) & 85)
        nibbles == (pairs & 51) + ((pairs \div 4) & 51)
    IN  (nibbles \div 16) + (nibbles & 15)

\* Skipping the top k bits of a word if they are zero.  A word is the
\* sequence of its bits, most significant first, so that 32 of them do.
SkipZeros(s, k) ==
    IF \A i \in 1..k : s.value[i] = 0
    THEN [value |-> SubSeq(s.value, k + 1, Len(s.value)) \o Zeros(k), cnt |-> s.cnt + k]
    ELSE s

LeadingZeros_NoZeroCase(bits, steps) ==
    FoldLeft(SkipZeros, [value |-> bits, cnt |-> 0], steps).cnt

LeadingZeros(bits, steps) ==
    IF \A i \in DOMAIN bits : bits[i] = 0 THEN Len(bits)
    ELSE FoldLeft(SkipZeros, [value |-> bits, cnt |-> 0], steps).cnt

common_count_leading_zeros_8(bits) == LeadingZeros(bits, <<4, 2, 1>>)
common_count_leading_zeros_16(bits) == LeadingZeros(bits, <<8, 4, 2, 1>>)
common_count_leading_zeros_32(bits) == LeadingZeros(bits, <<16, 8, 4, 2, 1>>)
common_count_leading_zeros(bits) == common_count_leading_zeros_8(bits)

\* common_serial_number_greater_8, _16 and _32: half is 0x80, 0x8000, ...
common_serial_number_greater(s1, s2, half) ==
    \/ s1 > s2 /\ s1 - s2 < half
    \/ s1 < s2 /\ s2 - s1 > half

-----------------------------------------------------------------------------
(* Bit strings: bit 0 is the most significant bit of the first byte *)

\* The mask of a byte's most significant bits, and what it lets through.
context_split_mask(split_value) == 2^CHAR_BIT - 2^(CHAR_BIT - split_value)
High(byte, bits) == byte & context_split_mask(bits)
Low(byte, bits) == byte - High(byte, bits)

BitMask(bit) == 2^(CHAR_BIT - 1) \div 2^(bit % CHAR_BIT)
At(bit) == bit \div CHAR_BIT + 1

bit_test(bitset, bit) == bitset[At(bit)] & BitMask(bit) # 0
bit_set(bitset, bit) == [bitset EXCEPT ![At(bit)] = @ | BitMask(bit)]
bit_clear(bitset, bit) == [bitset EXCEPT ![At(bit)] = @ - (@ & BitMask(bit))]

bitsequal(a, b, bits) ==
    LET bytes == bits \div CHAR_BIT
        rest  == bits % CHAR_BIT
    IN  /\ \A i \in 1..bytes : a[i] = b[i]
        /\ rest # 0 => High(a[bytes + 1], rest) = High(b[bytes + 1], rest)

\* bitcopy keeps the low bits of the last byte it writes, bitcopy0 does not.
bitcopy(dst, src, bits) ==
    LET bytes == bits \div CHAR_BIT
        rest  == bits % CHAR_BIT
    IN  [i \in DOMAIN dst |->
            IF i <= bytes THEN src[i]
            ELSE IF i = bytes + 1 /\ rest # 0 THEN High(src[i], rest) | Low(dst[i], rest)
            ELSE dst[i]]

bitcopy0(dst, src, bits) ==
    LET bytes == bits \div CHAR_BIT
        rest  == bits % CHAR_BIT
    IN  [i \in DOMAIN dst |->
            IF i <= bytes THEN src[i]
            ELSE IF i = bytes + 1 /\ rest # 0 THEN High(src[i], rest)
            ELSE dst[i]]
=============================================================================
