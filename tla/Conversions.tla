---------------------------- MODULE Conversions ----------------------------
(***************************************************************************)
(* The library's pure functions called on small inputs, one call at a      *)
(* time: CommonFunctions and IpFcf at a narrow CHAR_BIT, IpStrings on      *)
(* real octets.  A printed address is read back, a checksum verified, by a *)
(* second call.                                                            *)
(***************************************************************************)
EXTENDS IpFcf, IpStrings

CONSTANTS
    Groups,        \* group values of the IPv6 addresses
    Texts6,        \* texts for stoip6
    PrefixBytes,   \* values of the bytes of a prefix
    Bytes4,        \* byte values of IPv4 addresses
    Components4,   \* texts that texts for stoip4 are joined from
    Vectors,       \* vectors of the gather lists
    Payloads       \* payloads of IPv6 packets

VARIABLES
    fn,      \* the last function called
    in,      \* its input
    out      \* its output

vars == <<fn, in, out>>

Addresses6 == [1..8 -> Groups]
BytesOf(groups) == FlattenSeq([n \in 1..8 |-> Octets!common_write_16_bit(groups[n])])

Init == fn = "none" /\ in = << >> /\ out = << >>

Call(name, input, output) == fn' = name /\ in' = input /\ out' = output
Then(name, output) == fn' = name /\ out' = output /\ UNCHANGED in

-----------------------------------------------------------------------------
(* Reference definitions for addresses as text *)

\* A group as one may write it: with leading zeros, in capitals.
Upper(text) == [i \in DOMAIN text |-> IF text[i] \in 97..102 THEN text[i] - 32 ELSE text[i]]
Written(v, style) ==
    LET d == Digits(v, 16)
    IN  CASE style = "short" -> d
          [] style = "padded" -> [i \in 1..(4 - Len(d)) |-> Zero] \o d
          [] style = "capitals" -> Upper(d)

RECURSIVE Joined(_, _)
Joined(parts, c) ==
    CASE parts = << >> -> << >>
      [] Len(parts) = 1 -> parts[1]
      [] OTHER -> parts[1] \o <<c>> \o Joined(Tail(parts), c)

\* The address with its n groups from start on written as "::".
Spelling(groups, start, n, style) ==
    LET text == [i \in 1..8 |-> Written(groups[i], style)]
    IN  IF n = 0 THEN Joined(text, Colon)
        ELSE Joined(SubSeq(text, 1, start - 1), Colon) \o <<Colon, Colon>>
                 \o Joined(SubSeq(text, start + n, 8), Colon)

ZerosFrom(groups, start, n) ==
    start + n - 1 <= 8 /\ \A i \in start..(start + n - 1) : groups[i] = 0

\* The pieces of a text between its colons.
RECURSIVE Split(_)
Split(text) ==
    LET c == SelectInSeq(text, LAMBDA x : x = Colon)
    IN  IF c = 0 THEN <<text>>
        ELSE <<SubSeq(text, 1, c - 1)>> \o Split(SubSeq(text, c + 1, Len(text)))

\* RFC 4291, section 2.2: the texts that stand for an address, and which.
\* They are eight groups of one to four digits with a colon between each two,
\* or at most seven with one "::" in the place of all that are left out.
DoubleColons(text) == {i \in 1..(Len(text) - 1) : text[i] = Colon /\ text[i + 1] = Colon}
Before(text) == SubSeq(text, 1, Min(DoubleColons(text)) - 1)
After(text) == SubSeq(text, Min(DoubleColons(text)) + 2, Len(text))

IsGroup(piece) == Len(piece) \in 1..4 /\ \A i \in DOMAIN piece : HexValue(piece[i]) >= 0
GroupValue(piece) == FoldLeft(LAMBDA v, c : (v * 16) + HexValue(c), 0, piece)

IsGroups(part) == part = << >> \/ \A i \in DOMAIN Split(part) : IsGroup(Split(part)[i])
GroupsOf(part) ==
    IF part = << >> THEN << >> ELSE [i \in DOMAIN Split(part) |-> GroupValue(Split(part)[i])]

Legal(text) ==
    IF DoubleColons(text) = {} THEN IsGroups(text) /\ Len(GroupsOf(text)) = 8
    ELSE /\ Cardinality(DoubleColons(text)) = 1
         /\ IsGroups(Before(text)) /\ IsGroups(After(text))
         /\ Len(GroupsOf(Before(text))) + Len(GroupsOf(After(text))) <= 7

Meaning(text) ==
    IF DoubleColons(text) = {} THEN GroupsOf(text)
    ELSE LET head == GroupsOf(Before(text))
             rest == GroupsOf(After(text))
         IN  head \o Octets!Zeros(8 - Len(head) - Len(rest)) \o rest

\* What the tests name as no address (test/stoip6/stoip6_test.cpp, TooShort,
\* TooLongString, TooManyFields, InvalidAddresses): 40 characters or more, a
\* character that is neither a digit nor a colon, more than four digits in a
\* row, more than eight groups, fewer than eight fields and no "::", two
\* "::".
NoAddress(text) ==
    LET pieces == Split(text)
    IN  \/ Len(text) >= 40
        \/ \E i \in DOMAIN text : text[i] # Colon /\ HexValue(text[i]) = -1
        \/ \E i \in DOMAIN pieces : Len(pieces[i]) > 4
        \/ Cardinality({i \in DOMAIN pieces : pieces[i] # << >>}) > 8
        \/ DoubleColons(text) = {} /\ Len(pieces) < 8
        \/ \E i, j \in DoubleColons(text) : i + 1 < j

-----------------------------------------------------------------------------
(* Calls about addresses *)

ReadText == \E text \in Texts6 : Call("stoip6", text, stoip6(text, Len(text)))

ReadSpelling ==
    \E groups \in Addresses6, start \in 1..8, n \in 0..8,
       style \in {"short", "padded", "capitals"} :
        /\ ZerosFrom(groups, start, n)
        /\ n = 0 => start = 1
        /\ LET text == Spelling(groups, start, n, style)
           IN  Call("spelling", [groups |-> groups, start |-> start, n |-> n, style |-> style],
                    stoip6(text, Len(text)))

PrintAddress == \E groups \in Addresses6 : Call("ip6tos", groups, ip6tos(BytesOf(groups)))

ReadBack6 == fn = "ip6tos" /\ Then("ip6tos, stoip6", stoip6(out, Len(out)))

PrintPrefix ==
    \E b \in PrefixBytes, prefix_len \in 0..129 :
        LET prefix == [i \in 1..((prefix_len + 7) \div 8) |-> b]
        IN  Call("ip6_prefix_tos", [prefix |-> prefix, prefix_len |-> prefix_len],
                 ip6_prefix_tos(prefix, prefix_len))

ReadPrefix ==
    /\ fn = "ip6_prefix_tos" /\ out # << >>
    /\ Then("ip6_prefix_tos, stoip6_prefix",
            [read |-> stoip6_prefix(out, TRUE), unasked |-> stoip6_prefix(out, FALSE),
             only |-> sipv6_prefixlength(out)])

ReadText4 ==
    \E k \in 3..5 : \E parts \in [1..k -> Components4] :
        LET text == Joined(parts, Dot) IN Call("stoip4", parts, stoip4(text, Len(text)))

PrintAddress4 == \E addr \in [1..4 -> Bytes4] : Call("ip4tos", addr, ip4tos(addr))

ReadBack4 == fn = "ip4tos" /\ Then("ip4tos, stoip4", stoip4(out, Len(out)))

-----------------------------------------------------------------------------
(* Calls about bits, numbers and checksums *)

CopyBits ==
    \E dst, src \in [1..2 -> Byte], bits \in 0..(2 * CHAR_BIT) :
        Call("bitcopy", [dst |-> dst, src |-> src, bits |-> bits],
             [copy |-> bitcopy(dst, src, bits), copy0 |-> bitcopy0(dst, src, bits),
              equal |-> bitsequal(dst, src, bits)])

ChangeBit ==
    \E bitset \in [1..2 -> Byte], bit \in 0..(2 * CHAR_BIT - 1) :
        Call("bit_set", [bitset |-> bitset, bit |-> bit],
             [set |-> bit_set(bitset, bit), clear |-> bit_clear(bitset, bit),
              test |-> bit_test(bitset, bit)])

\* Buffers of two, three, four and eight bytes, read in both orders and
\* written back.
ReadNumber ==
    \E n \in {2, 3, 4, 8} : \E buf \in [1..n -> {0, 1, 2^CHAR_BIT - 1}] :
        LET big    == CASE n = 2 -> common_read_16_bit(buf)
                        [] n = 3 -> common_read_24_bit(buf)
                        [] n = 4 -> common_read_32_bit(buf)
                        [] n = 8 -> common_read_64_bit(buf)
            little == CASE n = 2 -> common_read_16_bit_inverse(buf)
                        [] n = 3 -> common_read_24_bit_inverse(buf)
                        [] n = 4 -> common_read_32_bit_inverse(buf)
                        [] n = 8 -> common_read_64_bit(Reverse(buf))
        IN  Call("read", buf, [big |-> big, little |-> little])

WriteNumber ==
    LET n == Len(in)
        big == CASE n = 2 -> common_write_16_bit(out.big)
                 [] n = 3 -> common_write_24_bit(out.big)
                 [] n = 4 -> common_write_32_bit(out.big)
                 [] n = 8 -> common_write_64_bit(out.big)
        little == CASE n = 2 -> common_write_16_bit_inverse(out.little)
                    [] n = 3 -> common_write_24_bit_inverse(out.little)
                    [] n = 4 -> common_write_32_bit_inverse(out.little)
                    [] n = 8 -> Reverse(common_write_64_bit(out.little))
    IN  fn = "read" /\ Then("read, write", [big |-> big, little |-> little])

\* k zeros, a one unless the word is full, and a filling of the rest.
CountZeros ==
    \E n \in {8, 16, 32} : \E k \in 0..n, fill \in {0, 1} :
        LET bits == [i \in 1..n |-> IF i <= k THEN 0 ELSE IF i = k + 1 THEN 1 ELSE fill]
        IN  Call("count_leading_zeros", [n |-> n, k |-> k, fill |-> fill],
                 CASE n = 8 -> common_count_leading_zeros(bits)
                   [] n = 16 -> common_count_leading_zeros_16(bits)
                   [] n = 32 -> common_count_leading_zeros_32(bits))

CountBits == \E value \in 0..255 : Call("count_bits", value, common_count_bits(value))

CompareSerial ==
    \E s1, s2 \in Byte : Call("serial_number_greater", <<s1, s2>>,
                              common_serial_number_greater(s1, s2, 2^(CHAR_BIT - 1)))

SumVectors == \E vec \in [1..3 -> Vectors] : Call("ip_fcf_v", vec, ip_fcf_v(vec))

\* Addresses of one byte value each; the payload has room for the checksum.
SumPacket ==
    \E data \in Payloads, b \in Byte, next_protocol \in Byte :
        LET address == [i \in 1..16 |-> b]
            packet  == <<0, 0>> \o data
        IN  Call("ipv6_fcf", [address |-> address, data |-> data, protocol |-> next_protocol],
                 ipv6_fcf(address, address, packet, next_protocol))

VerifyPacket ==
    /\ fn = "ipv6_fcf"
    /\ Then("ipv6_fcf, ipv6_fcf",
            ipv6_fcf(in.address, in.address, common_write_16_bit(out) \o in.data, in.protocol))

-----------------------------------------------------------------------------
Return == fn # "none" /\ Call("none", << >>, << >>)

Convert ==
    \/ ReadText \/ ReadSpelling \/ PrintAddress \/ PrintPrefix
    \/ ReadText4 \/ PrintAddress4
    \/ CopyBits \/ ChangeBit \/ ReadNumber \/ CountZeros \/ CountBits \/ CompareSerial
    \/ SumVectors \/ SumPacket

Next ==
    \/ fn = "none" /\ Convert
    \/ ReadBack6 \/ ReadPrefix \/ ReadBack4 \/ WriteNumber \/ VerifyPacket
    \/ Return

Spec == Init /\ [][Next]_vars

-----------------------------------------------------------------------------
(* Properties *)

\* stoip6.c:34-102: every text that RFC 4291 lets stand for an address is
\* read as that address, however it is spelled; a text with one of the faults
\* the tests name is refused and leaves zeros.  Of the texts in between (an
\* empty group at either end, ":::", "::" beside eight groups) the code reads
\* some, and no test or document says which.
ReadsAddress ==
    /\ fn = "stoip6" =>
          /\ Legal(in) => out = [ok |-> TRUE, addr |-> BytesOf(Meaning(in))]
          /\ NoAddress(in) => out = [ok |-> FALSE, addr |-> Octets!Zeros(16)]
    /\ fn = "spelling" => out = [ok |-> TRUE, addr |-> BytesOf(in.groups)]

Canonical(groups, start, n) ==
    /\ ZerosFrom(groups, start, n)
    /\ \A i \in 1..8, k \in 2..8 :
           ZerosFrom(groups, i, k) => k < n \/ (k = n /\ i >= start)

\* ip6tos.c:29-120: an address is printed as RFC 5952 asks, with "::" for the
\* first of its longest runs of two or more zero groups, and stoip6 reads it
\* back.  A prefix is printed without the bits behind it and read back, by
\* stoip6_prefix if its length has one or two digits.
PrintsReadable ==
    /\ fn = "ip6tos" =>
          \E start \in 1..8, n \in 0..8 :
              /\ n # 1 /\ Canonical(in, start, n)
              /\ out = Spelling(in, start, n, "short")
    /\ fn = "ip6tos, stoip6" => out = [ok |-> TRUE, addr |-> BytesOf(in)]
    /\ fn = "ip6_prefix_tos" => (out = << >> <=> in.prefix_len > 128)
    /\ fn = "ip6_prefix_tos, stoip6_prefix" =>
          /\ out.only = in.prefix_len
          /\ in.prefix_len < 100 => out.read.prefix_len = in.prefix_len
          /\ \A r \in {out.read, out.unasked} : r.rc = 0 =>
                /\ \A bit \in 0..(in.prefix_len - 1) :
                      Octets!bit_test(r.addr, bit) = Octets!bit_test(in.prefix, bit)
                /\ \A bit \in in.prefix_len..127 : ~Octets!bit_test(r.addr, bit)
          /\ out.unasked.rc = 0 /\ (in.prefix_len < 100 => out.read.rc = 0)

IsComponent(part) ==
    /\ part # << >>
    /\ \A i \in DOMAIN part : IsDigit(part[i])
    /\ strtoul(part) <= 255

\* stoip4.c:30-75, ip4tos.c:30-74: stoip4 accepts four decimal numbers of at
\* most 255, separated by dots, in at most 16 characters, and nothing else;
\* ip4tos prints an address so that stoip4 reads it back.
ReadsAddress4 ==
    /\ fn = "stoip4" =>
          LET legal == /\ Len(in) = 4 /\ \A i \in DOMAIN in : IsComponent(in[i])
                       /\ Len(Joined(in, Dot)) <= 16
          IN  /\ out.ok <=> legal
              /\ legal => out.addr = [i \in 1..4 |-> strtoul(in[i])]
    /\ fn = "ip4tos, stoip4" => out = [ok |-> TRUE, addr |-> in]

Bits(buf) == [i \in 0..(Len(buf) * CHAR_BIT - 1) |-> bit_test(buf, i)]
LastByteEnd(bits) == ((bits + CHAR_BIT - 1) \div CHAR_BIT) * CHAR_BIT

\* common_functions.h:365-626, common_functions.c:29-87: bit strings end where
\* they are told to, inside or at the end of a byte: the bits behind are kept
\* (bitcopy), zeroed up to the byte's end (bitcopy0) or not compared.
\* Integers are written as they were read, counts are exact, and s1 follows
\* s2 as a serial number when adding less than half the range leads to it.
BitsExact ==
    /\ fn = "bitcopy" =>
          LET d == Bits(in.dst)
              s == Bits(in.src)
          IN  /\ Bits(out.copy) = [i \in DOMAIN d |-> IF i < in.bits THEN s[i] ELSE d[i]]
              /\ Bits(out.copy0) = [i \in DOMAIN d |->
                     IF i < in.bits THEN s[i] ELSE d[i] /\ i >= LastByteEnd(in.bits)]
              /\ out.equal <=> \A i \in 0..(in.bits - 1) : s[i] = d[i]
              /\ bitsequal(out.copy, in.src, in.bits)
    /\ fn = "bit_set" =>
          LET b == Bits(in.bitset)
          IN  /\ Bits(out.set) = [b EXCEPT ![in.bit] = TRUE]
              /\ Bits(out.clear) = [b EXCEPT ![in.bit] = FALSE]
    /\ fn = "read" => /\ out.big \in 0..(2^(CHAR_BIT * Len(in)) - 1)
                      /\ out.big = common_read_64_bit(Zeros(8 - Len(in)) \o in)
                      /\ out.little = FromBigEndian(Reverse(in))
    /\ fn = "read, write" => out = [big |-> in, little |-> in]
    /\ fn = "count_leading_zeros" => out = in.k
    /\ fn = "count_bits" =>
          out = Cardinality({i \in 0..7 : (in \div 2^i) % 2 = 1})
    /\ fn = "serial_number_greater" =>
          (out <=> \E d \in 1..(2^(CHAR_BIT - 1) - 1) : (in[2] + d) % 2^CHAR_BIT = in[1])

\* The one's complement sum of the words, where an odd byte is a high one.
OnesSum(data) ==
    LET even  == IF Len(data) % 2 = 0 THEN data ELSE Append(data, 0)
        total == FoldLeft(LAMBDA t, k : t + FromBigEndian(SubSeq(even, 2 * k - 1, 2 * k)),
                          0, [k \in 1..(Len(even) \div 2) |-> k])
    IN  IF total = 0 THEN 0 ELSE ((total - 1) % (UInt16 - 1)) + 1

\* ip_fsc.c:30-91: the checksum does not depend on how the data is cut into
\* vectors, of odd length or empty, nor do the carries: it is the complement
\* of the one's complement sum.  A packet with its checksum verifies to 0.
ChecksumExact ==
    /\ fn = "ip_fcf_v" => out = UInt16 - 1 - OnesSum(FlattenSeq(in))
    /\ fn = "ipv6_fcf, ipv6_fcf" => out = 0
=============================================================================
