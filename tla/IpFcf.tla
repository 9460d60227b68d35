------------------------------- MODULE IpFcf -------------------------------
(***************************************************************************)
(* source/IPv6_fcf_lib/ip_fsc.c: the Internet checksum of a gather list.   *)
(* A vector is a sequence of bytes.  A byte has CHAR_BIT bits, a 16-bit    *)
(* word two bytes and the 32-bit accumulator four, at any CHAR_BIT.        *)
(***************************************************************************)
EXTENDS CommonFunctions

UInt16 == 2^(2 * CHAR_BIT)
UInt32 == 2^(4 * CHAR_BIT)

\* The accumulator after one more byte: the high one of a word, or the low
\* one if the bytes before it were odd in number.
AddByte(s, b) ==
    [acc |-> (s.acc + (IF s.odd THEN b ELSE b * 2^CHAR_BIT)) % UInt32,
     odd |-> ~s.odd]

\* A vector with an odd number of bytes leaves a word the next one fills.
AddVector_AlwaysEven(s, data) == FoldLeft(AddByte, [s EXCEPT !.odd = FALSE], data)
AddVector(s, data) == FoldLeft(AddByte, s, data)

Fold(acc) == (acc \div UInt16) + (acc % UInt16)

ip_fcf_v(vec) ==
    LET acc32 == FoldLeft(AddVector, [acc |-> 0, odd |-> FALSE], vec).acc
    IN  UInt16 - 1 - (Fold(Fold(acc32)) % UInt16)

\* Addresses, length, protocol, payload.
ipv6_fcf(src_address, dest_address, data, next_protocol) ==
    ip_fcf_v(<<src_address, dest_address,
               common_write_16_bit(Len(data)) \o <<0, next_protocol>>, data>>)
=============================================================================
