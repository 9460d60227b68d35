----------------------------- MODULE IpStrings -----------------------------
(***************************************************************************)
(* source/libip6string and source/libip4string: addresses as text.         *)
(*                                                                         *)
(* A text is the sequence of its ASCII codes without the final NUL, an     *)
(* address the sequence of its 16 or 4 bytes.  A conversion returns what   *)
(* it leaves in its output: [ok, addr] for a parser, the text for a        *)
(* printer.                                                                *)
(*                                                                         *)
(* An operator X_Suffix before an operator X is a faulty variant of X, the *)
(* way a slip in the code would change it; nothing uses it.                *)
(***************************************************************************)
EXTENDS Integers, SequencesExt

Octets == INSTANCE CommonFunctions WITH CHAR_BIT <- 8

NUL == 0
Dot == 46
Slash == 47
Zero == 48
Colon == 58
IsDigit(c) == c \in Zero..(Zero + 9)

\* The character at position i; past the end of the text, its NUL.
CharAt(text, i) == IF i <= Len(text) THEN text[i] ELSE NUL

\* sprintf and strtoul in the bases the code uses.
RECURSIVE Digits(_, _)
Digits(n, base) ==
    LET d == n % base
        c == IF d < 10 THEN Zero + d ELSE 97 + d - 10
    IN  IF n < base THEN <<c>> ELSE Append(Digits(n \div base, base), c)

strtoul(text) ==
    LET end == SelectInSeq(text, LAMBDA c : ~IsDigit(c))
        num == IF end = 0 THEN text ELSE SubSeq(text, 1, end - 1)
    IN  FoldLeft(LAMBDA v, c : (v * 10) + (c - Zero), 0, num)

-----------------------------------------------------------------------------
(* stoip6 *)

\* Masking bit 0x20 turns a lower-case letter into its capital.
is_hex(c) ==
    \/ (IF (c \div 32) % 2 = 1 THEN c - 32 ELSE c) \in 65..70
    \/ IsDigit(c)

\* The value hex gives a character, -1 if it stops there.
HexValue(c) ==
    CASE IsDigit(c) -> c - Zero
      [] c \in 65..70 -> c - 55
      [] c \in 97..102 -> c - 87
      [] OTHER -> -1

\* All the hexadecimal digits from position p on, however many follow.
hex(text, p) ==
    LET end == Min({i \in p..(Len(text) + 1) : HexValue(CharAt(text, i)) = -1})
    IN  FoldLeft(LAMBDA v, c : ((v * 16) + HexValue(c)) % 65536, 0,
                 SubSeq(text, p, end - 1))

SizeT == 2^16    \* the modulus of len, far above any length

\* Where the search for ':' or the end stops, with len characters left.
SeekColon(text, p, len) ==
    Min({i \in p..(Len(text) + 1) : i = p + len \/ CharAt(text, i) \in {Colon, NUL}})

BadField(text, p, q, addr) ==
    \/ \E i \in p..(q - 1) : ~is_hex(text[i])
    \/ q - p > 4
    \/ Len(addr) = 16

\* The loop over the fields: the fields written up to an error or the end.
RECURSIVE Fields(_, _)
Fields(text, s) ==
    LET q      == SeekColon(text, s.p, s.len)
        len    == s.len - (q - s.p)
        double == len # 0 /\ CharAt(text, q) = Colon /\ CharAt(text, q + 1) = Colon
        addr   == s.addr \o Octets!common_write_16_bit(hex(text, s.p))
    IN  IF s.len = 0 \/ CharAt(text, s.p) = NUL THEN s
        ELSE IF BadField(text, s.p, q, s.addr) \/ (double /\ s.coloncolon # -1)
             THEN [s EXCEPT !.ok = FALSE]
        ELSE Fields(text,
                 [ok |-> TRUE, addr |-> addr,
                  p |-> IF double THEN q + 2 ELSE q + 1,
                  len |-> IF len = 0 THEN 0
                          ELSE (len - (IF double THEN 2 ELSE 1)) % SizeT,
                  coloncolon |-> IF double THEN Len(addr) ELSE s.coloncolon])

InsertZeros_AfterField(addr, at) ==
    SubSeq(addr, 1, at - 2) \o Octets!Zeros(16 - Len(addr)) \o SubSeq(addr, at - 1, Len(addr))

InsertZeros(addr, at) ==
    SubSeq(addr, 1, at) \o Octets!Zeros(16 - Len(addr)) \o SubSeq(addr, at + 1, Len(addr))

\* len is the length of the text or, before a '/', of its beginning.
stoip6(text, len) ==
    LET s == Fields(text, [ok |-> len <= 39, addr |-> << >>, p |-> 1,
                           len |-> IF len <= 39 THEN len ELSE 0, coloncolon |-> -1])
    IN  IF s.ok /\ s.coloncolon # -1
        THEN [ok |-> TRUE, addr |-> InsertZeros(s.addr, s.coloncolon)]
        ELSE IF s.ok /\ Len(s.addr) = 16 THEN [ok |-> TRUE, addr |-> s.addr]
        ELSE [ok |-> FALSE, addr |-> Octets!Zeros(16)]

-----------------------------------------------------------------------------
(* Prefixes *)

sipv6_prefixlength(text) ==
    LET slash == SelectInSeq(text, LAMBDA c : c = Slash)
    IN  IF slash = 0 THEN 0 ELSE strtoul(SubSeq(text, slash + 1, Len(text))) % 256

\* out: is there an output for the prefix length?  Without one the length is
\* not looked at.  addr is << >> when nothing was written to it.
stoip6_prefix(text, out) ==
    LET slash  == SelectInSeq(text, LAMBDA c : c = Slash)
        digits == SubSeq(text, slash + 1, Len(text))
        parsed == stoip6(text, IF slash = 0 THEN Len(text) ELSE slash - 1)
        rc     == IF parsed.ok THEN 0 ELSE -1
    IN  IF slash = 0
        THEN [rc |-> rc, addr |-> parsed.addr, prefix_len |-> -1]
        ELSE IF out /\ (Len(digits) + 1 > 3 \/ strtoul(digits) > 128)
        THEN [rc |-> -1, addr |-> << >>, prefix_len |-> -1]
        ELSE [rc |-> rc, addr |-> parsed.addr, prefix_len |-> IF out THEN strtoul(digits) ELSE -1]

-----------------------------------------------------------------------------
(* ip6tos *)

Group(addr, n) == (addr[2 * n - 1] * 256) + addr[2 * n]

\* The scan for zeros: run is the length of the run that ends at group n.
LongerRun_OrEqual(s, n, run) ==
    IF run > 1 /\ run >= s.zero_len
    THEN [run |-> run, zero_start |-> n - run + 1, zero_len |-> run]
    ELSE [s EXCEPT !.run = run]

LongerRun(s, n, run) ==
    IF run > s.zero_len
    THEN [run |-> run, zero_start |-> n - run + 1, zero_len |-> run]
    ELSE [s EXCEPT !.run = run]

ZeroRun(addr) ==
    FoldLeft(LAMBDA s, n : IF Group(addr, n) = 0 THEN LongerRun(s, n, s.run + 1)
                           ELSE [s EXCEPT !.run = 0],
             [run |-> 0, zero_start |-> 255, zero_len |-> 1], [n \in 1..8 |-> n])

ip6tos(addr) ==
    LET zero == ZeroRun(addr)
        Part(n) ==
            CASE n = zero.zero_start -> IF n = 1 THEN <<Colon, Colon>> ELSE <<Colon>>
              [] n > zero.zero_start /\ n < zero.zero_start + zero.zero_len -> << >>
              [] OTHER -> Digits(Group(addr, n), 16) \o
                          (IF n = 8 THEN << >> ELSE <<Colon>>)
    IN  FlattenSeq([n \in 1..8 |-> Part(n)])

\* Nothing for an illegal length.
ip6_prefix_tos(prefix, prefix_len) ==
    IF prefix_len > 128 THEN << >>
    ELSE ip6tos(Octets!bitcopy(Octets!Zeros(16), prefix, prefix_len))
             \o <<Slash>> \o Digits(prefix_len, 10)

-----------------------------------------------------------------------------
(* IPv4 *)

\* The digits from the least significant on, then swapped end for end.
RECURSIVE LowDigitsFirst(_)
LowDigitsFirst(byte) ==
    <<Zero + (byte % 10)>> \o
        (IF byte \div 10 = 0 THEN << >> ELSE LowDigitsFirst(byte \div 10))

ipv4_itoa_Unswapped(byte) == LowDigitsFirst(byte)
ipv4_itoa(byte) == Reverse(LowDigitsFirst(byte))

ip4tos(addr) ==
    FlattenSeq([n \in 1..4 |-> ipv4_itoa(addr[n]) \o (IF n < 4 THEN <<Dot>> ELSE << >>)])

\* The end of the digits from p on, within len characters.
DigitsEnd(text, p, len) ==
    Min({i \in p..(len + 1) : i = len + 1 \/ ~IsDigit(CharAt(text, i))})

\* The loop over the components: addr is what was written.
RECURSIVE Components(_, _, _, _)
Components(text, len, p, addr) ==
    LET end  == DigitsEnd(text, p, len)
        byte == strtoul(SubSeq(text, p, end - 1))
        done == Append(addr, byte)
    IN  CASE end = p \/ byte > 255 -> [ok |-> FALSE, addr |-> addr]
          [] ~(end = p \/ byte > 255) /\ Len(done) = 4 ->
                 [ok |-> end = len + 1 \/ CharAt(text, end) = NUL, addr |-> done]
          [] OTHER -> IF end = len + 1 \/ CharAt(text, end) # Dot
                      THEN [ok |-> FALSE, addr |-> done]
                      ELSE Components(text, len, end + 1, done)

stoip4(text, len) ==
    IF len > 16 THEN [ok |-> FALSE, addr |-> << >>] ELSE Components(text, len, 1, << >>)
=============================================================================
