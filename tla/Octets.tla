------------------------------- MODULE Octets -------------------------------
(***************************************************************************)
(* Bytes, headers laid out in bits, and the checksums of utils/Checksum.py.*)
(* A header is a function from field names; a field under 32 bits is a     *)
(* number, a wider one (an address, a sequence number) its bytes.          *)
(***************************************************************************)
EXTENDS Integers, Sequences, SequencesExt

None == -1      \* a number left to the program; of a wide field: NoBytes
NoBytes == <<>>

Zeros(n) == [k \in 1 .. n |-> 0]

(* The bytes from position i on, and those from i to j, cut like a slice.  *)
From(b, i) == SubSeq(b, i, Len(b))
Slice(b, i, j) == SubSeq(b, i, IF j > Len(b) THEN Len(b) ELSE j)

RECURSIVE Be(_, _)
Be(n, width) == IF width = 0 THEN <<>> ELSE Append(Be(n \div 256, width - 1), n % 256)

RECURSIVE Num(_)
Num(b) == IF b = <<>> THEN 0 ELSE Num(Front(b)) * 256 + Last(b)

(* struct.pack() over a layout of <<field, bits>>; bits, n of them, are    *)
(* left over from the field before.  A field that is None packs as zero.   *)
RECURSIVE PackFrom(_, _, _, _)
PackFrom(layout, f, bits, n) ==
  IF layout = <<>> THEN <<>>
  ELSE LET w == layout[1][2]
           v == f[layout[1][1]]
           rest == Tail(layout)
       IN IF w >= 32
          THEN (IF v = NoBytes THEN Zeros(w \div 8) ELSE v) \o PackFrom(rest, f, 0, 0)
          ELSE LET all == bits * 2^w + (IF v = None THEN 0 ELSE v)
                   left == (n + w) % 8
               IN Be(all \div 2^left, (n + w) \div 8) \o PackFrom(rest, f, all % 2^left, left)

Pack(layout, f) == PackFrom(layout, f, 0, 0)

RECURSIVE Bits(_)
Bits(layout) == IF layout = <<>> THEN 0 ELSE layout[1][2] + Bits(Tail(layout))

Size(layout) == Bits(layout) \div 8

(* struct.unpack(): one field, w bits from bit o on, and all of them.      *)
Field(b, o, w) ==
  LET word == SubSeq(b, o \div 8 + 1, (o + w + 7) \div 8)
  IN IF w >= 32 THEN word ELSE (Num(word) \div 2^((-(o + w)) % 8)) % 2^w

Unpack(layout, b) ==
  LET at == [k \in DOMAIN layout |-> Bits(SubSeq(layout, 1, k - 1))]
      index(x) == CHOOSE k \in DOMAIN layout : layout[k][1] = x
  IN [x \in {layout[k][1] : k \in DOMAIN layout} |->
        Field(b, at[index(x)], layout[index(x)][2])]

-----------------------------------------------------------------------------
(* The sum of the 16-bit words, the carry added back at every step.        *)
OnesSum(data) ==
  LET b == IF Len(data) % 2 = 1 THEN Append(data, 0) ELSE data
      S[k \in 0 .. Len(b) \div 2] ==
        IF k = 0 THEN 0
        ELSE LET t == S[k - 1] + 256 * b[2 * k - 1] + b[2 * k]
             IN (t % 65536) + (t \div 65536)
  IN S[Len(b) \div 2]

ones_complement(data) == 65535 - OnesSum(data)

(* _build_pseudo_header(): by the width of the addresses.                  *)
PseudoHeader(src, dst, protocol, len) ==
  src \o dst \o (IF Len(src) = 4 THEN <<0, protocol>> \o Be(len, 2)
                 ELSE Be(len, 4) \o <<0, 0, 0, protocol>>)

(* A sum of zero would mean that there is none.                            *)
transport_checksum(src, dst, protocol, bytes) ==
  LET sum == ones_complement(PseudoHeader(src, dst, protocol, Len(bytes)) \o bytes)
  IN IF sum = 0 THEN 65535 ELSE sum

verify_transport_checksum(src, dst, protocol, bytes) ==
  ones_complement(PseudoHeader(src, dst, protocol, Len(bytes)) \o bytes) = 0

verify_ipv4_header(header) == ones_complement(header) = 0

=============================================================================
