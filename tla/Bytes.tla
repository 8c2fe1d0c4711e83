-------------------------------- MODULE Bytes --------------------------------
(***************************************************************************)
(* Bytes, words and checksums, as the drivers put them on a wire: the CRC  *)
(* of e2e.hpp, and what the foundation library xmbase (external) offers:   *)
(* big-endian words and CRC-8/MAXIM.  A byte is a number in 0..255, or the *)
(* set of its bits where bits are what matters.                            *)
(***************************************************************************)
EXTENDS Integers, Sequences, SequencesExt

Byte == 0..7
Bits(b) == {i \in Byte : (b \div 2^i) % 2 = 1}
Number(bits) == SumFunction([i \in bits |-> 2^i])
Xor(a, b) == (a \ b) \cup (b \ a)

\* A word of n bytes, the high byte first, of any sign; and back.
Be(v, n) == [i \in 1..n |-> (v \div 256^(n - i)) % 256]
Le(v, n) == Reverse(Be(v, n))
Joined256(from, bytes) == FoldLeft(LAMBDA w, b : 256 * w + b, from, bytes)
Unsigned(bytes) == Joined256(0, bytes)
Signed(bytes) == Joined256(IF bytes[1] > 127 THEN -1 ELSE 0, bytes)

\* Eight bits of a CRC: each time a bit falls out, and if it was set the
\* polynomial is added.
Eight(step) ==
  [crc \in SUBSET Byte |-> step[step[step[step[step[step[step[step[crc]]]]]]]]]

\* CRC-8/AUTOSAR: the polynomial 0x2F, most significant bit first.
Autosar == LET up == [crc \in SUBSET Byte |-> LET moved == {i + 1 : i \in crc \ {7}}
                                              IN  IF 7 \in crc THEN Xor(moved, {0, 1, 2, 3, 5}) ELSE moved]
           IN  Eight(up)
Crc8Autosar(data) == Number(Byte \ FoldLeft(LAMBDA crc, b : Autosar[Xor(crc, Bits(b))], Byte, data))

\* CRC-8/MAXIM: the polynomial 0x31, least significant bit first.
Maxim == LET down == [crc \in SUBSET Byte |-> LET moved == {i - 1 : i \in crc \ {0}}
                                              IN  IF 0 \in crc THEN Xor(moved, {7, 3, 2}) ELSE moved]
         IN  Eight(down)
Crc8Maxim(data) == Number(FoldLeft(LAMBDA crc, b : Maxim[Xor(crc, Bits(b))], {}, data))

\* The bytes that may come out of a byte when some of its bits are damaged.
Damaged(b, flips) == {Number(Xor(Bits(b), bits)) : bits \in flips}
=============================================================================
