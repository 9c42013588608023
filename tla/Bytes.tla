------------------------------- MODULE Bytes -------------------------------
(***************************************************************************)
(* Byte strings and the calls on them that the codecs of ext/ make:        *)
(* struct.pack and unpack of big-endian integers, utils.round_up and       *)
(* msg_pack_into.  These are of Python and of Ryu, external to the         *)
(* repository.  Offsets count from 0, as in the code.                      *)
(***************************************************************************)
EXTENDS Naturals, Sequences

Byte == 0..255
Bytes == Seq(Byte)

\* The least multiple of y that is at least x.
RoundUp(x, y) == ((x + y - 1) \div y) * y

Zeros(n) == [i \in 1..n |-> 0]

\* struct's "%ds": cut to n bytes, or filled up with zeros.
Fit(s, n) == [i \in 1..n |-> IF i <= Len(s) THEN s[i] ELSE 0]

\* A non-negative integer in w bytes, most significant first.  A byte beyond
\* the fourth is 0: the instances keep integers below 2^31, TLC's bound.
BE(v, w) == [i \in 1..w |-> IF w - i > 3 THEN 0 ELSE (v \div 256^(w - i)) % 256]

\* "!H", written and read: what nearly every length and type is.
U16(v) == <<v \div 256, v % 256>>
U16At(s, ofs) == 256 * s[ofs + 1] + s[ofs + 2]

\* The integer that a byte string stands for.
Num(s) ==
    LET value[i \in 0..Len(s)] == IF i = 0 THEN 0 ELSE 256 * value[i-1] + s[i]
    IN value[Len(s)]

\* n bytes at an offset, or what there is of them; and the rest from there on.
Slice(s, ofs, n) == SubSeq(s, ofs + 1, IF ofs + n <= Len(s) THEN ofs + n ELSE Len(s))
From(s, ofs) == SubSeq(s, ofs + 1, Len(s))

\* msg_pack_into: write data at an offset, on top of what is there.  A buffer
\* that is too short is filled up with zeros first.
PackInto(buf, ofs, data) ==
    LET filled == IF Len(buf) < ofs THEN buf \o Zeros(ofs - Len(buf)) ELSE buf
    IN SubSeq(filled, 1, ofs) \o data \o SubSeq(filled, ofs + Len(data) + 1, Len(filled))
=============================================================================
