----------------------------- MODULE NshHeader -----------------------------
(***************************************************************************)
(* ext/nsh.py: the base and service path headers of NSH (RFC 8300), as the *)
(* class draws them, and the parser that takes them apart.  A buffer is a  *)
(* sequence of bytes; buf[1] is the first of them.                         *)
(***************************************************************************)
EXTENDS Bytes

Identifiers == {p \in Nat : p \div 256 <= 65535}      \* 24 bits

\* The attributes of an nsh: version, OAM bit, time to live, length in words
\* of 4 bytes, type of metadata, next protocol, path and index in the path.
Header ==
    [ver : 0..3, O : 0..1, ttl : 0..63, length : 0..63, md : 0..15, np : Byte,
     spi : Identifiers, si : Byte]

-----------------------------------------------------------------------------
\* The drawing.  Bits that it calls U are unassigned: u is their value in each
\* of the two bytes that have some.

\* |Ver|O|U|    TTL    |   Length  |U|U|U|U|MD Type| Next Protocol |
BaseHeader(h, u) ==
    <<64 * h.ver + 32 * h.O + 16 * (u % 2) + (h.ttl \div 4),
      64 * (h.ttl % 4) + h.length,
      16 * (u \div 2) + h.md,
      h.np>>

\* |          Service Path Identifier (SPI)        | Service Index |
PathHeader(h) ==
    <<(h.spi \div 256) \div 256, (h.spi \div 256) % 256, h.spi % 256, h.si>>

Drawn(h, u) == BaseHeader(h, u) \o PathHeader(h)

-----------------------------------------------------------------------------
\* The parser.  Its masks and shifts of one byte:

Ver(byte) == byte \div 64                   \* >> 6
OBit(byte) == (byte \div 32) % 2            \* & 0x20, >> 5
Low4(byte) == byte % 16                     \* & 0x0f
Low6(byte) == byte % 64                     \* & 0x3f
High2(byte) == (byte \div 64) * 64          \* & 0xc0

\* Two bytes as a number of 16 bits, of which the lowest 6 are dropped.
ttlOf(ver_O_U_ttl4, ttl2_len) == (256 * Low4(ver_O_U_ttl4) + High2(ttl2_len)) \div 64

\* "I": four bytes as one number; & 0xffffff00, >> 8 and & 0x000000ff.
spisi(buf) == 256 * (256 * (256 * buf[5] + buf[6]) + buf[7]) + buf[8]

\* struct.error, with fewer bytes than _PACK_STR.
MIN_LEN == 8
Raises(buf) == Len(buf) < MIN_LEN

parser(buf) ==
    [ver |-> Ver(buf[1]), O |-> OBit(buf[1]), ttl |-> ttlOf(buf[1], buf[2]),
     length |-> Low6(buf[2]), md |-> Low4(buf[3]), np |-> buf[4],
     spi |-> spisi(buf) \div 256, si |-> spisi(buf) % 256]

\* What is behind the header: buf[4*length:]
payload(buf) == From(buf, 4 * parser(buf).length)
=============================================================================
