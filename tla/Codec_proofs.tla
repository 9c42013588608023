---------------------------- MODULE Codec_proofs ----------------------------
(***************************************************************************)
(* Byte by byte: the framing of Nicira actions, for any actions, bodies of *)
(* any length and instructions of any number of actions; the packing of a  *)
(* range of bits; and the parser of ext/nsh.py against the drawing in its  *)
(* comment.                                                                *)
(***************************************************************************)
EXTENDS NxStream, NshHeader, SequenceTheorems, TLAPS

(***************************************************************************)
(* Instructions of Nicira actions.                                         *)
(***************************************************************************)

-----------------------------------------------------------------------------
\* The calls on byte strings that the framing makes: what each returns, how long
\* it is and what stands at which place.

LEMMA RoundUpBy8 ==
    ASSUME NEW n \in Nat
    PROVE  /\ RoundUp(n, 8) \in Nat
           /\ RoundUp(n, 8) % 8 = 0
           /\ n <= RoundUp(n, 8) /\ RoundUp(n, 8) < n + 8
           /\ n % 8 = 0 => RoundUp(n, 8) = n
BY DEF RoundUp

LEMMA ZerosProperties ==
    ASSUME NEW n \in Nat
    PROVE  /\ Zeros(n) \in Bytes
           /\ Len(Zeros(n)) = n
           /\ \A i \in 1..n : Zeros(n)[i] = 0
BY DEF Zeros, Bytes, Byte

LEMMA ZerosType ==
    ASSUME NEW n \in Int
    PROVE  /\ Zeros(n) \in Bytes
           /\ n <= 0 => Zeros(n) = <<>>
BY DEF Zeros, Bytes, Byte

LEMMA FitProperties ==
    ASSUME NEW s \in Bytes, NEW n \in Nat
    PROVE  /\ Fit(s, n) \in Bytes
           /\ Len(Fit(s, n)) = n
           /\ \A i \in 1..n : Fit(s, n)[i] = IF i <= Len(s) THEN s[i] ELSE 0
<1>1. \A i \in 1..n : (IF i <= Len(s) THEN s[i] ELSE 0) \in Byte
  <2>1. \A i \in 1..Len(s) : s[i] \in Byte
    BY ElementOfSeq DEF Bytes
  <2>2. Len(s) \in Nat
    BY DEF Bytes
  <2> QED
    BY <2>1, <2>2 DEF Byte
<1> QED
  BY <1>1 DEF Fit, Bytes

\* One byte string behind another.
Joined(s, t, p) ==
    /\ p \in Bytes
    /\ Len(p) = Len(s) + Len(t)
    /\ \A i \in 1..Len(s) : p[i] = s[i]
    /\ \A i \in 1..Len(t) : p[Len(s) + i] = t[i]

LEMMA ConcatBytes ==
    ASSUME NEW s \in Bytes, NEW t \in Bytes
    PROVE  Joined(s, t, s \o t)
<1>1. /\ s \o t \in Seq(Byte)
      /\ Len(s \o t) = Len(s) + Len(t)
      /\ \A i \in 1..(Len(s) + Len(t)) :
            (s \o t)[i] = IF i <= Len(s) THEN s[i] ELSE t[i - Len(s)]
  BY ConcatProperties DEF Bytes
<1>2. Len(s) \in Nat /\ Len(t) \in Nat
  BY DEF Bytes
<1>3. ASSUME NEW i \in 1..Len(s)
      PROVE  (s \o t)[i] = s[i]
  BY <1>1, <1>2
<1>4. ASSUME NEW i \in 1..Len(t)
      PROVE  (s \o t)[Len(s) + i] = t[i]
  <2>1. Len(s) + i \in 1..(Len(s) + Len(t)) /\ ~(Len(s) + i <= Len(s))
    BY <1>2
  <2>2. (s \o t)[Len(s) + i] = t[(Len(s) + i) - Len(s)]
    BY <1>1, <2>1
  <2>3. (Len(s) + i) - Len(s) = i
    BY <1>2
  <2> QED
    BY <2>2, <2>3
<1> QED
  BY <1>1, <1>3, <1>4 DEF Joined, Bytes

\* What msg_pack_into leaves in the buffer.
Packed(b, ofs, data, p) ==
    /\ p \in Bytes
    /\ Len(b) <= ofs + Len(data) => Len(p) = ofs + Len(data)
    /\ ofs + Len(data) < Len(b) => Len(p) = Len(b)
    /\ \A i \in 1..Len(b) : i <= ofs \/ ofs + Len(data) < i => p[i] = b[i]
    /\ \A i \in (Len(b) + 1)..ofs : p[i] = 0
    /\ \A i \in 1..Len(data) : p[ofs + i] = data[i]

LEMMA PackIntoProperties ==
    ASSUME NEW b \in Bytes, NEW ofs \in Nat, NEW data \in Bytes
    PROVE  Packed(b, ofs, data, PackInto(b, ofs, data))
<1> DEFINE filled == IF Len(b) < ofs THEN b \o Zeros(ofs - Len(b)) ELSE b
           front == SubSeq(filled, 1, ofs)
           end == ofs + Len(data)
           back == SubSeq(filled, end + 1, Len(filled))
           p == (front \o data) \o back
<1>0. Len(b) \in Nat /\ Len(data) \in Nat /\ end \in Nat /\ end = ofs + Len(data)
  BY DEF Bytes
<1>1. /\ filled \in Bytes
      /\ Len(filled) \in Nat
      /\ Len(b) < ofs => Len(filled) = ofs
      /\ ofs <= Len(b) => Len(filled) = Len(b)
      /\ \A i \in 1..Len(b) : filled[i] = b[i]
      /\ \A i \in (Len(b) + 1)..ofs : filled[i] = 0
  <2>1. CASE Len(b) < ofs
    <3> DEFINE n == ofs - Len(b)
               z == Zeros(n)
    <3>1. n \in Nat /\ Len(b) + n = ofs
      BY <1>0, <2>1
    <3> HIDE DEF n
    <3>2. /\ z \in Bytes
          /\ Len(z) = n
          /\ \A i \in 1..n : z[i] = 0
      BY <3>1, ZerosProperties
    <3> HIDE DEF z
    <3>3. filled = b \o z
      BY <2>1 DEF z, n
    <3> HIDE DEF filled
    <3>4. Joined(b, z, filled)
      BY <3>2, <3>3, ConcatBytes
    <3>5. ASSUME NEW i \in (Len(b) + 1)..ofs
          PROVE  filled[i] = 0
      <4>1. i - Len(b) \in 1..n /\ i = Len(b) + (i - Len(b))
        BY <1>0, <3>1
      <4> QED
        BY <3>2, <3>4, <4>1 DEF Joined
    <3> QED
      BY <1>0, <2>1, <3>1, <3>2, <3>4, <3>5 DEF Joined
  <2>2. CASE ~(Len(b) < ofs)
    BY <1>0, <2>2 DEF Bytes
  <2> QED
    BY <2>1, <2>2
<1> HIDE DEF filled
<1>2. \A i \in 1..Len(filled) : filled[i] \in Byte
  BY <1>1, ElementOfSeq DEF Bytes
<1>3. /\ front \in Bytes
      /\ Len(front) = ofs
      /\ \A i \in 1..ofs : front[i] = filled[i]
  <2>1. \A i \in 1..ofs : filled[i] \in Byte
    BY <1>0, <1>1, <1>2
  <2>2. /\ front \in Seq(Byte)
        /\ Len(front) = IF 1 <= ofs THEN ofs - 1 + 1 ELSE 0
        /\ \A i \in 1..(ofs - 1 + 1) : front[i] = filled[1 + i - 1]
    BY <2>1, SubSeqProperties
  <2> QED
    BY <2>2 DEF Bytes
<1>4. /\ back \in Bytes
      /\ Len(filled) <= end => Len(back) = 0
      /\ end < Len(filled) => Len(back) = Len(filled) - end
      /\ \A i \in 1..(Len(filled) - end) : back[i] = filled[end + i]
  <2>1. \A i \in (end + 1)..Len(filled) : filled[i] \in Byte
    BY <1>0, <1>2
  <2>2. end + 1 \in Int /\ Len(filled) \in Int
    BY <1>0, <1>1
  <2> HIDE DEF end
  <2>3. /\ back \in Seq(Byte)
        /\ Len(back) = IF end + 1 <= Len(filled) THEN Len(filled) - (end + 1) + 1 ELSE 0
        /\ \A i \in 1..(Len(filled) - (end + 1) + 1) : back[i] = filled[(end + 1) + i - 1]
    BY <2>1, <2>2, SubSeqProperties
  <2> QED
    BY <1>0, <1>1, <2>3 DEF Bytes
<1> HIDE DEF front, back, end
<1>5. /\ front \o data \in Bytes
      /\ Len(front \o data) = end
      /\ \A i \in 1..ofs : (front \o data)[i] = filled[i]
      /\ \A i \in 1..Len(data) : (front \o data)[ofs + i] = data[i]
  <2>1. Joined(front, data, front \o data)
    BY <1>3, ConcatBytes
  <2> QED
    BY <1>0, <1>3, <2>1 DEF Joined
<1>6. /\ p \in Bytes
      /\ Len(p) = end + Len(back)
      /\ \A i \in 1..end : p[i] = (front \o data)[i]
      /\ \A i \in 1..Len(back) : p[end + i] = back[i]
  <2>1. Joined(front \o data, back, p)
    BY <1>4, <1>5, ConcatBytes
  <2> QED
    BY <1>5, <2>1 DEF Joined
<1>7. PackInto(b, ofs, data) = p
  BY DEF PackInto, filled, front, back, end
<1> HIDE DEF p
<1>8. Len(b) <= end => Len(p) = end
  <2> SUFFICES ASSUME Len(b) <= end
               PROVE  Len(p) = end
    OBVIOUS
  <2>1. Len(filled) <= end
    BY <1>0, <1>1
  <2>2. Len(back) = 0
    BY <1>4, <2>1
  <2> QED
    BY <1>0, <1>6, <2>2
<1>9. end < Len(b) => Len(p) = Len(b) /\ Len(filled) = Len(b)
  <2> SUFFICES ASSUME end < Len(b)
               PROVE  Len(p) = Len(b) /\ Len(filled) = Len(b)
    OBVIOUS
  <2>1. Len(filled) = Len(b)
    BY <1>0, <1>1
  <2>2. Len(back) = Len(b) - end
    BY <1>4, <2>1
  <2> QED
    BY <1>0, <1>6, <2>1, <2>2
<1>10. ASSUME NEW i \in 1..Len(b), i <= ofs \/ end < i
       PROVE  p[i] = b[i]
  <2>1. CASE i <= ofs
    <3>1. i \in 1..ofs /\ i \in 1..end
      BY <1>0, <2>1
    <3> QED
      BY <1>1, <1>5, <1>6, <3>1
  <2>2. CASE end < i
    <3>1. end < Len(b)
      BY <1>0, <2>2
    <3>2. i - end \in 1..(Len(filled) - end) /\ i = end + (i - end)
      BY <1>0, <1>9, <2>2, <3>1
    <3>3. back[i - end] = filled[i]
      BY <1>4, <3>2
    <3>4. i - end \in 1..Len(back)
      BY <1>0, <1>1, <1>4, <1>9, <3>1, <3>2
    <3>5. p[i] = back[i - end]
      BY <1>6, <3>2, <3>4
    <3> QED
      BY <1>1, <3>3, <3>5
  <2> QED
    BY <1>10, <2>1, <2>2
<1>11. ASSUME NEW i \in (Len(b) + 1)..ofs
       PROVE  p[i] = 0
  <2>1. i \in 1..ofs /\ i \in 1..end
    BY <1>0
  <2> QED
    BY <1>1, <1>5, <1>6, <2>1
<1>12. ASSUME NEW i \in 1..Len(data)
       PROVE  p[ofs + i] = data[i]
  <2>1. ofs + i \in 1..end
    BY <1>0
  <2> QED
    BY <1>5, <1>6, <2>1
<1> QED
  BY <1>6, <1>7, <1>8, <1>9, <1>10, <1>11, <1>12 DEF end, Packed

-----------------------------------------------------------------------------
\* The framing of one action.

\* 16 bits are written so that the same number is read.
LEMMA U16Properties ==
    ASSUME NEW v \in 0..MaxLen
    PROVE  /\ v \div 256 \in Byte /\ v % 256 \in Byte
           /\ 256 * (v \div 256) + (v % 256) = v
BY DEF Byte, MaxLen

LEMMA HeaderProperties ==
    ASSUME NEW length \in 0..MaxLen, NEW subtype \in 0..MaxLen
    PROVE  LET h == ActionHeader(length, subtype)
           IN /\ h \in Bytes
              /\ Len(h) = 10
              /\ h[1] = 255 /\ h[2] = 255
              /\ 256 * h[3] + h[4] = length
              /\ 256 * h[9] + h[10] = subtype
<1>1. /\ length \div 256 \in Byte /\ length % 256 \in Byte
      /\ 256 * (length \div 256) + (length % 256) = length
  BY U16Properties
<1>2. /\ subtype \div 256 \in Byte /\ subtype % 256 \in Byte
      /\ 256 * (subtype \div 256) + (subtype % 256) = subtype
  BY U16Properties
<1>3. 255 \in Byte /\ 0 \in Byte /\ 35 \in Byte /\ 32 \in Byte
  BY DEF Byte
<1> QED
  BY <1>1, <1>2, <1>3 DEF ActionHeader, Bytes

LEMMA ActionLenProperties ==
    ASSUME NEW b \in Bytes
    PROVE  /\ Len(b) \in Nat
           /\ ActionLen(b) \in Nat
           /\ ActionLen(b) % 8 = 0
           /\ 10 + Len(b) <= ActionLen(b)
<1>1. Len(b) \in Nat
  BY DEF Bytes
<1>2. 10 + Len(b) \in Nat
  BY <1>1
<1> QED
  BY <1>1, <1>2, RoundUpBy8 DEF ActionLen

\* What serialize leaves in the buffer: what was there, zeros up to the offset,
\* the header and the body.
WrittenAs(b, ofs, h, d, p) ==
    /\ p \in Bytes
    /\ Len(p) = ofs + 10 + Len(d)
    /\ \A i \in 1..Len(b) : p[i] = b[i]
    /\ \A i \in (Len(b) + 1)..ofs : p[i] = 0
    /\ \A i \in 1..10 : p[ofs + i] = h[i]
    /\ \A i \in 1..Len(d) : p[ofs + 10 + i] = d[i]

LEMMA WrittenBytes ==
    ASSUME NEW b \in Bytes, NEW ofs \in Nat, Len(b) <= ofs,
           NEW h \in Bytes, Len(h) = 10, NEW d \in Bytes
    PROVE  WrittenAs(b, ofs, h, d, PackInto(b, ofs, h) \o d)
<1> DEFINE front == PackInto(b, ofs, h)
<1>0. Len(b) \in Nat /\ Len(d) \in Nat
  BY DEF Bytes
<1>1. /\ front \in Bytes
      /\ Len(front) = ofs + 10
      /\ \A i \in 1..Len(b) : front[i] = b[i]
      /\ \A i \in (Len(b) + 1)..ofs : front[i] = 0
      /\ \A i \in 1..10 : front[ofs + i] = h[i]
  <2>1. Packed(b, ofs, h, front)
    BY PackIntoProperties
  <2> HIDE DEF front
  <2> QED
    BY <1>0, <2>1, SMTT(30) DEF Packed
<1> HIDE DEF front
<1> DEFINE p == front \o d
<1>2. /\ p \in Bytes
      /\ Len(p) = ofs + 10 + Len(d)
      /\ \A i \in 1..(ofs + 10) : p[i] = front[i]
      /\ \A i \in 1..Len(d) : p[ofs + 10 + i] = d[i]
  <2>1. Joined(front, d, p)
    BY <1>1, ConcatBytes
  <2> HIDE DEF p
  <2> QED
    BY <1>1, <2>1 DEF Joined
<1> HIDE DEF p
<1>3. \A i \in 1..Len(b) : p[i] = b[i]
  BY <1>0, <1>1, <1>2
<1>4. \A i \in (Len(b) + 1)..ofs : p[i] = 0
  BY <1>0, <1>1, <1>2, SMTT(30)
<1>5. \A i \in 1..10 : p[ofs + i] = h[i]
  <2>1. ASSUME NEW i \in 1..10
        PROVE  p[ofs + i] = h[i]
    <3>1. ofs + i \in 1..(ofs + 10)
      OBVIOUS
    <3>2. p[ofs + i] = front[ofs + i]
      BY <1>2, <3>1
    <3>3. front[ofs + i] = h[i]
      BY <1>1
    <3> QED
      BY <3>2, <3>3
  <2> QED
    BY <2>1
<1> QED
  BY <1>2, <1>3, <1>4, <1>5 DEF front, p, WrittenAs

\* What the instruction leaves in the buffer: its own header and, behind it,
\* what was there and zeros.
FinishedAs(b, ofs, p) ==
    /\ p \in Bytes
    /\ Len(p) = ofs
    /\ U16At(p, 2) = ofs
    /\ \A i \in 9..Len(b) : p[i] = b[i]
    /\ \A i \in 9..ofs : Len(b) < i => p[i] = 0

LEMMA FinishedBytes ==
    ASSUME NEW b \in Bytes, NEW ofs \in 8..MaxLen, RoundUp(ofs, 8) = ofs, Len(b) <= ofs
    PROVE  FinishedAs(b, ofs, PackInto(PackInto(b, ofs, Zeros(RoundUp(ofs, 8) - ofs)), 0,
                                       InstructionHeader(RoundUp(ofs, 8))))
<1> DEFINE none == Zeros(RoundUp(ofs, 8) - ofs)
           filled == PackInto(b, ofs, none)
           header == InstructionHeader(RoundUp(ofs, 8))
           p == PackInto(filled, 0, header)
<1>0. ofs \in Nat /\ ofs \in 0..MaxLen /\ 8 <= ofs /\ Len(b) \in Nat
  <2>1. MaxLen \in Nat
    BY SMTT(30) DEF MaxLen
  <2> QED
    BY <2>1 DEF Bytes
<1>1. RoundUp(ofs, 8) = ofs
  OBVIOUS
<1>2. none \in Bytes /\ Len(none) = 0
  BY <1>0, <1>1, ZerosProperties
<1> HIDE DEF none
<1>3. /\ filled \in Bytes
      /\ Len(filled) = ofs
      /\ \A i \in 1..Len(b) : filled[i] = b[i]
      /\ \A i \in (Len(b) + 1)..ofs : filled[i] = 0
  <2>1. Packed(b, ofs, none, filled)
    BY <1>0, <1>2, PackIntoProperties
  <2> HIDE DEF filled
  <2> QED
    BY <1>0, <1>2, <2>1 DEF Packed
<1> HIDE DEF filled
<1>4. /\ header \in Bytes /\ Len(header) = 8
      /\ 256 * header[3] + header[4] = ofs
  <2>1. /\ ofs \div 256 \in Byte /\ ofs % 256 \in Byte
        /\ 256 * (ofs \div 256) + (ofs % 256) = ofs
    BY <1>0, U16Properties
  <2>2. 0 \in Byte /\ 4 \in Byte
    BY DEF Byte
  <2> QED
    BY <1>1, <2>1, <2>2 DEF InstructionHeader, Bytes
<1> HIDE DEF header
<1>5. /\ p \in Bytes
      /\ Len(p) = ofs
      /\ \A i \in 9..ofs : p[i] = filled[i]
      /\ \A i \in 1..8 : p[0 + i] = header[i]
  <2>1. Packed(filled, 0, header, p)
    BY <1>3, <1>4, PackIntoProperties
  <2> HIDE DEF p
  <2>2. /\ ofs <= 8 => Len(p) = 8
        /\ 8 < ofs => Len(p) = ofs
    BY <1>3, <1>4, <2>1 DEF Packed
  <2>3. ofs = 8 \/ 8 < ofs
    BY <1>0
  <2>4. Len(p) = ofs
    BY <1>0, <2>2, <2>3
  <2>5. /\ p \in Bytes
        /\ \A i \in 1..ofs : 8 < i => p[i] = filled[i]
        /\ \A i \in 1..8 : p[0 + i] = header[i]
    BY <1>0, <1>3, <1>4, <2>1 DEF Packed
  <2> QED
    BY <1>0, <2>4, <2>5
<1> HIDE DEF p
<1>6. U16At(p, 2) = ofs
  <2>1. p[0 + 3] = header[3] /\ p[0 + 4] = header[4]
    BY <1>5
  <2> QED
    BY <1>4, <2>1 DEF U16At
<1>7. \A i \in 9..Len(b) : p[i] = b[i]
  BY <1>0, <1>3, <1>5
<1>8. \A i \in 9..ofs : Len(b) < i => p[i] = 0
  BY <1>0, <1>3, <1>5
<1> QED
  BY <1>5, <1>6, <1>7, <1>8 DEF none, filled, header, p, FinishedAs

-----------------------------------------------------------------------------
\* The invariant.

Multiple8(n) == n % 8 = 0
BodyAt(k) == BodyOf(sent[k])
Length(k) == ActionLen(BodyAt(k))

\* Where the k-th action begins, or the next one will.
Place(k) == IF k <= Written THEN start[k] ELSE offset

\* The k-th action lies between its beginning and that of the next: header,
\* body and, as far as the buffer goes, zeros.
Placed(k) ==
    /\ start[k] \in Nat /\ 8 <= start[k] /\ Multiple8(start[k])
    /\ Length(k) <= MaxLen
    /\ Place(k + 1) = start[k] + Length(k)
    /\ Place(k + 1) <= offset
    /\ start[k] + 10 + Len(BodyAt(k)) <= Len(buf)
    /\ \A i \in 1..10 :
            buf[start[k] + i] = ActionHeader(Length(k), SubtypeOf(sent[k]))[i]
    /\ \A i \in 1..Len(BodyAt(k)) : buf[start[k] + 10 + i] = BodyAt(k)[i]
    /\ \A i \in 1..(Length(k) - 10) :
            Len(BodyAt(k)) < i /\ start[k] + 10 + i <= Len(buf) => buf[start[k] + 10 + i] = 0

Unread == read = <<>> /\ cursor = 8

\* What holds in each phase.
WritingInv == phase = "writing" => Len(buf) <= offset /\ Unread
ReadingInv ==
    phase \in {"reading", "done"} =>
        /\ Written = Len(sent)
        /\ offset <= MaxLen
        /\ Len(buf) = offset
        /\ U16At(buf, 2) = offset
        /\ Len(read) <= Len(sent)
        /\ cursor = Place(Len(read) + 1)
DoneInv == phase = "done" => cursor >= offset

AsSent ==
    \A k \in DOMAIN read :
        /\ read[k].subtype = SubtypeOf(sent[k])
        /\ read[k].data = Fit(BodyAt(k), Length(k) - 10)

IInv ==
    /\ TypeOK
    /\ Written <= Len(sent)
    /\ 8 <= offset /\ Multiple8(offset) /\ Place(1) = 8
    /\ \A k \in 1..Written : Placed(k)
    /\ Len(read) <= Len(sent)
    /\ WritingInv
    /\ ReadingInv
    /\ DoneInv
    /\ AsSent

\* An action of the list, its body and its length.
LEMMA SentProperties ==
    ASSUME TypeOK, NEW k \in 1..Len(sent)
    PROVE  /\ Len(sent) \in Nat
           /\ SubtypeOf(sent[k]) \in 0..MaxLen
           /\ BodyAt(k) \in Bytes
           /\ Len(BodyAt(k)) \in Nat
           /\ Length(k) \in Nat
           /\ Multiple8(Length(k))
           /\ 10 + Len(BodyAt(k)) <= Length(k)
<1>1. sent \in Seq(Actions)
  BY StreamAssumption DEF TypeOK
<1>2. sent[k] \in Actions /\ Len(sent) \in Nat
  BY <1>1
<1> QED
  BY <1>2, StreamAssumption, ActionLenProperties DEF BodyAt, Length, Multiple8

LEMMA SumOfMultiples ==
    ASSUME NEW m \in Nat, NEW n \in Nat, Multiple8(m), Multiple8(n)
    PROVE  Multiple8(m + n)
BY DEF Multiple8

LEMMA RoundUpMultiple ==
    ASSUME NEW n \in Nat, Multiple8(n)
    PROVE  RoundUp(n, 8) = n
BY RoundUpBy8 DEF Multiple8

LEMMA InitInv == Init => IInv
<1> SUFFICES ASSUME Init
             PROVE  IInv
  OBVIOUS
<1>1. TypeOK
  BY DEF Init, TypeOK, OFP_INSTRUCTION_ACTIONS_SIZE, Bytes
<1>2. sent \in Seq(Actions)
  BY StreamAssumption DEF Init
<1>3. Written = 0 /\ Len(sent) \in Nat /\ Len(read) = 0 /\ Len(buf) = 0
  BY <1>2 DEF Init, Written
<1>4. offset = 8 /\ cursor = 8 /\ Multiple8(8)
  BY DEF Init, OFP_INSTRUCTION_ACTIONS_SIZE, Multiple8
<1>5. AsSent
  BY DEF Init, AsSent
<1> QED
  BY <1>1, <1>3, <1>4, <1>5
     DEF Init, IInv, Place, WritingInv, ReadingInv, DoneInv, Unread

-----------------------------------------------------------------------------
\* serialize keeps the invariant: the new action lies behind the others, and
\* their bytes stay where they are.
LEMMA WriteActionInv ==
    ASSUME IInv, WriteAction
    PROVE  IInv'
<1>0. /\ TypeOK /\ phase = "writing" /\ Written < Len(sent) /\ Unread
      /\ Len(buf) <= offset
  BY DEF WriteAction, Pending, IInv, WritingInv
<1>1. Written \in Nat /\ Len(sent) \in Nat /\ Written + 1 \in 1..Len(sent)
  <2>1. sent \in Seq(Actions) /\ start \in Seq(Nat)
    BY <1>0, StreamAssumption DEF TypeOK
  <2> QED
    BY <1>0, <2>1 DEF Written
<1>8. PICK n \in 1..Len(sent) : n = Written + 1 /\ n \in Nat
  BY <1>1
<1> DEFINE a == sent[n]
           body == BodyOf(a)
           length == ActionLen(body)
           header == ActionHeader(length, SubtypeOf(a))
<1>2. /\ SubtypeOf(a) \in 0..MaxLen
      /\ body \in Bytes
      /\ Len(body) \in Nat
      /\ length \in Nat
      /\ Multiple8(length)
      /\ 10 + Len(body) <= length
  BY <1>0, <1>1, SentProperties DEF BodyAt, Length
<1>3. /\ length <= MaxLen
      /\ buf' = PackInto(buf, offset, header) \o body
      /\ offset' = offset + length
      /\ start' = Append(start, offset)
      /\ sent' = sent /\ phase' = phase /\ cursor' = cursor /\ read' = read
  BY <1>8 DEF WriteAction, Writable
<1>4. /\ offset \in Nat /\ 8 <= offset /\ Multiple8(offset)
      /\ buf \in Bytes /\ Len(buf) \in Nat
  BY <1>0 DEF IInv, TypeOK, Bytes
<1>5. header \in Bytes /\ Len(header) = 10
  <2>1. length \in 0..MaxLen
    <3>1. MaxLen \in Nat
      BY DEF MaxLen
    <3> HIDE DEF length
    <3> QED
      BY <1>2, <1>3, <3>1
  <2> QED
    BY <1>2, <2>1, HeaderProperties
<1>6. /\ buf' \in Bytes
      /\ Len(buf') = offset + 10 + Len(body)
      /\ \A i \in 1..Len(buf) : buf'[i] = buf[i]
      /\ \A i \in (Len(buf) + 1)..offset : buf'[i] = 0
      /\ \A i \in 1..10 : buf'[offset + i] = header[i]
      /\ \A i \in 1..Len(body) : buf'[offset + 10 + i] = body[i]
  <2> HIDE DEF body, header
  <2>1. WrittenAs(buf, offset, header, body, PackInto(buf, offset, header) \o body)
    BY <1>0, <1>2, <1>4, <1>5, WrittenBytes
  <2> QED
    BY <1>3, <2>1 DEF WrittenAs
<1>7. /\ start' \in Seq(Nat)
      /\ Written' = n
      /\ start'[n] = offset
      /\ \A k \in 1..Written : start'[k] = start[k]
  BY <1>0, <1>3, <1>4, <1>8 DEF TypeOK, Written
<1> HIDE DEF a, length, header, body
<1>9. \A k \in 1..n : Place(k)' = Place(k)
  <2> SUFFICES ASSUME NEW k \in 1..n
               PROVE  Place(k)' = Place(k)
    OBVIOUS
  <2>1. CASE k \in 1..Written
    BY <1>1, <1>7, <1>8, <2>1 DEF Place
  <2>2. CASE k = n
    BY <1>1, <1>7, <1>8, <2>2 DEF Place
  <2> QED
    BY <1>1, <1>8, <2>1, <2>2
<1>10. Place(n + 1)' = offset + length
  BY <1>1, <1>3, <1>7, <1>8 DEF Place
<1>22. offset <= offset' /\ Len(buf) <= Len(buf') /\ Len(buf') \in Nat
  <2>1. offset' = offset + length /\ Len(buf') = offset + 10 + Len(body)
    BY <1>3, <1>6
  <2>2. Len(buf) <= offset
    BY <1>0
  <2>3. length \in Nat /\ Len(body) \in Nat /\ offset \in Nat /\ Len(buf) \in Nat
    BY <1>2, <1>4
  <2> QED
    BY <2>1, <2>2, <2>3
<1>11. \A k : BodyAt(k)' = BodyAt(k) /\ Length(k)' = Length(k)
  BY <1>3 DEF BodyAt, Length
<1>12. ASSUME NEW k \in 1..Written
       PROVE  Placed(k)'
  <2>1. Placed(k)
    BY DEF IInv
  <2>2. start'[k] = start[k] /\ k + 1 \in 1..n
    BY <1>1, <1>7, <1>8
  <2>3. /\ k \in 1..Len(sent)
        /\ Len(BodyAt(k)) \in Nat /\ Length(k) \in Nat
        /\ 10 + Len(BodyAt(k)) <= Length(k)
    <3>1. k \in 1..Len(sent)
      BY <1>0, <1>1
    <3> QED
      BY <1>0, <3>1, SentProperties
  <2>4. /\ start[k] \in Nat
        /\ start[k] + 10 + Len(BodyAt(k)) <= Len(buf)
        /\ start[k] + Length(k) <= offset
    BY <2>1 DEF Placed
  <2>5. /\ Place(k + 1)' = start[k] + Length(k)
        /\ Place(k + 1)' <= offset'
    <3>1. Place(k + 1)' = start[k] + Length(k)
      BY <1>9, <2>1, <2>2 DEF Placed
    <3>2. start[k] + Length(k) <= offset'
      BY <1>2, <1>3, <1>4, <2>3, <2>4, SMTT(30)
    <3> QED
      BY <3>1, <3>2
  <2>10. \A i \in 1..10 : start[k] + i \in 1..Len(buf)
    <3>1. start[k] + 10 <= Len(buf) /\ start[k] \in Nat /\ Len(buf) \in Nat
      <4>1. Len(BodyAt(k)) \in Nat /\ Len(buf) \in Nat /\ start[k] \in Nat
        BY <1>4, <2>3, <2>4
      <4>2. start[k] + 10 + Len(BodyAt(k)) <= Len(buf)
        BY <2>4
      <4> QED
        BY <4>1, <4>2
    <3> QED
      BY <3>1
  <2>6. start[k] + 10 + Len(BodyAt(k)) <= Len(buf')
    BY <1>4, <1>22, <2>3, <2>4
  <2>7. ASSUME NEW i \in 1..10
        PROVE  buf'[start[k] + i] = ActionHeader(Length(k), SubtypeOf(sent[k]))[i]
    BY <1>6, <2>1, <2>10 DEF Placed
  <2>8. ASSUME NEW i \in 1..Len(BodyAt(k))
        PROVE  buf'[start[k] + 10 + i] = BodyAt(k)[i]
    <3>1. start[k] + 10 + i \in 1..Len(buf)
      BY <1>4, <2>3, <2>4
    <3> QED
      BY <1>6, <2>1, <3>1 DEF Placed
  <2>9. ASSUME NEW i \in 1..(Length(k) - 10), Len(BodyAt(k)) < i,
               start[k] + 10 + i <= Len(buf')
        PROVE  buf'[start[k] + 10 + i] = 0
    <3>1. CASE start[k] + 10 + i <= Len(buf)
      <4>1. start[k] + 10 + i \in 1..Len(buf)
        BY <1>4, <2>3, <2>4, <3>1, SMTT(30)
      <4>2. buf[start[k] + 10 + i] = 0
        BY <2>1, <2>9, <3>1 DEF Placed
      <4> QED
        BY <1>6, <4>1, <4>2
    <3>2. CASE Len(buf) < start[k] + 10 + i
      <4>1. start[k] + 10 + i \in (Len(buf) + 1)..offset
        BY <1>4, <2>3, <2>4, <3>2, SMTT(30)
      <4> QED
        BY <1>6, <4>1
    <3> QED
      BY <1>4, <2>3, <2>4, <3>1, <3>2
  <2> QED
    BY <1>3, <1>11, <2>1, <2>2, <2>5, <2>6, <2>7, <2>8, <2>9 DEF Placed
<1>13. Placed(n)'
  <2>1. BodyAt(n)' = body /\ Length(n)' = length /\ sent'[n] = a
    BY <1>3, <1>11 DEF BodyAt, Length, a, body, length
  <2>2. start'[n] = offset /\ offset' = offset + length
    BY <1>3, <1>7
  <2>3. /\ \A i \in 1..10 : buf'[offset + i] = ActionHeader(length, SubtypeOf(a))[i]
        /\ \A i \in 1..Len(body) : buf'[offset + 10 + i] = body[i]
    BY <1>6 DEF header
  <2>4. ASSUME NEW i \in 1..(length - 10), Len(body) < i,
               offset + 10 + i <= Len(buf')
        PROVE  FALSE
    BY <1>2, <1>4, <1>6, <2>4
  <2>5. length <= MaxLen /\ length \in Nat
    BY <1>2, <1>3
  <2>6. offset + 10 + Len(body) <= Len(buf')
    BY <1>2, <1>4, <1>6
  <2>7. Place(n + 1)' <= offset'
    BY <1>4, <1>10, <2>2, <2>5
  <2> QED
    BY <1>4, <1>10, <2>1, <2>2, <2>3, <2>4, <2>5, <2>6, <2>7 DEF Placed
<1>14. \A k \in 1..(Written') : Placed(k)'
  BY <1>1, <1>7, <1>8, <1>12, <1>13
<1>15. Multiple8(offset') /\ 8 <= offset' /\ offset' \in Nat
  BY <1>2, <1>3, <1>4, SumOfMultiples
<1>16. Place(1)' = 8
  <2>1. Place(1) = 8
    BY DEF IInv
  <2>2. 1 \in 1..n
    BY <1>1, <1>8
  <2> QED
    BY <1>9, <2>1, <2>2
<1>17. TypeOK'
  BY <1>0, <1>3, <1>6, <1>7, <1>15 DEF TypeOK
<1>18. WritingInv'
  <2>1. Len(buf') <= offset'
    BY <1>2, <1>3, <1>4, <1>6
  <2> QED
    BY <1>0, <1>3, <2>1 DEF WritingInv, Unread
<1>19. ReadingInv' /\ DoneInv'
  BY <1>0, <1>3 DEF ReadingInv, DoneInv
<1>20. AsSent' /\ Len(read)' <= Len(sent)'
  BY <1>0, <1>1, <1>3 DEF AsSent, Unread
<1>21. Written' <= Len(sent')
  BY <1>1, <1>3, <1>7
<1> QED
  BY <1>14, <1>15, <1>16, <1>17, <1>18, <1>19, <1>20, <1>21 DEF IInv

\* The instruction's own filling and header leave the actions where they are.
LEMMA FinishInv ==
    ASSUME IInv, Finish
    PROVE  IInv'
<1>1. /\ TypeOK /\ phase = "writing" /\ Written = Len(sent) /\ Unread
      /\ Len(buf) <= offset /\ offset <= MaxLen
  BY DEF Finish, IInv, WritingInv
<1>2. /\ phase' = "reading" /\ sent' = sent /\ start' = start
      /\ offset' = offset /\ cursor' = cursor /\ read' = read
  BY DEF Finish
<1>3. /\ offset \in Nat /\ 8 <= offset /\ Multiple8(offset)
      /\ buf \in Bytes /\ Len(buf) \in Nat
      /\ Len(sent) \in Nat
  <2>1. sent \in Seq(Actions)
    BY <1>1, StreamAssumption DEF TypeOK
  <2> QED
    BY <1>1, <2>1 DEF IInv, TypeOK, Bytes
<1>4. FinishedAs(buf, offset, buf')
  <2>1. RoundUp(offset, 8) = offset
    BY <1>3, RoundUpMultiple
  <2>2. offset \in 8..MaxLen
    <3>1. MaxLen \in Nat
      BY DEF MaxLen
    <3> QED
      BY <1>1, <1>3, <3>1
  <2>3. buf' = PackInto(PackInto(buf, offset, Zeros(RoundUp(offset, 8) - offset)), 0,
                        InstructionHeader(RoundUp(offset, 8)))
    BY DEF Finish
  <2>4. FinishedAs(buf, offset,
                   PackInto(PackInto(buf, offset, Zeros(RoundUp(offset, 8) - offset)), 0,
                            InstructionHeader(RoundUp(offset, 8))))
    BY <1>1, <1>3, <2>1, <2>2, FinishedBytes
  <2> QED
    BY <2>3, <2>4
<1>5. /\ buf' \in Bytes /\ Len(buf') = offset /\ U16At(buf', 2) = offset
      /\ \A i \in 9..Len(buf) : buf'[i] = buf[i]
      /\ \A i \in 9..offset : Len(buf) < i => buf'[i] = 0
  BY <1>4 DEF FinishedAs
<1>6. \A k : Place(k)' = Place(k) /\ BodyAt(k)' = BodyAt(k) /\ Length(k)' = Length(k)
  BY <1>2 DEF Place, Written, BodyAt, Length
<1>7. ASSUME NEW k \in 1..Written
      PROVE  Placed(k)'
  <2>1. Placed(k)
    BY DEF IInv
  <2>2. /\ Len(BodyAt(k)) \in Nat /\ Length(k) \in Nat
        /\ 10 + Len(BodyAt(k)) <= Length(k)
    BY <1>1, SentProperties
  <2>3. /\ start[k] \in Nat /\ 8 <= start[k]
        /\ start[k] + 10 + Len(BodyAt(k)) <= Len(buf)
    BY <2>1 DEF Placed
  <2>4. start[k] + 10 <= Len(buf)
    BY <1>3, <2>2, <2>3
  <2>5. start[k] + 10 + Len(BodyAt(k)) <= Len(buf')
    BY <1>1, <1>3, <1>5, <2>2, <2>3
  <2>6. ASSUME NEW i \in 1..10
        PROVE  buf'[start[k] + i] = ActionHeader(Length(k), SubtypeOf(sent[k]))[i]
    <3>1. start[k] + i \in 9..Len(buf)
      BY <1>3, <2>3, <2>4
    <3> QED
      BY <1>5, <2>1, <3>1 DEF Placed
  <2>7. ASSUME NEW i \in 1..Len(BodyAt(k))
        PROVE  buf'[start[k] + 10 + i] = BodyAt(k)[i]
    <3>1. start[k] + 10 + i \in 9..Len(buf)
      BY <1>3, <2>2, <2>3
    <3> QED
      BY <1>5, <2>1, <3>1 DEF Placed
  <2>8. ASSUME NEW i \in 1..(Length(k) - 10), Len(BodyAt(k)) < i,
               start[k] + 10 + i <= Len(buf')
        PROVE  buf'[start[k] + 10 + i] = 0
    <3> DEFINE j == start[k] + 10 + i
    <3>1. j \in 9..offset
      BY <1>3, <1>5, <2>2, <2>3, <2>8, SMTT(30)
    <3>2. CASE j <= Len(buf)
      <4>1. j \in 9..Len(buf)
        BY <1>3, <3>1, <3>2
      <4>2. buf[j] = 0
        BY <2>1, <2>8, <3>2 DEF Placed
      <4> QED
        BY <1>5, <4>1, <4>2
    <3>3. CASE Len(buf) < j
      BY <1>5, <3>1, <3>3
    <3> HIDE DEF j
    <3>4. j <= Len(buf) \/ Len(buf) < j
      BY <1>3, <3>1
    <3> QED
      BY <3>2, <3>3, <3>4 DEF j
  <2> QED
    BY <1>2, <1>6, <2>1, <2>5, <2>6, <2>7, <2>8 DEF Placed
<1>8. Written' = Written
  BY <1>2 DEF Written
<1>9. Place(1) = 8 /\ Len(read) = 0 /\ cursor = 8 /\ AsSent
  BY <1>1 DEF IInv, Unread
<1>10. TypeOK'
  BY <1>1, <1>2, <1>5 DEF TypeOK
<1>11. ReadingInv'
  <2>1. Len(read') <= Len(sent')
    BY <1>2, <1>3, <1>9
  <2>2. cursor' = Place(Len(read) + 1)'
    <3>1. Len(read') + 1 = 1 /\ cursor' = 8
      BY <1>2, <1>9
    <3>2. Place(1)' = 8
      BY <1>6, <1>9
    <3> QED
      BY <3>1, <3>2 DEF Place
  <2>3. Written' = Len(sent') /\ offset' <= MaxLen /\ Len(buf') = offset'
    BY <1>1, <1>2, <1>5, <1>8
  <2>4. U16At(buf, 2)' = offset'
    BY <1>2, <1>5 DEF U16At
  <2> QED
    BY <2>1, <2>2, <2>3, <2>4 DEF ReadingInv
<1>12. WritingInv' /\ DoneInv'
  BY <1>2 DEF WritingInv, DoneInv
<1>13. AsSent'
  BY <1>2, <1>6, <1>9 DEF AsSent
<1>14. Place(1)' = 8
  BY <1>6, <1>9
<1>15. Written' <= Len(sent') /\ Len(read') <= Len(sent')
  BY <1>1, <1>2, <1>3, <1>8, <1>9
<1> QED
  BY <1>2, <1>3, <1>7, <1>8, <1>10, <1>11, <1>12, <1>13, <1>14, <1>15 DEF IInv

\* What the reader finds where it stands: the header of the next action.
LEMMA HeaderFound ==
    ASSUME IInv, phase = "reading", cursor < U16At(buf, 2),
           NEW n, n = Len(read) + 1
    PROVE  /\ n \in 1..Written /\ n \in 1..Len(sent)
           /\ cursor = start[n]
           /\ U16At(buf, cursor) = 65535
           /\ U16At(buf, cursor + 2) = Length(n)
           /\ U16At(buf, cursor + 8) = SubtypeOf(sent[n])
<1>1. /\ TypeOK /\ Written = Len(sent)
      /\ U16At(buf, 2) = offset
      /\ Len(read) <= Len(sent)
      /\ cursor = Place(n)
  BY DEF IInv, ReadingInv
<1>2. Len(read) \in Nat /\ Len(sent) \in Nat /\ offset \in Nat
  <2>1. sent \in Seq(Actions)
    BY <1>1, StreamAssumption DEF TypeOK
  <2> QED
    BY <1>1, <2>1 DEF TypeOK
<1>3. n <= Written
  BY <1>1, <1>2 DEF Place
<1>4. n \in 1..Written /\ n \in 1..Len(sent) /\ cursor = start[n]
  BY <1>1, <1>2, <1>3 DEF Place
<1>5. Placed(n)
  BY <1>4 DEF IInv
<1>6. start[n] \in Nat /\ Length(n) \in 0..MaxLen /\ SubtypeOf(sent[n]) \in 0..MaxLen
  <2>1. Length(n) \in Nat /\ Length(n) <= MaxLen /\ SubtypeOf(sent[n]) \in 0..MaxLen
    BY <1>1, <1>4, <1>5, SentProperties DEF Placed
  <2>2. MaxLen \in Nat
    BY DEF MaxLen
  <2> QED
    BY <1>5, <2>1, <2>2 DEF Placed
<1> DEFINE h == ActionHeader(Length(n), SubtypeOf(sent[n]))
<1>7. /\ h[1] = 255 /\ h[2] = 255
      /\ 256 * h[3] + h[4] = Length(n)
      /\ 256 * h[9] + h[10] = SubtypeOf(sent[n])
  BY <1>6, HeaderProperties
<1>8. /\ buf[start[n] + 1] = h[1] /\ buf[start[n] + 2] = h[2]
      /\ buf[start[n] + 3] = h[3] /\ buf[start[n] + 4] = h[4]
      /\ buf[start[n] + 9] = h[9] /\ buf[start[n] + 10] = h[10]
  BY <1>5 DEF Placed
<1> HIDE DEF h
<1>9. U16At(buf, cursor) = 65535
  BY <1>4, <1>7, <1>8 DEF U16At
<1>10. U16At(buf, cursor + 2) = Length(n)
  <2>1. (start[n] + 2) + 1 = start[n] + 3 /\ (start[n] + 2) + 2 = start[n] + 4
    BY <1>6
  <2> QED
    BY <1>4, <1>7, <1>8, <2>1 DEF U16At
<1>11. U16At(buf, cursor + 8) = SubtypeOf(sent[n])
  <2>1. (start[n] + 8) + 1 = start[n] + 9 /\ (start[n] + 8) + 2 = start[n] + 10
    BY <1>6
  <2> QED
    BY <1>4, <1>7, <1>8, <2>1 DEF U16At
<1> QED
  BY <1>4, <1>9, <1>10, <1>11

\* The data of an action is its body and the filling.
LEMMA DataFound ==
    ASSUME IInv, phase = "reading", NEW n \in 1..Written, n \in 1..Len(sent)
    PROVE  [i \in 1..(Length(n) - 10) |-> buf[start[n] + 10 + i]] = Fit(BodyAt(n), Length(n) - 10)
<1> DEFINE body == BodyAt(n)
           size == Length(n) - 10
<1>1. TypeOK /\ Len(buf) = offset /\ Placed(n)
  BY DEF IInv, ReadingInv
<1>2. /\ body \in Bytes /\ Len(body) \in Nat /\ Length(n) \in Nat
      /\ 10 + Len(body) <= Length(n)
  BY <1>1, SentProperties
<1>3. /\ start[n] \in Nat /\ start[n] + Length(n) <= offset /\ offset \in Nat
      /\ \A i \in 1..Len(body) : buf[start[n] + 10 + i] = body[i]
      /\ \A i \in 1..size :
            Len(body) < i /\ start[n] + 10 + i <= Len(buf) => buf[start[n] + 10 + i] = 0
  BY <1>1 DEF Placed, TypeOK
<1>4. size \in Nat /\ Length(n) = size + 10
  BY <1>2
<1> HIDE DEF body, size
<1>5. ASSUME NEW i \in 1..size
      PROVE  buf[start[n] + 10 + i] = IF i <= Len(body) THEN body[i] ELSE 0
  <2>1. CASE i <= Len(body)
    BY <1>2, <1>3, <2>1
  <2>2. CASE Len(body) < i
    <3>1. start[n] + 10 + i <= offset
      BY <1>3, <1>4
    <3> QED
      BY <1>1, <1>2, <1>3, <2>2, <3>1
  <2> QED
    BY <1>2, <1>4, <2>1, <2>2
<1>6. [i \in 1..size |-> buf[start[n] + 10 + i]] = [i \in 1..size |-> IF i <= Len(body) THEN body[i] ELSE 0]
  BY <1>5
<1> QED
  BY <1>6 DEF Fit, body, size

\* The parser keeps the invariant: it goes on to the next action.
LEMMA ReadActionInv ==
    ASSUME IInv, ReadAction
    PROVE  IInv'
<1>1. /\ TypeOK /\ phase = "reading" /\ cursor < U16At(buf, 2)
      /\ AsSent /\ Written = Len(sent)
  BY DEF ReadAction, IInv, ReadingInv
<1>2. /\ sent' = sent /\ phase' = phase /\ start' = start
      /\ offset' = offset /\ buf' = buf
  BY DEF ReadAction
<1>3. Len(read) \in Nat
  BY <1>1 DEF TypeOK
<1>4. PICK n \in Nat : n = Len(read) + 1
  BY <1>3
<1>5. /\ n \in 1..Written /\ n \in 1..Len(sent)
      /\ cursor = start[n]
      /\ U16At(buf, cursor + 2) = Length(n)
      /\ U16At(buf, cursor + 8) = SubtypeOf(sent[n])
  BY <1>1, <1>4, HeaderFound
<1> DEFINE item == [subtype |-> SubtypeOf(sent[n]), data |-> Fit(BodyAt(n), Length(n) - 10)]
<1>6. read' = Append(read, item) /\ cursor' = start[n] + Length(n)
  <2>1. [i \in 1..(Length(n) - 10) |-> buf[start[n] + 10 + i]] = Fit(BodyAt(n), Length(n) - 10)
    BY <1>1, <1>5, DataFound
  <2>2. /\ read' = Append(read, [subtype |-> U16At(buf, cursor + 8),
                                 data |-> [i \in 1..(U16At(buf, cursor + 2) - 10) |-> buf[cursor + 10 + i]]])
        /\ cursor' = cursor + U16At(buf, cursor + 2)
    BY DEF ReadAction
  <2> QED
    BY <1>5, <2>1, <2>2
<1>7. item \in [subtype : Nat, data : Bytes] /\ Length(n) \in Nat /\ 10 <= Length(n)
  <2>1. /\ BodyAt(n) \in Bytes /\ Len(BodyAt(n)) \in Nat /\ Length(n) \in Nat
        /\ 10 + Len(BodyAt(n)) <= Length(n) /\ SubtypeOf(sent[n]) \in 0..MaxLen
    BY <1>1, <1>5, SentProperties
  <2>2. Length(n) - 10 \in Nat /\ 10 <= Length(n)
    BY <2>1
  <2>3. SubtypeOf(sent[n]) \in Nat
    <3>1. MaxLen \in Nat
      BY DEF MaxLen
    <3> QED
      BY <2>1, <3>1
  <2> QED
    BY <2>1, <2>2, <2>3, FitProperties
<1> HIDE DEF item
<1>8. /\ read' \in Seq([subtype : Nat, data : Bytes])
      /\ Len(read') = n
      /\ read'[n] = item
      /\ \A k \in 1..Len(read) : read'[k] = read[k]
  BY <1>1, <1>4, <1>6, <1>7 DEF TypeOK
<1>9. \A k : Place(k)' = Place(k) /\ BodyAt(k)' = BodyAt(k) /\ Length(k)' = Length(k)
  BY <1>2 DEF Place, Written, BodyAt, Length
<1>10. Written' = Written /\ U16At(buf, 2)' = U16At(buf, 2)
  BY <1>2 DEF Written, U16At
<1>11. start[n] \in Nat /\ Place(n + 1) = start[n] + Length(n)
  BY <1>5 DEF IInv, Placed
<1>12. TypeOK'
  <2>1. cursor' \in Nat
    BY <1>6, <1>7, <1>11
  <2> QED
    BY <1>1, <1>2, <1>8, <2>1 DEF TypeOK
<1>13. AsSent'
  <2> SUFFICES ASSUME NEW k \in DOMAIN read'
               PROVE  /\ read'[k].subtype = SubtypeOf(sent[k])
                      /\ read'[k].data = Fit(BodyAt(k), Length(k) - 10)
    BY <1>2, <1>9 DEF AsSent
  <2>1. k \in 1..n /\ n = Len(read) + 1 /\ DOMAIN read = 1..Len(read)
    BY <1>1, <1>4, <1>8 DEF TypeOK
  <2>2. CASE k = n
    BY <1>8, <2>2 DEF item
  <2>3. CASE k \in 1..Len(read)
    BY <1>1, <1>8, <2>1, <2>3 DEF AsSent
  <2> QED
    BY <1>3, <2>1, <2>2, <2>3
<1>14. ASSUME NEW k \in 1..Written
       PROVE  Placed(k)'
  <2>1. Placed(k)
    BY DEF IInv
  <2> QED
    BY <1>2, <1>9, <2>1 DEF Placed
<1>15. ReadingInv'
  <2>1. Len(read') <= Len(sent')
    BY <1>2, <1>5, <1>8
  <2>2. cursor' = Place(Len(read) + 1)'
    <3>1. Place(n + 1)' = start[n] + Length(n)
      BY <1>9, <1>11
    <3> QED
      BY <1>6, <1>8, <3>1 DEF Place
  <2>3. /\ Written' = Len(sent') /\ offset' <= MaxLen /\ Len(buf') = offset'
        /\ U16At(buf, 2)' = offset'
    BY <1>1, <1>2, <1>10 DEF IInv, ReadingInv
  <2> QED
    BY <2>1, <2>2, <2>3 DEF ReadingInv
<1>16. WritingInv' /\ DoneInv'
  BY <1>1, <1>2 DEF WritingInv, DoneInv
<1>17. Place(1)' = 8 /\ 8 <= offset' /\ Multiple8(offset')
  BY <1>2, <1>9 DEF IInv
<1>18. Written' <= Len(sent') /\ Len(read') <= Len(sent')
  <2>1. Written' <= Len(sent')
    BY <1>2, <1>10 DEF IInv
  <2> QED
    BY <1>2, <1>5, <1>8, <2>1
<1> QED
  BY <1>10, <1>12, <1>13, <1>14, <1>15, <1>16, <1>17, <1>18 DEF IInv

\* The other steps change nothing but the phase.
LEMMA PhaseInv ==
    ASSUME IInv,
           sent' = sent, start' = start, offset' = offset, buf' = buf,
           cursor' = cursor, read' = read,
           \/ phase' = phase
           \/ phase' = "raised"
           \/ phase = "reading" /\ phase' = "done" /\ cursor >= U16At(buf, 2)
    PROVE  IInv'
<1>1. \A k : Place(k)' = Place(k) /\ BodyAt(k)' = BodyAt(k) /\ Length(k)' = Length(k)
  BY DEF Place, Written, BodyAt, Length
<1>2. Written' = Written /\ U16At(buf, 2)' = U16At(buf, 2)
  BY DEF Written, U16At
<1>3. phase' \in {"writing", "reading", "done", "raised"} /\ TypeOK
  BY DEF IInv, TypeOK
<1>4. TypeOK'
  BY <1>3 DEF TypeOK
<1>5. Place(Len(read) + 1)' = Place(Len(read) + 1)
  BY DEF Place, Written
<1>6. ReadingInv'
  BY <1>2, <1>5 DEF IInv, ReadingInv
<1>7. WritingInv' /\ DoneInv'
  BY DEF IInv, WritingInv, ReadingInv, DoneInv, Unread
<1>8. AsSent'
  BY <1>1 DEF IInv, AsSent
<1>9. ASSUME NEW k \in 1..Written
      PROVE  Placed(k)'
  <2>1. Placed(k)
    BY DEF IInv
  <2> QED
    BY <1>1, <2>1 DEF Placed
<1>10. /\ Place(1)' = 8 /\ 8 <= offset' /\ Multiple8(offset')
       /\ Written' <= Len(sent') /\ Len(read') <= Len(sent')
  BY <1>1, <1>2 DEF IInv
<1> QED
  BY <1>2, <1>4, <1>6, <1>7, <1>8, <1>9, <1>10 DEF IInv

LEMMA NextInv == IInv /\ [Next]_vars => IInv'
<1> SUFFICES ASSUME IInv, [Next]_vars
             PROVE  IInv'
  OBVIOUS
<1>1. CASE WriteAction
  BY <1>1, WriteActionInv
<1>2. CASE RaiseWriting
  <2>1. /\ phase' = "raised" /\ sent' = sent /\ start' = start /\ offset' = offset
        /\ buf' = buf /\ cursor' = cursor /\ read' = read
    BY <1>2 DEF RaiseWriting
  <2> QED
    BY <2>1, PhaseInv
<1>3. CASE Finish
  BY <1>3, FinishInv
<1>4. CASE ReadAction
  BY <1>4, ReadActionInv
<1>5. CASE Complete
  <2>1. /\ phase = "reading" /\ phase' = "done" /\ cursor >= U16At(buf, 2)
        /\ sent' = sent /\ start' = start /\ offset' = offset
        /\ buf' = buf /\ cursor' = cursor /\ read' = read
    BY <1>5 DEF Complete
  <2> QED
    BY <2>1, PhaseInv
<1>6. CASE UNCHANGED vars
  <2>1. /\ phase' = phase /\ sent' = sent /\ start' = start /\ offset' = offset
        /\ buf' = buf /\ cursor' = cursor /\ read' = read
    BY <1>6 DEF vars
  <2> QED
    BY <2>1, PhaseInv
<1> QED
  BY <1>1, <1>2, <1>3, <1>4, <1>5, <1>6 DEF Next

LEMMA Invariance == Spec => []IInv
BY InitInv, NextInv, PTL DEF Spec

-----------------------------------------------------------------------------
\* Whatever is written, the buffer and what is read are byte strings and the
\* offsets are numbers: serialize and the parser never leave their types.
THEOREM StreamTypeOK == Spec => []TypeOK
<1>1. IInv => TypeOK
  BY DEF IInv
<1> QED
  BY <1>1, Invariance, PTL

\* Actions of any number and bodies of any length stand at multiples of 8,
\* serialize's offset never falls behind the buffer, and the parser only ever
\* stands at a multiple of 8.
THEOREM StreamAligned == Spec => []Aligned
<1>1. IInv => Aligned
  <2> SUFFICES ASSUME IInv
               PROVE  Aligned
    OBVIOUS
  <2>1. DOMAIN start = 1..Written
    BY DEF IInv, TypeOK, Written
  <2>2. \A k \in 1..Written : Multiple8(start[k])
    BY DEF IInv, Placed
  <2>3. Multiple8(offset) /\ (phase = "writing" => Len(buf) <= offset)
    BY DEF IInv, WritingInv
  <2>4. phase \in {"reading", "done"} => Multiple8(cursor)
    <3> SUFFICES ASSUME phase \in {"reading", "done"}
                 PROVE  Multiple8(cursor)
      OBVIOUS
    <3>1. cursor = Place(Len(read) + 1)
      BY DEF IInv, ReadingInv
    <3>2. Written \in Nat /\ Len(read) + 1 \in 1..(Len(read) + 1) /\ Len(read) \in Nat
      BY DEF IInv, TypeOK, Written
    <3>3. CASE Len(read) + 1 <= Written
      <4>1. Len(read) + 1 \in 1..Written
        BY <3>2, <3>3
      <4> QED
        BY <2>2, <3>1, <3>3, <4>1 DEF Place
    <3>4. CASE ~(Len(read) + 1 <= Written)
      BY <2>3, <3>1, <3>4 DEF Place
    <3> QED
      BY <3>3, <3>4
  <2> QED
    BY <2>1, <2>2, <2>3, <2>4 DEF Aligned, Multiple8
<1> QED
  BY <1>1, Invariance, PTL

\* The parser reads, one after the other, exactly the actions that were
\* written, each with its subtype and its body, and stops behind the last.
THEOREM StreamFramed == Spec => []Framed
<1>1. IInv => Framed
  <2> SUFFICES ASSUME IInv
               PROVE  Framed
    OBVIOUS
  <2>1. TypeOK /\ Len(read) <= Len(sent)
    BY DEF IInv
  <2>2. \A k \in DOMAIN read :
            /\ read[k].subtype = SubtypeOf(sent[k])
            /\ read[k].data = Fit(BodyOf(sent[k]), ActionLen(BodyOf(sent[k])) - 10)
    BY DEF IInv, AsSent, BodyAt, Length
  <2>3. Len(read) \in Nat /\ Len(sent) \in Nat
    <3>1. sent \in Seq(Actions)
      BY <2>1, StreamAssumption DEF TypeOK
    <3> QED
      BY <2>1, <3>1 DEF TypeOK
  <2>4. phase = "reading" /\ cursor < U16At(buf, 2) => U16At(buf, cursor) = 65535
    <3>1. PICK n \in Nat : n = Len(read) + 1
      BY <2>3
    <3> QED
      BY <3>1, HeaderFound
  <2>5. ASSUME phase = "done"
        PROVE  Len(read) = Len(sent)
    <3>1. Written = Len(sent) /\ cursor = Place(Len(read) + 1) /\ cursor >= offset
      BY <2>5 DEF IInv, ReadingInv, DoneInv
    <3>2. SUFFICES ASSUME Len(read) < Len(sent)
                   PROVE  FALSE
      BY <2>1, <2>3
    <3>3. PICK n \in 1..Len(sent) : n = Len(read) + 1
      BY <2>3, <3>2
    <3>4. Placed(n) /\ cursor = start[n]
      BY <3>1, <3>3 DEF IInv, Place
    <3>5. /\ start[n] \in Nat /\ start[n] + Length(n) <= offset
          /\ Length(n) \in Nat /\ 10 <= Length(n) /\ offset \in Nat
      <4>1. /\ Len(BodyAt(n)) \in Nat /\ Length(n) \in Nat
            /\ 10 + Len(BodyAt(n)) <= Length(n)
        BY <2>1, <3>3, SentProperties
      <4>2. 10 <= Length(n)
        BY <4>1
      <4> QED
        BY <2>1, <3>4, <4>1, <4>2 DEF Placed, TypeOK
    <3> QED
      BY <3>1, <3>4, <3>5
  <2> QED
    BY <2>1, <2>2, <2>4, <2>5 DEF Framed
<1> QED
  BY <1>1, Invariance, PTL

(***************************************************************************)
(* The NSH header.                                                         *)
(***************************************************************************)

\* The unassigned bits of the first and of the third byte.
Unassigned == 0..31

-----------------------------------------------------------------------------
\* One byte, or two, put together from their parts and taken apart.

LEMMA FirstByte ==
    ASSUME NEW v \in 0..3, NEW o \in 0..1, NEW u \in 0..1, NEW t \in 0..15
    PROVE  LET byte == 64 * v + 32 * o + 16 * u + t
           IN Ver(byte) = v /\ OBit(byte) = o /\ Low4(byte) = t /\ byte \in Byte
  BY DEF Ver, OBit, Low4, Byte

LEMMA SecondByte ==
    ASSUME NEW t \in 0..3, NEW l \in 0..63
    PROVE  LET byte == 64 * t + l
           IN High2(byte) = 64 * t /\ Low6(byte) = l /\ byte \in Byte
  BY DEF High2, Low6, Byte

LEMMA ThirdByte ==
    ASSUME NEW u \in 0..15, NEW m \in 0..15
    PROVE  Low4(16 * u + m) = m /\ 16 * u + m \in Byte
  BY DEF Low4, Byte

LEMMA TimeToLive ==
    ASSUME NEW t \in 0..63
    PROVE  /\ t \div 4 \in 0..15 /\ t % 4 \in 0..3
           /\ (256 * (t \div 4) + 64 * (t % 4)) \div 64 = t
  OBVIOUS

LEMMA AppendByte ==
    ASSUME NEW n \in Nat, NEW b \in Byte
    PROVE  (256 * n + b) \div 256 = n /\ (256 * n + b) % 256 = b
  BY DEF Byte

LEMMA SplitByte ==
    ASSUME NEW n \in Nat
    PROVE  n \div 256 \in Nat /\ n % 256 \in Byte /\ 256 * (n \div 256) + (n % 256) = n
  BY DEF Byte

LEMMA Identifier ==
    ASSUME NEW p \in Identifiers
    PROVE  /\ (p \div 256) \div 256 \in Byte /\ (p \div 256) % 256 \in Byte /\ p % 256 \in Byte
           /\ 256 * (256 * ((p \div 256) \div 256) + ((p \div 256) % 256)) + (p % 256) = p
  <1>1. p \in Nat
    BY DEF Identifiers
  <1>2. PICK q \in Nat : q = p \div 256
    BY <1>1, SplitByte
  <1>3. p % 256 \in Byte /\ 256 * q + (p % 256) = p
    BY <1>1, <1>2, SplitByte
  <1>4. PICK r \in Nat : r = q \div 256
    BY SplitByte
  <1>5. q % 256 \in Byte /\ 256 * r + (q % 256) = q
    BY <1>4, SplitByte
  <1>6. r \in Byte
    <2>1. q <= 65535
      BY <1>2 DEF Identifiers
    <2> QED
      BY <1>4, <2>1, SMT DEF Byte
  <1>7. 256 * (256 * r + (q % 256)) + (p % 256) = p
    BY <1>3, <1>5
  <1> QED
    BY <1>2, <1>3, <1>4, <1>5, <1>6, <1>7

-----------------------------------------------------------------------------
\* The buffer, byte by byte.

LEMMA BaseBytes ==
    ASSUME NEW h \in Header, NEW u \in Unassigned
    PROVE  /\ BaseHeader(h, u) \in Bytes
           /\ Len(BaseHeader(h, u)) = 4
  <1>1. h.ver \in 0..3 /\ h.O \in 0..1 /\ h.ttl \in 0..63 /\ h.length \in 0..63 /\ h.md \in 0..15
        /\ h.np \in Byte
    BY DEF Header
  <1>2. u % 2 \in 0..1 /\ u \div 2 \in 0..15
    BY DEF Unassigned
  <1>3. h.ttl \div 4 \in 0..15 /\ h.ttl % 4 \in 0..3
    BY <1>1, TimeToLive
  <1>4. 64 * h.ver + 32 * h.O + 16 * (u % 2) + (h.ttl \div 4) \in Byte
    BY <1>1, <1>2, <1>3 DEF Byte
  <1>5. 64 * (h.ttl % 4) + h.length \in Byte
    BY <1>1, <1>3 DEF Byte
  <1>6. 16 * (u \div 2) + h.md \in Byte
    BY <1>1, <1>2 DEF Byte
  <1> QED
    BY <1>1, <1>4, <1>5, <1>6 DEF BaseHeader, Bytes

LEMMA PathBytes ==
    ASSUME NEW h \in Header
    PROVE  PathHeader(h) \in Bytes /\ Len(PathHeader(h)) = 4
  <1>1. h.spi \in Identifiers /\ h.si \in Byte
    BY DEF Header
  <1> QED
    BY <1>1, Identifier DEF PathHeader, Bytes

LEMMA DrawnBytes ==
    ASSUME NEW h \in Header, NEW u \in Unassigned, NEW rest \in Bytes
    PROVE  LET bytes == Drawn(h, u) \o rest
           IN /\ bytes \in Bytes /\ Len(bytes) = 8 + Len(rest)
              /\ \A i \in 1..4 : bytes[i] = BaseHeader(h, u)[i]
              /\ \A i \in 1..4 : bytes[4 + i] = PathHeader(h)[i]
              /\ \A i \in 1..Len(rest) : bytes[8 + i] = rest[i]
  <1>1. BaseHeader(h, u) \in Bytes /\ Len(BaseHeader(h, u)) = 4
    BY BaseBytes
  <1>2. PathHeader(h) \in Bytes /\ Len(PathHeader(h)) = 4
    BY PathBytes
  <1> DEFINE base == BaseHeader(h, u)
             path == PathHeader(h)
  <1>3. Drawn(h, u) = base \o path
    BY DEF Drawn
  <1>4. SUFFICES
            LET bytes == (base \o path) \o rest
            IN /\ bytes \in Bytes /\ Len(bytes) = 8 + Len(rest)
               /\ \A i \in 1..4 : bytes[i] = base[i]
               /\ \A i \in 1..4 : bytes[4 + i] = path[i]
               /\ \A i \in 1..Len(rest) : bytes[8 + i] = rest[i]
    BY <1>3
  <1>5. base \in Bytes /\ Len(base) = 4 /\ path \in Bytes /\ Len(path) = 4
    BY <1>1, <1>2
  <1> HIDE DEF base, path
  <1> DEFINE front == base \o path
  <1>6. Joined(base, path, front)
    BY <1>5, ConcatBytes
  <1> HIDE DEF front
  <1>7. /\ front \in Bytes /\ Len(front) = 8
        /\ \A i \in 1..4 : front[i] = base[i]
        /\ \A i \in 1..4 : front[4 + i] = path[i]
    BY <1>5, <1>6 DEF Joined
  <1> DEFINE bytes == front \o rest
  <1>8. Joined(front, rest, bytes)
    BY <1>7, ConcatBytes
  <1> HIDE DEF bytes
  <1>9. /\ bytes \in Bytes /\ Len(bytes) = 8 + Len(rest)
        /\ \A i \in 1..8 : bytes[i] = front[i]
        /\ \A i \in 1..Len(rest) : bytes[8 + i] = rest[i]
    BY <1>7, <1>8 DEF Joined
  <1>10. \A i \in 1..4 : bytes[i] = base[i] /\ bytes[4 + i] = path[i]
    BY <1>7, <1>9
  <1> QED
    BY <1>9, <1>10 DEF front, bytes

-----------------------------------------------------------------------------
\* The parser finds, in a buffer of any length, the attributes that the drawing
\* puts there, whatever the unassigned bits are (nsh.py:10-17, 36-48).
THEOREM ParserReads ==
    ASSUME NEW h \in Header, NEW u \in Unassigned, NEW rest \in Bytes
    PROVE  LET bytes == Drawn(h, u) \o rest
           IN ~Raises(bytes) /\ parser(bytes) = h
  <1> DEFINE bytes == Drawn(h, u) \o rest
  <1>1. /\ Len(bytes) = 8 + Len(rest) /\ Len(rest) \in Nat
        /\ \A i \in 1..4 : bytes[i] = BaseHeader(h, u)[i]
        /\ \A i \in 1..4 : bytes[4 + i] = PathHeader(h)[i]
    BY DrawnBytes DEF Bytes
  <1>2. /\ h.ver \in 0..3 /\ h.O \in 0..1 /\ h.ttl \in 0..63 /\ h.length \in 0..63 /\ h.md \in 0..15
        /\ h.np \in Byte /\ h.spi \in Identifiers /\ h.si \in Byte
    BY DEF Header
  <1>3. h = [ver |-> h.ver, O |-> h.O, ttl |-> h.ttl, length |-> h.length, md |-> h.md, np |-> h.np,
             spi |-> h.spi, si |-> h.si]
    BY DEF Header
  <1> HIDE DEF bytes
  <1>4. /\ bytes[1] = 64 * h.ver + 32 * h.O + 16 * (u % 2) + (h.ttl \div 4)
        /\ bytes[2] = 64 * (h.ttl % 4) + h.length
        /\ bytes[3] = 16 * (u \div 2) + h.md
        /\ bytes[4] = h.np
    BY <1>1 DEF BaseHeader
  <1>5. /\ bytes[5] = (h.spi \div 256) \div 256 /\ bytes[6] = (h.spi \div 256) % 256
        /\ bytes[7] = h.spi % 256 /\ bytes[8] = h.si
    <2>1. /\ bytes[4 + 1] = PathHeader(h)[1] /\ bytes[4 + 2] = PathHeader(h)[2]
          /\ bytes[4 + 3] = PathHeader(h)[3] /\ bytes[4 + 4] = PathHeader(h)[4]
      BY <1>1
    <2> QED
      BY <2>1 DEF PathHeader
  <1>6. u % 2 \in 0..1 /\ u \div 2 \in 0..15
    BY DEF Unassigned
  <1>7. Ver(bytes[1]) = h.ver /\ OBit(bytes[1]) = h.O /\ Low4(bytes[1]) = h.ttl \div 4
    <2>1. h.ttl \div 4 \in 0..15
      BY <1>2, TimeToLive
    <2> QED
      BY <1>2, <1>4, <1>6, <2>1, FirstByte
  <1>8. High2(bytes[2]) = 64 * (h.ttl % 4) /\ Low6(bytes[2]) = h.length
    <2>1. h.ttl % 4 \in 0..3
      BY <1>2, TimeToLive
    <2> QED
      BY <1>2, <1>4, <2>1, SecondByte
  <1>9. ttlOf(bytes[1], bytes[2]) = h.ttl
    BY <1>2, <1>7, <1>8, TimeToLive DEF ttlOf
  <1>10. Low4(bytes[3]) = h.md
    BY <1>2, <1>4, <1>6, ThirdByte
  <1>11. spisi(bytes) \div 256 = h.spi /\ spisi(bytes) % 256 = h.si
    <2>1. 256 * (256 * bytes[5] + bytes[6]) + bytes[7] = h.spi
      BY <1>2, <1>5, Identifier
    <2>2. h.spi \in Nat
      BY <1>2 DEF Identifiers
    <2>3. spisi(bytes) = 256 * h.spi + h.si
      BY <1>5, <2>1 DEF spisi
    <2> QED
      BY <1>2, <2>2, <2>3, AppendByte
  <1>12. ~Raises(bytes)
    BY <1>1 DEF Raises, MIN_LEN
  <1>13. parser(bytes) = h
    BY <1>3, <1>4, <1>7, <1>8, <1>9, <1>10, <1>11 DEF parser
  <1> QED
    BY <1>12, <1>13 DEF bytes

\* Where the length says that the context ends, the parser hands on exactly what
\* follows (nsh.py:48).
THEOREM PayloadFound ==
    ASSUME NEW h \in Header, NEW u \in Unassigned, NEW context \in Bytes, NEW data \in Bytes,
           4 * h.length = 8 + Len(context)
    PROVE  payload(Drawn(h, u) \o (context \o data)) = data
  <1> DEFINE rest == context \o data
             bytes == Drawn(h, u) \o rest
             skipped == 4 * h.length
  <1>1. Joined(context, data, rest)
    BY ConcatBytes
  <1>2. Len(context) \in Nat /\ Len(data) \in Nat
    BY DEF Bytes
  <1>3. rest \in Bytes /\ Len(rest) = Len(context) + Len(data)
    BY <1>1 DEF Joined
  <1>4. parser(bytes) = h
    BY <1>3, ParserReads
  <1>5. /\ bytes \in Bytes /\ Len(bytes) = 8 + Len(rest)
        /\ \A i \in 1..Len(rest) : bytes[8 + i] = rest[i]
    BY <1>3, DrawnBytes
  <1> HIDE DEF bytes, rest
  <1>6. skipped \in Nat /\ skipped = 8 + Len(context)
    BY <1>2
  <1> HIDE DEF skipped
  <1>7. Len(bytes) = skipped + Len(data)
    BY <1>2, <1>3, <1>5, <1>6
  <1> DEFINE back == SubSeq(bytes, skipped + 1, Len(bytes))
  <1>8. /\ back \in Bytes /\ Len(back) = Len(data)
        /\ \A i \in 1..Len(data) : back[i] = bytes[skipped + i]
    <2>1. Len(bytes) = skipped + Len(data) /\ bytes \in Seq(Byte)
      BY <1>5, <1>7 DEF Bytes
    <2>2. \A i \in (skipped + 1)..Len(bytes) : bytes[i] \in Byte
      BY <1>2, <1>6, <2>1, ElementOfSeq
    <2>3. /\ back \in Seq(Byte) /\ Len(back) = Len(data)
          /\ \A i \in 1..Len(data) : back[i] = bytes[(skipped + 1) + i - 1]
      BY <1>2, <1>6, <2>1, <2>2, SubSeqProperties
    <2>4. ASSUME NEW i \in 1..Len(data)
          PROVE  back[i] = bytes[skipped + i]
      <3>1. (skipped + 1) + i - 1 = skipped + i
        BY <1>2, <1>6
      <3> QED
        BY <2>3, <3>1
    <2> QED
      BY <2>3, <2>4 DEF Bytes
  <1>9. ASSUME NEW i \in 1..Len(data)
        PROVE  bytes[skipped + i] = data[i]
    <2>1. Len(context) + i \in 1..Len(rest) /\ skipped + i = 8 + (Len(context) + i)
      BY <1>2, <1>3, <1>6
    <2>2. bytes[skipped + i] = rest[Len(context) + i]
      BY <1>5, <2>1
    <2>3. rest[Len(context) + i] = data[i]
      BY <1>1 DEF Joined
    <2> QED
      BY <2>2, <2>3
  <1>10. back = data
    <2>1. back \in Seq(Byte) /\ data \in Seq(Byte)
      BY <1>8 DEF Bytes
    <2> HIDE DEF back
    <2> QED
      BY <1>8, <1>9, <2>1, SeqEqual
  <1> QED
    BY <1>4, <1>10 DEF payload, From, back, skipped, bytes, rest

-----------------------------------------------------------------------------
\* The other way round: bytes that have been taken apart, put together again.

LEMMA FirstByteAgain ==
    ASSUME NEW b \in Byte
    PROVE  /\ Ver(b) \in 0..3 /\ OBit(b) \in 0..1 /\ Low4(b) \in 0..15 /\ (b \div 16) % 2 \in 0..1
           /\ 64 * Ver(b) + 32 * OBit(b) + 16 * ((b \div 16) % 2) + Low4(b) = b
  BY DEF Ver, OBit, Low4, Byte

LEMMA SecondByteAgain ==
    ASSUME NEW b \in Byte
    PROVE  /\ b \div 64 \in 0..3 /\ High2(b) = 64 * (b \div 64)
           /\ Low6(b) \in 0..63 /\ 64 * (b \div 64) + Low6(b) = b
  BY DEF High2, Low6, Byte

LEMMA ThirdByteAgain ==
    ASSUME NEW b \in Byte
    PROVE  b \div 16 \in 0..15 /\ Low4(b) \in 0..15 /\ 16 * (b \div 16) + Low4(b) = b
  BY DEF Low4, Byte

LEMMA TimeToLiveAgain ==
    ASSUME NEW t \in 0..15, NEW s \in 0..3
    PROVE  LET ttl == (256 * t + 64 * s) \div 64
           IN ttl \in 0..63 /\ ttl \div 4 = t /\ ttl % 4 = s
  OBVIOUS

LEMMA UnassignedAgain ==
    ASSUME NEW v \in 0..1, NEW w \in 0..15
    PROVE  v + 2 * w \in Unassigned /\ (v + 2 * w) % 2 = v /\ (v + 2 * w) \div 2 = w
  BY DEF Unassigned

LEMMA IdentifierAgain ==
    ASSUME NEW a \in Byte, NEW b \in Byte, NEW c \in Byte
    PROVE  LET p == 256 * (256 * a + b) + c
           IN /\ p \in Identifiers
              /\ (p \div 256) \div 256 = a /\ (p \div 256) % 256 = b /\ p % 256 = c
  <1>1. PICK q \in Nat : q = 256 * a + b
    BY DEF Byte
  <1>2. q \div 256 = a /\ q % 256 = b
    <2>1. a \in Nat
      BY DEF Byte
    <2> QED
      BY <1>1, <2>1, AppendByte
  <1>3. (256 * q + c) \div 256 = q /\ (256 * q + c) % 256 = c
    BY AppendByte
  <1>4. q <= 65535
    BY <1>1, SMT DEF Byte
  <1>5. 256 * q + c \in Nat
    BY DEF Byte
  <1>6. 256 * q + c \in Identifiers
    BY <1>3, <1>4, <1>5 DEF Identifiers
  <1> QED
    BY <1>1, <1>2, <1>3, <1>6

\* The parser drops nothing but the unassigned bits: of any 8 bytes it makes
\* attributes of their widths, from which the same 8 bytes can be drawn
\* (nsh.py:36-48).
THEOREM NothingDropped ==
    ASSUME NEW bytes \in Bytes, ~Raises(bytes)
    PROVE  /\ parser(bytes) \in Header
           /\ \E u \in Unassigned : \A i \in 1..8 : Drawn(parser(bytes), u)[i] = bytes[i]
  <1>1. \A i \in 1..8 : bytes[i] \in Byte
    <2>1. Len(bytes) \in Nat /\ 8 <= Len(bytes)
      BY DEF Bytes, Raises, MIN_LEN
    <2> QED
      BY <2>1, ElementOfSeq DEF Bytes
  <1> DEFINE h == parser(bytes)
             v == (bytes[1] \div 16) % 2
             w == bytes[3] \div 16
  <1>2. /\ h.ver = Ver(bytes[1]) /\ h.O = OBit(bytes[1]) /\ h.ttl = ttlOf(bytes[1], bytes[2])
        /\ h.length = Low6(bytes[2]) /\ h.md = Low4(bytes[3]) /\ h.np = bytes[4]
        /\ h.spi = spisi(bytes) \div 256 /\ h.si = spisi(bytes) % 256
    BY DEF parser
  <1>3. /\ Ver(bytes[1]) \in 0..3 /\ OBit(bytes[1]) \in 0..1 /\ Low4(bytes[1]) \in 0..15 /\ v \in 0..1
        /\ 64 * Ver(bytes[1]) + 32 * OBit(bytes[1]) + 16 * v + Low4(bytes[1]) = bytes[1]
    BY <1>1, FirstByteAgain
  <1>4. /\ bytes[2] \div 64 \in 0..3 /\ High2(bytes[2]) = 64 * (bytes[2] \div 64)
        /\ Low6(bytes[2]) \in 0..63 /\ 64 * (bytes[2] \div 64) + Low6(bytes[2]) = bytes[2]
    BY <1>1, SecondByteAgain
  <1>5. w \in 0..15 /\ Low4(bytes[3]) \in 0..15 /\ 16 * w + Low4(bytes[3]) = bytes[3]
    BY <1>1, ThirdByteAgain
  <1>6. h.ttl \in 0..63 /\ h.ttl \div 4 = Low4(bytes[1]) /\ h.ttl % 4 = bytes[2] \div 64
    BY <1>2, <1>3, <1>4, TimeToLiveAgain DEF ttlOf
  <1>7. PICK a \in Byte, b \in Byte, c \in Byte, i8 \in Byte :
            a = bytes[5] /\ b = bytes[6] /\ c = bytes[7] /\ i8 = bytes[8]
    BY <1>1
  <1>8. PICK p \in Identifiers :
            /\ p = 256 * (256 * a + b) + c
            /\ (p \div 256) \div 256 = a /\ (p \div 256) % 256 = b /\ p % 256 = c
    BY IdentifierAgain
  <1>9. h.spi = p /\ h.si = bytes[8]
    <2>1. p \in Nat
      BY DEF Identifiers
    <2>2. spisi(bytes) = 256 * p + i8
      BY <1>7, <1>8 DEF spisi
    <2> QED
      BY <1>2, <1>7, <2>1, <2>2, AppendByte
  <1>10. h \in Header
    <2>1. h.np \in Byte /\ h.si \in Byte
      BY <1>1, <1>2, <1>9
    <2>2. /\ h.ver \in 0..3 /\ h.O \in 0..1 /\ h.length \in 0..63 /\ h.md \in 0..15
          /\ h.spi \in Identifiers
      BY <1>2, <1>3, <1>4, <1>5, <1>8, <1>9
    <2>3. h = [ver |-> h.ver, O |-> h.O, ttl |-> h.ttl, length |-> h.length, md |-> h.md, np |-> h.np,
               spi |-> h.spi, si |-> h.si]
      BY DEF parser
    <2> HIDE DEF h
    <2> QED
      BY <1>6, <2>1, <2>2, <2>3 DEF Header
  <1> DEFINE u == v + 2 * w
  <1>11. u \in Unassigned /\ u % 2 = v /\ u \div 2 = w
    BY <1>3, <1>5, UnassignedAgain
  <1> HIDE DEF h, u, v, w
  <1>12. /\ BaseHeader(h, u)[1] = bytes[1] /\ BaseHeader(h, u)[2] = bytes[2]
         /\ BaseHeader(h, u)[3] = bytes[3] /\ BaseHeader(h, u)[4] = bytes[4]
    BY <1>2, <1>3, <1>4, <1>5, <1>6, <1>11 DEF BaseHeader
  <1>13. /\ PathHeader(h)[1] = bytes[5] /\ PathHeader(h)[2] = bytes[6]
         /\ PathHeader(h)[3] = bytes[7] /\ PathHeader(h)[4] = bytes[8]
    BY <1>7, <1>8, <1>9 DEF PathHeader
  <1>14. \A i \in 1..4 : Drawn(h, u)[i] = BaseHeader(h, u)[i] /\ Drawn(h, u)[4 + i] = PathHeader(h)[i]
    <2>1. BaseHeader(h, u) \in Bytes /\ Len(BaseHeader(h, u)) = 4
      BY <1>10, <1>11, BaseBytes
    <2>2. PathHeader(h) \in Bytes /\ Len(PathHeader(h)) = 4
      BY <1>10, PathBytes
    <2>3. Joined(BaseHeader(h, u), PathHeader(h), Drawn(h, u))
      BY <2>1, <2>2, ConcatBytes DEF Drawn
    <2> QED
      BY <2>1, <2>2, <2>3 DEF Joined
  <1>15. ASSUME NEW i \in 1..8
         PROVE  Drawn(h, u)[i] = bytes[i]
    <2>1. /\ Drawn(h, u)[4 + 1] = PathHeader(h)[1] /\ Drawn(h, u)[4 + 2] = PathHeader(h)[2]
          /\ Drawn(h, u)[4 + 3] = PathHeader(h)[3] /\ Drawn(h, u)[4 + 4] = PathHeader(h)[4]
      BY <1>14
    <2>2. i \in {1, 2, 3, 4, 5, 6, 7, 8}
      OBVIOUS
    <2> QED
      BY <1>12, <1>13, <1>14, <2>1, <2>2
  <1> QED
    BY <1>10, <1>11, <1>15 DEF h

(***************************************************************************)
(* Ranges of bits.                                                         *)
(***************************************************************************)

Fields == INSTANCE NxFields

-----------------------------------------------------------------------------
\* Packing bits: what one call adds below the 6 bits is taken out again.

LEMMA SixBits ==
    ASSUME NEW a \in Nat, NEW b \in 0..63
    PROVE  (a * 64 + b) \div 64 = a /\ (a * 64 + b) % 64 = b
OBVIOUS

\* For every range of at most 64 bits that starts within the first 1024 of a
\* field, ofs_nbits (nicira_ext.py, line 332) yields a number of 16 bits, from
\* which a switch takes the same first and last bit: what RangeKept says of the
\* ranges in the instances.  The bounds are those of the format, and each is
\* needed: a longer range runs into the first bit, a later one out of 16 bits.
THEOREM RangePacked ==
    ASSUME NEW first \in Nat, NEW last \in Nat, first <= last,
           NEW packed, packed = Fields!ofs_nbits(first, last)
    PROVE  /\ packed \in Nat
           /\ last - first < 64 => Fields!RangeOf(packed) = <<first, last>>
           /\ last - first < 64 /\ first < 1024 => packed < 65536
           /\ last - first >= 64 => Fields!RangeOf(packed) # <<first, last>>
           /\ first >= 1024 => packed >= 65536
PROOF
  <1>1. packed = first * 64 + (last - first) /\ last - first \in Nat /\ packed \in Nat
    BY DEF Fields!ofs_nbits
  <1>2. ASSUME last - first < 64
        PROVE  Fields!RangeOf(packed) = <<first, last>>
    <2>1. packed \div 64 = first /\ packed % 64 = last - first
      BY <1>1, <1>2, SixBits
    <2> QED
      BY <1>1, <2>1 DEF Fields!RangeOf
  <1>3. last - first < 64 /\ first < 1024 => packed < 65536
    BY <1>1
  <1>4. ASSUME last - first >= 64
        PROVE  Fields!RangeOf(packed) # <<first, last>>
    <2>1. packed \in Nat /\ packed >= (first + 1) * 64
      BY <1>1, <1>4
    <2>2. packed \div 64 >= first + 1
      BY <2>1
    <2> QED
      BY <2>2 DEF Fields!RangeOf
  <1>5. first >= 1024 => packed >= 65536
    BY <1>1
  <1> QED
    BY <1>1, <1>2, <1>3, <1>4, <1>5
=============================================================================
