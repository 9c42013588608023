----------------------------- MODULE NxFraming -----------------------------
(***************************************************************************)
(* NXAction.serialize: what stands around the body of a Nicira action.     *)
(***************************************************************************)
EXTENDS Bytes

\* mutant: the length is not rounded up
ActionLen_Exact(body) == 10 + Len(body)
\* mutant: the subtype is written over Nicira's id
ActionHeader_NoId(length, subtype) ==
    <<255, 255, length \div 256, length % 256, subtype \div 256, subtype % 256, 35, 32, 0, 0>>

\* Type (that of an experimenter, 0xffff), length, Nicira's id 0x00002320 and
\* the subtype; the body follows, and zeros up to the next multiple of 8 count
\* in the length without being written.
ActionLen(body) == RoundUp(10 + Len(body), 8)
ActionHeader(length, subtype) ==
    <<255, 255, length \div 256, length % 256, 0, 0, 35, 32, subtype \div 256, subtype % 256>>
MaxLen == 65535
=============================================================================
