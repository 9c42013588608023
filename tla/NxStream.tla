------------------------------ MODULE NxStream ------------------------------
(***************************************************************************)
(* A list of Nicira actions is written into an instruction, one after the  *)
(* other, and read back.  NXAction.serialize writes one action; the loops  *)
(* around it are those of the OpenFlow library (OFPInstructionActions),    *)
(* external to the repository.                                             *)
(*                                                                         *)
(* What an action's body is does not matter here: it is any byte string.   *)
(***************************************************************************)
EXTENDS NxFraming

CONSTANTS
    Actions,        \* the actions there are
    Lists,          \* the lists of them that are written
    SubtypeOf(_),    \* subtype of an action
    BodyOf(_),      \* what serialize_body returns for it
    Unwritable(_)   \* actions for which serialize_body raises

ASSUME StreamAssumption ==
    /\ Lists \subseteq Seq(Actions)
    /\ \A a \in Actions : SubtypeOf(a) \in 0..MaxLen /\ BodyOf(a) \in Bytes

VARIABLES
    sent,           \* the actions of the instruction
    phase,          \* "writing", "reading", "done" or "raised"
    start,          \* where the actions written so far begin
    offset,         \* action_offset, where the next one goes
    buf,            \* the buffer
    cursor,         \* where the reader is
    read            \* subtype and data of what has been read
vars == <<sent, phase, start, offset, buf, cursor, read>>

OFP_INSTRUCTION_ACTIONS_SIZE == 8
Init ==
    /\ sent \in Lists
    /\ phase = "writing"
    /\ start = <<>> /\ buf = <<>> /\ read = <<>>
    /\ offset = OFP_INSTRUCTION_ACTIONS_SIZE /\ cursor = OFP_INSTRUCTION_ACTIONS_SIZE

Written == Len(start)
Pending == phase = "writing" /\ Written < Len(sent)

\* mutant: any length is written
Writable_AnyLength(a) == ~Unwritable(a)

\* struct packs lengths of up to 16 bits.
Writable(a) == ~Unwritable(a) /\ ActionLen(BodyOf(a)) <= MaxLen

\* serialize: the header at the offset, the body at the end of the buffer.
WriteAction ==
    /\ Pending
    /\ LET a == sent[Written + 1]
           length == ActionLen(BodyOf(a))
       IN /\ Writable(a)
          /\ buf' = PackInto(buf, offset, ActionHeader(length, SubtypeOf(a))) \o BodyOf(a)
          /\ offset' = offset + length
    /\ start' = Append(start, offset)
    /\ UNCHANGED <<sent, phase, cursor, read>>

\* struct.error: a length of more than 16 bits, or an error in the body.
RaiseWriting ==
    /\ \/ Pending /\ ~Writable(sent[Written + 1])
       \/ phase = "writing" /\ Written = Len(sent) /\ offset > MaxLen
    /\ phase' = "raised"
    /\ UNCHANGED <<sent, start, offset, buf, cursor, read>>

\* Type 4 (to apply actions), length, 4 bytes of padding.
InstructionHeader(length) == <<0, 4, length \div 256, length % 256, 0, 0, 0, 0>>

\* The instruction fills up to its length and writes its own header.
Finish ==
    /\ phase = "writing" /\ Written = Len(sent) /\ offset <= MaxLen
    /\ LET filled == PackInto(buf, offset, Zeros(RoundUp(offset, 8) - offset))
       IN buf' = PackInto(filled, 0, InstructionHeader(RoundUp(offset, 8)))
    /\ phase' = "reading"
    /\ UNCHANGED <<sent, start, offset, cursor, read>>

\* OFPActionExperimenter.parser: the data of an action, as its length says.
ReadAction ==
    /\ phase = "reading" /\ cursor < U16At(buf, 2)
    /\ U16At(buf, cursor) = 65535
    /\ LET length == U16At(buf, cursor + 2)
       IN /\ read' = Append(read, [subtype |-> U16At(buf, cursor + 8),
                                   data |-> [i \in 1..(length - 10) |-> buf[cursor + 10 + i]]])
          /\ cursor' = cursor + length
    /\ UNCHANGED <<sent, phase, start, offset, buf>>

Complete ==
    /\ phase = "reading" /\ cursor >= U16At(buf, 2)
    /\ phase' = "done"
    /\ UNCHANGED <<sent, start, offset, buf, cursor, read>>

Next == WriteAction \/ RaiseWriting \/ Finish \/ ReadAction \/ Complete
Spec == Init /\ [][Next]_vars

-----------------------------------------------------------------------------
TypeOK ==
    /\ sent \in Lists
    /\ phase \in {"writing", "reading", "done", "raised"}
    /\ start \in Seq(Nat) /\ offset \in Nat /\ cursor \in Nat
    /\ buf \in Bytes
    /\ read \in Seq([subtype : Nat, data : Bytes])

\* Actions stand at multiples of 8, as OpenFlow asks, although serialize (line
\* 215) does not write the filling that it counts; the offset never falls behind
\* the buffer, where "buf += data" would put a body in a wrong place; and the
\* reader only ever stands at a multiple of 8, as the lengths it goes by are.
Aligned ==
    /\ \A k \in DOMAIN start : start[k] % 8 = 0
    /\ phase = "writing" => Len(buf) <= offset /\ offset % 8 = 0
    /\ phase \in {"reading", "done"} => cursor % 8 = 0

\* The reader finds the actions that were written, each where it begins, with
\* the subtype and the whole body, and then zeros: no body is cut short, runs
\* into the next one, or is read as a header.  It neither gets stuck nor goes
\* round for ever: what is read is never more than what was sent.
Framed ==
    /\ Len(read) <= Len(sent)
    /\ \A k \in DOMAIN read :
            LET body == BodyOf(sent[k])
            IN /\ read[k].subtype = SubtypeOf(sent[k])
               /\ read[k].data = Fit(body, ActionLen(body) - 10)
    /\ phase = "reading" /\ cursor < U16At(buf, 2) => U16At(buf, cursor) = 65535
    /\ phase = "done" => Len(read) = Len(sent)
=============================================================================
