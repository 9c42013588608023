------------------------------ MODULE NxCodec ------------------------------
(***************************************************************************)
(* The classes of NxActions in the stream of NxStream: which actions come  *)
(* back from the wire as they were sent.                                   *)
(***************************************************************************)
EXTENDS NxActions, NxStream

Short(f) == Len(FieldHeader(f)) = 4

\* What reading yields, and what serialising has left of the k-th action.
\* "range" is a history attribute: the bits that an ofs_nbits was meant for.
Bare(a) == [x \in DOMAIN a \ {"range"} |-> a[x]]
Received(k) == Parse(read[k].subtype, read[k].data)
Sent(k) == Bare(Fixup(sent[k]))

\* The actions that a reader gets back, of those whose integers fit the bytes
\* that their formats keep for them.  The others lose
\*   - the encapsulation with NSH, whose subtype is registered for Ethernet;
\*   - a field of an experimenter (all of NSH's) where 4 bytes are kept for it;
\*   - a specification of 1024 bits or more, one to match 0 bits of a subfield
\*     (its header is that of padding), an integer that its bits cannot hold;
\*   - pause = False; everything when there is a list of user data but no data;
\*   - a number for zone_src, read as the name of a field or not at all, and
\*     None, read as no name; actions nested behind one that does not fill its
\*     length;
\*   - where the data of an unknown action ends.
Fills(a) == (10 + Len(SimpleBody(a))) % 8 = 0
SpecSurvives(s) ==
    /\ s.n_bits < 1024
    /\ Len(s.src) = 2 /\ s.dst_type = "match" => s.n_bits > 0
    /\ Len(s.src) = 1 => Num(BE(s.src[1], SourceLen(s.n_bits))) = s.src[1]
Survives(a) ==
    /\ a.cls # "EncapNsh"
    /\ a.cls \in {"RegLoad", "Multipath"} => Short(a.dst)
    /\ a.cls \in {"OutputReg", "OutputReg2"} => Short(a.src)
    /\ a.cls \in {"StackPush", "StackPop"} => Short(a.field)
    /\ a.cls = "Learn" => \A k \in DOMAIN a.specs : SpecSurvives(a.specs[k])
    /\ a.cls = "Controller2" =>
           /\ "pause" \in DOMAIN a.props => a.props.pause
           /\ "userdata" \in DOMAIN a.props => a.props.userdata # <<>>
    /\ a.cls = "Unknown" => Fills(a)
    /\ a.cls = "CT" =>
           /\ "zone_src" \in DOMAIN a
           /\ a.zone_src # "" => Short(a.zone_src)
           /\ \A k \in DOMAIN a.actions : /\ k < Len(a.actions) => Fills(a.actions[k])
                                          /\ a.actions[k].cls # "EncapNsh"

\* An action is read back as it is in the sender, every attribute of it, if and
\* only if it is one of those that survive, whatever stands before and behind
\* it: formats, offsets, filling, optional parts, counts and the dispatch on
\* the subtype of one class agree with those of the others.
ReadsBack == \A k \in DOMAIN read : (Received(k) = Sent(k)) <=> Survives(sent[k])

\* The bytes on the wire are as many as nicira_ext.py declares (lines 70-134):
\* at least as many for the classes of varying length, Note, Learn and Bundle;
\* and more for a RegMove of a field whose header has 8 bytes.
DeclaredSizes ==
    \A k \in DOMAIN start :
        LET a == sent[k]
            length == ActionLen(BodyOf(a))
        IN a.cls \in DOMAIN NX_ACTION_SIZE =>
               IF a.cls \in {"Note", "Learn", "Bundle"} THEN length >= NX_ACTION_SIZE[a.cls]
               ELSE IF a.cls = "RegMove" /\ ~(Short(a.src_field) /\ Short(a.dst_field))
               THEN length > NX_ACTION_SIZE.RegMove
               ELSE length = NX_ACTION_SIZE[a.cls]

\* A header that RegMove and RegLoad2 put on the wire, without and with a mask,
\* from the table of fields (lines 650-753), is the one that nicira_ext.py spells
\* out for this class and number (lines 347-433), where it does.
HeadersAgree ==
    \A k \in DOMAIN start :
        LET header == Slice(buf, start[k] + (IF sent[k].cls = "RegMove" THEN 16 ELSE 10), 4)
        IN sent[k].cls \in {"RegMove", "RegLoad2"} =>
               \A h \in NxmHeaders : SubSeq(h, 1, 3) = SubSeq(header, 1, 3) => h = header

\* A bit range packed by ofs_nbits (nicira_ext.py, line 332) is the one that
\* 10 bits of start and 6 bits of length, less one, stand for in the switch.
RangeKept ==
    \A k \in DOMAIN start :
        "range" \in DOMAIN sent[k] => RangeOf(sent[k].ofs_nbits) = sent[k].range

\* What the documentation of the classes says without exceptions: an action is
\* read back as the one that was sent.
SentIsRead == \A k \in DOMAIN read : Received(k) = Sent(k)
=============================================================================
