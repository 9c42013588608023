----------------------------- MODULE NxActions -----------------------------
(***************************************************************************)
(* The Nicira extension actions of ext/nx_actions.py: what each writes     *)
(* behind its subtype (serialize_body) and what is read from there         *)
(* (parser).                                                               *)
(*                                                                         *)
(* An action is a record of its class and its attributes.  Most classes    *)
(* are their format string: a sequence of items, by which the same bytes   *)
(* are written and read.  The others have a Body and a Read of their own.  *)
(* What raises an exception while it is read is NotRead.                   *)
(***************************************************************************)
EXTENDS NxFields, NxFraming, SequencesExt

CONSTANT NotRead        \* the outcome of a parser that raises

-----------------------------------------------------------------------------
\* Format strings.

Item(kind, name, size, value) ==
    [kind |-> kind, name |-> name, size |-> size, value |-> value]
U(name, size) == Item("integer", name, size, 0)         \* B, H, I, Q
X(size) == Item("constant", "", size, 0)                \* 6x
C(value, size) == Item("constant", "", size, value)     \* an attribute that __init__ fixes
F(name) == Item("field", name, 4, 0)                    \* 4s, the header of a field
N(name) == Item("number", name, 4, 0)                   \* I, read as a header >> 9

ItemBytes(i, a) ==
    CASE i.kind = "integer" -> BE(a[i.name], i.size)
      [] i.kind = "constant" -> BE(i.value, i.size)
      [] OTHER -> Fit(FieldHeader(a[i.name]), 4)
ItemValue(i, b) ==
    CASE i.kind = "integer" -> Num(b)
      [] i.kind = "field" -> HeaderField(b)
      [] i.kind = "number" -> FieldNamed(Num(Slice(b, 0, 2)), <<>>, b[3] \div 2)

Size(fmt) == FoldLeft(LAMBDA n, i : n + i.size, 0, fmt)
Pack(fmt, a) == FlattenSeq([k \in DOMAIN fmt |-> ItemBytes(fmt[k], a)])

\* Reading needs the bytes, and 4 more where a header is that of an
\* experimenter: these are never there, the item has 4.
ItemAt(fmt, k, b) == Slice(b, Size(SubSeq(fmt, 1, k - 1)), fmt[k].size)
Readable(fmt, b) ==
    /\ Len(b) >= Size(fmt)
    /\ \A k \in DOMAIN fmt : fmt[k].kind = "field" => HasHeader(ItemAt(fmt, k, b))
Unpack(fmt, b) ==
    LET named == {k \in DOMAIN fmt : fmt[k].kind # "constant"}
    IN [n \in {fmt[k].name : k \in named} |->
            LET k == CHOOSE j \in named : fmt[j].name = n
            IN ItemValue(fmt[k], ItemAt(fmt, k, b))]

Class(name, fmt) == [name |-> name, fmt |-> fmt]

-----------------------------------------------------------------------------
\* The classes that are their format.

SetQueue == Class("SetQueue", <<X(2), U("queue_id", 4)>>)
PopQueue == Class("PopQueue", <<X(6)>>)
RegLoad == Class("RegLoad", <<U("ofs_nbits", 2), N("dst"), U("value", 8)>>)
SetTunnelBase(name, fmt) == Class(name, fmt)
\* mutant: the padding of SetTunnel64
SetTunnel_Wide == SetTunnelBase("SetTunnel", <<X(6), U("tun_id", 8)>>)

SetTunnel == SetTunnelBase("SetTunnel", <<X(2), U("tun_id", 4)>>)
SetTunnel64 == SetTunnelBase("SetTunnel64", <<X(6), U("tun_id", 8)>>)
Resubmit == Class("Resubmit", <<U("in_port", 2), X(4)>>)
ResubmitTable ==
    Class("ResubmitTable", <<U("in_port", 2), U("table_id", 1), X(3)>>)
OutputReg ==
    Class("OutputReg", <<U("ofs_nbits", 2), F("src"), U("max_len", 2), X(6)>>)
OutputReg2 ==
    Class("OutputReg2", <<U("ofs_nbits", 2), U("max_len", 2), F("src"), X(6)>>)
Exit == Class("Exit", <<X(6)>>)
DecTtl == Class("DecTtl", <<X(6)>>)
Controller ==
    Class("Controller",
          <<U("max_len", 2), U("controller_id", 2), U("reason", 1), X(1)>>)
MplsBase(name) == Class(name, <<U("ethertype", 2), X(4)>>)
PushMpls == MplsBase("PushMpls")
PopMpls == MplsBase("PopMpls")
SetMplsTtl == Class("SetMplsTtl", <<U("ttl", 1), X(5)>>)
DecMplsTtl == Class("DecMplsTtl", <<X(6)>>)
SetMplsLabel == Class("SetMplsLabel", <<X(2), U("label", 4)>>)
SetMplsTc == Class("SetMplsTc", <<U("tc", 1), X(5)>>)
StackBase(name) ==
    Class(name, <<U("start", 2), F("field"), U("end", 2), X(4)>>)
StackPush == StackBase("StackPush")
StackPop == StackBase("StackPop")
Sample ==
    Class("Sample",
          <<U("probability", 2), U("collector_set_id", 4), U("obs_domain_id", 4),
            U("obs_point_id", 4)>>)
Sample2 ==
    Class("Sample2", Sample.fmt \o <<U("sampling_port", 2), X(6)>>)
FinTimeout ==
    Class("FinTimeout",
          <<U("fin_idle_timeout", 2), U("fin_hard_timeout", 2), X(2)>>)
Conjunction ==
    Class("Conjunction", <<U("clause", 1), U("n_clauses", 1), U("id", 4)>>)
Multipath ==
    Class("Multipath",
          <<U("fields", 2), U("basis", 2), X(2), U("algorithm", 2), U("max_link", 2),
            U("arg", 4), X(2), U("ofs_nbits", 2), F("dst")>>)
CTClear == Class("CTClear", <<X(6)>>)
OutputTrunc == Class("OutputTrunc", <<U("port", 2), U("max_len", 4)>>)
EncapEther == Class("EncapEther", <<C(0, 2), C(0, 4)>>)
EncapNsh == Class("EncapNsh", <<C(0, 2), C(100687, 4)>>)   \* 0x0001894F
Decap == Class("Decap", <<X(2)>>)
DecNshTtl == Class("DecNshTtl", <<X(6)>>)

-----------------------------------------------------------------------------
\* RegLoad2: a value with an optional mask, in 14 bytes; more cannot be filled up.

RegLoad2 == Class("RegLoad2", <<>>)
RegLoad2Raises(a) == Len(Oxm(a.dst, a.value, a.mask)) > 14
RegLoad2Body(a) == Fit(Oxm(a.dst, a.value, a.mask), 14)
RegLoad2Read(b) ==
    LET f == HeaderField(b)
        value(k) == Num(Slice(b, HeaderLen(b) + k * OxmTypes[f][3], OxmTypes[f][3]))
    IN [cls |-> "RegLoad2", dst |-> f, value |-> value(0),
        mask |-> IF b[3] % 2 = 1 THEN <<value(1)>> ELSE <<>>]

\* Note: serialising fills the attribute itself up with zeros.
Note == Class("Note", <<>>)
NotePadded(note) ==
    LET pad == (Len(note) + NX_ACTION_HEADER_0_SIZE) % 8
    IN IF pad = 0 THEN note ELSE note \o Zeros(8 - pad)
NoteBody(a) == NotePadded(a.note)
NoteRead(b) == [cls |-> "Note", note |-> b]

\* RegMove: two whole headers, of 4 bytes or of 8.
RegMove == Class("RegMove", <<U("n_bits", 2), U("src_ofs", 2), U("dst_ofs", 2)>>)
RegMoveBody(a) == Pack(RegMove.fmt, a) \o FieldHeader(a.src_field) \o FieldHeader(a.dst_field)
\* mutant: both headers are taken to be of 4 bytes
RegMoveRead_Short(b) ==
    LET rest == From(b, 6)
    IN [cls |-> "RegMove", src_field |-> HeaderField(rest),
        dst_field |-> HeaderField(From(rest, 4))] @@ Unpack(RegMove.fmt, b)

RegMoveRead(b) ==
    LET rest == From(b, 6)
    IN [cls |-> "RegMove", src_field |-> HeaderField(rest),
        dst_field |-> HeaderField(From(rest, HeaderLen(rest)))] @@ Unpack(RegMove.fmt, b)

-----------------------------------------------------------------------------
\* Learn: a list of flow specifications.  A source is a <<field, offset>> or
\* the <<integer>> to be used itself; a target is a <<field, offset>> or, for
\* an output, <<>>.  A field has a header of 4 bytes, or an assertion fails.

Learn ==
    Class("Learn",
          <<U("idle_timeout", 2), U("hard_timeout", 2), U("priority", 2), U("cookie", 8),
            U("flags", 2), U("table_id", 1), X(1), U("fin_idle_timeout", 2),
            U("fin_hard_timeout", 2)>>)
SourceLen(n_bits) == ((n_bits + 15) \div 16) * 2
Subfield(s) == FieldHeader(s[1]) \o BE(s[2], 2)
SpecBytes(s) ==
    LET immediate == Len(s.src) = 1
        hdr == (IF immediate THEN NX_LEARN_SRC_IMMEDIATE ELSE 0) + NX_LEARN_DST[s.dst_type] + s.n_bits
    IN BE(hdr, 2)
       \o (IF immediate THEN BE(s.src[1], SourceLen(s.n_bits)) ELSE Subfield(s.src))
       \o (IF s.dst = <<>> THEN <<>> ELSE Subfield(s.dst))

\* _NXFlowSpec.parse.  An all-0 header is padding.  Only 10 bits of the number
\* of bits are read.
IsSubfield(b) == Len(b) >= 6 /\ HeaderLen(b) = 4
ParseSubfield(b) == <<HeaderField(b), Num(Slice(b, 4, 2))>>
ParseHeader(hdr) ==
    [n_bits |-> hdr % 1024, immediate |-> (hdr \div 8192) % 2 = 1,
     types |-> {t \in DOMAIN NX_LEARN_DST : NX_LEARN_DST[t] = ((hdr \div 2048) % 4) * 2048}]
RECURSIVE ParseSpecs(_)
ParseSpecs(b) ==
    LET h == ParseHeader(Num(Slice(b, 0, 2)))
        type == CHOOSE t \in h.types : TRUE
        rest == From(b, 2)
        srcLen == IF h.immediate THEN SourceLen(h.n_bits) ELSE 6
        after == From(rest, srcLen)
        spec == [dst_type |-> type, n_bits |-> h.n_bits,
                 src |-> IF h.immediate THEN <<Num(Slice(rest, 0, srcLen))>> ELSE ParseSubfield(rest),
                 dst |-> IF type = "output" THEN <<>> ELSE ParseSubfield(after)]
    IN CASE b = <<>> -> <<>>
         [] Slice(b, 0, 2) = Zeros(2) -> ParseSpecs(rest)
         [] b # <<>> /\ Slice(b, 0, 2) # Zeros(2) ->
                IF \/ Len(b) < 2 \/ h.types = {} \/ Len(rest) < srcLen
                   \/ ~h.immediate /\ ~IsSubfield(rest)
                   \/ type # "output" /\ ~IsSubfield(after)
                THEN <<NotRead>>
                ELSE <<spec>> \o ParseSpecs(IF type = "output" THEN after ELSE From(after, 6))

LearnRaises(a) ==
    \E k \in DOMAIN a.specs : \E s \in {a.specs[k].src, a.specs[k].dst} :
        Len(s) = 2 /\ Len(FieldHeader(s[1])) # 4
LearnBody(a) == Pack(Learn.fmt, a) \o FlattenSeq([k \in DOMAIN a.specs |-> SpecBytes(a.specs[k])])
LearnRead(b) ==
    LET specs == ParseSpecs(From(b, Size(Learn.fmt)))
    IN IF Contains(specs, NotRead) THEN NotRead
       ELSE [cls |-> "Learn", specs |-> specs] @@ Unpack(Learn.fmt, b)

-----------------------------------------------------------------------------
\* Controller2: 6 bytes, then the properties that are set, in the order of
\* their types.  The length of reason counts 5 bytes of 8; pause is written
\* whatever its value is.

Controller2 == Class("Controller2", <<>>)
PropNames == <<"max_len", "controller_id", "reason", "userdata", "pause">>
UserDataSize(n) ==
    LET user_len == RoundUp(n, 4)
    IN IF user_len > 4 /\ user_len % 8 = 0 THEN user_len + 4 ELSE user_len

MaxLenProp(v) == BE(NXAC2PT.max_len, 2) \o BE(8, 2) \o BE(v, 2) \o Zeros(2)
ControllerIdProp(v) == BE(NXAC2PT.controller_id, 2) \o BE(8, 2) \o BE(v, 2) \o Zeros(2)
ReasonProp(v) == BE(NXAC2PT.reason, 2) \o BE(5, 2) \o BE(v, 1) \o Zeros(3)
UserDataProp(v) == BE(NXAC2PT.userdata, 2) \o BE(4 + Len(v), 2) \o Fit(v, UserDataSize(Len(v)))
PauseProp(v) == BE(NXAC2PT.pause, 2) \o BE(4, 2) \o Zeros(4)
PropBytes(name, v) ==
    CASE name = "max_len" -> MaxLenProp(v)
      [] name = "controller_id" -> ControllerIdProp(v)
      [] name = "reason" -> ReasonProp(v)
      [] name = "userdata" -> UserDataProp(v)
      [] name = "pause" -> PauseProp(v)

\* Value of a property, and how far behind its header the next one begins.
PropRead(name, b, length) ==
    CASE name \in {"max_len", "controller_id"} -> [value |-> Num(Slice(b, 0, 2)), size |-> 4]
      [] name = "reason" -> [value |-> b[1], size |-> 4]
      [] name = "userdata" -> [value |-> Slice(b, 0, length), size |-> UserDataSize(length)]
      [] name = "pause" -> [value |-> TRUE, size |-> 4]
PropRaises(name, b, length) ==
    IF name = "userdata" THEN Len(b) < length ELSE name # "pause" /\ Len(b) < 4

Controller2Body(a) ==
    LET set == SelectSeq(PropNames, LAMBDA n : n \in DOMAIN a.props)
    IN Zeros(6) \o FlattenSeq([k \in DOMAIN set |-> PropBytes(set[k], a.props[set[k]])])

\* A type that is not known ends in AttributeError: it has no _arg_name.
RECURSIVE ParseProps(_, _)
ParseProps(b, props) ==
    LET type == Num(Slice(b, 0, 2))
        length == Num(Slice(b, 2, 2))
        rest == From(b, 4)
        name == PropNames[type + 1]
    IN CASE b = <<>> -> [cls |-> "Controller2", props |-> props]
         [] b # <<>> /\ (Len(b) < 4 \/ type \notin 0..4) -> NotRead
         [] b # <<>> /\ Len(b) >= 4 /\ type \in 0..4 ->
                IF PropRaises(name, rest, length - 4) THEN NotRead
                ELSE LET p == PropRead(name, rest, length - 4)
                     IN ParseProps(From(rest, p.size), (name :> p.value) @@ props)
Controller2Read(b) == ParseProps(From(b, 6), <<>>)

\* DecTtlCntIds: a count, the ids, and zeros up to a multiple of 4 ids.
DecTtlCntIds == Class("DecTtlCntIds", <<>>)
Shorts(ids) == Fit(FlattenSeq([k \in DOMAIN ids |-> BE(ids[k], 2)]), 2 * RoundUp(Len(ids), 4))
ReadShorts(b, ofs, n) == [k \in 1..n |-> Num(Slice(b, ofs + 2 * (k - 1), 2))]
DecTtlCntIdsBody(a) == BE(Len(a.cnt_ids), 2) \o Zeros(4) \o Shorts(a.cnt_ids)
DecTtlCntIdsRead(b) ==
    [cls |-> "DecTtlCntIds", cnt_ids |-> ReadShorts(b, 6, Num(Slice(b, 0, 2)))]

-----------------------------------------------------------------------------
\* Bundle and BundleLoad: the slaves are written first, then the fixed part
\* and the header of the target in front of them.  n_slaves is what there is.

BundleFmt ==
    <<U("algorithm", 2), U("fields", 2), U("basis", 2), U("slave_type", 4),
      U("n_slaves", 2), U("ofs_nbits", 2)>>
BundleDst == NX_ACTION_BUNDLE_0_SIZE - NX_ACTION_HEADER_0_SIZE - 8
BundleSlaves == NX_ACTION_BUNDLE_0_SIZE - NX_ACTION_HEADER_0_SIZE
BundleCounted(a) == [a EXCEPT !.n_slaves = Len(a.slaves)]
BundleBody(a) ==
    LET slaves == IF a.slaves = <<>> THEN <<>> ELSE PackInto(<<>>, BundleSlaves, Shorts(a.slaves))
        dst == IF a.dst = "" THEN Zeros(4) ELSE FieldHeader(a.dst)
    IN PackInto(PackInto(slaves, 0, Pack(BundleFmt, BundleCounted(a))), BundleDst, dst)
BundleRead(name, b) ==
    LET fixed == Unpack(BundleFmt, b)
        dst == From(b, BundleDst)
    IN [cls |-> name, slaves |-> ReadShorts(b, BundleSlaves, fixed.n_slaves),
        dst |-> IF Slice(dst, 0, 4) = Zeros(4) THEN "" ELSE HeaderField(dst)] @@ fixed

\* A Bundle has no target: __init__ ignores the one it is given.
Bundle == Class("Bundle", BundleFmt)
BundleInit(a) == [a EXCEPT !.ofs_nbits = 0, !.dst = ""]
BundleLoad == Class("BundleLoad", BundleFmt)

-----------------------------------------------------------------------------
\* NAT: the flags, a bit for each range that is given, and the ranges.

NAT == Class("NAT", <<X(2), U("flags", 2), U("range_present", 2)>>)
NATBody(a) ==
    LET present == {k \in DOMAIN NX_NAT_RANGES : NX_NAT_RANGES[k].name \in DOMAIN a.ranges}
        range(k) == IF k \in present THEN BE(a.ranges[NX_NAT_RANGES[k].name], NX_NAT_RANGES[k].width)
                    ELSE <<>>
        bits == FoldFunction(LAMBDA bit, n : bit + n, 0, [k \in present |-> 2^(k - 1)])
    IN Pack(NAT.fmt, [flags |-> a.flags, range_present |-> bits])
       \o FlattenSeq([k \in DOMAIN NX_NAT_RANGES |-> range(k)])
NATRead(b) ==
    LET fixed == Unpack(NAT.fmt, b)
        present == {k \in DOMAIN NX_NAT_RANGES : (fixed.range_present \div 2^(k - 1)) % 2 = 1}
        before(k) == FoldFunction(LAMBDA w, n : w + n, 6,
                                  [j \in {i \in present : i < k} |-> NX_NAT_RANGES[j].width])
    IN [cls |-> "NAT", flags |-> fixed.flags,
        ranges |-> [n \in {NX_NAT_RANGES[k].name : k \in present} |->
            LET k == CHOOSE j \in present : NX_NAT_RANGES[j].name = n
            IN Num(Slice(b, before(k), NX_NAT_RANGES[k].width))]]

-----------------------------------------------------------------------------
\* The registry of the parser, in the order of registration: of two classes
\* for one subtype the second is used.

CT == Class("CT",
            <<U("flags", 2), X(4), U("zone_ofs_nbits", 2), U("recirc_table", 1), X(3), U("alg", 2)>>)

classes ==
    <<SetQueue, PopQueue, RegLoad, RegLoad2, Note, SetTunnel, SetTunnel64, RegMove, Resubmit,
      ResubmitTable, OutputReg, OutputReg2, Learn, Exit, DecTtl, Controller, Controller2,
      DecTtlCntIds, PushMpls, PopMpls, SetMplsTtl, DecMplsTtl, SetMplsLabel, SetMplsTc, StackPush,
      StackPop, Sample, Sample2, FinTimeout, Conjunction, Multipath, Bundle, BundleLoad, CT,
      CTClear, NAT, OutputTrunc, EncapNsh, EncapEther, Decap, DecNshTtl>>
ClassNamed(name) == classes[SelectInSeq(classes, LAMBDA c : c.name = name)]
Registered(subtype) == SelectLastInSeq(classes, LAMBDA c : NXAST[c.name] = subtype)
Subtype(a) == IF a.cls = "Unknown" THEN a.subtype ELSE NXAST[a.cls]

\* What serialising leaves in the object, and whether it raises.
Fixup(a) ==
    CASE a.cls = "Note" -> [a EXCEPT !.note = NotePadded(@)]
      [] a.cls = "Bundle" -> BundleCounted(BundleInit(a))
      [] a.cls = "BundleLoad" -> BundleCounted(a)
      [] OTHER -> a
Raises(a) == \/ a.cls = "RegLoad2" /\ RegLoad2Raises(a)
             \/ a.cls = "Learn" /\ LearnRaises(a)

SimpleBody(a) ==
    CASE a.cls = "Unknown" -> a.data
      [] a.cls = "RegLoad2" -> RegLoad2Body(a)
      [] a.cls = "Note" -> NoteBody(a)
      [] a.cls = "RegMove" -> RegMoveBody(a)
      [] a.cls = "Learn" -> LearnBody(a)
      [] a.cls = "Controller2" -> Controller2Body(a)
      [] a.cls = "DecTtlCntIds" -> DecTtlCntIdsBody(a)
      [] a.cls = "Bundle" -> BundleBody(BundleInit(a))
      [] a.cls = "BundleLoad" -> BundleBody(a)
      [] a.cls = "NAT" -> NATBody(a)
      [] OTHER -> Pack(ClassNamed(a.cls).fmt, a)

\* CT: the header of a field, or 0 when the zone is an immediate, and nested
\* actions: each follows where the one before it ends, not where its length
\* says.  One level of nesting is modelled.  A number for zone_src, written as
\* it is, is the attribute zone_int (its 4 bytes); None is neither of the two.
CTZone(a) ==
    CASE "zone_int" \in DOMAIN a -> a.zone_int
      [] "zone_src" \in DOMAIN a /\ a.zone_src # "" -> Fit(FieldHeader(a.zone_src), 4)
      [] OTHER -> Zeros(4)
Nested(a) == LET body == SimpleBody(a) IN ActionHeader(ActionLen(body), Subtype(a)) \o body
CTBody(a) == PackInto(Pack(CT.fmt, a), 2, CTZone(a))
             \o FlattenSeq([k \in DOMAIN a.actions |-> Nested(a.actions[k])])
Body(a) == IF a.cls = "CT" THEN CTBody(a) ELSE SimpleBody(a)

SimpleRead(c, b) ==
    CASE c.name = "RegLoad2" -> RegLoad2Read(b)
      [] c.name = "Note" -> NoteRead(b)
      [] c.name = "RegMove" -> RegMoveRead(b)
      [] c.name = "Learn" -> LearnRead(b)
      [] c.name = "Controller2" -> Controller2Read(b)
      [] c.name = "DecTtlCntIds" -> DecTtlCntIdsRead(b)
      [] c.name \in {"Bundle", "BundleLoad"} -> BundleRead(c.name, b)
      [] c.name = "NAT" -> NATRead(b)
      [] OTHER -> IF Readable(c.fmt, b) THEN [cls |-> c.name] @@ Unpack(c.fmt, b) ELSE NotRead

\* NXAction.parse
SimpleParse(subtype, b) ==
    IF Registered(subtype) = 0 THEN [cls |-> "Unknown", subtype |-> subtype, data |-> b]
    ELSE SimpleRead(classes[Registered(subtype)], b)

\* Where the type is not that of an experimenter, OpenFlow's own actions are
\* looked up.  Of these only an output (16 bytes) can be met here.
ParseAction(b) ==
    CASE Len(b) >= 10 /\ U16At(b, 0) = Experimenter ->
            SimpleParse(U16At(b, 8), Slice(b, 10, U16At(b, 2) - 10))
      [] Len(b) >= 16 /\ U16At(b, 0) = 0 -> [cls |-> "Output"]
      [] OTHER -> NotRead
RECURSIVE ParseNested(_)
ParseNested(b) ==
    IF b = <<>> THEN <<>>
    ELSE LET action == ParseAction(b)
         IN <<action>> \o (IF action = NotRead THEN <<>> ELSE ParseNested(From(b, U16At(b, 2))))
CTRead(b) ==
    LET zone == Slice(b, 2, 4)
        actions == ParseNested(From(b, Size(CT.fmt)))
    IN IF Contains(actions, NotRead) \/ (zone # Zeros(4) /\ ~HasHeader(zone)) THEN NotRead
       ELSE [cls |-> "CT", zone_src |-> IF zone = Zeros(4) THEN "" ELSE HeaderField(zone),
             actions |-> actions] @@ Unpack(CT.fmt, b)
Parse(subtype, b) == IF subtype = NXAST.CT THEN CTRead(b) ELSE SimpleParse(subtype, b)
=============================================================================
