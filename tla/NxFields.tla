------------------------------ MODULE NxFields ------------------------------
(***************************************************************************)
(* The fields and numbers of ext/nicira_ext.py: the headers that name a    *)
(* field on the wire, the packing of a range of bits, the subtypes of the  *)
(* actions and their declared sizes.                                       *)
(*                                                                         *)
(* A field is named by a string, as the user of the codecs names it.  Its  *)
(* header has 4 bytes (class, number, length) and, for the classes of an   *)
(* experimenter, 4 more.                                                   *)
(***************************************************************************)
EXTENDS Bytes, TLC

Experimenter == 65535                       \* OFPXMC_EXPERIMENTER
NX_EXPERIMENTER_ID == <<0, 0, 35, 32>>      \* 0x00002320
NSH_EXPERIMENTER_ID == <<0, 90, 214, 80>>   \* 0x005ad650

\* The four kinds of field by the class in their header and the experimenter:
\* NiciraExtended0, NiciraExtended1, NiciraExperimenter, NiciraNshExperimenter.
ClassOf ==
    [nxm_0 |-> <<0, <<>>>>, nxm_1 |-> <<1, <<>>>>,
     nx |-> <<Experimenter, NX_EXPERIMENTER_ID>>, nsh |-> <<Experimenter, NSH_EXPERIMENTER_ID>>]

-----------------------------------------------------------------------------
\* oxm_types, class by class: kind, number and size in bytes of a field.

OXM_NXM_0 ==
    [in_port_nxm |-> <<"nxm_0", 0, 2>>,      eth_dst_nxm |-> <<"nxm_0", 1, 6>>,
     eth_src_nxm |-> <<"nxm_0", 2, 6>>,      eth_type_nxm |-> <<"nxm_0", 3, 2>>,
     vlan_tci |-> <<"nxm_0", 4, 2>>,         nw_tos |-> <<"nxm_0", 5, 1>>,
     ip_proto_nxm |-> <<"nxm_0", 6, 1>>,     ipv4_src_nxm |-> <<"nxm_0", 7, 4>>,
     ipv4_dst_nxm |-> <<"nxm_0", 8, 4>>,     tcp_src_nxm |-> <<"nxm_0", 9, 2>>,
     tcp_dst_nxm |-> <<"nxm_0", 10, 2>>,     udp_src_nxm |-> <<"nxm_0", 11, 2>>,
     udp_dst_nxm |-> <<"nxm_0", 12, 2>>,     icmpv4_type_nxm |-> <<"nxm_0", 13, 1>>,
     icmpv4_code_nxm |-> <<"nxm_0", 14, 1>>, arp_op_nxm |-> <<"nxm_0", 15, 2>>,
     arp_spa_nxm |-> <<"nxm_0", 16, 4>>,     arp_tpa_nxm |-> <<"nxm_0", 17, 4>>]

OXM_NXM_1 ==
    [tunnel_id_nxm |-> <<"nxm_1", 16, 8>>,   arp_sha_nxm |-> <<"nxm_1", 17, 6>>,
     arp_tha_nxm |-> <<"nxm_1", 18, 6>>,     ipv6_src_nxm |-> <<"nxm_1", 19, 16>>,
     ipv6_dst_nxm |-> <<"nxm_1", 20, 16>>,   icmpv6_type_nxm |-> <<"nxm_1", 21, 1>>,
     icmpv6_code_nxm |-> <<"nxm_1", 22, 1>>, nd_target |-> <<"nxm_1", 23, 16>>,
     nd_sll |-> <<"nxm_1", 24, 6>>,          nd_tll |-> <<"nxm_1", 25, 6>>,
     ip_frag |-> <<"nxm_1", 26, 1>>,         ipv6_label |-> <<"nxm_1", 27, 4>>,
     ip_ecn_nxm |-> <<"nxm_1", 28, 1>>,      nw_ttl |-> <<"nxm_1", 29, 1>>,
     mpls_ttl |-> <<"nxm_1", 30, 1>>,        tun_ipv4_src |-> <<"nxm_1", 31, 4>>,
     tun_ipv4_dst |-> <<"nxm_1", 32, 4>>,    pkt_mark |-> <<"nxm_1", 33, 4>>,
     tcp_flags_nxm |-> <<"nxm_1", 34, 2>>,   conj_id |-> <<"nxm_1", 37, 4>>,
     tun_gbp_id |-> <<"nxm_1", 38, 2>>,      tun_gbp_flags |-> <<"nxm_1", 39, 1>>,
     tun_flags |-> <<"nxm_1", 104, 2>>,      ct_state |-> <<"nxm_1", 105, 4>>,
     ct_zone |-> <<"nxm_1", 106, 2>>,        ct_mark |-> <<"nxm_1", 107, 4>>,
     ct_label |-> <<"nxm_1", 108, 16>>,      tun_ipv6_src |-> <<"nxm_1", 109, 16>>,
     tun_ipv6_dst |-> <<"nxm_1", 110, 16>>,  _recirc_id |-> <<"nxm_1", 36, 4>>]

OXM_EXPERIMENTER ==
    [_dp_hash |-> <<"nx", 0, 4>>, nsh_flags |-> <<"nsh", 1, 1>>,
     nsh_mdtype |-> <<"nsh", 2, 1>>, nsh_np |-> <<"nsh", 3, 1>>,
     nsh_spi |-> <<"nsh", 4, 4>>, nsh_si |-> <<"nsh", 5, 1>>, nsh_c1 |-> <<"nsh", 6, 4>>,
     nsh_c2 |-> <<"nsh", 7, 4>>, nsh_c3 |-> <<"nsh", 8, 4>>, nsh_c4 |-> <<"nsh", 9, 4>>,
     nsh_ttl |-> <<"nsh", 10, 1>>]

OXM_REGS ==
    [reg0 |-> <<"nxm_1", 0, 4>>, reg1 |-> <<"nxm_1", 1, 4>>, reg2 |-> <<"nxm_1", 2, 4>>,
     reg3 |-> <<"nxm_1", 3, 4>>, reg4 |-> <<"nxm_1", 4, 4>>, reg5 |-> <<"nxm_1", 5, 4>>,
     reg6 |-> <<"nxm_1", 6, 4>>, reg7 |-> <<"nxm_1", 7, 4>>, reg8 |-> <<"nxm_1", 8, 4>>,
     reg9 |-> <<"nxm_1", 9, 4>>, reg10 |-> <<"nxm_1", 10, 4>>, reg11 |-> <<"nxm_1", 11, 4>>,
     reg12 |-> <<"nxm_1", 12, 4>>, reg13 |-> <<"nxm_1", 13, 4>>,
     reg14 |-> <<"nxm_1", 14, 4>>, reg15 |-> <<"nxm_1", 15, 4>>,
     xxreg0 |-> <<"nxm_1", 111, 16>>, xxreg1 |-> <<"nxm_1", 112, 16>>,
     xxreg2 |-> <<"nxm_1", 113, 16>>, xxreg3 |-> <<"nxm_1", 114, 16>>]

OxmTypes == OXM_NXM_0 @@ OXM_NXM_1 @@ OXM_EXPERIMENTER @@ OXM_REGS

-----------------------------------------------------------------------------
\* Headers.  The header of a value announces the value's length, and that of
\* the experimenter's id with it.

nxm_header__(vendor, field, hasmask, length) ==
    BE(vendor, 2) \o <<2 * field + hasmask, length>>

OxmHeader(f, hasmask) ==
    LET d == OxmTypes[f]
        class == ClassOf[d[1]]
        values == IF hasmask = 1 THEN 2 * d[3] ELSE d[3]
    IN nxm_header__(class[1], d[2], hasmask, Len(class[2]) + values) \o class[2]

\* oxm_serialize_header and oxm_serialize.
FieldHeader(f) == OxmHeader(f, 0)
Oxm(f, value, mask) ==
    LET size == OxmTypes[f][3]
    IN IF mask = <<>> THEN OxmHeader(f, 0) \o BE(value, size)
       ELSE OxmHeader(f, 1) \o BE(value, size) \o BE(mask[1], size)

\* oxm_to_user_header: the field of a class, an experimenter and a number, or
\* a made-up name for the number that no field has.
FieldNamed(class, exp, num) ==
    LET same == {f \in DOMAIN OxmTypes :
                    LET d == OxmTypes[f] IN ClassOf[d[1]] = <<class, exp>> /\ d[2] = num}
    IN IF same = {} THEN "field_" \o ToString(128 * class + num)
       ELSE CHOOSE f \in same : TRUE

\* oxm_parse_header reads 4 bytes, and 4 more for an experimenter.
HeaderLen(b) == IF Num(Slice(b, 0, 2)) = Experimenter THEN 8 ELSE 4
HasHeader(b) == Len(b) >= 4 /\ Len(b) >= HeaderLen(b)
HeaderField(b) == FieldNamed(Num(Slice(b, 0, 2)), Slice(b, 4, HeaderLen(b) - 4), b[3] \div 2)

-----------------------------------------------------------------------------
\* The NXM_* headers that are spelled out by hand, without and with a mask:
\* number of the field and length of its value.

\* mutant: the VLAN's bits are taken to be one byte
NXM_OF_ShortVlan ==
    {<<0, 2>>, <<1, 6>>, <<2, 6>>, <<3, 2>>, <<4, 1>>, <<5, 1>>, <<6, 1>>,
     <<7, 4>>, <<8, 4>>, <<9, 2>>, <<10, 2>>, <<11, 2>>, <<12, 2>>, <<13, 1>>,
     <<14, 1>>, <<15, 2>>, <<16, 4>>, <<17, 4>>}

NXM_OF ==
    {<<0, 2>>, <<1, 6>>, <<2, 6>>, <<3, 2>>, <<4, 2>>, <<5, 1>>, <<6, 1>>,
     <<7, 4>>, <<8, 4>>, <<9, 2>>, <<10, 2>>, <<11, 2>>, <<12, 2>>, <<13, 1>>,
     <<14, 1>>, <<15, 2>>, <<16, 4>>, <<17, 4>>}

NXM_NX ==
    {<<16, 8>>, <<31, 4>>, <<32, 4>>, <<17, 6>>, <<18, 6>>, <<19, 16>>, <<20, 16>>,
     <<21, 1>>, <<22, 1>>, <<23, 16>>, <<24, 6>>, <<25, 6>>, <<26, 1>>, <<27, 4>>,
     <<28, 1>>, <<29, 1>>, <<33, 4>>, <<34, 2>>} \cup {<<idx, 4>> : idx \in 0..15}

\* The fields that have a header with a mask, too (*_W): of NXM_OF, of NXM_NX.
NXM_OF_W == {1, 2, 4, 7, 8, 9, 10, 11, 12, 16, 17}
NXM_NX_W == (0..15) \cup {16, 19, 20, 23, 26, 31, 32, 33, 34}

NxmHeaders ==
    {nxm_header__(0, h[1], 0, h[2]) : h \in NXM_OF}
        \cup {nxm_header__(1, h[1], 0, h[2]) : h \in NXM_NX}
        \cup {nxm_header__(0, h[1], 1, 2 * h[2]) : h \in {o \in NXM_OF : o[1] \in NXM_OF_W}}
        \cup {nxm_header__(1, h[1], 1, 2 * h[2]) : h \in {o \in NXM_NX : o[1] \in NXM_NX_W}}

-----------------------------------------------------------------------------
\* ofs_nbits packs the bits start..end of a field.  A switch takes the first
\* bit from the upper 10 bits and the number of bits less one from the lower 6.

\* mutant: the number of bits, not the number less one
ofs_nbits_Count(start, end) == start * 64 + (end - start + 1)

ofs_nbits(start, end) == start * 64 + (end - start)
RangeOf(packed) == <<packed \div 64, (packed \div 64) + (packed % 64)>>

\* Bits of the ranges that NAT announces, types of Controller2's properties.
NX_NAT_RANGES ==
    <<[name |-> "range_ipv4_min", width |-> 4], [name |-> "range_ipv4_max", width |-> 4],
      [name |-> "range_ipv6_min", width |-> 16], [name |-> "range_ipv6_max", width |-> 16],
      [name |-> "range_proto_min", width |-> 2], [name |-> "range_proto_max", width |-> 2]>>

NXAC2PT == [max_len |-> 0, controller_id |-> 1, reason |-> 2, userdata |-> 3, pause |-> 4]

\* Learn's specifications: the source in bit 13, the target in bits 11 and 12.
NX_LEARN_SRC_IMMEDIATE == 8192
NX_LEARN_DST == [match |-> 0, load |-> 2048, output |-> 4096]

\* NXAST_*, by class: RAW_ENCAP (46) is the subtype of two of them.
NXAST ==
    [Resubmit |-> 1, SetTunnel |-> 2, SetQueue |-> 4, PopQueue |-> 5, RegMove |-> 6,
     RegLoad |-> 7, Note |-> 8, SetTunnel64 |-> 9, Multipath |-> 10, Bundle |-> 12,
     BundleLoad |-> 13, ResubmitTable |-> 14, OutputReg |-> 15, Learn |-> 16,
     Exit |-> 17, DecTtl |-> 18, FinTimeout |-> 19, Controller |-> 20,
     DecTtlCntIds |-> 21, PushMpls |-> 23, PopMpls |-> 24, SetMplsTtl |-> 25,
     DecMplsTtl |-> 26, StackPush |-> 27, StackPop |-> 28, Sample |-> 29,
     SetMplsLabel |-> 30, SetMplsTc |-> 31, OutputReg2 |-> 32, RegLoad2 |-> 33,
     Conjunction |-> 34, CT |-> 35, NAT |-> 36, Controller2 |-> 37, Sample2 |-> 38,
     OutputTrunc |-> 39, CTClear |-> 43, EncapNsh |-> 46, EncapEther |-> 46,
     Decap |-> 47, DecNshTtl |-> 48]

\* NX_ACTION_*_SIZE, each asserted to be the size of its PACK_STR: the whole
\* action, for Note, Learn and Bundle the least one.
NX_ACTION_SIZE ==
    [Resubmit |-> 16, ResubmitTable |-> 16, SetTunnel |-> 16, SetQueue |-> 16,
     PopQueue |-> 16, RegMove |-> 24, RegLoad |-> 24, SetTunnel64 |-> 24,
     Multipath |-> 32, Note |-> 16, Bundle |-> 32, OutputReg |-> 24, Learn |-> 32,
     Controller |-> 16, FinTimeout |-> 16]
NX_ACTION_BUNDLE_0_SIZE == 24
NX_ACTION_HEADER_0_SIZE == 2
=============================================================================
