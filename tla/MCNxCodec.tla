----------------------------- MODULE MCNxCodec -----------------------------
(***************************************************************************)
(* Instances of NxCodec, and samples of NshHeader.                         *)
(***************************************************************************)
EXTENDS NxCodec

Upto(n) == [i \in 1..n |-> i]
Act(name) == [cls |-> name]
Range16 == ofs_nbits(4, 31)
Loading(range) ==
    [cls |-> "RegLoad", ofs_nbits |-> ofs_nbits(range[1], range[2]), dst |-> "xxreg0", value |-> 1,
     range |-> range]

\* Actions without a field, with values that differ from byte to byte.
Plain ==
    {Act(n) : n \in {"PopQueue", "Exit", "DecTtl", "DecMplsTtl", "CTClear", "EncapEther",
                     "EncapNsh", "Decap", "DecNshTtl"}}
    \cup {[cls |-> "SetQueue", queue_id |-> 66051], [cls |-> "SetTunnel", tun_id |-> 66051],
          [cls |-> "SetTunnel64", tun_id |-> 16909060], [cls |-> "Resubmit", in_port |-> 65528],
          [cls |-> "ResubmitTable", in_port |-> 258, table_id |-> 255],
          [cls |-> "Controller", max_len |-> 258, controller_id |-> 772, reason |-> 5],
          [cls |-> "PushMpls", ethertype |-> 34887], [cls |-> "PopMpls", ethertype |-> 2048],
          [cls |-> "SetMplsTtl", ttl |-> 64], [cls |-> "SetMplsLabel", label |-> 66051],
          [cls |-> "SetMplsTc", tc |-> 7],
          [cls |-> "Sample", probability |-> 258, collector_set_id |-> 3, obs_domain_id |-> 4,
           obs_point_id |-> 5],
          [cls |-> "Sample2", probability |-> 258, collector_set_id |-> 3, obs_domain_id |-> 4,
           obs_point_id |-> 5, sampling_port |-> 6],
          [cls |-> "FinTimeout", fin_idle_timeout |-> 258, fin_hard_timeout |-> 772],
          [cls |-> "Conjunction", clause |-> 1, n_clauses |-> 2, id |-> 66051],
          [cls |-> "OutputTrunc", port |-> 258, max_len |-> 66051]}

\* Actions that name a field, for every field.
OfField(f) ==
    {[cls |-> "RegLoad", ofs_nbits |-> Range16, dst |-> f, value |-> 1122867],
     [cls |-> "OutputReg", ofs_nbits |-> Range16, src |-> f, max_len |-> 258],
     [cls |-> "OutputReg2", ofs_nbits |-> Range16, src |-> f, max_len |-> 258],
     [cls |-> "StackPush", field |-> f, start |-> 1, end |-> 2],
     [cls |-> "StackPop", field |-> f, start |-> 1, end |-> 2],
     [cls |-> "Multipath", fields |-> 1, basis |-> 2, algorithm |-> 3, max_link |-> 4, arg |-> 5,
      ofs_nbits |-> Range16, dst |-> f],
     [cls |-> "BundleLoad", algorithm |-> 1, fields |-> 2, basis |-> 3, slave_type |-> 4,
      n_slaves |-> 0, ofs_nbits |-> Range16, dst |-> f, slaves |-> <<258, 772>>],
     [cls |-> "RegMove", n_bits |-> 8, src_ofs |-> 1, dst_ofs |-> 2, src_field |-> f,
      dst_field |-> "reg1"],
     [cls |-> "RegMove", n_bits |-> 8, src_ofs |-> 1, dst_ofs |-> 2, src_field |-> "nsh_spi",
      dst_field |-> f],
     [cls |-> "RegLoad2", dst |-> f, value |-> 77, mask |-> <<>>],
     [cls |-> "RegLoad2", dst |-> f, value |-> 77, mask |-> <<127>>],
     [cls |-> "Learn", table_id |-> 10, idle_timeout |-> 180, hard_timeout |-> 300, priority |-> 1,
      cookie |-> 100, flags |-> 1, fin_idle_timeout |-> 180, fin_hard_timeout |-> 301,
      specs |-> <<[dst_type |-> "match", src |-> <<2048>>, dst |-> <<f, 1>>, n_bits |-> 16]>>]}

\* Actions of varying length: notes, ids, slaves, user data, ranges of NAT,
\* unknown data, specifications.
LearnWith(specs) ==
    [cls |-> "Learn", table_id |-> 10, idle_timeout |-> 180, hard_timeout |-> 300, priority |-> 1,
     cookie |-> 100, flags |-> 1, fin_idle_timeout |-> 180, fin_hard_timeout |-> 301,
     specs |-> specs]
SomeSpecs ==
    <<[dst_type |-> "match", src |-> <<"reg1", 1>>, dst |-> <<"reg2", 3>>, n_bits |-> 5],
      [dst_type |-> "load", src |-> <<0>>, dst |-> <<"reg4", 3>>, n_bits |-> 5],
      [dst_type |-> "load", src |-> <<7>>, dst |-> <<"xxreg0", 0>>, n_bits |-> 128],
      [dst_type |-> "output", src |-> <<"reg7", 1>>, dst |-> <<>>, n_bits |-> 5],
      [dst_type |-> "match", src |-> <<1>>, dst |-> <<"ct_label", 0>>, n_bits |-> 1024]>>
\* Of no bits, and with an integer that is too large.
OddSpecs ==
    {[dst_type |-> "match", src |-> <<"reg1", 1>>, dst |-> <<"reg2", 3>>, n_bits |-> 0],
     [dst_type |-> "load", src |-> <<"reg1", 1>>, dst |-> <<"reg2", 3>>, n_bits |-> 0],
     [dst_type |-> "match", src |-> <<0>>, dst |-> <<"reg2", 3>>, n_bits |-> 0],
     [dst_type |-> "load", src |-> <<65536>>, dst |-> <<"reg2", 3>>, n_bits |-> 16]}
Props(names) ==
    [n \in names |-> CASE n = "userdata" -> <<10, 11, 12>> [] n = "pause" -> TRUE [] OTHER -> 5]
BundleWith(slaves) ==
    [cls |-> "Bundle", algorithm |-> 1, fields |-> 2, basis |-> 3, slave_type |-> 4,
     n_slaves |-> 0, ofs_nbits |-> 9, dst |-> "reg0", slaves |-> slaves]
NATWith(names) ==
    [cls |-> "NAT", flags |-> 1,
     ranges |-> [n \in names |-> IF n \in {"range_proto_min", "range_proto_max"} THEN 513 ELSE 66051]]
RangeNames == {NX_NAT_RANGES[k].name : k \in DOMAIN NX_NAT_RANGES}

\* 65536 bytes with the header: one more than there is a length for.
TooLong == [cls |-> "Note", note |-> Zeros(65526)]

Varying ==
    {[cls |-> "Note", note |-> Upto(n)] : n \in 0..14}
    \cup {TooLong}
    \cup {[cls |-> "DecTtlCntIds", cnt_ids |-> Upto(n)] : n \in 0..5}
    \cup {BundleWith(Upto(n)) : n \in 0..5}
    \cup {[cls |-> "Unknown", subtype |-> 11, data |-> Upto(n)] : n \in 0..14}
    \cup {LearnWith(SubSeq(SomeSpecs, i, j)) : i \in 1..5, j \in 0..5}
    \cup {LearnWith(<<s>>) : s \in OddSpecs} \cup {LearnWith(<<s, SomeSpecs[1]>>) : s \in OddSpecs}
    \cup {[cls |-> "Controller2", props |-> Props(S)] : S \in SUBSET DOMAIN NXAC2PT}
    \cup {[cls |-> "Controller2", props |-> [userdata |-> Upto(n)]] : n \in 0..13}
    \cup {[cls |-> "Controller2", props |-> [userdata |-> <<>>, pause |-> FALSE]]}
    \cup {NATWith(S) : S \in SUBSET RangeNames}

\* Connection tracking with up to two nested actions.
Inner == {Act("Decap"), Act("CTClear"), Act("EncapNsh"), NATWith({}),
          NATWith({"range_ipv4_min"}), NATWith({"range_ipv4_min", "range_ipv4_max", "range_proto_min"})}
CTFrom(zone, actions) ==
    zone @@ [cls |-> "CT", flags |-> 1, zone_ofs_nbits |-> 5, recirc_table |-> 4, alg |-> 21,
             actions |-> actions]
CTWith(z, actions) == CTFrom([zone_src |-> z], actions)
\* The number of the header of reg0, of no field, of an experimenter, of 0.
Numbers == {<<0, 1, 0, 4>>, <<18, 52, 86, 120>>, <<255, 255, 0, 4>>, Zeros(4)}
Tracking ==
    {CTFrom([zone_int |-> b], <<>>) : b \in Numbers} \cup {CTFrom(<<>>, <<>>)}
    \cup {CTWith(z, <<>>) : z \in {"", "reg0", "nsh_si"}} \cup {CTWith("", <<x>>) : x \in Inner}
    \cup {CTWith("reg0", <<x, y>>) : x, y \in Inner}

\* Ranges of up to 64 bits.
Ranges == {<<s, s + n>> : s \in {0, 1, 2, 62, 63, 64, 127, 1023}, n \in {0, 1, 31, 62, 63}}

\* Every action alone; in pairs, those of different lengths and filling.
Fields == UNION {OfField(f) : f \in DOMAIN OxmTypes} \cup {Loading(r) : r \in Ranges}
Paired ==
    {Act("Decap"), Act("EncapNsh"), Act("Exit"), NATWith({}), NATWith({"range_ipv6_min"}),
     [cls |-> "Note", note |-> Upto(3)], [cls |-> "Unknown", subtype |-> 11, data |-> Upto(1)],
     LearnWith(SubSeq(SomeSpecs, 1, 2)), BundleWith(Upto(3)), CTWith("", <<NATWith({})>>),
     [cls |-> "RegLoad2", dst |-> "nsh_spi", value |-> 77, mask |-> <<>>],
     [cls |-> "RegLoad2", dst |-> "ipv6_src_nxm", value |-> 77, mask |-> <<>>]}
MCActions == Plain \cup Fields \cup Varying \cup Tracking
MCLists == {<<a>> : a \in MCActions} \cup {<<a, b>> : a, b \in Paired} \cup {<<>>}

-----------------------------------------------------------------------------
\* Two encapsulations: with NSH, and the one whose subtype it shares.

NshActions == {Act("EncapNsh"), Act("EncapEther")}
NshLists == {<<a>> : a \in NshActions}

-----------------------------------------------------------------------------
\* The header of NSH at its bounds, with identifiers that fit TLC's integers.

Nsh == INSTANCE NshHeader
NshSamples ==
    [ver : {0, 3}, O : {0, 1}, ttl : {0, 3, 4, 63}, length : {2, 63}, md : {0, 15}, np : {0, 255},
     spi : {0, 255, 256, 65535, 65536, 8388607}, si : {0, 255}]
ASSUME NshAssumption ==
    \A h \in NshSamples, u \in {0, 1, 30, 31} :
        /\ h \in Nsh!Header
        /\ Nsh!parser(Nsh!Drawn(h, u) \o <<1, 2>>) = h
=============================================================================
