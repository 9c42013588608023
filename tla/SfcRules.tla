------------------------------ MODULE SfcRules ------------------------------
(***************************************************************************)
(* The flow entries of the service function chaining application: what     *)
(* sfc_nfv.py sends to a switch for one row of the flows table, for one    *)
(* hop of a service and for a switch that has just connected.              *)
(*                                                                         *)
(* The database is a parameter.  A flows row is the set of its columns     *)
(* that are not NULL, a service is the sequence its prev/next links spell, *)
(* and a vnf row is what the controller reads of it.                       *)
(***************************************************************************)
EXTENDS OpenFlow

CONSTANTS
    Switch,         \* datapath ids
    Port,           \* port numbers of a switch
    Vnf,            \* ids of virtual network functions
    Mac,            \* locator addresses
    NoArg,          \* the argument of an action that takes none
    ConfMac, ConfIp, ConfPort,  \* where VNFs send their registrations
    Row,            \* Row[f]: the columns of flows row f that are not NULL
    ServiceId,      \* ids of services
    ServiceOf,      \* ServiceOf[f]: column service_id of flows row f
    Path            \* Path[sid]: the service's rows, <<vnf, service_index>>

ASSUME PortAssumption == Port \subseteq FieldValue
ASSUME MacAssumption  == Mac \subseteq FieldValue
ASSUME ValueAssumption ==
    {IPv4, IPv6, NSH, TCP, UDP, NoArg, ConfMac, ConfIp, ConfPort, 0, 1}
        \cup ServiceId \subseteq FieldValue
\* The flows table has a column for every field but these.
Column == FieldName \ {"in_port", "nsh_spi", "nsh_si"}
ASSUME RowAssumption  == Row \in [Flow -> SUBSET (Column \X FieldValue)]
ASSUME ServiceAssumption == ServiceOf \in [Flow -> ServiceId]
ASSUME PathAssumption ==
    /\ Path \in [ServiceId -> Seq(Vnf \X (FieldValue \cap Nat))]
    /\ \A sid \in ServiceId : Path[sid] # <<>> /\ Len(Path[sid]) \in FieldValue

\* What the controller reads of a row of the vnf table, whose primary key is
\* the VNF's id and its iftype.  Nodes register iftype 3 as bidirectional, and
\* no other (dealWithMsg of listen.py).
VnfRow == [iftype : 1..3, dpid : Switch, in_port : Port, locator_addr : Mac]

(***************************************************************************)
(* From a flows row to a match.                                            *)
(***************************************************************************)

\* The row fills in one of the columns: 0 counts as NULL, except in an address,
\* which is a string.
Has(row, columns) ==
    \E h \in row : /\ h[1] \in columns
                   /\ h[2] # 0 \/ h[1] \in {"ipv4_src", "ipv4_dst"}

\* eth_type and ip_proto are filled in when the row leaves them NULL.  The
\* test for UDP looks at udp_src twice and never at udp_dst.
EthType(row) ==
    IF Has(row, {"eth_type"}) THEN {}
    ELSE IF Has(row, {"ipv4_src", "ipv4_dst"}) THEN {<<"eth_type", IPv4>>}
    ELSE IF Has(row, {"ipv6_src", "ipv6_dst"}) THEN {<<"eth_type", IPv6>>}
    ELSE {}

IpProto(row) ==
    IF Has(row, {"ip_proto"}) THEN {}
    ELSE IF Has(row, {"tcp_src", "tcp_dst"}) THEN {<<"ip_proto", TCP>>}
    ELSE IF Has(row, {"udp_src"}) THEN {<<"ip_proto", UDP>>}
    ELSE {}

\* create_match over all the columns.  It leaves out every field whose value is
\* false: a NULL column, and also a column that holds 0 (port 0, or the address
\* 0.0.0.0, which ipv4_to_int has turned into 0 by then).
FlowMatchWithoutSource(f) ==        \* mutant
    {h \in Row[f] \cup EthType(Row[f]) \cup IpProto(Row[f]) :
        h[2] # 0 /\ h[1] # "ipv4_src"}
FlowMatchOfZeros(f) ==              \* mutant: the test of create_match negated
    {h \in Row[f] \cup EthType(Row[f]) \cup IpProto(Row[f]) : h[2] = 0}
FlowMatch(f) ==
    {h \in Row[f] \cup EthType(Row[f]) \cup IpProto(Row[f]) : h[2] # 0}

\* The match of a middle entry is built without the two Ethernet columns.
MiddleFieldsWithoutDst(f) ==        \* mutant
    {h \in FlowMatch(f) : h[1] \notin {"eth_src", "eth_dst", "ipv4_dst"}}
MiddleFields(f) ==
    {h \in FlowMatch(f) : h[1] \notin {"eth_src", "eth_dst"}}

\* ipv4_to_int raises on NULL, so a row without both IPv4 addresses cannot be
\* turned into a match at all.
Translatable(f) == {"ipv4_src", "ipv4_dst"} \subseteq Fields(Row[f])

(***************************************************************************)
(* Entries.                                                                *)
(***************************************************************************)

Default(table_id, priority, match, actions, goto) ==
    AddMod(NoFlow, table_id, priority, match, actions, NoMeta, goto)

\* The packets that VNF registrations come in.
RegistrationMatch ==
    {<<"eth_type", IPv4>>, <<"eth_dst", ConfMac>>, <<"ipv4_dst", ConfIp>>,
     <<"ip_proto", UDP>>, <<"udp_dst", ConfPort>>}

\* switch_features_handler: what every switch is sent first, in this order.
DefaultMods ==
    <<Default(0, 10, RegistrationMatch, <<>>, 2),
      Default(0, 9, {<<"eth_type", NSH>>}, <<>>, 1),
      Default(0, 0, {}, <<>>, 3),
      Default(1, 0, {}, <<>>, 3),
      Default(2, 0, {}, <<<<"controller", NoArg>>>>, 0),
      Default(3, 0, {}, <<<<"normal", NoArg>>>>, 0)>>

DefaultEntries == {DefaultMods[i].entry : i \in 1..6}

\* Detection entry: mark the packet with the flow id and hand it to the
\* controller (table 2).
CatchMod(f) == AddMod(f, 0, 8, FlowMatch(f), <<>>, f, 2)

\* The FlowMods of a deletion: of the flow's own match, and of its path id.
DeleteEntryPoint(f) ==              \* mutant: match_entry_point
    DelMod(f, FlowMatch(f) \cup {<<"in_port", 1>>})
DeleteFlowMod(f) == DelMod(f, FlowMatch(f))
DeleteSpiMod(f)  ==
    DelMod(f, {<<"eth_type", NSH>>, <<"nsh_spi", ServiceOf[f]>>})

\* The outer Ethernet source, copied from the packet that was detected, is left
\* out: no entry matches on it.
EncapTwice(sid, si, dst) ==         \* mutant
    <<<<"encap_nsh", NoArg>>, <<"set_spi", sid>>, <<"set_si", si>>,
      <<"encap_ether", NoArg>>, <<"encap_ether", NoArg>>,
      <<"set_eth_dst", dst>>>>
Encap(sid, si, dst) ==
    <<<<"encap_nsh", NoArg>>, <<"set_spi", sid>>, <<"set_si", si>>,
      <<"encap_ether", NoArg>>, <<"set_eth_dst", dst>>>>

NshMatch(sid, si) ==
    {<<"eth_type", NSH>>, <<"nsh_spi", sid>>, <<"nsh_si", si>>}

\* Source entry, on the switch and port where the flow was detected.  Its
\* service index is the number of rows of the service.
SourceModFromZero(f, inPort, first) ==      \* mutant
    AddMod(f, 0, 8, FlowMatch(f) \cup {<<"in_port", inPort>>},
           Encap(ServiceOf[f], Len(Path[ServiceOf[f]]) - 1, first.locator_addr),
           NoMeta, 3)
SourceMod(f, inPort, first) ==
    AddMod(f, 0, 8, FlowMatch(f) \cup {<<"in_port", inPort>>},
           Encap(ServiceOf[f], Len(Path[ServiceOf[f]]), first.locator_addr),
           NoMeta, 3)

\* The three entries of the hop from VNF row cur to VNF row nxt, all sent to
\* the switch of cur.  si is nxt's service index, lastSi the one before it.
\* The last entry hands the packet for cur to the port of nxt.
ProxyMod(f, si, nxt) ==
    AddMod(f, 1, 8, NshMatch(ServiceOf[f], si),
           <<<<"set_eth_dst", nxt.locator_addr>>>>, f, 3)

MiddleModAnyPort(f, si, cur, nxt) ==        \* mutant: no in_port
    AddMod(f, 0, 6, MiddleFields(f), Encap(ServiceOf[f], si, nxt.locator_addr), f, 3)
MiddleMod(f, si, cur, nxt) ==
    AddMod(f, 0, 6, MiddleFields(f) \cup {<<"in_port", cur.in_port>>},
           Encap(ServiceOf[f], si, nxt.locator_addr), f, 3)

DecapOnce(port) ==                  \* mutant
    <<<<"decap", NoArg>>, <<"output", port>>>>
Decap(port) ==
    <<<<"decap", NoArg>>, <<"decap", NoArg>>, <<"output", port>>>>

DecapModForNext(f, lastSi, cur, nxt) ==     \* mutant
    AddMod(f, 1, 6, NshMatch(ServiceOf[f], lastSi)
                      \cup {<<"eth_dst", nxt.locator_addr>>},
           Decap(nxt.in_port), f, 0)
DecapMod(f, lastSi, cur, nxt) ==
    AddMod(f, 1, 6, NshMatch(ServiceOf[f], lastSi)
                      \cup {<<"eth_dst", cur.locator_addr>>},
           Decap(nxt.in_port), f, 0)

HopModDecapFirst(step, f, lastSi, si, cur, nxt) ==      \* mutant
    CASE step = 1 -> ProxyMod(f, si, nxt)
      [] step = 2 -> DecapMod(f, lastSi, cur, nxt)
      [] step = 3 -> MiddleMod(f, si, cur, nxt)
HopMod(step, f, lastSi, si, cur, nxt) ==
    CASE step = 1 -> ProxyMod(f, si, nxt)
      [] step = 2 -> MiddleMod(f, si, cur, nxt)
      [] step = 3 -> DecapMod(f, lastSi, cur, nxt)

\* The two entries of the end of the service, sent to the last VNF's switch.
EndMod(step, f, last) ==
    CASE step = 1 -> AddMod(f, 1, 8, NshMatch(ServiceOf[f], 0),
                            <<<<"decap", NoArg>>, <<"decap", NoArg>>>>, f, 3)
      [] step = 2 -> AddMod(f, 1, 6, NshMatch(ServiceOf[f], 1)
                                       \cup {<<"eth_dst", last.locator_addr>>},
                            Decap(last.in_port), f, 0)

(***************************************************************************)
(* What some properties and theorems ask of the database.                  *)
(***************************************************************************)

\* No row has the source address 0.0.0.0.
SourcesGiven ==
    \A f \in Flow : \A h \in Row[f] : h[1] = "ipv4_src" => h[2] # 0

\* Of two rows neither is a part of the other, Ethernet columns aside.
RowsApart ==
    \A f, g \in Flow : f # g => ~ (MiddleFields(f) \subseteq MiddleFields(g))

\* No row has an Ethernet address: the entries of a hop match all of the row.
NoEthernet == \A f \in Flow : MiddleFields(f) = FlowMatch(f)

\* Switches accept the match of every row.
RowsAccepted == \A f \in Flow : PrereqOK(FlowMatch(f))

\* Service indices count down to 1 at the last function.
CountingDown ==
    \A sid \in ServiceId : \A i \in DOMAIN Path[sid] :
        Path[sid][i][2] = Len(Path[sid]) + 1 - i
=============================================================================
