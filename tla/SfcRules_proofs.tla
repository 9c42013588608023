-------------------------- MODULE SfcRules_proofs ---------------------------
(***************************************************************************)
(* Lemmas about the entries and the FlowMods of SfcRules, for the modules  *)
(* that prove something of the controller that sends them and of the       *)
(* switches that obey them.                                                *)
(***************************************************************************)
EXTENDS SfcRules, SequenceTheorems, TLAPS

(***************************************************************************)
(* What the application sends is a FlowMod.                                *)
(***************************************************************************)

\* del_flow builds a FlowMod from a match.
LEMMA DelModType ==
    ASSUME NEW f \in Flow, NEW match \in SUBSET Header
    PROVE  DelMod(f, match) \in FlowMod
BY DEF DelMod, FlowMod, Entry

\* create_match builds a match from a row of the flows table.
LEMMA FlowMatchType ==
    ASSUME NEW f \in Flow
    PROVE  /\ FlowMatch(f) \in SUBSET Header
           /\ MiddleFields(f) \in SUBSET Header
<1>1. Row[f] \in SUBSET Header
  BY RowAssumption DEF Column, Header
<1>2. EthType(Row[f]) \in SUBSET Header
  BY ValueAssumption DEF EthType, Header, FieldName
<1>3. IpProto(Row[f]) \in SUBSET Header
  BY ValueAssumption DEF IpProto, Header, FieldName
<1>4. FlowMatch(f) \in SUBSET Header
  BY <1>1, <1>2, <1>3 DEF FlowMatch
<1> QED
  BY <1>4 DEF MiddleFields

\* The detection entry and the two deletions.
LEMMA RequestModTypes ==
    ASSUME NEW f \in Flow
    PROVE  /\ CatchMod(f) \in FlowMod
           /\ DeleteFlowMod(f) \in FlowMod
           /\ DeleteSpiMod(f) \in FlowMod
<1>1. FlowMatch(f) \in SUBSET Header
  BY FlowMatchType
<1>2. CatchMod(f) \in FlowMod
  BY <1>1 DEF CatchMod, AddMod, FlowMod, Entry
<1>3. {<<"eth_type", NSH>>, <<"nsh_spi", ServiceOf[f]>>} \in SUBSET Header
  BY ValueAssumption, ServiceAssumption DEF Header, FieldName
<1> QED
  BY <1>1, <1>2, <1>3, DelModType DEF DeleteFlowMod, DeleteSpiMod

\* The entries every switch starts with.
LEMMA DefaultModsType ==
    /\ DefaultMods \in Seq(FlowMod)
    /\ Len(DefaultMods) = 6
    /\ \A i \in 1..6 : DefaultMods[i] \in FlowMod
<1>1. RegistrationMatch \in SUBSET Header
  BY ValueAssumption DEF RegistrationMatch, Header, FieldName
<1>2. {<<"eth_type", NSH>>} \in SUBSET Header
  BY ValueAssumption DEF Header, FieldName
<1>3. /\ <<>> \in Seq(Action)
      /\ <<<<"controller", NoArg>>>> \in Seq(Action)
      /\ <<<<"normal", NoArg>>>> \in Seq(Action)
  BY ValueAssumption DEF Action, ActionName
<1>5. /\ Default(0, 10, RegistrationMatch, <<>>, 2) \in FlowMod
      /\ Default(0, 9, {<<"eth_type", NSH>>}, <<>>, 1) \in FlowMod
  BY <1>1, <1>2, <1>3 DEF Default, AddMod, FlowMod, Entry
<1>6. /\ Default(0, 0, {}, <<>>, 3) \in FlowMod
      /\ Default(1, 0, {}, <<>>, 3) \in FlowMod
      /\ Default(2, 0, {}, <<<<"controller", NoArg>>>>, 0) \in FlowMod
      /\ Default(3, 0, {}, <<<<"normal", NoArg>>>>, 0) \in FlowMod
  BY <1>3 DEF Default, AddMod, FlowMod, Entry
<1> QED
  BY <1>5, <1>6 DEF DefaultMods

\* The source entry.
LEMMA SourceModType ==
    ASSUME NEW f \in Flow, NEW port \in Port, NEW row \in VnfRow
    PROVE  SourceMod(f, port, row) \in FlowMod
<1>1. FlowMatch(f) \cup {<<"in_port", port>>} \in SUBSET Header
  BY FlowMatchType, PortAssumption DEF Header, FieldName
<1>2. /\ ServiceOf[f] \in FieldValue
      /\ Len(Path[ServiceOf[f]]) \in FieldValue
      /\ row.locator_addr \in FieldValue
  BY ServiceAssumption, PathAssumption, ValueAssumption, MacAssumption
     DEF VnfRow
<1>3. Encap(ServiceOf[f], Len(Path[ServiceOf[f]]), row.locator_addr)
        \in Seq(Action)
  BY <1>2, ValueAssumption DEF Encap, Action, ActionName
<1> QED
  BY <1>1, <1>3 DEF SourceMod, AddMod, FlowMod, Entry

\* The entries of a hop and of the end of a service.
LEMMA ChainModType ==
    ASSUME NEW f \in Flow, NEW cur \in VnfRow,
           NEW lastSi \in FieldValue, NEW si \in FieldValue
    PROVE  /\ \A nxt \in VnfRow, step \in 1..3 :
                 HopMod(step, f, lastSi, si, cur, nxt) \in FlowMod
           /\ \A step \in 1..2 : EndMod(step, f, cur) \in FlowMod
<1> DEFINE NshHeaders(x) == NshMatch(ServiceOf[f], x)
<1>1. \A row \in VnfRow : row.locator_addr \in FieldValue
                           /\ row.in_port \in FieldValue
  BY MacAssumption, PortAssumption DEF VnfRow
<1>2. ServiceOf[f] \in FieldValue
  BY ServiceAssumption, ValueAssumption
<1>3. \A x \in FieldValue : NshHeaders(x) \in SUBSET Header
  BY <1>2, ValueAssumption DEF NshMatch, Header, FieldName
<1>4. \A x, y \in FieldValue :
         NshHeaders(x) \cup {<<"eth_dst", y>>} \in SUBSET Header
  BY <1>3 DEF Header, FieldName
<1>5. MiddleFields(f) \cup {<<"in_port", cur.in_port>>} \in SUBSET Header
  BY <1>1, FlowMatchType DEF Header, FieldName
<1>6. \A x \in FieldValue : Decap(x) \in Seq(Action)
  BY ValueAssumption DEF Decap, Action, ActionName
<1>7. \A x \in FieldValue : Encap(ServiceOf[f], si, x) \in Seq(Action)
  BY <1>2, ValueAssumption DEF Encap, Action, ActionName
<1>8. \A x \in FieldValue : <<<<"set_eth_dst", x>>>> \in Seq(Action)
  BY DEF Action, ActionName
<1>9. <<<<"decap", NoArg>>, <<"decap", NoArg>>>> \in Seq(Action)
  BY ValueAssumption DEF Action, ActionName
<1> HIDE DEF NshHeaders
<1>10. ASSUME NEW nxt \in VnfRow
       PROVE  /\ ProxyMod(f, si, nxt) \in FlowMod
              /\ MiddleMod(f, si, cur, nxt) \in FlowMod
              /\ DecapMod(f, lastSi, cur, nxt) \in FlowMod
  <2>1. ProxyMod(f, si, nxt) \in FlowMod
    BY <1>1, <1>3, <1>8 DEF ProxyMod, NshHeaders, AddMod, FlowMod, Entry
  <2>2. MiddleMod(f, si, cur, nxt) \in FlowMod
    BY <1>1, <1>5, <1>7 DEF MiddleMod, AddMod, FlowMod, Entry
  <2>3. DecapMod(f, lastSi, cur, nxt) \in FlowMod
    BY <1>1, <1>4, <1>6 DEF DecapMod, NshHeaders, AddMod, FlowMod, Entry
  <2> QED
    BY <2>1, <2>2, <2>3
<1>11. \A nxt \in VnfRow, step \in 1..3 :
          HopMod(step, f, lastSi, si, cur, nxt) \in FlowMod
  BY <1>10 DEF HopMod
<1>12. EndMod(1, f, cur) \in FlowMod
  BY <1>3, <1>9, ValueAssumption
     DEF EndMod, NshHeaders, AddMod, FlowMod, Entry
<1>13. EndMod(2, f, cur) \in FlowMod
  <2>1. NshMatch(ServiceOf[f], 1) \cup {<<"eth_dst", cur.locator_addr>>}
          \in SUBSET Header
    BY <1>1, <1>4, ValueAssumption DEF NshHeaders
  <2>2. Decap(cur.in_port) \in Seq(Action)
    BY <1>1, <1>6
  <2> QED
    BY <2>1, <2>2 DEF EndMod, AddMod, FlowMod, Entry
<1> QED
  BY <1>11, <1>12, <1>13

\* A switch's tables hold entries, whatever it is sent.
LEMMA ApplyType ==
    ASSUME NEW tbl \in SUBSET Entry, NEW mod \in FlowMod
    PROVE  Apply(tbl, mod) \in SUBSET Entry
BY DEF Apply, Removed, Installed, FlowMod

(***************************************************************************)
(* What the matches and the entries are.                                   *)
(***************************************************************************)

\* A match made from a row has fields of the flows table only.
LEMMA FlowHeaders ==
    ASSUME NEW f \in Flow
    PROVE  /\ \A h \in FlowMatch(f) : h[1] \in Column
           /\ MiddleFields(f) \subseteq FlowMatch(f)
           /\ \A h \in FlowMatch(f) :
                 h[1] \notin {"eth_src", "eth_dst"} => h \in MiddleFields(f)
<1>1. \A h \in Row[f] : h[1] \in Column
  BY RowAssumption
<1>2. \A h \in EthType(Row[f]) : h[1] = "eth_type"
  BY DEF EthType
<1>3. \A h \in IpProto(Row[f]) : h[1] = "ip_proto"
  BY DEF IpProto
<1>4. "eth_type" \in Column /\ "ip_proto" \in Column
  BY DEF Column, FieldName
<1>5. \A h \in FlowMatch(f) : h[1] \in Column
  BY <1>1, <1>2, <1>3, <1>4 DEF FlowMatch
<1> QED
  BY <1>5 DEF MiddleFields

\* The headers of a row are of its columns; what a port is added to, and what the
\* Ethernet columns are left out of, is accepted as the row's match is.
LEMMA RowHeaders ==
    ASSUME NEW f \in Flow, NEW h \in FlowMatch(f)
    PROVE  h \in Header /\ h = <<h[1], h[2]>> /\ h[1] \in Column
<1>1. Row[f] \subseteq Column \X FieldValue
  BY RowAssumption
<1>2. EthType(Row[f]) \cup IpProto(Row[f]) \subseteq Column \X FieldValue
  BY ValueAssumption DEF EthType, IpProto, Column, FieldName
<1>3. h \in Column \X FieldValue
  BY <1>1, <1>2 DEF FlowMatch
<1> QED
  BY <1>3 DEF Column, Header

LEMMA PortAccepted ==
    ASSUME NEW f \in Flow, PrereqOK(FlowMatch(f)), NEW p, NEW M,
           M \in {FlowMatch(f), MiddleFields(f)}
    PROVE  PrereqOK(M \cup {<<"in_port", p>>})
<1> DEFINE N == M \cup {<<"in_port", p>>}
<1>1. /\ M \subseteq FlowMatch(f)
      /\ \A h \in FlowMatch(f) : h[1] \notin {"eth_src", "eth_dst"} => h \in M
  BY DEF MiddleFields
<1>2. /\ \A x : x \in Fields(N) => x \in Fields(FlowMatch(f)) \/ x = "in_port"
      /\ \A h \in FlowMatch(f) : h[1] \notin {"eth_src", "eth_dst"} => h \in N
  BY <1>1 DEF Fields
<1> HIDE DEF N
<1>3. /\ <<"eth_type", IPv4>> \in FlowMatch(f) => <<"eth_type", IPv4>> \in N
      /\ <<"eth_type", IPv6>> \in FlowMatch(f) => <<"eth_type", IPv6>> \in N
      /\ <<"ip_proto", TCP>> \in FlowMatch(f) => <<"ip_proto", TCP>> \in N
      /\ <<"ip_proto", UDP>> \in FlowMatch(f) => <<"ip_proto", UDP>> \in N
  BY <1>2
<1>4. PrereqOK(N)
  BY <1>2, <1>3 DEF PrereqOK
<1> QED
  BY <1>4 DEF N

LEMMA HopMods ==
    ASSUME NEW f, NEW lastSi, NEW si, NEW cur, NEW nxt
    PROVE  /\ HopMod(2, f, lastSi, si, cur, nxt) = MiddleMod(f, si, cur, nxt)
           /\ HopMod(3, f, lastSi, si, cur, nxt) = DecapMod(f, lastSi, cur, nxt)
BY DEF HopMod

\* The six defaults: a table and a priority say which one it is, and none of
\* them matches on a source address or a path id.
LEMMA DefaultFacts ==
    /\ \A i \in 1..6 : DefaultMods[i].cmd = "add"
    /\ \A e \in DefaultEntries :
          /\ e.flow = NoFlow /\ e.priority \in {0, 9, 10}
          /\ \A h \in e.match : h[1] \notin {"ipv4_src", "nsh_spi"}
    /\ \A e, x \in DefaultEntries :
          e.table = x.table /\ e.priority = x.priority => e = x
<1> DEFINE E(i) == DefaultMods[i].entry
<1>1. /\ \A i \in 1..6 : DefaultMods[i].cmd = "add"
      /\ \A i \in 1..6 : E(i).flow = NoFlow
  BY DEF DefaultMods, Default, AddMod
<1>2. /\ E(1).table = 0 /\ E(1).priority = 10 /\ E(1).match = RegistrationMatch
      /\ E(2).table = 0 /\ E(2).priority = 9
      /\ E(2).match = {<<"eth_type", NSH>>}
      /\ E(3).table = 0 /\ E(3).priority = 0 /\ E(3).match = {}
  BY DEF DefaultMods, Default, AddMod
<1>3. /\ E(4).table = 1 /\ E(4).priority = 0 /\ E(4).match = {}
      /\ E(5).table = 2 /\ E(5).priority = 0 /\ E(5).match = {}
      /\ E(6).table = 3 /\ E(6).priority = 0 /\ E(6).match = {}
  BY DEF DefaultMods, Default, AddMod
<1>4. \A h \in RegistrationMatch : h[1] \notin {"ipv4_src", "nsh_spi"}
  BY DEF RegistrationMatch
<1>5. \A e \in DefaultEntries : \E i \in 1..6 : e = E(i)
  BY DEF DefaultEntries
<1> HIDE DEF E
<1>6. \A i \in 1..6 : i = 1 \/ i = 2 \/ i = 3 \/ i = 4 \/ i = 5 \/ i = 6
  OBVIOUS
<1>7. \A i \in 1..6 : /\ E(i).priority \in {0, 9, 10}
                      /\ \A h \in E(i).match : h[1] \notin {"ipv4_src", "nsh_spi"}
  BY <1>2, <1>3, <1>4, <1>6
<1>8. \A i, j \in 1..6 :
         E(i).table = E(j).table /\ E(i).priority = E(j).priority => i = j
  BY <1>2, <1>3, <1>6
<1> QED
  <2>1. \A i \in 1..6 : DefaultMods[i].cmd = "add"
    BY <1>1
  <2>2. \A i \in 1..6 : E(i).flow = NoFlow
    BY <1>1 DEF E
  <2>3. \A e \in DefaultEntries :
          /\ e.flow = NoFlow /\ e.priority \in {0, 9, 10}
          /\ \A h \in e.match : h[1] \notin {"ipv4_src", "nsh_spi"}
    BY <1>5, <1>7, <2>2
  <2>4. \A e, x \in DefaultEntries :
           e.table = x.table /\ e.priority = x.priority => e = x
    BY <1>5, <1>8
  <2> QED
    BY <2>1, <2>3, <2>4

LEMMA DefaultsAre ==
    ASSUME NEW e \in DefaultEntries
    PROVE  \/ e.table = 0 /\ e.priority = 10 /\ e.match = RegistrationMatch
           \/ /\ e.table = 0 /\ e.priority = 9 /\ e.match = {<<"eth_type", NSH>>}
              /\ e.actions = <<>> /\ e.goto = 1
           \/ /\ e.table \in {0, 1} /\ e.priority = 0
              /\ e.actions = <<>> /\ e.goto = 3
           \/ e.table = 2
           \/ e.table = 3 /\ e.actions = <<<<"normal", NoArg>>>> /\ e.goto = 0
<1>1. PICK i \in 1..6 : e = DefaultMods[i].entry
  BY DEF DefaultEntries
<1>2. CASE i = 1
  BY <1>1, <1>2 DEF DefaultMods, Default, AddMod
<1>3. CASE i = 2
  BY <1>1, <1>3 DEF DefaultMods, Default, AddMod
<1>4. CASE i = 3
  BY <1>1, <1>4 DEF DefaultMods, Default, AddMod
<1>5. CASE i = 4
  BY <1>1, <1>5 DEF DefaultMods, Default, AddMod
<1>6. CASE i = 5
  BY <1>1, <1>6 DEF DefaultMods, Default, AddMod
<1>7. CASE i = 6
  BY <1>1, <1>7 DEF DefaultMods, Default, AddMod
<1> QED
  BY <1>2, <1>3, <1>4, <1>5, <1>6, <1>7

\* Frames with NSH have an entry of priority 9 to take them.
LEMMA NshDefault ==
    \E d \in DefaultEntries : d.table = 0 /\ d.priority = 9 /\ d.match = {<<"eth_type", NSH>>}
<1>1. DefaultMods[2].entry \in DefaultEntries
  <2>1. 2 \in 1..6
    OBVIOUS
  <2> QED
    BY <2>1 DEF DefaultEntries
<1>2. DefaultMods[2] = Default(0, 9, {<<"eth_type", NSH>>}, <<>>, 1)
  BY DEF DefaultMods
<1>3. /\ DefaultMods[2].entry.table = 0 /\ DefaultMods[2].entry.priority = 9
      /\ DefaultMods[2].entry.match = {<<"eth_type", NSH>>}
  BY <1>2 DEF Default, AddMod
<1> QED
  BY <1>1, <1>3

(***************************************************************************)
(* What takes an entry out of a table.                                     *)
(***************************************************************************)

\* What takes away an entry: a deletion of its table that it is as specific
\* as, or another entry of the same table, priority and match.
LEMMA HowTaken ==
    ASSUME NEW tbl, NEW e \in tbl, NEW mod \in FlowMod,
           e \notin Apply(tbl, mod)
    PROVE  \/ /\ mod.cmd = "delete" /\ mod.entry.table = e.table
              /\ mod.entry.match \subseteq e.match
           \/ /\ mod.cmd = "add" /\ mod.entry # e
              /\ mod.entry.table = e.table /\ mod.entry.priority = e.priority
              /\ mod.entry.match = e.match
BY DEF Apply, Removed, Installed, FlowMod

\* Of two rows that are apart, neither's packets are taken by an entry of the
\* other.
LEMMA PartOfAnother ==
    ASSUME RowsApart, NEW f \in Flow, NEW g \in Flow, f # g, NEW match,
           MiddleFields(f) \subseteq match,
           \A h \in match : h \in FlowMatch(g) \/ h[1] = "in_port"
    PROVE  FALSE
<1>1. PICK h \in MiddleFields(f) : h \notin MiddleFields(g)
  BY DEF RowsApart
<1>2. h \in FlowMatch(f) /\ h[1] \notin {"eth_src", "eth_dst"}
  BY <1>1 DEF MiddleFields
<1>3. h[1] # "in_port"
  BY <1>2, FlowHeaders DEF Column
<1>4. h \in FlowMatch(g)
  BY <1>1, <1>3
<1> QED
  BY <1>1, <1>2, <1>4, FlowHeaders
=============================================================================
