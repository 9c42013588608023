------------------------ MODULE SfcForwarding_proofs ------------------------
(***************************************************************************)
(* Packets in complete chains of any length: in a network that is built as *)
(* the demonstration's is, a packet is only ever on its way to the         *)
(* function whose turn it is (WalkInv), and so gets what its service       *)
(* promises (ServiceChain).                                                *)
(***************************************************************************)
EXTENDS SfcForwarding, SfcRules_proofs

-----------------------------------------------------------------------------
\* The entries of a switch, each known by what it matches.

Count(f) == Len(Service(f))

SourceAt(e, s, f) ==
    /\ <<s, Entrance[f][2]>> = Entrance[f]
    /\ e.table = 0 /\ e.priority = 8 /\ e.goto = 3
    /\ e.match = FlowMatch(f) \cup {<<"in_port", Entrance[f][2]>>}
    /\ e.actions = Encap(ServiceOf[f], Count(f), Stands(f, 1).locator_addr)
MiddleAt(e, s, f, i) ==
    /\ i \in 1..(Count(f) - 1) /\ s = Stands(f, i).dpid
    /\ e.table = 0 /\ e.priority = 6 /\ e.goto = 3
    /\ e.match = MiddleFields(f) \cup {<<"in_port", Stands(f, i).in_port>>}
    /\ e.actions = Encap(ServiceOf[f], Count(f) - i, Stands(f, i + 1).locator_addr)
ProxyAt(e, s, f, i) ==
    /\ i \in 1..(Count(f) - 1) /\ s = Stands(f, i).dpid
    /\ e.table = 1 /\ e.priority = 8 /\ e.goto = 3
    /\ e.match = NshMatch(ServiceOf[f], Count(f) - i)
    /\ e.actions = <<<<"set_eth_dst", Stands(f, i + 1).locator_addr>>>>
DecapAt(e, s, f, i) ==
    /\ i \in 1..Count(f) /\ s = Stands(f, i).dpid
    /\ e.table = 1 /\ e.priority = 6 /\ e.goto = 0
    /\ e.match = NshMatch(ServiceOf[f], Count(f) + 1 - i)
                    \cup {<<"eth_dst", Stands(f, i).locator_addr>>}
    /\ e.actions = Decap(Stands(f, i).in_port)
EndAt(e, f) == e.table = 1 /\ e.match = NshMatch(ServiceOf[f], 0)

LEMMA ServiceProperties ==
    ASSUME NEW f \in Flow
    PROVE  /\ ServiceOf[f] \in ServiceId /\ Service(f) = Path[ServiceOf[f]]
           /\ Count(f) \in Nat \ {0} /\ DOMAIN Service(f) = 1..Count(f)
           /\ Count(f) \in FieldValue
           /\ \A i \in 1..Count(f) : /\ Service(f)[i][1] \in Vnf
                                     /\ Service(f)[i][2] \in FieldValue \cap Nat
<1>1. ServiceOf[f] \in ServiceId /\ Service(f) = Path[ServiceOf[f]]
  BY ServiceAssumption DEF Service
<1>2. /\ Service(f) \in Seq(Vnf \X (FieldValue \cap Nat)) /\ Service(f) # <<>>
      /\ Count(f) \in FieldValue
  BY <1>1, PathAssumption DEF Count
<1>3. Count(f) \in Nat \ {0} /\ DOMAIN Service(f) = 1..Count(f)
  BY <1>2, LenProperties, EmptySeq DEF Count
<1>4. ASSUME NEW i \in 1..Count(f)
      PROVE  Service(f)[i] \in Vnf \X (FieldValue \cap Nat)
  BY <1>2, <1>3, ElementOfSeq DEF Count
<1> QED
  BY <1>1, <1>2, <1>3, <1>4

\* Its indices are those that the builders are given.
LEMMA Indices ==
    ASSUME CountingDown, NEW f \in Flow, NEW i \in 1..Count(f)
    PROVE  Service(f)[i][2] = Count(f) + 1 - i
BY ServiceProperties DEF CountingDown, Count

LEMMA EntriesOfChain ==
    ASSUME WellBuilt, place \in Placement, NEW s, NEW e,
           NEW f \in Flow, NEW m \in ChainMods(place, f), m[1] = s, e = m[2].entry
    PROVE  \/ SourceAt(e, s, f) \/ EndAt(e, f)
           \/ \E i : MiddleAt(e, s, f, i) \/ ProxyAt(e, s, f, i) \/ DecapAt(e, s, f, i)
<1>1. m[1] = s /\ e = m[2].entry
  OBVIOUS
<1>2. /\ Count(f) \in Nat \ {0} /\ DOMAIN Service(f) = 1..Count(f)
      /\ \A i \in 1..Count(f) : Service(f)[i][2] = Count(f) + 1 - i
      /\ \A i, j \in 1..Count(f) : Stands(f, i).in_port = Stands(f, j).in_port
  BY ServiceProperties, Indices DEF WellBuilt, WellPlaced, Stands
<1>3. Entrance[f] = <<Entrance[f][1], Entrance[f][2]>>
  BY EntranceAssumption
<1>4. \/ m = <<Entrance[f][1], SourceMod(f, Entrance[f][2], Stands(f, 1))>>
      \/ \E step \in 1..2 :
            m = <<Stands(f, Count(f)).dpid, EndMod(step, f, Stands(f, Count(f)))>>
      \/ \E i \in 1..(Count(f) - 1), step \in 1..3 :
            m = <<Stands(f, i).dpid,
                  HopMod(step, f, IF i = 1 THEN Count(f) ELSE Service(f)[i][2],
                         Service(f)[i + 1][2], Stands(f, i), Stands(f, i + 1))>>
  BY DEF ChainMods, Stands, Count
<1>5. CASE m = <<Entrance[f][1], SourceMod(f, Entrance[f][2], Stands(f, 1))>>
  <2>1. SourceAt(e, s, f)
    BY <1>1, <1>3, <1>5 DEF SourceAt, SourceMod, AddMod, Count, Service
  <2> QED
    BY <2>1
<1>6. CASE \E step \in 1..2 :
              m = <<Stands(f, Count(f)).dpid, EndMod(step, f, Stands(f, Count(f)))>>
  <2>1. PICK step \in 1..2 :
           m = <<Stands(f, Count(f)).dpid, EndMod(step, f, Stands(f, Count(f)))>>
    BY <1>6
  <2>2. CASE step = 1
    BY <1>1, <2>1, <2>2 DEF EndAt, EndMod, AddMod
  <2>3. CASE step = 2
    <3>1. e = AddMod(f, 1, 6, NshMatch(ServiceOf[f], 1)
                       \cup {<<"eth_dst", Stands(f, Count(f)).locator_addr>>},
                     Decap(Stands(f, Count(f)).in_port), f, 0).entry
      BY <1>1, <2>1, <2>3 DEF EndMod
    <3>2. Count(f) + 1 - Count(f) = 1 /\ Count(f) \in 1..Count(f)
      BY <1>2
    <3>3. DecapAt(e, s, f, Count(f))
      BY <1>1, <2>1, <3>1, <3>2 DEF DecapAt, AddMod
    <3> QED
      BY <3>3
  <2> QED
    BY <2>2, <2>3
<1>7. CASE \E i \in 1..(Count(f) - 1), step \in 1..3 :
              m = <<Stands(f, i).dpid,
                    HopMod(step, f, IF i = 1 THEN Count(f) ELSE Service(f)[i][2],
                           Service(f)[i + 1][2], Stands(f, i), Stands(f, i + 1))>>
  <2>1. PICK i \in 1..(Count(f) - 1), step \in 1..3 :
              m = <<Stands(f, i).dpid,
                    HopMod(step, f, IF i = 1 THEN Count(f) ELSE Service(f)[i][2],
                           Service(f)[i + 1][2], Stands(f, i), Stands(f, i + 1))>>
    BY <1>7
  <2>2. /\ (IF i = 1 THEN Count(f) ELSE Service(f)[i][2]) = Count(f) + 1 - i
        /\ Service(f)[i + 1][2] = Count(f) - i
        /\ i \in 1..Count(f) /\ i + 1 \in 1..Count(f)
        /\ Stands(f, i).in_port = Stands(f, i + 1).in_port
    BY <1>2
  <2>3. m = <<Stands(f, i).dpid, HopMod(step, f, Count(f) + 1 - i, Count(f) - i,
                                        Stands(f, i), Stands(f, i + 1))>>
    BY <2>1, <2>2
  <2>4. CASE step = 1
    <3>1. ProxyAt(e, s, f, i)
      BY <1>1, <2>3, <2>4 DEF ProxyAt, HopMod, ProxyMod, AddMod
    <3> QED
      BY <3>1
  <2>5. CASE step = 2
    <3>1. MiddleAt(e, s, f, i)
      BY <1>1, <2>3, <2>5 DEF MiddleAt, HopMod, MiddleMod, AddMod
    <3> QED
      BY <3>1
  <2>6. CASE step = 3
    <3>1. DecapAt(e, s, f, i)
      BY <1>1, <2>2, <2>3, <2>6 DEF DecapAt, HopMod, DecapMod, AddMod
    <3> QED
      BY <3>1
  <2> QED
    BY <2>4, <2>5, <2>6
<1> QED
  BY <1>4, <1>5, <1>6, <1>7

LEMMA EntriesOfSwitch ==
    ASSUME WellBuilt, place \in Placement, NEW s \in Switch, NEW e \in Table(place, s)
    PROVE  \/ e \in DefaultEntries
           \/ \E f \in Flow : \/ SourceAt(e, s, f) \/ EndAt(e, f)
                              \/ \E i : \/ MiddleAt(e, s, f, i) \/ ProxyAt(e, s, f, i)
                                        \/ DecapAt(e, s, f, i)
<1>1. ASSUME e \notin DefaultEntries
      PROVE  \E f \in Flow : \E m \in ChainMods(place, f) : m[1] = s /\ e = m[2].entry
  BY <1>1 DEF Table
<1> QED
  BY <1>1, EntriesOfChain

\* What a chain needs is where it is needed.
LEMMA EntriesThere ==
    ASSUME WellBuilt, place \in Placement, NEW f \in Flow
    PROVE  /\ \A s : DefaultEntries \subseteq Table(place, s)
           /\ \E e \in Table(place, Entrance[f][1]) : SourceAt(e, Entrance[f][1], f)
           /\ \A i \in 1..(Count(f) - 1) :
                 \E e \in Table(place, Stands(f, i).dpid) :
                    MiddleAt(e, Stands(f, i).dpid, f, i)
           /\ \A i \in 1..Count(f) :
                 \E e \in Table(place, Stands(f, i).dpid) :
                    DecapAt(e, Stands(f, i).dpid, f, i)
<1>1. /\ Count(f) \in Nat \ {0} /\ DOMAIN Service(f) = 1..Count(f)
      /\ \A i \in 1..Count(f) : Service(f)[i][2] = Count(f) + 1 - i
      /\ \A i, j \in 1..Count(f) : Stands(f, i).in_port = Stands(f, j).in_port
  BY ServiceProperties, Indices DEF WellBuilt, WellPlaced, Stands
<1>2. Entrance[f] = <<Entrance[f][1], Entrance[f][2]>>
  BY EntranceAssumption
<1>3. ASSUME NEW s, NEW mod, <<s, mod>> \in ChainMods(place, f),
             PrereqOK(mod.entry.match)
      PROVE  mod.entry \in Table(place, s)
  <2>1. /\ <<s, mod>> \in UNION {ChainMods(place, g) : g \in Flow}
        /\ <<s, mod>>[1] = s /\ <<s, mod>>[2] = mod
    BY <1>3
  <2> QED
    BY <2>1, <1>3 DEF Table
<1>0. \A p : /\ PrereqOK(MiddleFields(f) \cup {<<"in_port", p>>})
            /\ PrereqOK(FlowMatch(f) \cup {<<"in_port", p>>})
  <2>1. PrereqOK(FlowMatch(f))
    BY DEF WellBuilt, RowsAccepted
  <2> QED
    BY <2>1, PortAccepted
<1>4. \A s : DefaultEntries \subseteq Table(place, s)
  BY DEF Table
<1>5. \E e \in Table(place, Entrance[f][1]) : SourceAt(e, Entrance[f][1], f)
  <2> DEFINE mod == SourceMod(f, Entrance[f][2], Stands(f, 1))
  <2>1. <<Entrance[f][1], mod>> \in ChainMods(place, f)
    BY DEF ChainMods, Stands
  <2>2. SourceAt(mod.entry, Entrance[f][1], f)
    BY <1>2 DEF SourceAt, SourceMod, AddMod, Count, Service
  <2>3. PrereqOK(mod.entry.match)
    BY <1>0, <2>2 DEF SourceAt
  <2> QED
    BY <1>3, <2>1, <2>2, <2>3
<1>6. ASSUME NEW i \in 1..(Count(f) - 1)
      PROVE  /\ <<Stands(f, i).dpid,
                  MiddleMod(f, Count(f) - i, Stands(f, i), Stands(f, i + 1))>>
                \in ChainMods(place, f)
             /\ <<Stands(f, i).dpid,
                  DecapMod(f, Count(f) + 1 - i, Stands(f, i), Stands(f, i + 1))>>
                \in ChainMods(place, f)
  <2> DEFINE last == IF i = 1 THEN Count(f) ELSE Service(f)[i][2]
             hop(step) == <<Stands(f, i).dpid,
                            HopMod(step, f, last, Service(f)[i + 1][2],
                                   Stands(f, i), Stands(f, i + 1))>>
  <2>1. last = Count(f) + 1 - i /\ Service(f)[i + 1][2] = Count(f) - i
    BY <1>1
  <2>2. \A step \in 1..3 : hop(step) \in ChainMods(place, f)
    BY DEF ChainMods, Stands, Count
  <2>3. hop(2) \in ChainMods(place, f) /\ hop(3) \in ChainMods(place, f)
    <3> HIDE DEF hop
    <3> QED
      BY <2>2
  <2>4. /\ hop(2) = <<Stands(f, i).dpid, MiddleMod(f, Service(f)[i + 1][2],
                                                  Stands(f, i), Stands(f, i + 1))>>
        /\ hop(3) = <<Stands(f, i).dpid, DecapMod(f, last, Stands(f, i), Stands(f, i + 1))>>
    BY HopMods
  <2> HIDE DEF hop, last
  <2> QED
    BY <2>1, <2>3, <2>4
<1>7. ASSUME NEW i \in 1..(Count(f) - 1)
      PROVE  \E e \in Table(place, Stands(f, i).dpid) :
                    MiddleAt(e, Stands(f, i).dpid, f, i)
  <2> DEFINE mod == MiddleMod(f, Count(f) - i, Stands(f, i), Stands(f, i + 1))
  <2>1. MiddleAt(mod.entry, Stands(f, i).dpid, f, i)
    BY DEF MiddleAt, MiddleMod, AddMod
  <2>3. <<Stands(f, i).dpid, mod>> \in ChainMods(place, f)
    BY <1>6
  <2> HIDE DEF mod
  <2>4. PrereqOK(mod.entry.match)
    BY <1>0, <2>1 DEF MiddleAt
  <2> QED
    BY <1>3, <2>1, <2>3, <2>4
<1>8. ASSUME NEW i \in 1..Count(f), NEW e, DecapAt(e, Stands(f, i).dpid, f, i)
      PROVE  PrereqOK(e.match)
  <2>1. Fields(e.match) \subseteq {"eth_type", "nsh_spi", "nsh_si", "eth_dst"}
    BY <1>8 DEF DecapAt, NshMatch, Fields
  <2> QED
    BY <2>1 DEF PrereqOK
<1>9. ASSUME NEW i \in 1..Count(f)
      PROVE  \E e \in Table(place, Stands(f, i).dpid) :
                    DecapAt(e, Stands(f, i).dpid, f, i)
  <2>1. CASE i # Count(f)
    <3> DEFINE mod == DecapMod(f, Count(f) + 1 - i, Stands(f, i), Stands(f, i + 1))
    <3>1. i \in 1..(Count(f) - 1) /\ i + 1 \in 1..Count(f)
      BY <1>1, <2>1
    <3>2. Stands(f, i).in_port = Stands(f, i + 1).in_port
      BY <1>1, <3>1
    <3>3. <<Stands(f, i).dpid, mod>> \in ChainMods(place, f)
      BY <1>6, <3>1
    <3>4. DecapAt(mod.entry, Stands(f, i).dpid, f, i)
      BY <3>2 DEF DecapAt, DecapMod, AddMod
    <3> HIDE DEF mod
    <3> QED
      BY <1>3, <1>8, <3>3, <3>4
  <2>2. CASE i = Count(f)
    <3> DEFINE mod == EndMod(2, f, Stands(f, i))
    <3>1. Count(f) + 1 - i = 1
      BY <1>1, <2>2
    <3>2. DecapAt(mod.entry, Stands(f, i).dpid, f, i)
      BY <3>1 DEF DecapAt, EndMod, AddMod
    <3>3. <<Stands(f, i).dpid, mod>> \in ChainMods(place, f)
      BY <2>2 DEF ChainMods, Stands, Count
    <3> HIDE DEF mod
    <3> QED
      BY <1>3, <1>8, <3>2, <3>3
  <2> QED
    BY <2>1, <2>2
<1> QED
  BY <1>4, <1>5, <1>7, <1>9

-----------------------------------------------------------------------------
\* What takes a packet.  A plain one is taken by an entry of its own row, where
\* the flow enters or comes back from a function, or else by the last default.

LEMMA SameRow ==
    ASSUME WellBuilt, NEW f \in Flow, NEW g \in Flow, NEW p, NEW M,
           MiddleFields(g) \subseteq M, M \subseteq Plain(f) \cup {<<"in_port", p>>}
    PROVE  g = f
<1>1. ASSUME NEW h \in MiddleFields(g)
      PROVE  h \in MiddleFields(f)
  <2>1. h \in FlowMatch(g) /\ h[1] \notin {"eth_src", "eth_dst"}
    BY DEF MiddleFields
  <2>2. h[1] \in Column
    BY <2>1, RowHeaders
  <2>3. h[1] # "in_port"
    BY <2>2 DEF Column
  <2>4. h \in Plain(f) \cup {<<"in_port", p>>}
    OBVIOUS
  <2>5. h \in FlowMatch(f)
    BY <2>1, <2>3, <2>4 DEF Plain
  <2> QED
    BY <2>1, <2>5 DEF MiddleFields
<1> QED
  BY <1>1 DEF WellBuilt, RowsApart

LEMMA PlainPort ==
    ASSUME NEW f \in Flow, NEW p, NEW q, NEW M, <<"in_port", q>> \in M,
           M \subseteq Plain(f) \cup {<<"in_port", p>>}
    PROVE  q = p
<1>1. <<"in_port", q>> \notin FlowMatch(f)
  BY RowHeaders DEF Column
<1>2. <<"in_port", q>> # <<"eth_dst", ExitMac>>
  OBVIOUS
<1> QED
  BY <1>1, <1>2 DEF Plain

LEMMA PlainLookup ==
    ASSUME WellBuilt, place \in Placement, NEW f \in Flow, NEW s \in Switch, NEW p,
           NEW e \in Table(place, s), e.table = 0,
           e.match \subseteq Plain(f) \cup {<<"in_port", p>>}
    PROVE  \/ e.priority = 0 /\ e.actions = <<>> /\ e.goto = 3
           \/ SourceAt(e, s, f) /\ <<s, p>> = Entrance[f]
           \/ \E i : MiddleAt(e, s, f, i) /\ <<s, p>> = Location(Stands(f, i))
<1>1. CASE e \in DefaultEntries
  <2>1. e.match # RegistrationMatch
    <3> SUFFICES ASSUME e.match = RegistrationMatch PROVE FALSE
      OBVIOUS
    <3>1. <<"in_port", p>> \notin RegistrationMatch
      BY DEF RegistrationMatch
    <3>2. RegistrationMatch \subseteq Plain(f)
      BY <3>1
    <3> QED
      BY <3>2 DEF WellBuilt, WellAddressed
  <2>2. e.match # {<<"eth_type", NSH>>}
    <3>1. <<"eth_type", NSH>> \notin FlowMatch(f)
      BY DEF WellBuilt, WellAddressed
    <3>2. <<"eth_type", NSH>> \notin Plain(f) \cup {<<"in_port", p>>}
      BY <3>1 DEF Plain
    <3> QED
      BY <3>2
  <2> QED
    BY <1>1, <2>1, <2>2, DefaultsAre
<1>2. ASSUME NEW g \in Flow, SourceAt(e, s, g)
      PROVE  SourceAt(e, s, f) /\ <<s, p>> = Entrance[f]
  <2>1. e.match = FlowMatch(g) \cup {<<"in_port", Entrance[g][2]>>}
    BY <1>2 DEF SourceAt
  <2>2. g = f
    <3>1. MiddleFields(g) \subseteq e.match
      BY <2>1 DEF MiddleFields
    <3> QED
      BY <3>1, SameRow
  <2>3. Entrance[g][2] = p
    <3>1. <<"in_port", Entrance[g][2]>> \in e.match
      BY <2>1
    <3> QED
      BY <3>1, PlainPort
  <2> QED
    BY <1>2, <2>2, <2>3 DEF SourceAt
<1>3. ASSUME NEW g \in Flow, NEW i, MiddleAt(e, s, g, i)
      PROVE  MiddleAt(e, s, f, i) /\ <<s, p>> = Location(Stands(f, i))
  <2>1. e.match = MiddleFields(g) \cup {<<"in_port", Stands(g, i).in_port>>}
    BY <1>3 DEF MiddleAt
  <2>2. g = f
    <3>1. MiddleFields(g) \subseteq e.match
      BY <2>1
    <3> QED
      BY <3>1, SameRow
  <2>3. Stands(g, i).in_port = p
    <3>1. <<"in_port", Stands(g, i).in_port>> \in e.match
      BY <2>1
    <3> QED
      BY <3>1, PlainPort
  <2> QED
    BY <1>3, <2>2, <2>3 DEF MiddleAt, Location
<1>4. CASE \E g \in Flow : \/ EndAt(e, g)
                           \/ \E i : ProxyAt(e, s, g, i) \/ DecapAt(e, s, g, i)
  BY <1>4 DEF EndAt, ProxyAt, DecapAt
<1> QED
  BY <1>1, <1>2, <1>3, <1>4, EntriesOfSwitch

\* A packet for the i-th function of a flow, that came in by port p.
NshPacket(f, i, p) ==
    {<<"eth_type", NSH>>, <<"eth_dst", Stands(f, i).locator_addr>>}
    \cup {<<"in_port", p>>}
    \cup {<<"nsh_spi", ServiceOf[f]>>, <<"nsh_si", Count(f) + 1 - i>>}

LEMMA NshToTable1 ==
    ASSUME WellBuilt, place \in Placement, NEW f \in Flow, NEW s \in Switch, NEW p, NEW i,
           NEW e \in Best(Table(place, s), 0, NshPacket(f, i, p))
    PROVE  e.actions = <<>> /\ e.goto = 1
<1>1. e \in Table(place, s) /\ e.table = 0 /\ e.match \subseteq NshPacket(f, i, p)
  BY DEF Best, Matching
<1>2. e.priority >= 9
  <2>1. PICK d \in DefaultEntries :
           d.table = 0 /\ d.priority = 9 /\ d.match = {<<"eth_type", NSH>>}
    BY NshDefault
  <2>2. d \in Table(place, s)
    BY DEF Table
  <2>3. d.match \subseteq NshPacket(f, i, p)
    BY <2>1 DEF NshPacket
  <2>4. d \in Matching(Table(place, s), 0, NshPacket(f, i, p))
    BY <2>1, <2>2, <2>3 DEF Matching
  <2> QED
    BY <2>1, <2>4 DEF Best
<1>3. e.match # RegistrationMatch
  <2>1. <<"eth_type", IPv4>> \notin NshPacket(f, i, p)
    BY DEF NshPacket, WellBuilt, WellAddressed
  <2> QED
    BY <1>1, <2>1 DEF RegistrationMatch
<1>4. CASE e \in DefaultEntries
  BY <1>1, <1>2, <1>3, <1>4, DefaultsAre
<1>5. CASE \E g \in Flow : \/ SourceAt(e, s, g) \/ EndAt(e, g)
                           \/ \E j : \/ MiddleAt(e, s, g, j) \/ ProxyAt(e, s, g, j)
                                     \/ DecapAt(e, s, g, j)
  <2>1. e.priority = 8 \/ e.priority = 6 \/ e.table = 1
    BY <1>5 DEF SourceAt, EndAt, MiddleAt, ProxyAt, DecapAt
  <2> QED
    BY <1>1, <1>2, <2>1
<1> QED
  BY <1>1, <1>4, <1>5, EntriesOfSwitch

\* What matches on a path and an index tells the service and the hop.
LEMMA NshHeadersTell ==
    ASSUME NEW f \in Flow, NEW i, NEW p, NEW sid, NEW si, NEW M,
           NshMatch(sid, si) \subseteq M, M \subseteq NshPacket(f, i, p)
    PROVE  sid = ServiceOf[f] /\ si = Count(f) + 1 - i
<1>1. <<"nsh_spi", sid>> \in NshPacket(f, i, p) /\ <<"nsh_si", si>> \in NshPacket(f, i, p)
  BY DEF NshMatch
<1> QED
  BY <1>1 DEF NshPacket

LEMMA SameService ==
    ASSUME NEW f, NEW g, ServiceOf[g] = ServiceOf[f]
    PROVE  Count(g) = Count(f) /\ \A i : Stands(g, i) = Stands(f, i)
BY DEF Count, Stands, Service

\* Of the entries of table 1 a packet matches only those for the function it is
\* for, on the switch before it and on its own.
LEMMA NshTaken ==
    ASSUME WellBuilt, place \in Placement, NEW f \in Flow, NEW s, NEW p,
           NEW i \in 1..Count(f), NEW e, e.match \subseteq NshPacket(f, i, p),
           NEW g \in Flow
    PROVE  /\ ~ EndAt(e, g)
           /\ \A j : ProxyAt(e, s, g, j) =>
                 /\ s # Stands(f, i).dpid /\ e.goto = 3
                 /\ e.actions = <<<<"set_eth_dst", Stands(f, i).locator_addr>>>>
           /\ \A j : DecapAt(e, s, g, j) =>
                 /\ s = Stands(f, i).dpid /\ e.goto = 0 /\ DecapAt(e, s, f, i)
                 /\ e.actions = Decap(Stands(f, i).in_port)
<1>1. Count(f) \in Nat
  BY ServiceProperties
<1>2. ASSUME EndAt(e, g)
      PROVE  FALSE
  <2>1. NshMatch(ServiceOf[g], 0) \subseteq e.match
    BY <1>2 DEF EndAt
  <2>2. 0 = Count(f) + 1 - i
    BY <2>1, NshHeadersTell
  <2> QED
    BY <1>1, <2>2
<1>3. ASSUME NEW j, ProxyAt(e, s, g, j)
      PROVE  /\ s # Stands(f, i).dpid
             /\ e.goto = 3
             /\ e.actions = <<<<"set_eth_dst", Stands(f, i).locator_addr>>>>
  <2>1. NshMatch(ServiceOf[g], Count(g) - j) \subseteq e.match
    BY <1>3 DEF ProxyAt
  <2>2. ServiceOf[g] = ServiceOf[f] /\ Count(g) - j = Count(f) + 1 - i
    BY <2>1, NshHeadersTell
  <2>3. Count(g) = Count(f) /\ \A k : Stands(g, k) = Stands(f, k)
    BY <2>2, SameService
  <2>4. j \in 1..(Count(f) - 1) /\ s = Stands(f, j).dpid
    BY <1>3, <2>3 DEF ProxyAt
  <2>5. j + 1 = i /\ j \in 1..Count(f) /\ j # i
    BY <1>1, <2>2, <2>3, <2>4
  <2>6. Stands(f, j).dpid # Stands(f, i).dpid
    BY <2>5, ServiceProperties DEF WellBuilt, WellPlaced, Stands
  <2>7. /\ e.goto = 3
        /\ e.actions = <<<<"set_eth_dst", Stands(g, j + 1).locator_addr>>>>
    BY <1>3 DEF ProxyAt
  <2> QED
    BY <2>3, <2>4, <2>5, <2>6, <2>7
<1>4. ASSUME NEW j, DecapAt(e, s, g, j)
      PROVE  /\ s = Stands(f, i).dpid /\ DecapAt(e, s, f, i)
             /\ e.goto = 0 /\ e.actions = Decap(Stands(f, i).in_port)
  <2>1. NshMatch(ServiceOf[g], Count(g) + 1 - j) \subseteq e.match
    BY <1>4 DEF DecapAt
  <2>2. ServiceOf[g] = ServiceOf[f] /\ Count(g) + 1 - j = Count(f) + 1 - i
    BY <2>1, NshHeadersTell
  <2>3. Count(g) = Count(f) /\ \A k : Stands(g, k) = Stands(f, k)
    BY <2>2, SameService
  <2>4. j \in 1..Count(f)
    BY <1>4, <2>3 DEF DecapAt
  <2>5. j = i
    BY <1>1, <2>2, <2>3, <2>4
  <2>6. DecapAt(e, s, f, i)
    BY <1>4, <2>2, <2>3, <2>5 DEF DecapAt
  <2> QED
    BY <2>6 DEF DecapAt
<1> QED
  BY <1>2, <1>3, <1>4

\* In table 1 the switch of the function takes the packet out of its headers;
\* any other sends it on as it is.
LEMMA NshInTable1 ==
    ASSUME WellBuilt, place \in Placement, NEW f \in Flow, NEW s \in Switch, NEW p,
           NEW i \in 1..Count(f),
           NEW e \in Best(Table(place, s), 1, NshPacket(f, i, p))
    PROVE  IF s = Stands(f, i).dpid
           THEN e.goto = 0 /\ e.actions = Decap(Stands(f, i).in_port)
           ELSE /\ e.goto = 3
                /\ \/ e.actions = <<>>
                   \/ e.actions = <<<<"set_eth_dst", Stands(f, i).locator_addr>>>>
<1>1. e \in Table(place, s) /\ e.table = 1 /\ e.match \subseteq NshPacket(f, i, p)
  BY DEF Best, Matching
<1>2. Count(f) \in Nat
  BY ServiceProperties
<1>3. s = Stands(f, i).dpid => e.priority >= 6
  <2> SUFFICES ASSUME s = Stands(f, i).dpid PROVE e.priority >= 6
    OBVIOUS
  <2>1. PICK d \in Table(place, s) : DecapAt(d, s, f, i)
    BY EntriesThere
  <2>2. d.table = 1 /\ d.priority = 6 /\ d.match \subseteq NshPacket(f, i, p)
    BY <2>1 DEF DecapAt, NshMatch, NshPacket
  <2>3. d \in Matching(Table(place, s), 1, NshPacket(f, i, p))
    BY <2>2 DEF Matching
  <2> QED
    BY <2>2, <2>3 DEF Best
<1>4. CASE e \in DefaultEntries
  <2>1. e.priority = 0 /\ e.actions = <<>> /\ e.goto = 3
    BY <1>1, <1>4, DefaultsAre
  <2> QED
    BY <1>3, <2>1
<1>5. CASE \E g \in Flow : SourceAt(e, s, g) \/ \E j : MiddleAt(e, s, g, j)
  BY <1>1, <1>5 DEF SourceAt, MiddleAt
<1>6. CASE e \notin DefaultEntries
  <2>1. PICK g \in Flow : \/ SourceAt(e, s, g) \/ EndAt(e, g)
                          \/ \E j : \/ MiddleAt(e, s, g, j) \/ ProxyAt(e, s, g, j)
                                    \/ DecapAt(e, s, g, j)
    BY <1>1, <1>6, EntriesOfSwitch
  <2>2. CASE EndAt(e, g) \/ \E j : ProxyAt(e, s, g, j) \/ DecapAt(e, s, g, j)
    <3>1. /\ ~ EndAt(e, g)
          /\ \A j : ProxyAt(e, s, g, j) =>
                /\ s # Stands(f, i).dpid /\ e.goto = 3
                /\ e.actions = <<<<"set_eth_dst", Stands(f, i).locator_addr>>>>
          /\ \A j : DecapAt(e, s, g, j) =>
                /\ s = Stands(f, i).dpid /\ e.goto = 0
                /\ e.actions = Decap(Stands(f, i).in_port)
      BY <1>1, NshTaken
    <3> QED
      BY <2>2, <3>1
  <2> QED
    BY <1>5, <2>1, <2>2
<1> QED
  BY <1>4, <1>6

\* Table 3 holds the entry for NORMAL only.
LEMMA Table3IsNormal ==
    ASSUME WellBuilt, place \in Placement, NEW s \in Switch, NEW e \in Table(place, s),
           e.table = 3
    PROVE  e.actions = <<<<"normal", NoArg>>>> /\ e.goto = 0
<1>1. e \in DefaultEntries
  BY EntriesOfSwitch DEF SourceAt, MiddleAt, ProxyAt, DecapAt, EndAt
<1> QED
  BY <1>1, DefaultsAre

-----------------------------------------------------------------------------
\* What the actions of an entry make of a frame.

LEMMA ActedSteps ==
    ASSUME NEW e, NEW n \in 0..5, Len(e.actions) = n
    PROVE  \E a : /\ a[0] = frame /\ Acted(e) = a[n]
                  /\ \A i \in 1..n : a[i] = Act(a[i - 1], e.actions[i])
<1> DEFINE L == e.actions
           R(g) == g = [m \in 0..Len(L) |-> IF m = 0 THEN frame ELSE Act(g[m - 1], L[m])]
           a1 == Act(frame, L[1])
           a2 == Act(a1, L[2])
           a3 == Act(a2, L[3])
           a4 == Act(a3, L[4])
           a5 == Act(a4, L[5])
           w == [m \in 0..n |-> IF m = 0 THEN frame ELSE IF m = 1 THEN a1
                   ELSE IF m = 2 THEN a2 ELSE IF m = 3 THEN a3
                   ELSE IF m = 4 THEN a4 ELSE a5]
           v == [m \in 0..n |-> IF m = 0 THEN frame ELSE Act(w[m - 1], L[m])]
<1>1. ASSUME NEW m \in 0..n
      PROVE  w[m] = v[m]
  <2> HIDE DEF L
  <2>0. m \in {0, 1, 2, 3, 4, 5}
    OBVIOUS
  <2>1. CASE m = 0
    BY <2>1
  <2>2. CASE m = 1
    BY <2>2
  <2>3. CASE m = 2
    BY <2>3
  <2>4. CASE m = 3
    BY <2>4
  <2>5. CASE m = 4
    BY <2>5
  <2>6. CASE m = 5
    BY <2>6
  <2> QED
    BY <2>0, <2>1, <2>2, <2>3, <2>4, <2>5, <2>6
<1>2. R(w)
  <2> HIDE DEF a1, a2, a3, a4, a5
  <2>1. w = v
    BY <1>1
  <2> QED
    BY <2>1
<1>3. PICK g : R(g) /\ g = CHOOSE x : R(x)
  BY <1>2
<1>4. Acted(e) = g[n]
  BY <1>3 DEF Acted
<1>5. g = [m \in 0..n |-> IF m = 0 THEN frame ELSE Act(g[m - 1], e.actions[m])]
  BY <1>3
<1>6. g[0] = frame
  BY <1>5
<1>7. ASSUME NEW i \in 1..n
      PROVE  g[i] = Act(g[i - 1], e.actions[i])
  <2>1. i \in 0..n /\ i # 0
    OBVIOUS
  <2> QED
    BY <1>5, <2>1
<1> QED
  BY <1>4, <1>6, <1>7

LEMMA ActedIs ==
    ASSUME NEW e
    PROVE  /\ e.actions = <<>> => Acted(e) = frame
           /\ \A x : e.actions = <<x>> => Acted(e) = Act(frame, x)
           /\ \A x, y, z : e.actions = <<x, y, z>> =>
                 Acted(e) = Act(Act(Act(frame, x), y), z)
           /\ \A x, y, z, t, u : e.actions = <<x, y, z, t, u>> =>
                 Acted(e) = Act(Act(Act(Act(Act(frame, x), y), z), t), u)
<1>1. ASSUME e.actions = <<>>
      PROVE  Acted(e) = frame
  BY <1>1, ActedSteps
<1>2. ASSUME NEW x, e.actions = <<x>>
      PROVE  Acted(e) = Act(frame, x)
  <2>1. PICK a : /\ a[0] = frame /\ Acted(e) = a[1]
                 /\ \A i \in 1..1 : a[i] = Act(a[i - 1], e.actions[i])
    <3>1. 1 \in 0..5 /\ Len(e.actions) = 1
      BY <1>2
    <3> QED
      BY <3>1, ActedSteps
  <2>2. a[1] = Act(a[0], x)
    BY <1>2, <2>1
  <2> QED
    BY <2>1, <2>2
<1>3. ASSUME NEW x, NEW y, NEW z, e.actions = <<x, y, z>>
      PROVE  Acted(e) = Act(Act(Act(frame, x), y), z)
  <2>1. PICK a : /\ a[0] = frame /\ Acted(e) = a[3]
                 /\ \A i \in 1..3 : a[i] = Act(a[i - 1], e.actions[i])
    <3>1. 3 \in 0..5 /\ Len(e.actions) = 3
      BY <1>3
    <3> QED
      BY <3>1, ActedSteps
  <2>2. a[1] = Act(a[0], x) /\ a[2] = Act(a[1], y) /\ a[3] = Act(a[2], z)
    BY <1>3, <2>1
  <2> QED
    BY <2>1, <2>2
<1>4. ASSUME NEW x, NEW y, NEW z, NEW t, NEW u, e.actions = <<x, y, z, t, u>>
      PROVE  Acted(e) = Act(Act(Act(Act(Act(frame, x), y), z), t), u)
  <2>1. PICK a : /\ a[0] = frame /\ Acted(e) = a[5]
                 /\ \A i \in 1..5 : a[i] = Act(a[i - 1], e.actions[i])
    <3>1. 5 \in 0..5 /\ Len(e.actions) = 5
      BY <1>4
    <3> QED
      BY <3>1, ActedSteps
  <2>2. /\ a[1] = Act(a[0], x) /\ a[2] = Act(a[1], y) /\ a[3] = Act(a[2], z)
        /\ a[4] = Act(a[3], t) /\ a[5] = Act(a[4], u)
    BY <1>4, <2>1
  <2> QED
    BY <2>1, <2>2
<1> QED
  BY <1>1, <1>2, <1>3, <1>4

LEMMA Pushed ==
    ASSUME NEW x, NEW y, NEW z
    PROVE  <<x>> \o <<y>> = <<x, y>> /\ <<x>> \o <<y, z>> = <<x, y, z>>
<1> DEFINE S == {x, y, z}
<1>1. <<x>> \in Seq(S) /\ <<y>> \in Seq(S) /\ <<y, z>> \in Seq(S)
  OBVIOUS
<1>2. <<x>> \o <<y>> = <<x, y>>
  <2> DEFINE s == <<x>> \o <<y>>
  <2>1. s \in Seq(S) /\ Len(s) = 2 /\ s[1] = x /\ s[2] = y
    BY <1>1, ConcatProperties
  <2> HIDE DEF s
  <2>2. s = <<x, y>>
    BY <2>1
  <2> QED
    BY <2>2 DEF s
<1>3. <<x>> \o <<y, z>> = <<x, y, z>>
  <2> DEFINE s == <<x>> \o <<y, z>>
  <2>1. s \in Seq(S) /\ Len(s) = 3 /\ s[1] = x /\ s[2] = y /\ s[3] = z
    BY <1>1, ConcatProperties
  <2> HIDE DEF s
  <2>2. s = <<x, y, z>>
    BY <2>1
  <2> QED
    BY <2>2 DEF s
<1> QED
  BY <1>2, <1>3

LEMMA EncapActs ==
    ASSUME NEW P, frame = <<P>>, NEW e, NEW sid, NEW si, NEW mac,
           e.actions = Encap(sid, si, mac)
    PROVE  Acted(e) = <<{<<"eth_type", NSH>>, <<"eth_dst", mac>>},
                        {<<"nsh_spi", sid>>, <<"nsh_si", si>>}, P>>
<1> DEFINE f1 == Act(frame, <<"encap_nsh", NoArg>>)
           f2 == Act(f1, <<"set_spi", sid>>)
           f3 == Act(f2, <<"set_si", si>>)
           f4 == Act(f3, <<"encap_ether", NoArg>>)
           f5 == Act(f4, <<"set_eth_dst", mac>>)
<1>1. Acted(e) = f5
  BY ActedIs DEF Encap
<1>2. f1 = <<{<<"nsh_spi", 0>>, <<"nsh_si", NoArg>>}, P>>
  BY Pushed DEF Act
<1>3. f2 = <<{<<"nsh_spi", sid>>, <<"nsh_si", NoArg>>}, P>>
  <2> HIDE DEF f1
  <2>1. f2 = <<{h \in f1[1] : h[1] # "nsh_spi"} \cup {<<"nsh_spi", sid>>}>> \o Tail(f1)
    BY DEF Act, SetField
  <2>2. Tail(f1) = <<P>> /\ f1[1] = {<<"nsh_spi", 0>>, <<"nsh_si", NoArg>>}
    BY <1>2
  <2>3. {h \in f1[1] : h[1] # "nsh_spi"} \cup {<<"nsh_spi", sid>>}
            = {<<"nsh_spi", sid>>, <<"nsh_si", NoArg>>}
    BY <2>2
  <2> QED
    BY <2>1, <2>2, <2>3, Pushed
<1>4. f3 = <<{<<"nsh_spi", sid>>, <<"nsh_si", si>>}, P>>
  <2> HIDE DEF f2
  <2>1. f3 = <<{h \in f2[1] : h[1] # "nsh_si"} \cup {<<"nsh_si", si>>}>> \o Tail(f2)
    BY DEF Act, SetField
  <2>2. Tail(f2) = <<P>> /\ f2[1] = {<<"nsh_spi", sid>>, <<"nsh_si", NoArg>>}
    BY <1>3
  <2>3. {h \in f2[1] : h[1] # "nsh_si"} \cup {<<"nsh_si", si>>}
            = {<<"nsh_spi", sid>>, <<"nsh_si", si>>}
    BY <2>2
  <2> QED
    BY <2>1, <2>2, <2>3, Pushed
<1>5. f4 = <<{<<"eth_type", NSH>>, <<"eth_dst", NoMac>>},
             {<<"nsh_spi", sid>>, <<"nsh_si", si>>}, P>>
  <2> HIDE DEF f3
  <2>1. f4 = <<{<<"eth_type", NSH>>, <<"eth_dst", NoMac>>}>> \o f3
    BY DEF Act
  <2> QED
    BY <1>4, <2>1, Pushed
<1>6. f5 = <<{<<"eth_type", NSH>>, <<"eth_dst", mac>>},
             {<<"nsh_spi", sid>>, <<"nsh_si", si>>}, P>>
  <2> HIDE DEF f4
  <2>1. f5 = <<{h \in f4[1] : h[1] # "eth_dst"} \cup {<<"eth_dst", mac>>}>> \o Tail(f4)
    BY DEF Act, SetField
  <2>2. /\ Tail(f4) = <<{<<"nsh_spi", sid>>, <<"nsh_si", si>>}, P>>
        /\ f4[1] = {<<"eth_type", NSH>>, <<"eth_dst", NoMac>>}
    BY <1>5
  <2>3. {h \in f4[1] : h[1] # "eth_dst"} \cup {<<"eth_dst", mac>>}
            = {<<"eth_type", NSH>>, <<"eth_dst", mac>>}
    BY <2>2
  <2>4. <<{<<"eth_type", NSH>>, <<"eth_dst", mac>>}>>
            \o <<{<<"nsh_spi", sid>>, <<"nsh_si", si>>}, P>>
            = <<{<<"eth_type", NSH>>, <<"eth_dst", mac>>},
                {<<"nsh_spi", sid>>, <<"nsh_si", si>>}, P>>
    BY Pushed
  <2> QED
    BY <2>1, <2>2, <2>3, <2>4
<1> QED
  BY <1>1, <1>6

LEMMA DecapActs ==
    ASSUME NEW A, NEW B, NEW P, frame = <<A, B, P>>, NEW e, NEW port,
           e.actions = Decap(port)
    PROVE  Acted(e) = <<P>>
<1>1. Acted(e) = Act(Act(Act(frame, <<"decap", NoArg>>), <<"decap", NoArg>>),
                     <<"output", port>>)
  BY ActedIs DEF Decap
<1>2. Act(frame, <<"decap", NoArg>>) = <<B, P>>
  BY DEF Act
<1>3. Act(<<B, P>>, <<"decap", NoArg>>) = <<P>>
  BY DEF Act
<1>4. Act(<<P>>, <<"output", port>>) = <<P>>
  BY DEF Act
<1> QED
  BY <1>1, <1>2, <1>3, <1>4

\* An address that is there already changes nothing, nor does NORMAL.
LEMMA SameFrame ==
    ASSUME NEW e, NEW mac, NEW B, NEW P
    PROVE  /\ e.actions = <<<<"normal", NoArg>>>> => Acted(e) = frame
           /\ /\ frame = <<{<<"eth_type", NSH>>, <<"eth_dst", mac>>}, B, P>>
              /\ e.actions = <<<<"set_eth_dst", mac>>>>
              => Acted(e) = frame
<1>1. e.actions = <<<<"normal", NoArg>>>> => Acted(e) = frame
  <2>1. Act(frame, <<"normal", NoArg>>) = frame
    BY DEF Act
  <2> QED
    BY <2>1, ActedIs
<1>2. ASSUME frame = <<{<<"eth_type", NSH>>, <<"eth_dst", mac>>}, B, P>>,
             e.actions = <<<<"set_eth_dst", mac>>>>
      PROVE  Acted(e) = frame
  <2>1. Acted(e) = Act(frame, <<"set_eth_dst", mac>>)
    BY <1>2, ActedIs
  <2>2. Act(frame, <<"set_eth_dst", mac>>) =
            <<{h \in frame[1] : h[1] # "eth_dst"} \cup {<<"eth_dst", mac>>}>> \o Tail(frame)
    BY DEF Act, SetField
  <2>3. /\ Tail(frame) = <<B, P>>
        /\ frame[1] = {<<"eth_type", NSH>>, <<"eth_dst", mac>>}
    BY <1>2
  <2>4. {h \in frame[1] : h[1] # "eth_dst"} \cup {<<"eth_dst", mac>>} = frame[1]
    BY <2>3
  <2>5. <<frame[1]>> \o <<B, P>> = <<frame[1], B, P>>
    BY Pushed
  <2> QED
    BY <1>2, <2>1, <2>2, <2>3, <2>4, <2>5
<1> QED
  BY <1>1, <1>2

-----------------------------------------------------------------------------
\* Places: where functions stand nothing else is.

LEMMA Places ==
    ASSUME WellBuilt, place \in Placement, NEW f \in Flow, NEW i \in 1..Count(f)
    PROVE  /\ Stands(f, i) \in VnfRow /\ Location(Stands(f, i)) \in Switch \X Port
           /\ Location(Stands(f, i)) \notin DOMAIN Peer
           /\ Location(Stands(f, i)) # Exit
           /\ \A g \in Flow : Location(Stands(f, i)) # Entrance[g]
           /\ VnfsAt(Location(Stands(f, i))) = {Service(f)[i][1]}
           /\ \A j \in 1..Count(f) : j # i => Stands(f, j).dpid # Stands(f, i).dpid
           /\ i = 1 => Stands(f, i).dpid # Entrance[f][1]
<1> DEFINE v == Service(f)[i][1]
<1>1. /\ v \in Vnf /\ DOMAIN Service(f) = 1..Count(f)
      /\ \A j \in 1..Count(f) : Service(f)[j][1] \in Vnf
  BY ServiceProperties
<1>2. WellPlaced(place)
  BY DEF WellBuilt
<1>3. place \in [Vnf -> VnfRow]
  BY PlacementAssumption
<1>4. /\ Stands(f, i) = place[v] /\ Stands(f, i) \in VnfRow
      /\ Location(Stands(f, i)) \in Switch \X Port
  BY <1>1, <1>3 DEF Stands, VnfRow, Location
<1>5. Location(place[v]) \notin {Exit} \cup DOMAIN Peer \cup {Entrance[g] : g \in Flow}
  BY <1>1, <1>2 DEF WellPlaced
<1>6. VnfsAt(Location(place[v])) = {v}
  <2>1. \A w \in Vnf : v # w => Location(place[v]) # Location(place[w])
    BY <1>1, <1>2 DEF WellPlaced
  <2> QED
    BY <1>1, <2>1 DEF VnfsAt, Location
<1>7. ASSUME NEW j \in 1..Count(f), j # i
      PROVE  Stands(f, j).dpid # Stands(f, i).dpid
  <2>1. i \in DOMAIN Service(f) /\ j \in DOMAIN Service(f)
    BY <1>1
  <2> QED
    BY <1>2, <1>7, <2>1 DEF WellPlaced, Stands
<1>8. i = 1 => Stands(f, i).dpid # Entrance[f][1]
  BY <1>1, <1>2 DEF WellPlaced, Stands
<1> QED
  BY <1>4, <1>5, <1>6, <1>7, <1>8

\* What takes a plain packet, by where it came in.
LEMMA PlainNext ==
    ASSUME WellBuilt, place \in Placement, NEW f \in Flow, NEW a \in Switch \X Port,
           NEW e \in Best(Table(place, a[1]), 0, Plain(f) \cup {<<"in_port", a[2]>>})
    PROVE  /\ a = Entrance[f] => SourceAt(e, a[1], f)
           /\ \A i \in 1..(Count(f) - 1) :
                 a = Location(Stands(f, i)) => MiddleAt(e, a[1], f, i)
           /\ a = Location(Stands(f, Count(f))) \/ a \in DOMAIN Peer =>
                 e.actions = <<>> /\ e.goto = 3
<1> DEFINE T == Table(place, a[1])
           M == Plain(f) \cup {<<"in_port", a[2]>>}
<1>1. /\ e \in T /\ e.table = 0 /\ e.match \subseteq M
      /\ \A x \in T : x.table = 0 /\ x.match \subseteq M => x.priority <= e.priority
  BY DEF Best, Matching
<1>2. \/ e.priority = 0 /\ e.actions = <<>> /\ e.goto = 3
      \/ SourceAt(e, a[1], f) /\ a = Entrance[f]
      \/ \E i : MiddleAt(e, a[1], f, i) /\ a = Location(Stands(f, i))
  <2>1. a[1] \in Switch /\ a = <<a[1], a[2]>>
    OBVIOUS
  <2>2. /\ e \in Table(place, a[1])
        /\ e.match \subseteq Plain(f) \cup {<<"in_port", a[2]>>}
    BY <1>1
  <2>3. \/ e.priority = 0 /\ e.actions = <<>> /\ e.goto = 3
        \/ SourceAt(e, a[1], f) /\ <<a[1], a[2]>> = Entrance[f]
        \/ \E i : MiddleAt(e, a[1], f, i) /\ <<a[1], a[2]>> = Location(Stands(f, i))
    BY <1>1, <2>1, <2>2, PlainLookup
  <2> QED
    BY <2>1, <2>3
<1>3. Count(f) \in Nat \ {0}
  BY ServiceProperties
<1>4. ASSUME a = Entrance[f]
      PROVE  SourceAt(e, a[1], f)
  <2>1. PICK x \in T : SourceAt(x, a[1], f)
    BY <1>4, EntriesThere
  <2>2. x.match \subseteq M
    BY <1>4, <2>1 DEF SourceAt, Plain
  <2>3. e.priority >= 8
    BY <1>1, <2>1, <2>2 DEF SourceAt
  <2>4. ASSUME NEW i, MiddleAt(e, a[1], f, i)
        PROVE  FALSE
    BY <2>3, <2>4 DEF MiddleAt
  <2> QED
    BY <1>2, <2>3, <2>4
<1>5. ASSUME NEW i \in 1..(Count(f) - 1), a = Location(Stands(f, i))
      PROVE  MiddleAt(e, a[1], f, i)
  <2>0. i \in 1..Count(f) /\ a[1] = Stands(f, i).dpid /\ a[2] = Stands(f, i).in_port
    BY <1>3, <1>5 DEF Location
  <2>1. PICK x \in T : MiddleAt(x, a[1], f, i)
    BY <2>0, EntriesThere
  <2>2. x.match \subseteq M
    BY <2>0, <2>1 DEF MiddleAt, Plain, MiddleFields
  <2>3. e.priority >= 6
    BY <1>1, <2>1, <2>2 DEF MiddleAt
  <2>4. a # Entrance[f]
    BY <1>5, <2>0, Places
  <2>5. PICK j : MiddleAt(e, a[1], f, j) /\ a = Location(Stands(f, j))
    BY <1>2, <2>3, <2>4
  <2>6. j \in 1..Count(f) /\ Stands(f, j).dpid = Stands(f, i).dpid
    BY <1>3, <2>0, <2>5 DEF MiddleAt
  <2>7. j = i
    BY <2>0, <2>6, Places
  <2> QED
    BY <2>5, <2>7
<1>6. ASSUME a = Location(Stands(f, Count(f))) \/ a \in DOMAIN Peer
      PROVE  e.actions = <<>> /\ e.goto = 3
  <2>1. Count(f) \in 1..Count(f)
    BY <1>3
  <2>2. a # Entrance[f]
    BY <1>6, <2>1, Places DEF WellBuilt, WellLinked
  <2>3. ASSUME NEW i, MiddleAt(e, a[1], f, i), a = Location(Stands(f, i))
        PROVE  FALSE
    <3>1. i \in 1..Count(f) /\ i # Count(f) /\ a[1] = Stands(f, i).dpid
      BY <1>3, <2>3 DEF MiddleAt, Location
    <3>2. a \notin DOMAIN Peer
      BY <2>3, <3>1, Places
    <3>3. Stands(f, Count(f)).dpid = Stands(f, i).dpid
      BY <1>6, <3>1, <3>2 DEF Location
    <3> QED
      BY <2>1, <3>1, <3>3, Places
  <2> QED
    BY <1>2, <2>2, <2>3
<1> QED
  BY <1>4, <1>5, <1>6

\* Where NORMAL sends a packet.
LEMMA NormalPortsAre ==
    ASSUME WellBuilt, place \in Placement, NEW f \in Flow, NEW s \in Switch, NEW fr,
           NEW p \in NormalPorts(s, fr)
    PROVE  /\ \A i \in 1..Count(f) :
                 fr[1] = {<<"eth_type", NSH>>, <<"eth_dst", Stands(f, i).locator_addr>>} =>
                    IF s = Stands(f, i).dpid THEN <<s, p>> = Location(Stands(f, i))
                    ELSE <<s, p>> \in DOMAIN Peer
           /\ fr[1] = Plain(f) => IF s = Exit[1] THEN <<s, p>> = Exit
                                ELSE <<s, p>> \in DOMAIN Peer
<1>0. PICK h \in fr[1] : /\ h[1] = "eth_dst"
                         /\ \E l \in Located(h[2]) :
                               p = IF l[1] = s THEN l[2] ELSE Toward[<<s, l[1]>>]
  BY DEF NormalPorts
<1>1. PICK l \in Located(h[2]) :
         h[1] = "eth_dst" /\ p = IF l[1] = s THEN l[2] ELSE Toward[<<s, l[1]>>]
  BY <1>0
<1>2. \A t \in Switch : s # t => <<s, Toward[<<s, t>>]>> \in DOMAIN Peer
  BY DEF WellBuilt, WellLinked
<1>3. ASSUME NEW i \in 1..Count(f),
             fr[1] = {<<"eth_type", NSH>>, <<"eth_dst", Stands(f, i).locator_addr>>}
      PROVE  IF s = Stands(f, i).dpid THEN <<s, p>> = Location(Stands(f, i))
             ELSE <<s, p>> \in DOMAIN Peer
  <2>1. h[2] = Stands(f, i).locator_addr
    BY <1>1, <1>3
  <2>2. /\ Service(f)[i][1] \in Vnf /\ Stands(f, i) = place[Service(f)[i][1]]
        /\ WellPlaced(place)
    BY ServiceProperties DEF Stands, WellBuilt
  <2>3. h[2] # ExitMac /\ \A w \in Vnf :
           place[w].locator_addr = h[2] => w = Service(f)[i][1]
    BY <2>1, <2>2 DEF WellPlaced
  <2>5. l = Location(Stands(f, i))
    BY <2>2, <2>3 DEF Located, Location
  <2>4. /\ l[1] = Stands(f, i).dpid /\ Stands(f, i).dpid \in Switch
        /\ l[2] = Stands(f, i).in_port
    BY <2>5, Places DEF Location, VnfRow
  <2> QED
    BY <1>1, <1>2, <1>3, <2>4 DEF Location
<1>4. ASSUME fr[1] = Plain(f)
      PROVE  IF s = Exit[1] THEN <<s, p>> = Exit ELSE <<s, p>> \in DOMAIN Peer
  <2>1. h[2] = ExitMac
    BY <1>1, <1>4 DEF Plain, WellBuilt, WellAddressed
  <2>2. l = Exit
    BY <2>1 DEF Located
  <2>3. Exit = <<Exit[1], Exit[2]>> /\ Exit[1] \in Switch
    BY DEF WellBuilt, WellLinked
  <2> QED
    BY <1>1, <1>2, <2>2, <2>3
<1> QED
  BY <1>3, <1>4

-----------------------------------------------------------------------------
\* The steps of a packet.

LEMMA VisibleIs ==
    ASSUME WellBuilt, sent \in Flow
    PROVE  /\ IsPlain => Visible = Plain(sent) \cup {<<"in_port", at[2]>>}
           /\ \A i : IsFor(i) => Visible = NshPacket(sent, i, at[2])
<1>1. <<"eth_type", NSH>> \notin Plain(sent)
  BY DEF WellBuilt, WellAddressed, Plain
<1>2. IsPlain => Visible = Plain(sent) \cup {<<"in_port", at[2]>>}
  BY <1>1 DEF IsPlain, Visible
<1>3. ASSUME NEW i, IsFor(i)
      PROVE  Visible = NshPacket(sent, i, at[2])
  BY <1>3 DEF IsFor, Visible, NshPacket, Count
<1> QED
  BY <1>2, <1>3

\* The entry a packet meets, and what becomes of the frame.
LEMMA Met ==
    ASSUME WellBuilt, WalkInv, phase = "switch", NEW e \in Lookup
    PROVE  /\ Entering \/ (Returned /\ Len(visited) < Count(sent)) =>
                 /\ e.goto = 3 /\ Turn <= Count(sent)
                 /\ Acted(e) =
                      <<{<<"eth_type", NSH>>,
                         <<"eth_dst", Stands(sent, Turn).locator_addr>>},
                        {<<"nsh_spi", ServiceOf[sent]>>,
                         <<"nsh_si", Count(sent) + 1 - Turn>>}, Plain(sent)>>
                 /\ at[1] # Stands(sent, Turn).dpid
           /\ Carried => IF tbl = 1 /\ at[1] = Stands(sent, Turn).dpid
                         THEN /\ e.goto = 0 /\ Acted(e) = <<Plain(sent)>>
                              /\ e.actions = Decap(Stands(sent, Turn).in_port)
                         ELSE /\ Acted(e) = frame
                              /\ e.goto = (IF tbl = 0 THEN 1 ELSE IF tbl = 1 THEN 3 ELSE 0)
                              /\ tbl = 3 => e.actions = <<<<"normal", NoArg>>>>
           /\ (Returned /\ Len(visited) = Count(sent)) \/ Leaving =>
                 /\ Acted(e) = frame
                 /\ e.goto = (IF tbl = 0 THEN 3 ELSE 0)
                 /\ tbl = 3 => e.actions = <<<<"normal", NoArg>>>>
<1> DEFINE n == Count(sent)
           k == Len(visited)
<1>1. /\ sent \in Flow /\ place \in Placement /\ at \in Switch \X Port
      /\ at[1] \in Switch /\ k \in Nat /\ n \in Nat \ {0} /\ k <= n
  BY ServiceProperties, LenProperties DEF WalkInv, Count
<1>2. e \in Best(Table(place, at[1]), tbl, Visible)
  BY <1>1 DEF WalkInv, Lookup
<1>3. e \in Table(place, at[1]) /\ e.table = tbl
  BY <1>2 DEF Best, Matching
<1>4. ASSUME Entering
      PROVE  /\ e.goto = 3 /\ Turn <= n /\ at[1] # Stands(sent, Turn).dpid
             /\ Acted(e) = <<{<<"eth_type", NSH>>,
                             <<"eth_dst", Stands(sent, Turn).locator_addr>>},
                            {<<"nsh_spi", ServiceOf[sent]>>,
                             <<"nsh_si", n + 1 - Turn>>}, Plain(sent)>>
  <2>1. Turn = 1 /\ n + 1 - Turn = n /\ 1 \in 1..n
    BY <1>1, <1>4 DEF Entering, Turn
  <2>2. e \in Best(Table(place, at[1]), 0, Plain(sent) \cup {<<"in_port", at[2]>>})
    BY <1>1, <1>2, <1>4, VisibleIs DEF Entering
  <2>3. SourceAt(e, at[1], sent)
    BY <1>1, <1>4, <2>2, PlainNext DEF Entering
  <2>4. e.goto = 3 /\ e.actions = Encap(ServiceOf[sent], n, Stands(sent, 1).locator_addr)
    BY <2>3 DEF SourceAt
  <2>5. frame = <<Plain(sent)>>
    BY <1>4 DEF Entering, IsPlain
  <2>6. Stands(sent, 1).dpid # at[1]
    BY <1>1, <1>4, <2>1, Places DEF Entering
  <2> HIDE DEF n
  <2> QED
    BY <2>1, <2>4, <2>5, <2>6, EncapActs
<1>5. ASSUME Returned, k < n
      PROVE  /\ e.goto = 3 /\ Turn <= n /\ at[1] # Stands(sent, Turn).dpid
             /\ Acted(e) = <<{<<"eth_type", NSH>>,
                             <<"eth_dst", Stands(sent, Turn).locator_addr>>},
                            {<<"nsh_spi", ServiceOf[sent]>>,
                             <<"nsh_si", n + 1 - Turn>>}, Plain(sent)>>
  <2>0. k # 0
    BY <1>5, EmptySeq DEF Returned, WalkInv
  <2>1. /\ k \in 1..(n - 1) /\ Turn = k + 1 /\ n + 1 - Turn = n - k /\ k # Turn
        /\ Turn \in 1..n /\ k \in 1..n
    BY <1>1, <1>5, <2>0 DEF Turn
  <2>2. e \in Best(Table(place, at[1]), 0, Plain(sent) \cup {<<"in_port", at[2]>>})
    BY <1>1, <1>2, <1>5, VisibleIs DEF Returned
  <2>3. at = Location(Stands(sent, k)) /\ frame = <<Plain(sent)>>
    BY <1>5 DEF Returned, IsPlain
  <2>4. MiddleAt(e, at[1], sent, k)
    BY <1>1, <2>1, <2>2, <2>3, PlainNext
  <2>5. /\ e.goto = 3
        /\ e.actions = Encap(ServiceOf[sent], n - k, Stands(sent, k + 1).locator_addr)
    BY <2>4 DEF MiddleAt
  <2>6. at[1] = Stands(sent, k).dpid
    BY <2>3 DEF Location
  <2>7. Stands(sent, k).dpid # Stands(sent, Turn).dpid
    BY <1>1, <2>1, Places
  <2> HIDE DEF n, k
  <2> QED
    BY <2>1, <2>3, <2>5, <2>6, <2>7, EncapActs
<1>6. ASSUME Carried
      PROVE  IF tbl = 1 /\ at[1] = Stands(sent, Turn).dpid
             THEN /\ e.goto = 0 /\ Acted(e) = <<Plain(sent)>>
                  /\ e.actions = Decap(Stands(sent, Turn).in_port)
             ELSE /\ Acted(e) = frame
                  /\ e.goto = (IF tbl = 0 THEN 1 ELSE IF tbl = 1 THEN 3 ELSE 0)
                  /\ tbl = 3 => e.actions = <<<<"normal", NoArg>>>>
  <2>1. Turn \in 1..n /\ IsFor(Turn) /\ tbl \in {0, 1, 3}
    BY <1>1, <1>6 DEF Carried, Turn, Count
  <2>2. e \in Best(Table(place, at[1]), tbl, NshPacket(sent, Turn, at[2]))
    BY <1>1, <1>2, <2>1, VisibleIs
  <2>3. CASE tbl = 0
    <3>1. e.actions = <<>> /\ e.goto = 1
      BY <1>1, <2>2, <2>3, NshToTable1
    <3> QED
      BY <2>3, <3>1, ActedIs
  <2>4. CASE tbl = 1
    <3>1. IF at[1] = Stands(sent, Turn).dpid
          THEN e.goto = 0 /\ e.actions = Decap(Stands(sent, Turn).in_port)
          ELSE /\ e.goto = 3
               /\ \/ e.actions = <<>>
                  \/ e.actions = <<<<"set_eth_dst", Stands(sent, Turn).locator_addr>>>>
      BY <1>1, <2>1, <2>2, <2>4, NshInTable1
    <3>2. at[1] = Stands(sent, Turn).dpid => Acted(e) = <<Plain(sent)>>
      BY <2>1, <3>1, DecapActs DEF IsFor
    <3>3. at[1] # Stands(sent, Turn).dpid => Acted(e) = frame
      BY <2>1, <3>1, ActedIs, SameFrame DEF IsFor
    <3> QED
      BY <2>4, <3>1, <3>2, <3>3
  <2>5. CASE tbl = 3
    <3>1. e.actions = <<<<"normal", NoArg>>>> /\ e.goto = 0
      BY <1>1, <1>3, <2>5, Table3IsNormal
    <3> QED
      BY <2>5, <3>1, SameFrame
  <2> QED
    BY <2>1, <2>3, <2>4, <2>5
<1>7. ASSUME (Returned /\ k = n) \/ Leaving
      PROVE  /\ Acted(e) = frame
             /\ e.goto = (IF tbl = 0 THEN 3 ELSE 0)
             /\ tbl = 3 => e.actions = <<<<"normal", NoArg>>>>
  <2>1. IsPlain /\ tbl \in {0, 3}
    BY <1>7 DEF Returned, Leaving
  <2>2. CASE tbl = 0
    <3>1. at = Location(Stands(sent, n)) \/ at \in DOMAIN Peer
      BY <1>7, <2>2 DEF Returned, Leaving
    <3>2. e \in Best(Table(place, at[1]), 0, Plain(sent) \cup {<<"in_port", at[2]>>})
      BY <1>1, <1>2, <2>1, <2>2, VisibleIs
    <3>3. e.actions = <<>> /\ e.goto = 3
      BY <1>1, <3>1, <3>2, PlainNext
    <3> QED
      BY <2>2, <3>3, ActedIs
  <2>3. CASE tbl = 3
    <3>1. e.actions = <<<<"normal", NoArg>>>> /\ e.goto = 0
      BY <1>1, <1>3, <2>3, Table3IsNormal
    <3> QED
      BY <2>3, <3>1, SameFrame
  <2> QED
    BY <2>1, <2>2, <2>3
<1> QED
  BY <1>4, <1>5, <1>6, <1>7

\* What no step touches.
LEMMA Fixed ==
    ASSUME WalkInv, UNCHANGED <<table, place, sent>>
    PROVE  /\ sent' \in Flow /\ place' \in Placement
           /\ table' = [s \in Switch |-> Table(place', s)]
           /\ \A f, i : Stands(f, i)' = Stands(f, i)
BY DEF WalkInv, Table, ChainMods, Stands

LEMMA NextGoto ==
    ASSUME WellBuilt, WalkInv, GotoTable, UNCHANGED <<table, place>>
    PROVE  /\ WalkInv' /\ UNCHANGED <<sent, visited, phase>>
           /\ phase = "switch"
<1>1. /\ phase = "switch" /\ UNCHANGED <<sent, at, phase, visited, table, place>>
      /\ \E e \in Lookup : e.goto # 0 /\ frame' = Acted(e) /\ tbl' = e.goto
  BY DEF GotoTable
<1>2. PICK e \in Lookup : e.goto # 0 /\ frame' = Acted(e) /\ tbl' = e.goto
  BY <1>1
<1>3. /\ sent' \in Flow /\ place' \in Placement
      /\ table' = [s \in Switch |-> Table(place', s)]
      /\ \A f, i : Stands(f, i)' = Stands(f, i)
  BY <1>1, Fixed
<1>4. /\ at' \in Switch \X Port /\ visited' \in Seq(Vnf)
      /\ Len(visited') <= Len(Service(sent'))
      /\ \A i \in DOMAIN visited' : visited'[i] = Service(sent')[i][1]
  BY <1>1 DEF WalkInv
<1>5. Len(visited) \in Nat /\ Count(sent) \in Nat /\ Len(visited) <= Count(sent)
  BY ServiceProperties, LenProperties DEF WalkInv, Count
<1>6. CASE Entering \/ (Returned /\ Len(visited) < Count(sent))
  <2>1. /\ e.goto = 3 /\ Turn <= Count(sent)
        /\ Acted(e) =
             <<{<<"eth_type", NSH>>, <<"eth_dst", Stands(sent, Turn).locator_addr>>},
               {<<"nsh_spi", ServiceOf[sent]>>,
                <<"nsh_si", Count(sent) + 1 - Turn>>}, Plain(sent)>>
        /\ at[1] # Stands(sent, Turn).dpid
    BY <1>1, <1>6, Met
  <2>2. IsFor(Turn)'
    BY <1>1, <1>2, <2>1 DEF IsFor, Stands, Turn, Count
  <2>3. Carried'
    BY <1>1, <1>2, <2>1, <2>2 DEF Carried, Stands, Turn, Count
  <2> QED
    BY <1>1, <1>3, <1>4, <2>3 DEF WalkInv
<1>7. CASE Carried
  <2>1. /\ frame' = frame /\ tbl \in {0, 1, 3}
        /\ tbl' = (IF tbl = 0 THEN 1 ELSE IF tbl = 1 THEN 3 ELSE 0)
        /\ tbl = 1 => at[1] # Stands(sent, Turn).dpid
    BY <1>1, <1>2, <1>7, Met DEF Carried
  <2>2. tbl \in {0, 1}
    BY <1>2, <2>1
  <2>3. IsFor(Turn)'
    BY <1>1, <1>7, <2>1 DEF Carried, IsFor, Stands, Turn
  <2>4. Carried'
    BY <1>1, <1>7, <2>1, <2>2, <2>3 DEF Carried, Stands, Turn
  <2> QED
    BY <1>1, <1>3, <1>4, <2>4 DEF WalkInv
<1>8. CASE (Returned /\ Len(visited) = Count(sent)) \/ Leaving
  <2>1. frame' = frame /\ tbl' = (IF tbl = 0 THEN 3 ELSE 0) /\ tbl' # 0
    BY <1>1, <1>2, <1>8, Met
  <2>2. Leaving'
    BY <1>1, <1>8, <2>1 DEF Returned, Leaving, IsPlain, Count
  <2> QED
    BY <1>1, <1>3, <1>4, <2>2 DEF WalkInv
<1>9. ~ AtFunction /\ ~ Delivered
  BY <1>1 DEF AtFunction, Delivered
<1>10. Returned => \/ Returned /\ Len(visited) < Count(sent)
                   \/ Returned /\ Len(visited) = Count(sent)
  BY <1>5
<1> QED
  BY <1>1, <1>6, <1>7, <1>8, <1>9, <1>10 DEF WalkInv

\* A frame leaves a switch by a trunk, to a function, or at the exit.
LEMMA Leaves ==
    ASSUME WellBuilt, place \in Placement, sent \in Flow, NEW s, NEW p, Leave(s, p)
    PROVE  /\ <<s, p>> \in DOMAIN Peer =>
                 phase' = "switch" /\ at' \in DOMAIN Peer /\ at' \in Switch \X Port
           /\ \A i \in 1..Count(sent) : <<s, p>> = Location(Stands(sent, i)) =>
                 phase' = "function" /\ at' = <<s, p>>
           /\ <<s, p>> = Exit => phase' = "delivered" /\ at' = Exit
<1>1. /\ Peer \in [DOMAIN Peer -> DOMAIN Peer] /\ DOMAIN Peer \subseteq Switch \X Port
      /\ Exit \notin DOMAIN Peer
  BY DEF WellBuilt, WellLinked
<1>2. ASSUME <<s, p>> \in DOMAIN Peer
      PROVE  phase' = "switch" /\ at' \in DOMAIN Peer /\ at' \in Switch \X Port
  BY <1>1, <1>2 DEF Leave
<1>3. ASSUME NEW i \in 1..Count(sent), <<s, p>> = Location(Stands(sent, i))
      PROVE  phase' = "function" /\ at' = <<s, p>>
  <2>1. <<s, p>> \notin DOMAIN Peer /\ VnfsAt(<<s, p>>) # {}
    BY <1>3, Places
  <2> QED
    BY <2>1 DEF Leave
<1>4. ASSUME <<s, p>> = Exit
      PROVE  phase' = "delivered" /\ at' = Exit
  <2>1. VnfsAt(Exit) = {}
    <3>1. WellPlaced(place)
      BY DEF WellBuilt
    <3> QED
      BY <3>1 DEF WellPlaced, VnfsAt, Location
  <2> QED
    BY <1>1, <1>4, <2>1 DEF Leave
<1> QED
  BY <1>2, <1>3, <1>4

LEMMA NextOutput ==
    ASSUME WellBuilt, WalkInv, Output, UNCHANGED <<table, place>>
    PROVE  /\ WalkInv' /\ UNCHANGED <<sent, visited>>
           /\ phase = "switch"
           /\ phase' = "delivered" => Delivered'
<1>1. /\ phase = "switch" /\ UNCHANGED <<sent, visited, table, place>> /\ tbl' = 0
      /\ \E e \in Lookup : /\ e.goto = 0 /\ frame' = Acted(e)
                            /\ \E p \in OutPorts(at[1], e) : Leave(at[1], p)
  BY DEF Output
<1>2. PICK e \in Lookup : /\ e.goto = 0 /\ frame' = Acted(e)
                          /\ \E p \in OutPorts(at[1], e) : Leave(at[1], p)
  BY <1>1
<1>3. PICK p \in OutPorts(at[1], e) : Leave(at[1], p)
  BY <1>2
<1>4. /\ sent' \in Flow /\ place' \in Placement
      /\ table' = [s \in Switch |-> Table(place', s)]
      /\ visited' \in Seq(Vnf)
      /\ Len(visited') <= Len(Service(sent'))
      /\ \A i \in DOMAIN visited' : visited'[i] = Service(sent')[i][1]
  BY <1>1, Fixed DEF WalkInv
<1>5. /\ Len(visited) \in Nat /\ Count(sent) \in Nat /\ Len(visited) <= Count(sent)
      /\ sent \in Flow /\ place \in Placement /\ at[1] \in Switch
  BY ServiceProperties, LenProperties DEF WalkInv, Count
<1>6. ~ (Entering \/ (Returned /\ Len(visited) < Count(sent)))
  <2>1. Entering \/ (Returned /\ Len(visited) < Count(sent)) => e.goto = 3
    BY <1>1, Met
  <2> QED
    BY <1>2, <2>1
<1>7. ASSUME e.actions = <<<<"normal", NoArg>>>>, Acted(e) = frame
      PROVE  p \in NormalPorts(at[1], frame)
  BY <1>3, <1>7 DEF OutPorts, ToSet
<1>8. CASE Carried /\ tbl = 1
  <2>1. /\ at[1] = Stands(sent, Turn).dpid /\ frame' = <<Plain(sent)>>
        /\ e.actions = Decap(Stands(sent, Turn).in_port)
    BY <1>1, <1>2, <1>8, Met
  <2>2. p = Stands(sent, Turn).in_port
    BY <1>3, <2>1 DEF OutPorts, ToSet, Decap
  <2>3. Turn \in 1..Count(sent) /\ <<at[1], p>> = Location(Stands(sent, Turn))
    BY <1>5, <1>8, <2>1, <2>2 DEF Carried, Turn, Count, Location
  <2>4. phase' = "function" /\ at' = Location(Stands(sent, Turn))
    BY <1>3, <1>5, <2>3, Leaves
  <2>5. AtFunction'
    BY <1>1, <1>8, <2>1, <2>4 DEF AtFunction, Carried, IsPlain, Stands, Location, Turn
  <2>6. at' \in Switch \X Port
    BY <1>5, <2>3, <2>4, Places
  <2> QED
    BY <1>1, <1>4, <2>4, <2>5, <2>6 DEF WalkInv
<1>9. CASE Carried /\ tbl # 1
  <2>1. tbl = 3 /\ at[1] # Stands(sent, Turn).dpid
    BY <1>1, <1>2, <1>9, Met DEF Carried
  <2>2. e.actions = <<<<"normal", NoArg>>>> /\ Acted(e) = frame
    BY <1>1, <1>9, <2>1, Met
  <2>3. /\ Turn \in 1..Count(sent)
        /\ frame[1] = {<<"eth_type", NSH>>,
                       <<"eth_dst", Stands(sent, Turn).locator_addr>>}
    BY <1>5, <1>9 DEF Carried, IsFor, Turn, Count
  <2>4. <<at[1], p>> \in DOMAIN Peer
    BY <1>5, <1>7, <2>1, <2>2, <2>3, NormalPortsAre
  <2>5. phase' = "switch" /\ at' \in Switch \X Port
    BY <1>3, <1>5, <2>4, Leaves
  <2>6. IsFor(Turn)'
    BY <1>1, <1>2, <1>9, <2>2 DEF Carried, IsFor, Stands, Turn
  <2>7. Carried'
    BY <1>1, <1>9, <2>5, <2>6 DEF Carried, Turn
  <2> QED
    BY <1>1, <1>4, <2>5, <2>7 DEF WalkInv
<1>10. CASE (Returned /\ Len(visited) = Count(sent)) \/ Leaving
  <2>1. /\ Acted(e) = frame /\ e.goto = (IF tbl = 0 THEN 3 ELSE 0)
        /\ tbl = 3 => e.actions = <<<<"normal", NoArg>>>>
    BY <1>1, <1>10, Met
  <2>2. /\ tbl = 3 /\ IsPlain /\ Len(visited) = Count(sent)
    BY <1>2, <1>10, <2>1 DEF Returned, Leaving, Count
  <2>3. frame[1] = Plain(sent)
    BY <2>2 DEF IsPlain
  <2>4. <<at[1], p>> \in DOMAIN Peer \/ <<at[1], p>> = Exit
    BY <1>5, <1>7, <2>1, <2>2, <2>3, NormalPortsAre
  <2>5. IsPlain'
    BY <1>1, <1>2, <2>1, <2>2 DEF IsPlain
  <2>6. CASE <<at[1], p>> \in DOMAIN Peer
    <3>1. phase' = "switch" /\ at' \in DOMAIN Peer /\ at' \in Switch \X Port
      BY <1>3, <1>5, <2>6, Leaves
    <3>2. Leaving'
      BY <1>1, <2>2, <2>5, <3>1 DEF Leaving, Count
    <3> QED
      BY <1>1, <1>4, <3>1, <3>2 DEF WalkInv
  <2>7. CASE <<at[1], p>> = Exit
    <3>1. phase' = "delivered" /\ at' \in Switch \X Port
      BY <1>3, <1>5, <2>7, Leaves DEF WellBuilt, WellLinked
    <3>2. Delivered'
      BY <1>1, <2>2, <2>5, <3>1 DEF Delivered, Count
    <3> QED
      BY <1>1, <1>4, <3>1, <3>2 DEF WalkInv
  <2> QED
    BY <2>4, <2>6, <2>7
<1>11. ~ AtFunction /\ ~ Delivered
  BY <1>1 DEF AtFunction, Delivered
<1>12. Returned => \/ Returned /\ Len(visited) < Count(sent)
                   \/ Returned /\ Len(visited) = Count(sent)
  BY <1>5
<1> QED
  BY <1>6, <1>8, <1>9, <1>10, <1>11, <1>12 DEF WalkInv

LEMMA NextServe ==
    ASSUME WellBuilt, WalkInv, Serve, UNCHANGED <<table, place>>
    PROVE  /\ WalkInv' /\ UNCHANGED sent /\ phase = "function" /\ phase' = "switch"
           /\ Turn <= Count(sent)
           /\ visited' = Append(visited, Service(sent)[Turn][1])
<1>1. phase = "function" /\ UNCHANGED <<sent, frame, at, tbl, table, place>>
  BY DEF Serve
<1>2. AtFunction
  BY <1>1 DEF WalkInv, Entering, Carried, Returned, Leaving, Delivered
<1>3. /\ Len(visited) \in Nat /\ Count(sent) \in Nat /\ visited \in Seq(Vnf)
      /\ sent \in Flow /\ place \in Placement
  BY ServiceProperties, LenProperties DEF WalkInv
<1>4. Turn \in 1..Count(sent) /\ Turn <= Count(sent) /\ Turn = Len(visited) + 1
  BY <1>2, <1>3 DEF AtFunction, Turn, Count
<1>5. VnfsAt(at) = {Service(sent)[Turn][1]}
  BY <1>2, <1>3, <1>4, Places DEF AtFunction
<1>6. Len(frame) = 1
  BY <1>2 DEF AtFunction, IsPlain
<1>7. phase' = "switch" /\ visited' = Append(visited, Service(sent)[Turn][1])
  BY <1>5, <1>6 DEF Serve
<1>8. Service(sent)[Turn][1] \in Vnf
  BY <1>3, <1>4, ServiceProperties
<1>9. /\ visited' \in Seq(Vnf) /\ Len(visited') = Len(visited) + 1
      /\ \A i \in 1..Len(visited) : visited'[i] = visited[i]
      /\ visited'[Len(visited) + 1] = Service(sent)[Turn][1]
  BY <1>3, <1>7, <1>8, AppendProperties
<1>10. DOMAIN visited' = 1..(Len(visited) + 1) /\ DOMAIN visited = 1..Len(visited)
  BY <1>3, <1>9, LenProperties
<1>11. /\ Len(visited') <= Len(Service(sent'))
       /\ \A i \in DOMAIN visited' : visited'[i] = Service(sent')[i][1]
  <2>1. Len(visited') <= Len(Service(sent'))
    BY <1>1, <1>4, <1>9 DEF Count
  <2>2. ASSUME NEW i \in DOMAIN visited'
        PROVE  visited'[i] = Service(sent)[i][1]
    <3>1. i \in 1..Len(visited) \/ i = Len(visited) + 1
      BY <1>3, <1>10, <2>2
    <3>2. CASE i \in 1..Len(visited)
      BY <1>9, <1>10, <3>2 DEF WalkInv
    <3>3. CASE i = Len(visited) + 1
      BY <1>4, <1>9, <3>3
    <3> QED
      BY <3>1, <3>2, <3>3
  <2> QED
    BY <1>1, <2>1, <2>2
<1>12. Returned'
  <2>1. at' = Location(Stands(sent, Len(visited) + 1))
    BY <1>1, <1>2, <1>4 DEF AtFunction
  <2>2. visited' # <<>>
    BY <1>3, <1>9
  <2> QED
    BY <1>1, <1>2, <1>7, <1>9, <2>1, <2>2
       DEF Returned, AtFunction, IsPlain, Location, Stands
<1>13. /\ sent' \in Flow /\ place' \in Placement
       /\ table' = [s \in Switch |-> Table(place', s)]
       /\ at' \in Switch \X Port
  BY <1>1, Fixed DEF WalkInv
<1>14. WalkInv'
  BY <1>9, <1>11, <1>12, <1>13 DEF WalkInv
<1> QED
  BY <1>1, <1>4, <1>7, <1>14

-----------------------------------------------------------------------------
\* The walk of a packet.

LEMMA InitWalk == WellBuilt /\ Init => WalkInv
<1> SUFFICES ASSUME WellBuilt, Init PROVE WalkInv
  OBVIOUS
<1>1. at \in Switch \X Port
  BY EntranceAssumption DEF Init
<1>2. visited \in Seq(Vnf) /\ Len(visited) = 0 /\ DOMAIN visited = {}
  BY DEF Init
<1>3. Len(visited) <= Len(Service(sent))
  BY <1>2, ServiceProperties DEF Init, Count
<1> QED
  BY <1>1, <1>2, <1>3 DEF Init, WalkInv, Entering, IsPlain

LEMMA NextWalk == WellBuilt /\ WalkInv /\ [Next]_vars => WalkInv'
<1> SUFFICES ASSUME WellBuilt, WalkInv, [Next]_vars PROVE WalkInv'
  OBVIOUS
<1>1. CASE Next
  BY <1>1, NextGoto, NextOutput, NextServe DEF Next, Move
<1>2. CASE UNCHANGED vars
  <2>1. UNCHANGED <<table, place, sent, frame, at, tbl, phase, visited>>
    BY <1>2 DEF vars
  <2>2. /\ sent' \in Flow /\ place' \in Placement
        /\ table' = [s \in Switch |-> Table(place', s)]
        /\ \A f, i : Stands(f, i)' = Stands(f, i)
    BY <2>1, Fixed
  <2>3. /\ Entering => Entering'
        /\ Returned => Returned'
        /\ AtFunction => AtFunction'
        /\ Leaving => Leaving'
        /\ Delivered => Delivered'
    BY <2>1 DEF Entering, Returned, AtFunction, Leaving, Delivered, IsPlain, Turn,
                Location, Stands
  <2>4. Carried => Carried'
    BY <2>1 DEF Carried, IsFor, Turn, Stands
  <2> QED
    BY <2>1, <2>2, <2>3, <2>4 DEF WalkInv
<1> QED
  BY <1>1, <1>2

\* Where a packet is, and for whom, at every moment.
THEOREM Walk == ASSUME WellBuilt PROVE Spec => []WalkInv
<1>1. Init => WalkInv
  BY InitWalk
<1>2. WalkInv /\ [Next]_vars => WalkInv'
  BY NextWalk
<1> QED
  BY <1>1, <1>2, PTL DEF Spec

-----------------------------------------------------------------------------
\* What the walk says of the packet.

LEMMA WalkLength ==
    ASSUME WalkInv
    PROVE  /\ sent \in Flow /\ place \in Placement
           /\ Len(visited) \in Nat /\ Count(sent) \in Nat \ {0}
           /\ Len(visited) <= Count(sent)
           /\ Len(visited) < Count(sent) => Turn \in 1..Count(sent)
<1>1. /\ Len(visited) \in Nat /\ Count(sent) \in Nat \ {0}
      /\ Len(visited) <= Count(sent) /\ sent \in Flow /\ place \in Placement
  BY ServiceProperties, LenProperties DEF WalkInv, Count
<1> QED
  BY <1>1 DEF Turn

LEMMA PlainLength == IsPlain => Len(frame) = 1
BY DEF IsPlain

\* The NSH service index of a packet between two functions is the number of
\* functions it has still to visit ("set si as the remaining length of the
\* SFC", README.md:98), and its outer address that of the next of them.
THEOREM IndexCountsDown == ASSUME WellBuilt PROVE Spec => []IndexIsRemaining
<1>1. WalkInv => IndexIsRemaining
  <2> SUFFICES ASSUME WalkInv, Len(frame) = 3, phase = "switch"
               PROVE  LET left == Len(Service(sent)) - Len(visited) IN
                      /\ left > 0
                      /\ frame[2] = {<<"nsh_spi", ServiceOf[sent]>>, <<"nsh_si", left>>}
                      /\ <<"eth_dst", place[Service(sent)[Len(visited) + 1][1]].locator_addr>>
                            \in frame[1]
    BY DEF IndexIsRemaining
  <2>1. Carried
    BY PlainLength DEF WalkInv, Entering, AtFunction, Returned, Leaving, Delivered
  <2>2. /\ Len(visited) \in Nat /\ Count(sent) \in Nat
        /\ Turn = Len(visited) + 1 /\ Turn <= Count(sent)
    BY <2>1, WalkLength DEF Carried, Turn, Count
  <2>3. Len(Service(sent)) = Count(sent)
    BY DEF Count
  <2>4. /\ frame[2] = {<<"nsh_spi", ServiceOf[sent]>>, <<"nsh_si", Count(sent) + 1 - Turn>>}
        /\ <<"eth_dst", Stands(sent, Turn).locator_addr>> \in frame[1]
    BY <2>1, <2>3 DEF Carried, IsFor
  <2>5. Count(sent) + 1 - Turn = Count(sent) - Len(visited) /\ Count(sent) - Len(visited) > 0
    BY <2>2
  <2> QED
    BY <2>2, <2>3, <2>4, <2>5 DEF Stands
<1> QED
  BY <1>1, Walk, PTL

\* Until a packet has been through all the functions of its service, it leaves
\* the switches only for the one whose turn it is ("routes the decapsulated
\* packet to the connected SF", README.md:51).
THEOREM FunctionsInTurn == ASSUME WellBuilt PROVE Spec => []RightFunction
<1>1. WalkInv => RightFunction
  <2> SUFFICES ASSUME WalkInv, phase # "switch", Len(visited) < Len(Service(sent))
               PROVE  phase = "function" /\ Service(sent)[Len(visited) + 1][1] \in VnfsAt(at)
    BY DEF RightFunction
  <2>1. AtFunction
    BY WalkLength DEF WalkInv, Entering, Carried, Returned, Leaving, Delivered, Count
  <2>2. Turn \in 1..Count(sent) /\ sent \in Flow /\ place \in Placement
    BY WalkLength DEF Count
  <2>3. VnfsAt(at) = {Service(sent)[Turn][1]}
    BY <2>1, <2>2, Places DEF AtFunction
  <2> QED
    BY <2>1, <2>3 DEF AtFunction, Turn
<1> QED
  BY <1>1, Walk, PTL

\* A function, which knows nothing of NSH, is handed plain frames
\* ("decapsulates NSH header and Transport Encapsulation", README.md:51).
THEOREM PlainFrames == ASSUME WellBuilt PROVE Spec => []PlainAtFunction
<1>1. WalkInv => PlainAtFunction
  BY PlainLength DEF WalkInv, PlainAtFunction, Entering, Carried, AtFunction, Returned,
                     Leaving, Delivered
<1> QED
  BY <1>1, Walk, PTL

-----------------------------------------------------------------------------
\* Types.

\* What a chain sends is FlowMods, so that what a switch holds is entries.
LEMMA ChainModsType ==
    ASSUME place \in Placement, NEW f \in Flow, NEW m \in ChainMods(place, f)
    PROVE  m[2] \in FlowMod
<1> DEFINE n == Len(Service(f))
           row(i) == place[Service(f)[i][1]]
           index(i) == IF i = 1 THEN n ELSE Service(f)[i][2]
<1>1. /\ n \in Nat \ {0} /\ n \in FieldValue
      /\ \A i \in 1..n : Service(f)[i][1] \in Vnf /\ Service(f)[i][2] \in FieldValue
  BY ServiceProperties DEF Count
<1>2. \A i \in 1..n : row(i) \in VnfRow /\ index(i) \in FieldValue
  BY <1>1, PlacementAssumption
<1>3. CASE \E i \in 1..(n - 1), step \in 1..3 :
              m = <<row(i).dpid, HopMod(step, f, index(i), Service(f)[i + 1][2],
                                        row(i), row(i + 1))>>
  <2>1. PICK i \in 1..(n - 1) : \E step \in 1..3 :
              m = <<row(i).dpid, HopMod(step, f, index(i), Service(f)[i + 1][2],
                                        row(i), row(i + 1))>>
    BY <1>3
  <2>2. PICK step \in 1..3 :
              m = <<row(i).dpid, HopMod(step, f, index(i), Service(f)[i + 1][2],
                                        row(i), row(i + 1))>>
    BY <2>1
  <2>3. i \in 1..n /\ i + 1 \in 1..n
    BY <1>1
  <2>4. /\ row(i) \in VnfRow /\ row(i + 1) \in VnfRow
        /\ index(i) \in FieldValue /\ Service(f)[i + 1][2] \in FieldValue
    BY <1>1, <1>2, <2>3
  <2> HIDE DEF row, index
  <2>5. HopMod(step, f, index(i), Service(f)[i + 1][2], row(i), row(i + 1)) \in FlowMod
    BY <2>4, ChainModType
  <2> QED
    BY <2>2, <2>5
<1>4. CASE \E step \in 1..2 : m = <<row(n).dpid, EndMod(step, f, row(n))>>
  <2>1. row(n) \in VnfRow
    BY <1>1, <1>2
  <2> HIDE DEF row
  <2> QED
    BY <1>1, <1>4, <2>1, ChainModType
<1>5. CASE m = <<Entrance[f][1], SourceMod(f, Entrance[f][2], row(1))>>
  <2>1. row(1) \in VnfRow /\ Entrance[f][2] \in Port
    BY <1>1, <1>2, EntranceAssumption
  <2> QED
    BY <1>5, <2>1, SourceModType
<1> QED
  BY <1>3, <1>4, <1>5 DEF ChainMods

LEMMA TableType ==
    ASSUME place \in Placement, NEW s
    PROVE  Table(place, s) \in SUBSET Entry
<1>1. DefaultEntries \subseteq Entry
  BY DefaultModsType DEF DefaultEntries, FlowMod
<1>2. \A f \in Flow : \A m \in ChainMods(place, f) : m[2].entry \in Entry
  BY ChainModsType DEF FlowMod
<1> QED
  BY <1>1, <1>2 DEF Table

LEMMA FrameType ==
    ASSUME WellBuilt, sent \in Flow, place \in Placement,
           IsPlain \/ \E i \in 1..Len(Service(sent)) : IsFor(i)
    PROVE  frame \in Seq(SUBSET Header) /\ Len(frame) \in 1..3
<1>1. Plain(sent) \in SUBSET Header
  BY FlowMatchType DEF Plain, Header, FieldName, WellBuilt, WellAddressed
<1>2. CASE IsPlain
  BY <1>1, <1>2 DEF IsPlain
<1>3. ASSUME NEW i \in 1..Count(sent), IsFor(i)
      PROVE  frame \in Seq(SUBSET Header) /\ Len(frame) \in 1..3
  <2>1. /\ Count(sent) + 1 - i \in FieldValue
        /\ Stands(sent, i).locator_addr \in FieldValue
        /\ ServiceOf[sent] \in FieldValue /\ NSH \in FieldValue
    <3>1. Service(sent)[i][2] = Count(sent) + 1 - i
      BY Indices DEF WellBuilt
    <3>2. Service(sent)[i][2] \in FieldValue /\ ServiceOf[sent] \in ServiceId
      BY ServiceProperties
    <3>3. Stands(sent, i) \in VnfRow
      BY Places
    <3> QED
      BY <3>1, <3>2, <3>3, ValueAssumption, MacAssumption DEF VnfRow
  <2> DEFINE outer == {<<"eth_type", NSH>>, <<"eth_dst", Stands(sent, i).locator_addr>>}
             nsh == {<<"nsh_spi", ServiceOf[sent]>>, <<"nsh_si", Count(sent) + 1 - i>>}
  <2>2. outer \in SUBSET Header /\ nsh \in SUBSET Header
    BY <2>1 DEF Header, FieldName
  <2>3. frame = <<outer, nsh, Plain(sent)>>
    BY <1>3 DEF IsFor, Count
  <2> HIDE DEF outer, nsh
  <2> QED
    BY <1>1, <2>2, <2>3
<1> QED
  BY <1>2, <1>3 DEF Count

\* The tables hold entries, and a packet in them has one layer or three (an
\* Ethernet and an NSH header around it) and never two, and is never lost: no
\* table misses it, no entry sends it to a port where nobody is, and none takes
\* off or looks into a header that is not there (sfc_nfv.py:291-372).
THEOREM ForwardingTypeOK ==
    ASSUME WellBuilt
    PROVE  Spec => [](TypeOK /\ Len(frame) \in {1, 3} /\ phase # "lost")
<1>1. WalkInv => TypeOK /\ Len(frame) \in {1, 3} /\ phase # "lost"
  <2> SUFFICES ASSUME WalkInv PROVE TypeOK /\ Len(frame) \in {1, 3} /\ phase # "lost"
    OBVIOUS
  <2>1. table \in [Switch -> SUBSET Entry] /\ place \in Placement
    BY TableType DEF WalkInv
  <2>2. tbl \in 0..3 /\ phase \in {"switch", "function", "delivered"}
    BY DEF WalkInv, Entering, Carried, AtFunction, Returned, Leaving, Delivered
  <2>3. IsPlain \/ \E i \in 1..Len(Service(sent)) : IsFor(i)
    <3>1. Carried => Turn \in 1..Count(sent)
      BY WalkLength DEF Carried, Turn, Count
    <3> QED
      BY <3>1 DEF WalkInv, Entering, Carried, AtFunction, Returned, Leaving, Delivered, Count
  <2>4. frame \in Seq(SUBSET Header) /\ Len(frame) \in 1..3
    BY <2>3, FrameType DEF WalkInv
  <2>5. Len(frame) \in {1, 3}
    BY <2>3 DEF IsPlain, IsFor
  <2> QED
    BY <2>1, <2>2, <2>4, <2>5 DEF TypeOK, PacketOK, WalkInv
<1> QED
  BY <1>1, Walk, PTL

-----------------------------------------------------------------------------
\* The service that is promised.

LEMMA FunctionsAre ==
    ASSUME NEW f \in Flow
    PROVE  /\ Functions(f) \in Seq(Vnf) /\ Len(Functions(f)) = Count(f)
           /\ \A i \in 1..Count(f) : Functions(f)[i] = Service(f)[i][1]
<1>1. Count(f) \in Nat /\ \A i \in 1..Count(f) : Service(f)[i][1] \in Vnf
  BY ServiceProperties
<1>2. Functions(f) = [i \in 1..Count(f) |-> Service(f)[i][1]]
  BY DEF Functions, Count
<1>3. Functions(f) \in [1..Count(f) -> Vnf]
  BY <1>1, <1>2
<1>4. Functions(f) \in Seq(Vnf) /\ Len(Functions(f)) = Count(f)
  BY <1>1, <1>3, SeqDef, LenProperties
<1> QED
  BY <1>2, <1>4

\* In a network that is well built every packet gets what its service promises:
\* it goes through the functions in their order, each once, and is delivered
\* after the last one, as it was sent.
THEOREM ServiceKept ==
    ASSUME WellBuilt
    PROVE  Spec => Promise!Init /\ [][Promise!Next]_(Promise!vars)
<1> DEFINE there == phase = "delivered" /\ frame = <<Plain(sent)>>
<1>1. Init => Promise!Init
  BY DEF Init, Promise!Init
<1>2. ASSUME WalkInv, [Next]_vars
      PROVE  [Promise!Next]_(Promise!vars)
  <2>1. /\ sent \in Flow /\ Len(visited) \in Nat /\ Count(sent) \in Nat
        /\ visited \in Seq(Vnf)
    BY <1>2, WalkLength DEF WalkInv
  <2>2. there => Delivered
    BY <1>2 DEF WalkInv, Entering, Carried, AtFunction, Returned, Leaving
  <2>3. sent' = sent => Functions(sent)' = Functions(sent)
    BY DEF Functions, Service
  <2>4. CASE GotoTable /\ UNCHANGED <<table, place>>
    <3>1. UNCHANGED <<sent, visited>> /\ phase = "switch" /\ phase' = "switch"
      BY <1>2, <2>4, NextGoto
    <3> QED
      BY <2>3, <3>1 DEF Promise!vars
  <2>5. CASE Output /\ UNCHANGED <<table, place>>
    <3>1. UNCHANGED <<sent, visited>> /\ phase = "switch" /\ WalkInv'
          /\ (phase' = "delivered" => Delivered')
      BY <1>2, <2>5, NextOutput
    <3>2. CASE phase' = "delivered"
      <4>1. /\ frame' = <<Plain(sent)>> /\ Len(visited) = Count(sent)
        BY <3>1, <3>2 DEF Delivered, IsPlain, Count
      <4>2. visited = Functions(sent)
        <5>1. /\ Functions(sent) \in Seq(Vnf) /\ Len(Functions(sent)) = Count(sent)
              /\ \A i \in 1..Count(sent) : Functions(sent)[i] = Service(sent)[i][1]
          BY <2>1, FunctionsAre
        <5>2. \A i \in 1..Len(visited) : visited[i] = Functions(sent)[i]
          BY <1>2, <2>1, <4>1, <5>1, LenProperties DEF WalkInv
        <5> QED
          BY <2>1, <4>1, <5>1, <5>2, SeqEqual
      <4>3. Promise!Deliver
        BY <2>3, <3>1, <3>2, <4>1, <4>2 DEF Promise!Deliver
      <4> QED
        BY <4>3 DEF Promise!Next
    <3>3. CASE phase' # "delivered"
      BY <2>3, <3>1, <3>3 DEF Promise!vars
    <3> QED
      BY <3>2, <3>3
  <2>6. CASE Serve /\ UNCHANGED <<table, place>>
    <3>1. /\ UNCHANGED sent /\ phase = "function" /\ phase' = "switch"
          /\ Turn <= Count(sent)
          /\ visited' = Append(visited, Service(sent)[Turn][1])
      BY <1>2, <2>6, NextServe
    <3>2. /\ Len(Functions(sent)) = Count(sent) /\ Len(visited) + 1 \in 1..Count(sent)
          /\ Functions(sent)[Len(visited) + 1] = Service(sent)[Len(visited) + 1][1]
      BY <2>1, <3>1, FunctionsAre DEF Turn
    <3>3. Promise!Visit
      BY <2>1, <2>3, <3>1, <3>2 DEF Promise!Visit, Turn
    <3> QED
      BY <3>3 DEF Promise!Next
  <2>7. CASE UNCHANGED vars
    BY <2>3, <2>7 DEF vars, Promise!vars
  <2> QED
    BY <1>2, <2>4, <2>5, <2>6, <2>7 DEF Next, Move
<1> QED
  BY <1>1, <1>2, Walk, PTL DEF Spec
-----------------------------------------------------------------------------
\* Tables that the controller is still changing.  Whatever of the chains is
\* installed, an entry that takes a packet is for its flow, or passes it on.

FrameFor(i) ==
    <<{<<"eth_type", NSH>>, <<"eth_dst", Stands(sent, i).locator_addr>>},
      {<<"nsh_spi", ServiceOf[sent]>>, <<"nsh_si", Count(sent) + 1 - i>>},
      Plain(sent)>>

PassesOn(e) == Acted(e) = frame /\ e.goto # 0
SentNormal(e) ==
    Acted(e) = frame /\ e.goto = 0 /\ e.actions = <<<<"normal", NoArg>>>>

\* The entry that hands the i-th function its packets is installed.
Takes(e, f, i) ==
    /\ e.table = 1 /\ e.priority = 6
    /\ e.match = NshMatch(ServiceOf[f], Count(f) + 1 - i)
                    \cup {<<"eth_dst", Stands(f, i).locator_addr>>}
Taken(f, i) == \E e \in table[Stands(f, i).dpid] : Takes(e, f, i)

LEMMA TakenFrom ==
    ASSUME WellBuilt, place \in Placement, OnlyFromController,
           at[1] \in Switch, NEW e \in Lookup
    PROVE  /\ e \in table[at[1]] /\ e.table = tbl /\ e.match \subseteq Visible
           /\ \/ e \in DefaultEntries
              \/ \E f \in Flow :
                    \/ e = CatchMod(f).entry
                    \/ \E p \in Port : e = SourceMod(f, p, Stands(f, 1)).entry
                    \/ SourceAt(e, at[1], f) \/ EndAt(e, f)
                    \/ \E i : \/ MiddleAt(e, at[1], f, i) \/ ProxyAt(e, at[1], f, i)
                              \/ DecapAt(e, at[1], f, i)
<1>1. e \in table[at[1]] /\ e.table = tbl /\ e.match \subseteq Visible
  BY DEF Lookup, Best, Matching
<1>2. FromController(at[1], e)
  BY <1>1 DEF OnlyFromController
<1>3. ASSUME NEW f \in Flow, NEW m \in ChainMods(place, f), m[1] = at[1], e = m[2].entry
      PROVE  \/ SourceAt(e, at[1], f) \/ EndAt(e, f)
             \/ \E i : \/ MiddleAt(e, at[1], f, i) \/ ProxyAt(e, at[1], f, i)
                       \/ DecapAt(e, at[1], f, i)
  BY <1>3, EntriesOfChain
<1>4. ASSUME NEW f \in Flow, \E m \in ChainMods(place, f) : m[1] = at[1] /\ e = m[2].entry
      PROVE  \/ SourceAt(e, at[1], f) \/ EndAt(e, f)
             \/ \E i : \/ MiddleAt(e, at[1], f, i) \/ ProxyAt(e, at[1], f, i)
                       \/ DecapAt(e, at[1], f, i)
  <2>1. PICK m \in ChainMods(place, f) : m[1] = at[1] /\ e = m[2].entry
    BY <1>4
  <2> QED
    BY <1>3, <2>1
<1> QED
  BY <1>1, <1>2, <1>4 DEF FromController

\* A packet as its host sent it.
LEMMA PlainMeets ==
    ASSUME WellBuilt, place \in Placement, OnlyFromController, sent \in Flow,
           at \in Switch \X Port, IsPlain, tbl \in {0, 3}, NEW e \in Lookup
    PROVE  \/ /\ tbl = 0 /\ PassesOn(e)
              /\ \/ e.goto = 2 /\ e = CatchMod(sent).entry
                 \/ e.goto = 3 /\ e.priority = 0
           \/ /\ tbl = 0 /\ e.goto = 3 /\ Acted(e) = FrameFor(1)
              /\ \/ at = Entrance[sent]
                 \/ SourceMod(sent, at[2], Stands(sent, 1)).entry \in table[at[1]]
           \/ /\ tbl = 0 /\ e.goto = 3
              /\ \E i \in 1..(Count(sent) - 1) :
                    at = Location(Stands(sent, i)) /\ Acted(e) = FrameFor(i + 1)
           \/ tbl = 3 /\ SentNormal(e)
<1>1. /\ at[1] \in Switch /\ at[2] \in Port /\ at = <<at[1], at[2]>>
      /\ Count(sent) \in Nat \ {0}
  BY ServiceProperties
<1>2. /\ e \in table[at[1]] /\ e.table = tbl
      /\ e.match \subseteq Plain(sent) \cup {<<"in_port", at[2]>>}
      /\ \/ e \in DefaultEntries
         \/ \E f \in Flow :
               \/ e = CatchMod(f).entry
               \/ \E p \in Port : e = SourceMod(f, p, Stands(f, 1)).entry
               \/ SourceAt(e, at[1], f) \/ EndAt(e, f)
               \/ \E i : \/ MiddleAt(e, at[1], f, i) \/ ProxyAt(e, at[1], f, i)
                         \/ DecapAt(e, at[1], f, i)
  BY <1>1, TakenFrom, VisibleIs
<1>3. ASSUME NEW f \in Flow, MiddleFields(f) \subseteq e.match
      PROVE  f = sent
  BY <1>2, <1>3, SameRow
<1>4. ASSUME NEW q, <<"in_port", q>> \in e.match
      PROVE  q = at[2]
  BY <1>2, <1>4, PlainPort
<1>5. frame = <<Plain(sent)>>
  BY DEF IsPlain
<1>6. ASSUME e.table = 0, e.goto = 3, NEW i \in 1..Count(sent),
             e.actions = Encap(ServiceOf[sent], Count(sent) + 1 - i,
                               Stands(sent, i).locator_addr)
      PROVE  tbl = 0 /\ Acted(e) = FrameFor(i)
  <2>1. Acted(e) = <<{<<"eth_type", NSH>>, <<"eth_dst", Stands(sent, i).locator_addr>>},
                     {<<"nsh_spi", ServiceOf[sent]>>, <<"nsh_si", Count(sent) + 1 - i>>},
                     Plain(sent)>>
    BY <1>5, <1>6, EncapActs
  <2> QED
    BY <1>2, <1>6, <2>1 DEF FrameFor
<1>7. CASE e \in DefaultEntries
  <2>1. e.match # RegistrationMatch
    <3> SUFFICES ASSUME e.match = RegistrationMatch PROVE FALSE
      OBVIOUS
    <3>1. <<"in_port", at[2]>> \notin RegistrationMatch
      BY DEF RegistrationMatch
    <3>2. RegistrationMatch \subseteq Plain(sent)
      BY <1>2, <3>1
    <3> QED
      BY <3>2 DEF WellBuilt, WellAddressed
  <2>2. e.match # {<<"eth_type", NSH>>}
    <3>1. <<"eth_type", NSH>> \notin FlowMatch(sent)
      BY DEF WellBuilt, WellAddressed
    <3>2. <<"eth_type", NSH>> \notin Plain(sent) \cup {<<"in_port", at[2]>>}
      BY <3>1 DEF Plain
    <3> QED
      BY <1>2, <3>2
  <2>3. \/ tbl = 0 /\ e.actions = <<>> /\ e.goto = 3 /\ e.priority = 0
        \/ tbl = 3 /\ e.actions = <<<<"normal", NoArg>>>> /\ e.goto = 0
    BY <1>2, <1>7, <2>1, <2>2, DefaultsAre
  <2> QED
    BY <2>3, ActedIs, SameFrame DEF PassesOn, SentNormal
<1>8. CASE \E f \in Flow : e = CatchMod(f).entry
  <2>1. PICK f \in Flow : e = CatchMod(f).entry
    BY <1>8
  <2>2. e.actions = <<>> /\ e.goto = 2 /\ e.table = 0 /\ e.match = FlowMatch(f)
    BY <2>1 DEF CatchMod, AddMod
  <2>3. f = sent
    BY <1>3, <2>2 DEF MiddleFields
  <2> QED
    BY <1>2, <2>1, <2>2, <2>3, ActedIs DEF PassesOn
<1>9. ASSUME NEW f \in Flow, NEW p \in Port, e = SourceMod(f, p, Stands(f, 1)).entry
      PROVE  /\ tbl = 0 /\ e.goto = 3 /\ Acted(e) = FrameFor(1)
             /\ SourceMod(sent, at[2], Stands(sent, 1)).entry \in table[at[1]]
  <2>1. /\ e.table = 0 /\ e.goto = 3 /\ e.match = FlowMatch(f) \cup {<<"in_port", p>>}
        /\ e.actions = Encap(ServiceOf[f], Count(f), Stands(f, 1).locator_addr)
    BY <1>9 DEF SourceMod, AddMod, Count, Service
  <2>2. f = sent
    BY <1>3, <2>1 DEF MiddleFields
  <2>3. p = at[2]
    BY <1>4, <2>1
  <2>4. Count(sent) + 1 - 1 = Count(sent) /\ 1 \in 1..Count(sent)
    BY <1>1
  <2> QED
    BY <1>2, <1>6, <1>9, <2>1, <2>2, <2>3, <2>4
<1>10. ASSUME NEW f \in Flow, SourceAt(e, at[1], f)
       PROVE  tbl = 0 /\ e.goto = 3 /\ Acted(e) = FrameFor(1) /\ at = Entrance[sent]
  <2>1. /\ e.table = 0 /\ e.goto = 3 /\ <<at[1], Entrance[f][2]>> = Entrance[f]
        /\ e.match = FlowMatch(f) \cup {<<"in_port", Entrance[f][2]>>}
        /\ e.actions = Encap(ServiceOf[f], Count(f), Stands(f, 1).locator_addr)
    BY <1>10 DEF SourceAt
  <2>2. f = sent
    BY <1>3, <2>1 DEF MiddleFields
  <2>3. Entrance[f][2] = at[2]
    BY <1>4, <2>1
  <2>4. Count(sent) + 1 - 1 = Count(sent) /\ 1 \in 1..Count(sent)
    BY <1>1
  <2> QED
    BY <1>1, <1>6, <2>1, <2>2, <2>3, <2>4
<1>11. ASSUME NEW f \in Flow, NEW i, MiddleAt(e, at[1], f, i)
       PROVE  /\ tbl = 0 /\ e.goto = 3 /\ i \in 1..(Count(sent) - 1)
              /\ at = Location(Stands(sent, i)) /\ Acted(e) = FrameFor(i + 1)
  <2>1. /\ e.table = 0 /\ e.goto = 3 /\ i \in 1..(Count(f) - 1) /\ at[1] = Stands(f, i).dpid
        /\ e.match = MiddleFields(f) \cup {<<"in_port", Stands(f, i).in_port>>}
        /\ e.actions = Encap(ServiceOf[f], Count(f) - i, Stands(f, i + 1).locator_addr)
    BY <1>11 DEF MiddleAt
  <2>2. f = sent
    BY <1>3, <2>1
  <2>3. Stands(f, i).in_port = at[2]
    BY <1>4, <2>1
  <2>4. Count(sent) + 1 - (i + 1) = Count(sent) - i /\ i + 1 \in 1..Count(sent)
    BY <1>1, <2>1, <2>2
  <2> QED
    BY <1>1, <1>6, <2>1, <2>2, <2>3, <2>4 DEF Location
<1>12. CASE \E f \in Flow : \/ EndAt(e, f)
                            \/ \E i : ProxyAt(e, at[1], f, i) \/ DecapAt(e, at[1], f, i)
  <2>1. e.table = 1
    BY <1>12 DEF EndAt, ProxyAt, DecapAt
  <2> QED
    BY <1>2, <2>1
<1> QED
  BY <1>2, <1>7, <1>8, <1>9, <1>10, <1>11, <1>12

\* A packet in its headers matches no entry that looks at the flow's own.
LEMMA NotOfRow ==
    ASSUME WellBuilt, RowsMatch, NEW f \in Flow, NEW g \in Flow, NEW i, NEW p,
           MiddleFields(g) \subseteq NshPacket(f, i, p)
    PROVE  FALSE
<1>1. PICK h \in MiddleFields(g) : TRUE
  BY DEF RowsMatch
<1>2. h \in FlowMatch(g) /\ h[1] \notin {"eth_src", "eth_dst"}
  BY DEF MiddleFields
<1>3. h = <<h[1], h[2]>> /\ h[1] \notin {"in_port", "nsh_spi", "nsh_si"}
  BY <1>2, RowHeaders DEF Column
<1>4. h # <<"eth_type", NSH>>
  BY <1>2 DEF WellBuilt, WellAddressed
<1>5. h \in NshPacket(f, i, p)
  OBVIOUS
<1> QED
  BY <1>2, <1>3, <1>4, <1>5 DEF NshPacket

\* A packet on the way to the i-th function.
LEMMA NshMeets ==
    ASSUME WellBuilt, RowsMatch, place \in Placement, OnlyFromController, sent \in Flow,
           at \in Switch \X Port, NEW i \in 1..Count(sent), IsFor(i), tbl \in {0, 1, 3},
           NEW e \in Lookup
    PROVE  \/ PassesOn(e) /\ e.goto \in {1, 3}
           \/ /\ e.goto = 0 /\ Acted(e) = <<Plain(sent)>> /\ at[1] = Stands(sent, i).dpid
              /\ e.actions = Decap(Stands(sent, i).in_port)
              /\ e \in table[at[1]] /\ DecapAt(e, at[1], sent, i)
           \/ SentNormal(e)
<1>1. /\ at[1] \in Switch /\ at[2] \in Port /\ at = <<at[1], at[2]>>
      /\ Count(sent) \in Nat \ {0}
  BY ServiceProperties
<1>2. /\ e \in table[at[1]] /\ e.table = tbl
      /\ e.match \subseteq NshPacket(sent, i, at[2])
      /\ \/ e \in DefaultEntries
         \/ \E f \in Flow :
               \/ e = CatchMod(f).entry
               \/ \E p \in Port : e = SourceMod(f, p, Stands(f, 1)).entry
               \/ SourceAt(e, at[1], f) \/ EndAt(e, f)
               \/ \E j : \/ MiddleAt(e, at[1], f, j) \/ ProxyAt(e, at[1], f, j)
                         \/ DecapAt(e, at[1], f, j)
  BY <1>1, TakenFrom, VisibleIs
<1>3. ASSUME NEW f \in Flow
      PROVE  ~ (MiddleFields(f) \subseteq e.match)
  BY <1>2, NotOfRow
<1>4. /\ frame[1] = {<<"eth_type", NSH>>, <<"eth_dst", Stands(sent, i).locator_addr>>}
      /\ frame = <<frame[1], frame[2], Plain(sent)>>
  BY DEF IsFor
<1>5. CASE e \in DefaultEntries
  <2>1. e.match # RegistrationMatch
    <3>1. <<"eth_type", IPv4>> \notin NshPacket(sent, i, at[2])
      BY DEF NshPacket, WellBuilt, WellAddressed
    <3> QED
      BY <1>2, <3>1 DEF RegistrationMatch
  <2>2. \/ e.actions = <<>> /\ e.goto \in {1, 3}
        \/ e.actions = <<<<"normal", NoArg>>>> /\ e.goto = 0
    BY <1>2, <1>5, <2>1, DefaultsAre
  <2> QED
    BY <2>2, ActedIs, SameFrame DEF PassesOn, SentNormal
<1>6. ASSUME NEW f \in Flow
      PROVE  /\ e # CatchMod(f).entry /\ \A p : e # SourceMod(f, p, Stands(f, 1)).entry
             /\ ~ SourceAt(e, at[1], f) /\ \A j : ~ MiddleAt(e, at[1], f, j)
  <2>1. e # CatchMod(f).entry
    BY <1>3 DEF CatchMod, AddMod, MiddleFields
  <2>2. \A p : e # SourceMod(f, p, Stands(f, 1)).entry
    BY <1>3 DEF SourceMod, AddMod, MiddleFields
  <2>3. ~ SourceAt(e, at[1], f) /\ \A j : ~ MiddleAt(e, at[1], f, j)
    BY <1>3 DEF SourceAt, MiddleAt, MiddleFields
  <2> QED
    BY <2>1, <2>2, <2>3
<1>7. ASSUME NEW f \in Flow,
             EndAt(e, f) \/ \E j : ProxyAt(e, at[1], f, j) \/ DecapAt(e, at[1], f, j)
      PROVE  \/ PassesOn(e) /\ e.goto \in {1, 3}
             \/ /\ e.goto = 0 /\ Acted(e) = <<Plain(sent)>> /\ at[1] = Stands(sent, i).dpid
                /\ e.actions = Decap(Stands(sent, i).in_port)
                /\ DecapAt(e, at[1], sent, i)
  <2>0. /\ ~ EndAt(e, f)
        /\ \A j : ProxyAt(e, at[1], f, j) =>
              /\ at[1] # Stands(sent, i).dpid /\ e.goto = 3
              /\ e.actions = <<<<"set_eth_dst", Stands(sent, i).locator_addr>>>>
        /\ \A j : DecapAt(e, at[1], f, j) =>
              /\ at[1] = Stands(sent, i).dpid /\ e.goto = 0 /\ DecapAt(e, at[1], sent, i)
              /\ e.actions = Decap(Stands(sent, i).in_port)
    <3>1. e.match \subseteq NshPacket(sent, i, at[2])
      BY <1>2
    <3> QED
      BY <3>1, NshTaken
  <2>1. \/ /\ at[1] # Stands(sent, i).dpid /\ e.goto = 3
           /\ e.actions = <<<<"set_eth_dst", Stands(sent, i).locator_addr>>>>
        \/ /\ at[1] = Stands(sent, i).dpid /\ e.goto = 0
           /\ e.actions = Decap(Stands(sent, i).in_port)
           /\ DecapAt(e, at[1], sent, i)
    BY <1>7, <2>0
  <2>2. e.actions = <<<<"set_eth_dst", Stands(sent, i).locator_addr>>>>
            => Acted(e) = frame
    BY <1>4, SameFrame
  <2>3. e.actions = Decap(Stands(sent, i).in_port) => Acted(e) = <<Plain(sent)>>
    BY <1>4, DecapActs
  <2> QED
    BY <2>1, <2>2, <2>3 DEF PassesOn
<1> QED
  BY <1>2, <1>5, <1>6, <1>7
\* What NORMAL and an entry of table 1 do with the frame: it stays what it is,
\* and leaves by a trunk, to the function it is for, or at the exit.
LEMMA NormalLeaves ==
    ASSUME WellBuilt, place \in Placement, sent \in Flow, at \in Switch \X Port,
           IsPlain \/ \E i \in 1..Count(sent) : IsFor(i),
           NEW e, SentNormal(e), NEW p \in OutPorts(at[1], e), Leave(at[1], p)
    PROVE  /\ at' \in Switch \X Port
           /\ IsPlain => /\ (phase' = "switch" /\ at' \in DOMAIN Peer) \/ phase' = "delivered"
                         /\ at[1] = Exit[1] => phase' = "delivered"
           /\ \A i \in 1..Count(sent) : IsFor(i) =>
                 \/ phase' = "switch"
                 \/ phase' = "function" /\ at' = Location(Stands(sent, i))
<1>1. p \in NormalPorts(at[1], frame) /\ at[1] \in Switch
  BY DEF SentNormal, OutPorts, ToSet
<1>2. Exit \in Switch \X Port
  BY DEF WellBuilt, WellLinked
<1>3. ASSUME IsPlain
      PROVE  /\ at' \in Switch \X Port
             /\ (phase' = "switch" /\ at' \in DOMAIN Peer) \/ phase' = "delivered"
             /\ at[1] = Exit[1] => phase' = "delivered"
  <2>1. frame[1] = Plain(sent)
    BY <1>3 DEF IsPlain
  <2>2. IF at[1] = Exit[1] THEN <<at[1], p>> = Exit ELSE <<at[1], p>> \in DOMAIN Peer
    BY <1>1, <2>1, NormalPortsAre
  <2> QED
    BY <1>2, <2>2, Leaves
<1>4. ASSUME NEW i \in 1..Count(sent), IsFor(i)
      PROVE  /\ at' \in Switch \X Port
             /\ \/ phase' = "switch"
                \/ phase' = "function" /\ at' = Location(Stands(sent, i))
  <2>1. frame[1] = {<<"eth_type", NSH>>, <<"eth_dst", Stands(sent, i).locator_addr>>}
    BY <1>4 DEF IsFor
  <2>2. <<at[1], p>> = Location(Stands(sent, i)) \/ <<at[1], p>> \in DOMAIN Peer
    BY <1>1, <2>1, NormalPortsAre
  <2>3. Location(Stands(sent, i)) \in Switch \X Port
    BY <1>4, Places
  <2> QED
    BY <2>2, <2>3, Leaves
<1> QED
  BY <1>3, <1>4
\* What no step of the packet changes.
LEMMA FramesThen ==
    ASSUME UNCHANGED <<place, sent>>
    PROVE  /\ \A i : Stands(sent, i)' = Stands(sent, i)
           /\ IsPlain' <=> frame' = <<Plain(sent)>>
           /\ \A i : IsFor(i)' <=> frame' = FrameFor(i)
BY DEF Stands, IsPlain, IsFor, FrameFor, Count

LEMMA FramesNow == (IsPlain <=> frame = <<Plain(sent)>>) /\ \A i : IsFor(i) <=> frame = FrameFor(i)
BY DEF IsPlain, IsFor, FrameFor, Count

LEMMA GotoSteps ==
    ASSUME WellBuilt, RowsMatch, place \in Placement, OnlyFromController, FrameInv,
           GotoTable, tbl' # 2
    PROVE  /\ UNCHANGED <<sent, at, phase, visited>> /\ phase = "switch"
           /\ IsPlain /\ tbl \in {0, 3} =>
                 /\ tbl' = 3
                 /\ \/ frame' = frame
                    \/ /\ tbl = 0 /\ frame' = FrameFor(1)
                       /\ \/ at = Entrance[sent]
                          \/ SourceMod(sent, at[2], Stands(sent, 1)).entry \in table[at[1]]
                    \/ /\ tbl = 0
                       /\ \E i \in 1..(Count(sent) - 1) :
                             at = Location(Stands(sent, i)) /\ frame' = FrameFor(i + 1)
           /\ \A i \in 1..Count(sent) : IsFor(i) => frame' = frame /\ tbl' \in {1, 3}
<1>1. /\ UNCHANGED <<sent, at, phase, visited>> /\ phase = "switch"
      /\ \E e \in Lookup : e.goto # 0 /\ frame' = Acted(e) /\ tbl' = e.goto
  BY DEF GotoTable
<1>2. PICK e \in Lookup : e.goto # 0 /\ frame' = Acted(e) /\ tbl' = e.goto
  BY <1>1
<1>3. sent \in Flow /\ at \in Switch \X Port /\ tbl \in {0, 1, 3}
  BY DEF FrameInv
<1>4. ASSUME IsPlain, tbl \in {0, 3}
      PROVE  /\ tbl' = 3
             /\ \/ frame' = frame
                \/ /\ tbl = 0 /\ frame' = FrameFor(1)
                   /\ \/ at = Entrance[sent]
                      \/ SourceMod(sent, at[2], Stands(sent, 1)).entry \in table[at[1]]
                \/ /\ tbl = 0
                   /\ \E i \in 1..(Count(sent) - 1) :
                         at = Location(Stands(sent, i)) /\ frame' = FrameFor(i + 1)
  <2>1. \/ tbl = 0 /\ PassesOn(e) /\ e.goto \in {2, 3}
        \/ /\ tbl = 0 /\ e.goto = 3 /\ Acted(e) = FrameFor(1)
           /\ \/ at = Entrance[sent]
              \/ SourceMod(sent, at[2], Stands(sent, 1)).entry \in table[at[1]]
        \/ /\ tbl = 0 /\ e.goto = 3
           /\ \E i \in 1..(Count(sent) - 1) :
                 at = Location(Stands(sent, i)) /\ Acted(e) = FrameFor(i + 1)
        \/ tbl = 3 /\ SentNormal(e)
    BY <1>3, <1>4, PlainMeets
  <2> QED
    BY <1>2, <2>1 DEF PassesOn, SentNormal
<1>5. ASSUME NEW i \in 1..Count(sent), IsFor(i)
      PROVE  frame' = frame /\ tbl' \in {1, 3}
  <2>1. \/ PassesOn(e) /\ e.goto \in {1, 3}
        \/ e.goto = 0
        \/ SentNormal(e)
    BY <1>3, <1>5, NshMeets
  <2> QED
    BY <1>2, <2>1 DEF PassesOn, SentNormal
<1> QED
  BY <1>1, <1>4, <1>5

LEMMA OutputSteps ==
    ASSUME WellBuilt, RowsMatch, place \in Placement, OnlyFromController, FrameInv, Output
    PROVE  /\ UNCHANGED <<sent, visited>> /\ phase = "switch" /\ tbl' = 0
           /\ at' \in Switch \X Port
           /\ IsPlain /\ tbl \in {0, 3} =>
                 /\ frame' = frame /\ tbl = 3
                 /\ (phase' = "switch" /\ at' \in DOMAIN Peer) \/ phase' = "delivered"
                 /\ at[1] = Exit[1] => phase' = "delivered"
           /\ \A i \in 1..Count(sent) : IsFor(i) =>
                 \/ phase' = "switch" /\ frame' = frame
                 \/ /\ phase' = "function" /\ at' = Location(Stands(sent, i))
                    /\ frame' = frame \/ (frame' = <<Plain(sent)>> /\ Taken(sent, i))
<1>1. /\ phase = "switch" /\ UNCHANGED <<sent, visited>> /\ tbl' = 0
      /\ \E e \in Lookup : /\ e.goto = 0 /\ frame' = Acted(e)
                            /\ \E p \in OutPorts(at[1], e) : Leave(at[1], p)
  BY DEF Output
<1>2. PICK e \in Lookup : /\ e.goto = 0 /\ frame' = Acted(e)
                          /\ \E p \in OutPorts(at[1], e) : Leave(at[1], p)
  BY <1>1
<1>3. PICK p \in OutPorts(at[1], e) : Leave(at[1], p)
  BY <1>2
<1>4. sent \in Flow /\ at \in Switch \X Port /\ tbl \in {0, 1, 3} /\ at[1] \in Switch
  BY DEF FrameInv
<1>5. /\ (IsPlain /\ tbl \in {0, 3}) \/ \E i \in 1..Count(sent) : IsFor(i)
      /\ IsPlain \/ \E i \in 1..Count(sent) : IsFor(i)
  BY DEF FrameInv, Count
<1>6. ASSUME SentNormal(e)
      PROVE  /\ at' \in Switch \X Port /\ frame' = frame
             /\ IsPlain => /\ (phase' = "switch" /\ at' \in DOMAIN Peer) \/ phase' = "delivered"
                           /\ at[1] = Exit[1] => phase' = "delivered"
             /\ \A i \in 1..Count(sent) : IsFor(i) =>
                   \/ phase' = "switch"
                   \/ phase' = "function" /\ at' = Location(Stands(sent, i))
  <2>1. frame' = frame
    BY <1>2, <1>6 DEF SentNormal
  <2> QED
    BY <1>3, <1>4, <1>5, <1>6, <2>1, NormalLeaves
<1>7. ASSUME IsPlain, tbl \in {0, 3}
      PROVE  SentNormal(e) /\ tbl = 3
  <2>1. \/ tbl = 0 /\ PassesOn(e) /\ e.goto \in {2, 3}
        \/ e.goto = 3
        \/ tbl = 3 /\ SentNormal(e)
    BY <1>4, <1>7, PlainMeets
  <2> QED
    BY <1>2, <2>1 DEF PassesOn
<1>8. ASSUME NEW i \in 1..Count(sent), IsFor(i)
      PROVE  /\ at' \in Switch \X Port
             /\ \/ phase' = "switch" /\ frame' = frame
                \/ /\ phase' = "function" /\ at' = Location(Stands(sent, i))
                   /\ frame' = frame \/ (frame' = <<Plain(sent)>> /\ Taken(sent, i))
  <2>1. \/ PassesOn(e) /\ e.goto \in {1, 3}
        \/ /\ e.goto = 0 /\ Acted(e) = <<Plain(sent)>> /\ at[1] = Stands(sent, i).dpid
           /\ e.actions = Decap(Stands(sent, i).in_port)
           /\ e \in table[at[1]] /\ DecapAt(e, at[1], sent, i)
        \/ SentNormal(e)
    BY <1>4, <1>8, NshMeets
  <2>2. CASE SentNormal(e)
    BY <1>6, <1>8, <2>2
  <2>3. CASE /\ Acted(e) = <<Plain(sent)>> /\ at[1] = Stands(sent, i).dpid
             /\ e.actions = Decap(Stands(sent, i).in_port)
             /\ e \in table[at[1]] /\ DecapAt(e, at[1], sent, i)
    <3>1. p = Stands(sent, i).in_port
      BY <1>3, <2>3 DEF OutPorts, ToSet, Decap
    <3>2. <<at[1], p>> = Location(Stands(sent, i))
      BY <2>3, <3>1 DEF Location
    <3>3. phase' = "function" /\ at' = Location(Stands(sent, i))
      BY <1>3, <1>4, <1>8, <3>2, Leaves
    <3>4. at' \in Switch \X Port
      BY <1>4, <1>8, <3>3, Places
    <3>5. Taken(sent, i)
      BY <2>3 DEF Taken, Takes, DecapAt
    <3> QED
      BY <1>2, <2>3, <3>3, <3>4, <3>5
  <2> QED
    BY <1>2, <2>1, <2>2, <2>3 DEF PassesOn
<1> QED
  BY <1>1, <1>5, <1>6, <1>7, <1>8

\* Frames, in whatever tables.
LEMMA NextFrame ==
    ASSUME WellBuilt, RowsMatch, place \in Placement, OnlyFromController, FrameInv,
           Move \/ Discard, tbl' # 2
    PROVE  FrameInv'
<1>0. Count(sent) \in Nat \ {0} /\ sent \in Flow /\ visited \in Seq(Vnf)
  BY ServiceProperties DEF FrameInv
<1>1. UNCHANGED <<place, sent>> /\ (GotoTable \/ Output \/ Serve \/ Discard)
  BY DEF Move, Discard, GotoTable, Output, Serve
<1>2. /\ IsPlain' <=> frame' = <<Plain(sent)>>
      /\ \A i : IsFor(i)' <=> frame' = FrameFor(i)
      /\ IsPlain <=> frame = <<Plain(sent)>>
      /\ \A i : IsFor(i) <=> frame = FrameFor(i)
  BY <1>1, FramesThen, FramesNow
<1>3. /\ sent' = sent /\ Len(Service(sent)) = Count(sent)
      /\ phase \in {"switch", "function", "delivered", "lost"} /\ at \in Switch \X Port
      /\ \/ IsPlain /\ tbl \in {0, 3}
         \/ tbl \in {0, 1, 3} /\ \E i \in 1..Count(sent) : IsFor(i)
  BY <1>1 DEF FrameInv, Count
<1>4. CASE GotoTable
  <2>1. /\ UNCHANGED <<sent, at, phase, visited>> /\ phase = "switch"
        /\ IsPlain /\ tbl \in {0, 3} =>
              /\ tbl' = 3
              /\ \/ frame' = frame
                 \/ frame' = FrameFor(1)
                 \/ \E i \in 1..(Count(sent) - 1) : frame' = FrameFor(i + 1)
        /\ \A i \in 1..Count(sent) : IsFor(i) => frame' = frame /\ tbl' \in {1, 3}
    BY <1>4, GotoSteps
  <2>2. \/ IsPlain' /\ tbl' \in {0, 3}
        \/ tbl' \in {0, 1, 3} /\ \E i \in 1..Count(sent) : IsFor(i)'
    <3>1. 1 \in 1..Count(sent) /\ \A i \in 1..(Count(sent) - 1) : i + 1 \in 1..Count(sent)
      BY <1>0
    <3> QED
      BY <1>2, <1>3, <2>1, <3>1
  <2> QED
    BY <1>0, <1>3, <2>1, <2>2 DEF FrameInv
<1>5. CASE Output
  <2>1. /\ UNCHANGED <<sent, visited>> /\ tbl' = 0 /\ at' \in Switch \X Port
        /\ IsPlain /\ tbl \in {0, 3} =>
              frame' = frame /\ (phase' = "switch" \/ phase' = "delivered")
        /\ \A i \in 1..Count(sent) : IsFor(i) =>
              /\ phase' = "switch" \/ phase' = "function"
              /\ frame' = frame \/ frame' = <<Plain(sent)>>
    BY <1>5, OutputSteps
  <2>2. /\ \/ IsPlain' \/ \E i \in 1..Count(sent) : IsFor(i)'
        /\ phase' \in {"switch", "function", "delivered", "lost"}
    BY <1>2, <1>3, <2>1
  <2> QED
    BY <1>0, <1>3, <2>1, <2>2 DEF FrameInv
<1>6. CASE Serve \/ Discard
  <2>1. /\ UNCHANGED <<sent, frame, at>> /\ tbl' \in {0, tbl}
        /\ phase' \in {"switch", "lost"}
    BY <1>6 DEF Serve, Discard
  <2>2. visited' \in Seq(Vnf)
    <3>1. VnfsAt(at) \subseteq Vnf
      BY DEF VnfsAt
    <3>2. visited' = visited \/ \E v \in Vnf : visited' = Append(visited, v)
      BY <1>6, <3>1 DEF Serve, Discard
    <3> QED
      BY <1>0, <3>2, AppendProperties
  <2>3. \/ IsPlain' /\ tbl' \in {0, 3}
        \/ tbl' \in {0, 1, 3} /\ \E i \in 1..Count(sent) : IsFor(i)'
    BY <1>2, <1>3, <2>1
  <2> QED
    BY <1>0, <1>3, <2>1, <2>2, <2>3 DEF FrameInv
<1> QED
  BY <1>1, <1>4, <1>5, <1>6
\* The turn of functions, in whatever tables whose source entries are where
\* flows enter.
LEMMA NextCourse ==
    ASSUME WellBuilt, RowsMatch, place \in Placement, OnlyFromController, FrameInv,
           SourcesAtEntrance, OnCourse, Move \/ Discard, tbl' # 2
    PROVE  OnCourse'
<1> DEFINE n == Count(sent)
           k == Len(visited)
<1>1. /\ UNCHANGED <<place, sent>> /\ (GotoTable \/ Output \/ Serve \/ Discard)
      /\ sent \in Flow /\ at \in Switch \X Port /\ visited \in Seq(Vnf)
      /\ at[1] \in Switch /\ at[2] \in Port /\ at = <<at[1], at[2]>>
      /\ n \in Nat \ {0} /\ k \in Nat /\ k <= n /\ Turn = k + 1
      /\ Len(Service(sent)) = n /\ (Service(sent))' = Service(sent)
  BY ServiceProperties, LenProperties
     DEF FrameInv, OnCourse, Count, Turn, Move, Discard, GotoTable, Output, Serve, Service
<1>2. /\ IsPlain' <=> frame' = <<Plain(sent)>>
      /\ \A i : IsFor(i)' <=> frame' = FrameFor(i)
      /\ IsPlain <=> frame = <<Plain(sent)>>
      /\ \A i : IsFor(i) <=> frame = FrameFor(i)
      /\ \A i : Stands(sent, i)' = Stands(sent, i)
  BY <1>1, FramesThen, FramesNow
<1>3. \/ IsPlain /\ tbl \in {0, 3}
      \/ tbl \in {0, 1, 3} /\ \E i \in 1..n : IsFor(i)
  BY <1>1 DEF FrameInv
<1>4. ASSUME UNCHANGED visited
      PROVE  /\ Turn' = Turn /\ Len(visited') <= Len(Service(sent'))
             /\ \A i \in DOMAIN visited' : visited'[i] = Service(sent')[i][1]
             /\ IsFor(Turn)' <=> frame' = FrameFor(Turn)
             /\ Location(Stands(sent, Turn))' = Location(Stands(sent, Turn))
  <2>1. Turn' = Turn /\ sent' = sent /\ place' = place
    BY <1>1, <1>4 DEF Turn
  <2>2. IsFor(Turn)' <=> frame' = FrameFor(Turn)
    BY <2>1 DEF IsFor, FrameFor, Stands, Count
  <2>3. Location(Stands(sent, Turn))' = Location(Stands(sent, Turn))
    BY <2>1 DEF Location, Stands
  <2> QED
    BY <1>1, <1>4, <2>1, <2>2, <2>3 DEF OnCourse
<1>5. phase = "switch" =>
         \/ IsPlain /\ (tbl = 0 => Entering \/ Returned \/ at \in DOMAIN Peer)
         \/ Turn \in 1..n /\ IsFor(Turn)
  BY <1>1 DEF OnCourse
<1>6. ~ (IsPlain /\ \E i : IsFor(i))
  <2>1. \A i : Len(FrameFor(i)) = 3
    BY DEF FrameFor
  <2>2. Len(<<Plain(sent)>>) = 1
    OBVIOUS
  <2> QED
    BY <1>2, <2>1, <2>2
<1>7. CASE GotoTable
  <2>1. /\ UNCHANGED <<sent, at, phase, visited>> /\ phase = "switch"
        /\ IsPlain /\ tbl \in {0, 3} =>
              /\ tbl' = 3
              /\ \/ frame' = frame
                 \/ /\ tbl = 0 /\ frame' = FrameFor(1)
                    /\ \/ at = Entrance[sent]
                       \/ SourceMod(sent, at[2], Stands(sent, 1)).entry \in table[at[1]]
                 \/ /\ tbl = 0
                    /\ \E i \in 1..(n - 1) :
                          at = Location(Stands(sent, i)) /\ frame' = FrameFor(i + 1)
        /\ \A i \in 1..n : IsFor(i) => frame' = frame /\ tbl' \in {1, 3}
    BY <1>7, GotoSteps
  <2>2. CASE IsPlain /\ frame' = frame
    <3>1. IsPlain' /\ tbl' # 0 /\ phase' = "switch"
      BY <1>2, <1>3, <1>6, <2>1, <2>2
    <3> QED
      BY <1>4, <2>1, <3>1 DEF OnCourse
  <2>3. CASE IsPlain /\ frame' # frame
    <3>1. tbl = 0 /\ (Entering \/ Returned \/ at \in DOMAIN Peer)
      BY <1>3, <1>5, <1>6, <2>1, <2>3
    <3>2. Turn \in 1..n /\ frame' = FrameFor(Turn)
      <4>1. CASE /\ frame' = FrameFor(1)
                 /\ \/ at = Entrance[sent]
                    \/ SourceMod(sent, at[2], Stands(sent, 1)).entry \in table[at[1]]
        <5>1. at = Entrance[sent]
          BY <1>1, <4>1 DEF SourcesAtEntrance
        <5>2. at \notin DOMAIN Peer
          BY <1>1, <5>1 DEF WellBuilt, WellLinked
        <5>3. ~ Returned
          <6> SUFFICES ASSUME Returned PROVE FALSE
            OBVIOUS
          <6>1. k \in 1..n /\ at = Location(Stands(sent, k))
            BY <1>1, EmptySeq DEF Returned
          <6>2. \A g \in Flow : Location(Stands(sent, k)) # Entrance[g]
            BY <1>1, <6>1, Places
          <6> QED
            BY <1>1, <5>1, <6>1, <6>2
        <5>4. visited = <<>>
          BY <3>1, <5>2, <5>3 DEF Entering
        <5>5. Turn = 1
          BY <1>1, <5>4
        <5> QED
          BY <1>1, <4>1, <5>5
      <4>2. CASE \E i \in 1..(n - 1) :
                    at = Location(Stands(sent, i)) /\ frame' = FrameFor(i + 1)
        <5>1. PICK i \in 1..(n - 1) :
                 at = Location(Stands(sent, i)) /\ frame' = FrameFor(i + 1)
          BY <4>2
        <5>2. i \in 1..n
          BY <1>1
        <5>3. at # Entrance[sent] /\ at \notin DOMAIN Peer
          BY <1>1, <5>1, <5>2, Places
        <5>4. Returned
          BY <3>1, <5>3 DEF Entering
        <5>5. k \in 1..n /\ at = Location(Stands(sent, k))
          BY <1>1, <5>4, EmptySeq DEF Returned
        <5>6. Stands(sent, k).dpid = Stands(sent, i).dpid
          BY <5>1, <5>5 DEF Location
        <5>7. k = i
          BY <1>1, <5>2, <5>5, <5>6, Places
        <5> QED
          BY <1>1, <5>1, <5>7
      <4> QED
        BY <1>3, <1>6, <2>1, <2>3, <4>1, <4>2
    <3>3. IsFor(Turn)' /\ Turn' <= Len(Service(sent'))
      BY <1>1, <1>4, <2>1, <3>2
    <3> QED
      BY <1>4, <2>1, <3>3 DEF OnCourse
  <2>4. CASE ~ IsPlain
    <3>1. Turn \in 1..n /\ frame' = FrameFor(Turn)
      BY <1>2, <1>5, <2>1, <2>4
    <3>2. IsFor(Turn)' /\ Turn' <= Len(Service(sent'))
      BY <1>1, <1>2, <1>4, <2>1, <3>1
    <3> QED
      BY <1>4, <2>1, <3>2 DEF OnCourse
  <2> QED
    BY <2>2, <2>3, <2>4
<1>8. CASE Output
  <2>1. /\ UNCHANGED <<sent, visited>> /\ phase = "switch" /\ tbl' = 0
        /\ IsPlain /\ tbl \in {0, 3} =>
              /\ frame' = frame
              /\ (phase' = "switch" /\ at' \in DOMAIN Peer) \/ phase' = "delivered"
        /\ \A i \in 1..n : IsFor(i) =>
              \/ phase' = "switch" /\ frame' = frame
              \/ /\ phase' = "function" /\ at' = Location(Stands(sent, i))
                 /\ frame' = frame \/ frame' = <<Plain(sent)>>
    BY <1>8, OutputSteps
  <2>2. CASE IsPlain
    <3>1. IsPlain' /\ ((phase' = "switch" /\ at' \in DOMAIN Peer) \/ phase' = "delivered")
      BY <1>2, <1>3, <1>6, <2>1, <2>2
    <3>2. DOMAIN Peer' = DOMAIN Peer
      OBVIOUS
    <3> QED
      BY <1>4, <2>1, <3>1, <3>2 DEF OnCourse
  <2>3. CASE ~ IsPlain
    <3>1. Turn \in 1..n /\ IsFor(Turn)
      BY <1>5, <2>1, <2>3
    <3>2. CASE phase' = "switch" /\ frame' = frame
      <4>1. IsFor(Turn)' /\ Turn' <= Len(Service(sent'))
        BY <1>1, <1>2, <1>4, <2>1, <3>1, <3>2
      <4> QED
        BY <1>4, <2>1, <3>2, <4>1 DEF OnCourse
    <3>3. CASE /\ phase' = "function" /\ at' = Location(Stands(sent, Turn))
               /\ frame' = frame \/ frame' = <<Plain(sent)>>
      <4>1. IsPlain' \/ IsFor(Turn)'
        BY <1>1, <1>2, <1>4, <2>1, <3>1, <3>3
      <4>2. Turn' <= Len(Service(sent')) /\ at' = Location(Stands(sent, Turn))'
        BY <1>1, <1>2, <1>4, <2>1, <3>1, <3>3
      <4> QED
        BY <1>4, <2>1, <3>3, <4>1, <4>2 DEF OnCourse
    <3> QED
      BY <2>1, <3>1, <3>2, <3>3
  <2> QED
    BY <2>2, <2>3
<1>9. CASE Serve
  <2>1. phase = "function" /\ UNCHANGED <<sent, frame, at, tbl>>
    BY <1>9 DEF Serve
  <2>2. /\ tbl = 0 /\ Turn \in 1..n /\ at = Location(Stands(sent, Turn))
        /\ IsPlain \/ IsFor(Turn)
    BY <1>1, <2>1 DEF OnCourse
  <2>3. CASE Len(frame) # 1
    <3>1. phase' = "lost" /\ UNCHANGED visited
      BY <1>9, <2>3 DEF Serve
    <3> QED
      BY <1>4, <3>1 DEF OnCourse
  <2>4. CASE Len(frame) = 1
    <3>1. IsPlain
      BY <1>2, <2>2, <2>4 DEF FrameFor
    <3>2. VnfsAt(at) = {Service(sent)[Turn][1]}
      BY <1>1, <2>2, Places
    <3>3. phase' = "switch" /\ visited' = Append(visited, Service(sent)[Turn][1])
      BY <1>9, <2>4, <3>2 DEF Serve
    <3>4. Service(sent)[Turn][1] \in Vnf
      BY <1>1, <2>2, ServiceProperties
    <3>5. /\ visited' \in Seq(Vnf) /\ Len(visited') = k + 1
          /\ \A i \in 1..k : visited'[i] = visited[i]
          /\ visited'[k + 1] = Service(sent)[Turn][1]
          /\ DOMAIN visited' = 1..(k + 1) /\ DOMAIN visited = 1..k
      BY <1>1, <3>3, <3>4, AppendProperties, LenProperties
    <3>6. ASSUME NEW i \in DOMAIN visited'
          PROVE  visited'[i] = Service(sent)[i][1]
      <4>1. CASE i \in 1..k
        BY <3>5, <4>1 DEF OnCourse
      <4>2. CASE i = k + 1
        BY <1>1, <3>5, <4>2
      <4> QED
        BY <1>1, <3>5, <3>6, <4>1, <4>2
    <3>7. Returned'
      <4>1. at' = Location(Stands(sent, k + 1)) /\ visited' # <<>>
        BY <1>1, <2>1, <2>2, <3>5
      <4>2. IsPlain' /\ tbl' = 0
        BY <1>2, <2>1, <2>2, <3>1
      <4>3. Location(Stands(sent, Len(visited)))' = Location(Stands(sent, k + 1))
        BY <1>1, <3>5 DEF Location, Stands
      <4> QED
        BY <3>3, <4>1, <4>2, <4>3 DEF Returned
    <3>8. Len(visited') <= Len(Service(sent'))
      BY <1>1, <2>2, <3>5
    <3>9. \A i \in DOMAIN visited' : visited'[i] = Service(sent')[i][1]
      BY <1>1, <3>6
    <3> QED
      BY <3>3, <3>7, <3>8, <3>9 DEF OnCourse, Returned
  <2> QED
    BY <2>3, <2>4
<1>10. CASE Discard
  <2>1. phase' = "lost" /\ UNCHANGED visited
    BY <1>10 DEF Discard
  <2> QED
    BY <1>4, <2>1 DEF OnCourse
<1> QED
  BY <1>1, <1>7, <1>8, <1>9, <1>10

-----------------------------------------------------------------------------
\* A packet that a function has returned.  It stays in the chain while the
\* switch that hands packets to a function also takes them back: it then has no
\* detection entry of the flow, and the entry for the next hop, if there is one.

Catches(e, f) == e.flow = f /\ e.table = 0 /\ e.goto = 2
Resumes(e, f, i) ==
    /\ e.table = 0 /\ e.priority = 6
    /\ e.match = MiddleFields(f) \cup {<<"in_port", Stands(f, i).in_port>>}
Guarded(tab, f, i) ==
    (\E e \in tab : Takes(e, f, i)) =>
        /\ \A e \in tab : ~ Catches(e, f)
        /\ i < Count(f) => \E e \in tab : Resumes(e, f, i)
GuardedAll ==
    \A i \in 1..Count(sent) : Guarded(table[Stands(sent, i).dpid], sent, i)

\* The last function of a service stands on the switch of the exit: from
\* anywhere else packets leave its port by way of other switches.
LastAtExit == \A f \in Flow : Stands(f, Count(f)).dpid = Exit[1]

\* Where it is.  What is handed to a function comes from an entry that takes it.
HandedOver == phase = "function" /\ IsPlain => Taken(sent, Turn)
Back == tbl = 0 /\ Returned /\ Taken(sent, Len(visited))
Done == tbl = 3 /\ Len(visited) = Count(sent) /\ at[1] = Exit[1]
Staying ==
    visited # <<>> =>
        /\ phase = "switch" /\ IsPlain => Back \/ Done
        /\ phase = "delivered" => IsPlain /\ Len(visited) = Count(sent)

LEMMA BackMeets ==
    ASSUME WellBuilt, place \in Placement, OnlyFromController, sent \in Flow,
           SourcesAtEntrance, at \in Switch \X Port, IsPlain, tbl = 0,
           NEW i \in 1..Count(sent), at = Location(Stands(sent, i)), Taken(sent, i),
           Guarded(table[at[1]], sent, i), NEW e \in Lookup
    PROVE  /\ e.goto = 3
           /\ i < Count(sent) => Acted(e) = FrameFor(i + 1)
           /\ i = Count(sent) => Acted(e) = frame
<1>1. /\ at[1] = Stands(sent, i).dpid /\ at[2] = Stands(sent, i).in_port
      /\ at = <<at[1], at[2]>> /\ at[1] \in Switch /\ Count(sent) \in Nat \ {0}
  BY ServiceProperties DEF Location
<1>2. /\ \A x \in table[at[1]] : ~ Catches(x, sent)
      /\ i < Count(sent) => \E x \in table[at[1]] : Resumes(x, sent, i)
  BY <1>1 DEF Taken, Guarded
<1>3. /\ e \in table[at[1]]
      /\ \A x \in table[at[1]] : x.table = 0 /\ x.match \subseteq Visible
                                    => x.priority <= e.priority
  BY DEF Lookup, Best, Matching
<1>4. e # CatchMod(sent).entry
  BY <1>2, <1>3 DEF Catches, CatchMod, AddMod
<1>5. i < Count(sent) => e.priority # 0
  <2> SUFFICES ASSUME i < Count(sent) PROVE e.priority # 0
    OBVIOUS
  <2>1. PICK x \in table[at[1]] : Resumes(x, sent, i)
    BY <1>2
  <2>2. Visible = Plain(sent) \cup {<<"in_port", at[2]>>}
    BY VisibleIs
  <2>3. x.match \subseteq Visible
    BY <1>1, <2>1, <2>2 DEF Resumes, MiddleFields, Plain
  <2>4. x.priority <= e.priority /\ x.priority = 6
    BY <1>3, <2>1, <2>3 DEF Resumes
  <2> QED
    BY <2>4
<1>6. at # Entrance[sent] /\ SourceMod(sent, at[2], Stands(sent, 1)).entry \notin table[at[1]]
  <2>1. at # Entrance[sent]
    BY Places
  <2> QED
    BY <1>1, <2>1 DEF SourcesAtEntrance
<1>7. ASSUME NEW j \in 1..(Count(sent) - 1), at = Location(Stands(sent, j))
      PROVE  j = i
  <2>1. Stands(sent, j).dpid = Stands(sent, i).dpid /\ j \in 1..Count(sent)
    BY <1>1, <1>7 DEF Location
  <2> QED
    BY <2>1, Places
<1>8. \/ tbl = 0 /\ PassesOn(e) /\ e.goto = 3 /\ e.priority = 0
      \/ /\ tbl = 0 /\ e.goto = 3
         /\ \E j \in 1..(Count(sent) - 1) :
               at = Location(Stands(sent, j)) /\ Acted(e) = FrameFor(j + 1)
  BY <1>4, <1>6, PlainMeets
<1> QED
  BY <1>1, <1>5, <1>7, <1>8 DEF PassesOn

\* No entry sends it to table 2.
LEMMA NotToController ==
    ASSUME WellBuilt, RowsMatch, place \in Placement, OnlyFromController, FrameInv,
           SourcesAtEntrance, OnCourse, GuardedAll, Staying,
           phase = "switch", visited # <<>>, NEW e \in Lookup
    PROVE  e.goto # 2
<1>1. /\ sent \in Flow /\ at \in Switch \X Port /\ visited \in Seq(Vnf)
      /\ Count(sent) \in Nat /\ Len(visited) \in Nat /\ Len(visited) <= Count(sent)
  BY ServiceProperties, LenProperties DEF FrameInv, OnCourse, Count
<1>2. CASE IsPlain
  <2>1. CASE Back
    <3>1. Len(visited) \in 1..Count(sent) /\ at = Location(Stands(sent, Len(visited)))
      BY <1>1, <2>1, EmptySeq DEF Back, Returned
    <3>2. at[1] = Stands(sent, Len(visited)).dpid /\ Taken(sent, Len(visited)) /\ tbl = 0
      BY <2>1, <3>1 DEF Back, Location
    <3>3. Guarded(table[at[1]], sent, Len(visited))
      BY <3>1, <3>2 DEF GuardedAll
    <3> QED
      BY <1>1, <1>2, <3>1, <3>2, <3>3, BackMeets
  <2>2. CASE Done
    <3>1. tbl = 3
      BY <2>2 DEF Done
    <3>2. SentNormal(e)
      BY <1>1, <1>2, <3>1, PlainMeets
    <3> QED
      BY <3>2 DEF SentNormal
  <2> QED
    BY <1>2, <2>1, <2>2 DEF Staying
<1>3. CASE ~ IsPlain
  <2>1. tbl \in {0, 1, 3} /\ \E i \in 1..Count(sent) : IsFor(i)
    BY <1>3 DEF FrameInv, Count
  <2>2. PICK i \in 1..Count(sent) : IsFor(i)
    BY <2>1
  <2>3. \/ PassesOn(e) /\ e.goto \in {1, 3}
        \/ e.goto = 0
        \/ SentNormal(e)
    BY <1>1, <2>1, <2>2, NshMeets
  <2> QED
    BY <2>3 DEF SentNormal
<1> QED
  BY <1>2, <1>3

LEMMA NextStaying ==
    ASSUME WellBuilt, RowsMatch, place \in Placement, OnlyFromController, FrameInv,
           SourcesAtEntrance, OnCourse, GuardedAll, LastAtExit, HandedOver, Staying,
           Move \/ Discard, tbl' # 2
    PROVE  HandedOver' /\ Staying'
<1> DEFINE n == Count(sent)
           k == Len(visited)
<1>1. /\ UNCHANGED <<place, sent, table>> /\ (GotoTable \/ Output \/ Serve \/ Discard)
      /\ sent \in Flow /\ at \in Switch \X Port /\ visited \in Seq(Vnf)
      /\ n \in Nat \ {0} /\ k \in Nat /\ k <= n /\ Turn = k + 1
      /\ Len(Service(sent)) = n /\ Count(sent)' = n
  BY ServiceProperties, LenProperties
     DEF FrameInv, OnCourse, Count, Turn, Move, Discard, GotoTable, Output, Serve, Service
<1>2. /\ IsPlain' <=> frame' = <<Plain(sent)>>
      /\ IsPlain <=> frame = <<Plain(sent)>>
      /\ \A i : IsFor(i) <=> frame = FrameFor(i)
      /\ \A i : Stands(sent, i)' = Stands(sent, i)
      /\ \A i : Len(FrameFor(i)) = 3
      /\ Len(<<Plain(sent)>>) = 1
  BY <1>1, FramesThen, FramesNow DEF FrameFor
<1>3. /\ IsPlain => tbl \in {0, 3}
      /\ ~ IsPlain => tbl \in {0, 1, 3} /\ \E i \in 1..n : IsFor(i)
  BY <1>1, <1>2 DEF FrameInv
<1>4. \A i : Taken(sent, i) <=> Taken(sent, i)'
  BY <1>1 DEF Taken, Takes, Stands, Count, Service
<1>5. k # 0 <=> visited # <<>>
  BY <1>1, EmptySeq
<1>6. ASSUME phase = "switch", IsPlain, tbl = 0, visited # <<>>, NEW e \in Lookup
      PROVE  /\ e.goto = 3 /\ k \in 1..n /\ at = Location(Stands(sent, k))
             /\ k < n => Acted(e) = FrameFor(k + 1)
             /\ k = n => Acted(e) = frame
  <2>1. Back
    BY <1>6 DEF Staying, Done
  <2>2. k \in 1..n /\ at = Location(Stands(sent, k)) /\ Taken(sent, k)
    BY <1>1, <1>5, <1>6, <2>1 DEF Back, Returned
  <2>3. at[1] = Stands(sent, k).dpid
    BY <2>2 DEF Location
  <2>4. Guarded(table[at[1]], sent, k)
    BY <2>2, <2>3 DEF GuardedAll
  <2> HIDE DEF n, k
  <2>5. k \in 1..Count(sent)
    BY <2>2 DEF n
  <2>6. /\ e.goto = 3
        /\ k < Count(sent) => Acted(e) = FrameFor(k + 1)
        /\ k = Count(sent) => Acted(e) = frame
    BY <1>1, <1>6, <2>2, <2>4, <2>5, BackMeets
  <2> QED
    BY <2>2, <2>6 DEF n
<1>7. CASE GotoTable
  <2>1. UNCHANGED <<sent, at, phase, visited>> /\ phase = "switch"
    BY <1>7 DEF GotoTable
  <2>2. PICK e \in Lookup : e.goto # 0 /\ frame' = Acted(e) /\ tbl' = e.goto
    BY <1>7 DEF GotoTable
  <2>3. HandedOver'
    BY <2>1 DEF HandedOver
  <2>4. ASSUME visited # <<>>, IsPlain'
        PROVE  Done'
    <3>1. IsPlain
      <4>1. ~ IsPlain => frame' = frame
        BY <1>3, <1>7, GotoSteps
      <4> QED
        BY <1>2, <2>4, <4>1
    <3>2. tbl = 0
      <4>1. tbl = 3 => SentNormal(e)
        BY <1>1, <3>1, PlainMeets
      <4> QED
        BY <1>3, <2>2, <3>1, <4>1 DEF SentNormal
    <3>3. /\ e.goto = 3 /\ k \in 1..n /\ at = Location(Stands(sent, k))
          /\ k < n => Acted(e) = FrameFor(k + 1)
      BY <1>6, <2>1, <2>4, <3>1, <3>2
    <3>4. k = n
      BY <1>1, <1>2, <2>2, <2>4, <3>3
    <3>5. at[1] = Exit[1]
      BY <1>1, <3>3, <3>4 DEF LastAtExit, Location
    <3> QED
      BY <1>1, <2>1, <2>2, <3>3, <3>4, <3>5 DEF Done
  <2> QED
    BY <2>1, <2>3, <2>4 DEF Staying
<1>8. CASE Output
  <2>1. /\ UNCHANGED <<sent, visited>> /\ phase = "switch" /\ tbl' = 0
        /\ IsPlain =>
              /\ frame' = frame /\ tbl = 3
              /\ (phase' = "switch" /\ at' \in DOMAIN Peer) \/ phase' = "delivered"
              /\ at[1] = Exit[1] => phase' = "delivered"
        /\ \A i \in 1..n : IsFor(i) =>
              \/ phase' = "switch" /\ frame' = frame
              \/ /\ phase' = "function" /\ at' = Location(Stands(sent, i))
                 /\ frame' = frame \/ (frame' = <<Plain(sent)>> /\ Taken(sent, i))
    BY <1>3, <1>8, OutputSteps
  <2>2. CASE IsPlain
    <3>1. HandedOver'
      BY <2>1, <2>2 DEF HandedOver
    <3>2. visited # <<>> => Done
      BY <2>1, <2>2 DEF Staying, Back
    <3>3. visited # <<>> => phase' = "delivered" /\ IsPlain' /\ k = n
      BY <1>1, <1>2, <2>1, <2>2, <3>2 DEF Done
    <3> QED
      BY <1>1, <2>1, <3>1, <3>3 DEF Staying
  <2>3. CASE ~ IsPlain
    <3>1. Turn \in 1..n /\ IsFor(Turn)
      BY <1>1, <2>1, <2>3 DEF OnCourse
    <3>2. \/ phase' = "switch" /\ frame' = frame
          \/ /\ phase' = "function"
             /\ frame' = frame \/ (frame' = <<Plain(sent)>> /\ Taken(sent, Turn))
      BY <2>1, <3>1
    <3>3. ~ IsPlain' \/ (phase' = "function" /\ Taken(sent, Turn))
      BY <1>2, <2>3, <3>2
    <3>4. Turn' = Turn /\ sent' = sent
      BY <2>1 DEF Turn
    <3>5. HandedOver'
      BY <1>4, <3>3, <3>4 DEF HandedOver, Taken, Takes, Stands, Count, Service
    <3> QED
      BY <3>2, <3>3, <3>5 DEF Staying
  <2> QED
    BY <2>2, <2>3
<1>9. CASE Serve
  <2>1. phase = "function" /\ UNCHANGED <<sent, frame, at, tbl>>
    BY <1>9 DEF Serve
  <2>2. /\ tbl = 0 /\ Turn \in 1..n /\ at = Location(Stands(sent, Turn))
        /\ IsPlain \/ IsFor(Turn)
    BY <1>1, <2>1 DEF OnCourse
  <2>3. CASE Len(frame) # 1
    <3>1. phase' = "lost" /\ UNCHANGED visited
      BY <1>9, <2>3 DEF Serve
    <3> QED
      BY <3>1 DEF HandedOver, Staying
  <2>4. CASE Len(frame) = 1
    <3>1. IsPlain /\ IsPlain'
      BY <1>2, <2>1, <2>2, <2>4
    <3>2. PICK v \in VnfsAt(at) : phase' = "switch" /\ visited' = Append(visited, v)
      BY <1>9, <2>4 DEF Serve
    <3>3. v \in Vnf
      BY DEF VnfsAt
    <3>4. Len(visited') = Turn /\ visited' # <<>>
      BY <1>1, <3>2, <3>3, AppendProperties, LenProperties, EmptySeq
    <3>5. Taken(sent, Turn)
      BY <2>1, <3>1 DEF HandedOver
    <3>6. Back'
      <4>1. PICK t \in 1..n : t = Turn
        BY <2>2
      <4>2. Taken(sent, t)' /\ at = Location(Stands(sent, t))
        BY <1>4, <2>2, <3>5, <4>1
      <4>3. at' = Location(Stands(sent, t))' /\ tbl' = 0 /\ Len(visited') = t
        BY <1>1, <2>1, <2>2, <3>4, <4>1, <4>2 DEF Location, Stands, Service
      <4> HIDE DEF Taken
      <4> QED
        BY <3>1, <3>2, <3>4, <4>2, <4>3 DEF Back, Returned
    <3> QED
      BY <3>2, <3>6 DEF HandedOver, Staying
  <2> QED
    BY <2>3, <2>4
<1>10. CASE Discard
  BY <1>10 DEF Discard, HandedOver, Staying
<1> QED
  BY <1>1, <1>7, <1>8, <1>9, <1>10
=============================================================================
