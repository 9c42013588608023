------------------------- MODULE SfcNetwork_proofs --------------------------
(***************************************************************************)
(* Packets among tables that the controller is changing: whatever it has   *)
(* sent, lost or deleted, every frame is one of a flow's own (NetTypeOK),  *)
(* and where source entries are only where flows enter, functions are      *)
(* visited in their order (InOrder); the controller's theorems hold of it  *)
(* here too; and what the entries of a chain promise while others come.    *)
(***************************************************************************)
EXTENDS SfcNetwork, SfcFinal_proofs, FiniteSetTheorems

-----------------------------------------------------------------------------
\* The lemmas of SfcForwarding_proofs, about this network.

F == INSTANCE SfcForwarding_proofs WITH place <- Home, Placement <- {Home}



LEMMA SameActed == \A e : Plane!Acted(e) = F!Acted(e)
BY DEF F!Acted, Plane!Acted, F!Act, Plane!Act, F!SetField, Plane!SetField

LEMMA SameLookup == Plane!Lookup = F!Lookup
BY DEF F!Lookup, Plane!Lookup, F!Best, Plane!Best, F!Matching, Plane!Matching, F!Visible, Plane!Visible

LEMMA SamePorts == \A s, e : Plane!OutPorts(s, e) = F!OutPorts(s, e)
BY DEF F!OutPorts, Plane!OutPorts, F!NormalPorts, Plane!NormalPorts, F!Located, Plane!Located, F!Acted, Plane!Acted, F!Act, Plane!Act, F!SetField, Plane!SetField, F!ToSet, Plane!ToSet

LEMMA SameLeave == \A s, p : Plane!Leave(s, p) <=> F!Leave(s, p)
BY DEF F!Leave, Plane!Leave, F!VnfsAt, Plane!VnfsAt

LEMMA SameMove == /\ Plane!Move <=> F!Move
                  /\ Plane!Discard <=> F!Discard
<1>1. Plane!GotoTable <=> F!GotoTable
  BY SameActed, SameLookup DEF F!GotoTable, Plane!GotoTable
<1>2. Plane!Output <=> F!Output
  BY SameActed, SameLookup, SamePorts, SameLeave DEF F!Output, Plane!Output
<1>3. Plane!Serve <=> F!Serve
  BY DEF F!Serve, Plane!Serve, F!VnfsAt, Plane!VnfsAt
<1>4. Plane!Discard <=> F!Discard
  BY SameLookup, SamePorts DEF F!Discard, Plane!Discard
<1> QED
  BY <1>1, <1>2, <1>3, <1>4 DEF F!Move, Plane!Move
\* The entries, which are those of SfcRules in each instance.
LEMMA RulesOfF ==
    /\ \A f : F!FlowMatch(f) = FlowMatch(f) /\ F!MiddleFields(f) = MiddleFields(f)
    /\ F!RegistrationMatch = RegistrationMatch /\ F!DefaultEntries = DefaultEntries
    /\ \A f : F!CatchMod(f) = CatchMod(f)
    /\ \A f, p, row : F!SourceMod(f, p, row) = SourceMod(f, p, row)
    /\ \A step, f, lastSi, si, cur, nxt :
          F!HopMod(step, f, lastSi, si, cur, nxt) = HopMod(step, f, lastSi, si, cur, nxt)
    /\ \A step, f, last : F!EndMod(step, f, last) = EndMod(step, f, last)
BY DEF FlowMatch, F!FlowMatch, EthType, F!EthType, IpProto, F!IpProto, Has, F!Has,
       MiddleFields, F!MiddleFields, RegistrationMatch, F!RegistrationMatch,
       DefaultEntries, F!DefaultEntries, DefaultMods, F!DefaultMods, Default,
       F!Default, AddMod, F!AddMod, CatchMod, F!CatchMod, SourceMod, F!SourceMod,
       Encap, F!Encap, HopMod, F!HopMod, ProxyMod, F!ProxyMod, MiddleMod, F!MiddleMod,
       DecapMod, F!DecapMod, Decap, F!Decap, NshMatch, F!NshMatch, EndMod, F!EndMod

LEMMA RulesOfPlane ==
    /\ \A f : Plane!FlowMatch(f) = FlowMatch(f) /\ Plane!MiddleFields(f) = MiddleFields(f)
    /\ Plane!RegistrationMatch = RegistrationMatch /\ Plane!DefaultEntries = DefaultEntries
    /\ \A f : Plane!CatchMod(f) = CatchMod(f)
    /\ \A f, p, row : Plane!SourceMod(f, p, row) = SourceMod(f, p, row)
    /\ \A step, f, lastSi, si, cur, nxt :
          Plane!HopMod(step, f, lastSi, si, cur, nxt) = HopMod(step, f, lastSi, si, cur, nxt)
    /\ \A step, f, last : Plane!EndMod(step, f, last) = EndMod(step, f, last)
BY DEF FlowMatch, Plane!FlowMatch, EthType, Plane!EthType, IpProto, Plane!IpProto, Has,
       Plane!Has, MiddleFields, Plane!MiddleFields, RegistrationMatch,
       Plane!RegistrationMatch, DefaultEntries, Plane!DefaultEntries, DefaultMods,
       Plane!DefaultMods, Default, Plane!Default, AddMod, Plane!AddMod, CatchMod,
       Plane!CatchMod, SourceMod, Plane!SourceMod, Encap, Plane!Encap, HopMod,
       Plane!HopMod, ProxyMod, Plane!ProxyMod, MiddleMod, Plane!MiddleMod, DecapMod,
       Plane!DecapMod, Decap, Plane!Decap, NshMatch, Plane!NshMatch, EndMod,
       Plane!EndMod

LEMMA SameNetwork ==
    /\ Plane!RowsMatch <=> F!RowsMatch
    /\ Plane!WellBuilt <=> F!WellBuilt
    /\ \A s, e : Plane!FromController(s, e) <=> F!FromController(s, e)
    /\ Plane!OnlyFromController <=> F!OnlyFromController
    /\ Plane!SourcesAtEntrance <=> F!SourcesAtEntrance
<1>1. Plane!RowsMatch <=> F!RowsMatch
  BY RulesOfF, RulesOfPlane DEF Plane!RowsMatch, F!RowsMatch
<1>2. Plane!WellBuilt <=> F!WellBuilt
  BY RulesOfF, RulesOfPlane
     DEF F!WellBuilt, Plane!WellBuilt, F!CountingDown, Plane!CountingDown, F!RowsApart, Plane!RowsApart, F!RowsAccepted, Plane!RowsAccepted, F!PrereqOK, Plane!PrereqOK, F!Fields, Plane!Fields, F!WellLinked, Plane!WellLinked, F!WellAddressed, Plane!WellAddressed, F!WellPlaced, Plane!WellPlaced, F!Plain, Plane!Plain, F!Service, Plane!Service, F!Location, Plane!Location
<1>3. \A f, i : Plane!Stands(f, i) = F!Stands(f, i)
  BY DEF F!Stands, Plane!Stands, F!Service, Plane!Service
<1>4. \A f : Plane!ChainMods(Home, f) = F!ChainMods(Home, f)
  BY RulesOfF, RulesOfPlane DEF F!ChainMods, Plane!ChainMods, F!Service, Plane!Service
<1>5. \A s, e : Plane!FromController(s, e) <=> F!FromController(s, e)
  BY <1>3, <1>4, RulesOfF, RulesOfPlane DEF F!FromController, Plane!FromController
<1>6. Plane!OnlyFromController <=> F!OnlyFromController
  BY <1>5 DEF F!OnlyFromController, Plane!OnlyFromController
<1>7. Plane!SourcesAtEntrance <=> F!SourcesAtEntrance
  BY <1>3, RulesOfF, RulesOfPlane DEF F!SourcesAtEntrance, Plane!SourcesAtEntrance
<1> QED
  BY <1>1, <1>2, <1>5, <1>6, <1>7

LEMMA SamePacket ==
    /\ Plane!FrameInv <=> F!FrameInv
    /\ Plane!OnCourse <=> F!OnCourse
<1>1. \A f, i : Plane!Stands(f, i) = F!Stands(f, i)
  BY DEF F!Stands, Plane!Stands, F!Service, Plane!Service
<1>2. /\ \A f : Plane!Plain(f) = F!Plain(f) /\ Plane!Service(f) = F!Service(f)
      /\ Plane!Turn = F!Turn /\ \A row : Plane!Location(row) = F!Location(row)
  BY RulesOfF, RulesOfPlane DEF F!Plain, Plane!Plain, F!Service, Plane!Service, F!Turn, Plane!Turn, F!Location, Plane!Location
<1>3. /\ Plane!IsPlain <=> F!IsPlain
      /\ \A i : Plane!IsFor(i) <=> F!IsFor(i)
  BY <1>1, <1>2 DEF F!IsPlain, Plane!IsPlain, F!IsFor, Plane!IsFor
<1>4. Plane!FrameInv <=> F!FrameInv
  BY <1>2, <1>3 DEF F!FrameInv, Plane!FrameInv
<1>5. Plane!OnCourse <=> F!OnCourse
  BY <1>1, <1>2, <1>3 DEF F!OnCourse, Plane!OnCourse, F!Entering, Plane!Entering, F!Returned, Plane!Returned
<1> QED
  BY <1>4, <1>5
LEMMA AssumedByF ==
    /\ F!FlowAssumption /\ F!PortAssumption /\ F!MacAssumption /\ F!ValueAssumption
    /\ F!RowAssumption /\ F!ServiceAssumption /\ F!PathAssumption
    /\ F!EntranceAssumption /\ F!PlacementAssumption
BY FlowAssumption, PortAssumption, MacAssumption, ValueAssumption, RowAssumption,
   ServiceAssumption, PathAssumption, HomeAssumption
   DEF F!FlowAssumption, F!PortAssumption, F!MacAssumption, F!ValueAssumption,
       F!RowAssumption, F!ServiceAssumption, F!PathAssumption, F!EntranceAssumption,
       F!PlacementAssumption, F!Column, Column, F!FieldName, FieldName, F!VnfRow, VnfRow

\* A step of the packet.
LEMMA PacketMoves ==
    ASSUME WellHome, Plane!OnlyFromController, Plane!FrameInv,
           Plane!Move \/ Plane!Discard, tbl' # 2
    PROVE  /\ Plane!FrameInv'
           /\ Plane!SourcesAtEntrance /\ Plane!OnCourse => Plane!OnCourse'
<1>1. /\ F!WellBuilt /\ F!RowsMatch /\ F!OnlyFromController /\ F!FrameInv
      /\ F!Move \/ F!Discard
      /\ Home \in {Home}
  BY SameNetwork, SamePacket, SameMove DEF WellHome
<1>2. F!FrameInv'
  BY <1>1, AssumedByF, F!NextFrame
<1>3. F!SourcesAtEntrance /\ F!OnCourse => F!OnCourse'
  BY <1>1, AssumedByF, F!NextCourse
<1>4. /\ Plane!FrameInv' <=> F!FrameInv'
      /\ Plane!OnCourse' <=> F!OnCourse'
  BY SamePacket, PTL
<1> QED
  BY <1>2, <1>3, <1>4, SameNetwork, SamePacket

(***************************************************************************)
(* The controller.                                                         *)
(***************************************************************************)

\* What is sent for a flow, when its functions are where they stand.
LEMMA ModsFromHome ==
    ASSUME NEW f \in Flow
    PROVE  /\ \A s : ModFromHome(s, CatchMod(f))
           /\ \A s : \A p \in Port :
                 ModFromHome(s, SourceMod(f, p, Home[Path1(f)[1][1]]))
           /\ \A i \in 1..(Len(Path1(f)) - 1) : \A step \in 1..3 :
                 ModFromHome(Home[Path1(f)[i][1]].dpid,
                    HopMod(step, f, IF i = 1 THEN Len(Path1(f)) ELSE Path1(f)[i][2],
                           Path1(f)[i + 1][2],
                           Home[Path1(f)[i][1]], Home[Path1(f)[i + 1][1]]))
           /\ \A step \in 1..2 :
                 ModFromHome(Home[Path1(f)[Len(Path1(f))][1]].dpid,
                             EndMod(step, f, Home[Path1(f)[Len(Path1(f))][1]]))
           /\ \A s : ModFromHome(s, DeleteFlowMod(f)) /\ ModFromHome(s, DeleteSpiMod(f))
<1> DEFINE n == Len(Path1(f))
           row(i) == Home[Path1(f)[i][1]]
           hop(i, step) == HopMod(step, f, IF i = 1 THEN n ELSE Path1(f)[i][2],
                                  Path1(f)[i + 1][2], row(i), row(i + 1))
<1>1. Plane!Service(f) = Path1(f)
  BY DEF Plane!Service, Path1
<1>2. Plane!ChainMods(Home, f) =
         {<<row(i).dpid, hop(i, step)>> : i \in 1..(n - 1), step \in 1..3}
         \cup {<<row(n).dpid, EndMod(step, f, row(n))>> : step \in 1..2}
         \cup {<<Entrance[f][1], SourceMod(f, Entrance[f][2], row(1))>>}
  BY <1>1, RulesOfPlane DEF Plane!ChainMods
<1>3. \A s, mod : <<s, mod>> \in Plane!ChainMods(Home, f) => ModFromHome(s, mod)
  <2> TAKE s, mod
  <2> HAVE <<s, mod>> \in Plane!ChainMods(Home, f)
  <2>1. \E m \in Plane!ChainMods(Home, f) : m[1] = s /\ mod.entry = m[2].entry
    OBVIOUS
  <2> QED
    BY <2>1 DEF ModFromHome, Plane!FromController
<1>4. \A i \in 1..(n - 1), step \in 1..3 : ModFromHome(row(i).dpid, hop(i, step))
  <2> HIDE DEF n, row, hop
  <2> TAKE i \in 1..(n - 1), step \in 1..3
  <2>1. <<row(i).dpid, hop(i, step)>> \in Plane!ChainMods(Home, f)
    BY <1>2
  <2> QED
    BY <1>3, <2>1
<1>5. \A step \in 1..2 : ModFromHome(row(n).dpid, EndMod(step, f, row(n)))
  <2> HIDE DEF n, row, hop
  <2> TAKE step \in 1..2
  <2>1. <<row(n).dpid, EndMod(step, f, row(n))>> \in Plane!ChainMods(Home, f)
    BY <1>2
  <2> QED
    BY <1>3, <2>1
<1>6. \A s : ModFromHome(s, CatchMod(f))
  BY RulesOfPlane DEF ModFromHome, Plane!FromController
<1>7. \A s : \A p \in Port : ModFromHome(s, SourceMod(f, p, row(1)))
  BY <1>1, RulesOfPlane DEF ModFromHome, Plane!FromController, Plane!Stands
<1>8. \A s : ModFromHome(s, DeleteFlowMod(f)) /\ ModFromHome(s, DeleteSpiMod(f))
  BY DEF ModFromHome, DeleteFlowMod, DeleteSpiMod, DelMod
<1> QED
  BY <1>4, <1>5, <1>6, <1>7, <1>8

\* What every switch is set up with.
LEMMA DefaultsFromHome == \A s : \A i \in 1..6 : ModFromHome(s, DefaultMods[i])
BY RulesOfPlane DEF ModFromHome, Plane!FromController, DefaultEntries

\* A function that is registered is registered where it stands.
LEMMA AtHome ==
    ASSUME TypeOK, WellHome, AllAtHome, NEW f \in Flow, NEW i \in 1..Len(Path1(f))
    PROVE  /\ Bidirectional(f, i) => VnfAt(f, i) = Home[Path1(f)[i][1]]
           /\ Rows(f, i) # {} => Bidirectional(f, i)
<1>1. Path1(f) \in Seq(Vnf \X (FieldValue \cap Nat))
  BY PathAssumption, ServiceAssumption DEF Path1
<1>2. Path1(f)[i] \in Vnf \X (FieldValue \cap Nat)
  BY <1>1, ElementOfSeq
<1>3. Rows(f, i) \subseteq {Home[Path1(f)[i][1]]} /\ Home[Path1(f)[i][1]].iftype = 3
  BY <1>2 DEF Rows, AllAtHome, WellHome
<1> QED
  BY <1>3 DEF Bidirectional, VnfAt

\* Sending a FlowMod of a flow that goes where it stands.
LEMMA SendFromHome ==
    ASSUME TypeOK, SentFromHome, NEW c \in Conn, NEW mod, ModFromHome(Dpid(c), mod),
           Send(c, mod), UNCHANGED table
    PROVE  SentFromHome'
<1>1. ASSUME NEW d \in Conn, NEW i \in DOMAIN chan'[d]
      PROVE  ModFromHome(Dpid(d), chan'[d][i])
  <2>1. CASE chan' = chan \/ d # c
    BY <1>1, <2>1 DEF SentFromHome, Send, TypeOK
  <2>2. CASE chan' # chan /\ d = c
    <3>1. chan'[d] = Append(chan[c], mod) /\ chan[c] \in Seq(FlowMod)
      BY <2>2 DEF Send, TypeOK
    <3>2. \/ i \in DOMAIN chan[c] /\ chan'[d][i] = chan[c][i]
          \/ chan'[d][i] = mod
      BY <1>1, <3>1
    <3> QED
      BY <2>2, <3>2 DEF SentFromHome
  <2> QED
    BY <2>1, <2>2
<1>2. Plane!OnlyFromController'
  BY DEF SentFromHome, Plane!OnlyFromController
<1> QED
  BY <1>1, <1>2 DEF SentFromHome

\* Steps that send nothing and install nothing.
LEMMA NoneSentFromHome ==
    ASSUME SentFromHome, \A s \in Switch : table'[s] \subseteq table[s],
           \A c \in Conn : chan'[c] = chan[c] \/ chan'[c] = <<>>
    PROVE  SentFromHome'
<1>1. Plane!OnlyFromController'
  BY DEF SentFromHome, Plane!OnlyFromController
<1> QED
  BY <1>1 DEF SentFromHome

\* A switch processes what it was sent.
LEMMA ApplyFromHome ==
    ASSUME TypeOK, SentFromHome, NEW c \in Conn, ApplyMod(c)
    PROVE  SentFromHome'
<1>1. /\ chan[c] \in Seq(FlowMod) /\ chan[c] # <<>>
      /\ table' = [table EXCEPT ![Dpid(c)] = Apply(@, Head(chan[c]))]
      /\ chan' = [chan EXCEPT ![c] = Tail(@)]
  BY DEF ApplyMod, TypeOK
<1>2. /\ Head(chan[c]) = chan[c][1] /\ 1 \in DOMAIN chan[c]
      /\ Head(chan[c]) \in FlowMod
  BY <1>1, HeadTailProperties, LenProperties
<1>3. PICK mod \in FlowMod : mod = Head(chan[c]) /\ ModFromHome(Dpid(c), mod)
  BY <1>2 DEF SentFromHome
<1>4. \A e \in Apply(table[Dpid(c)], mod) :
         e \in table[Dpid(c)] \/ (mod.cmd = "add" /\ e = mod.entry)
  <2>1. mod.cmd \in {"add", "delete"}
    BY DEF FlowMod
  <2> QED
    BY <2>1, AppliedFrom
<1>5. ASSUME NEW s \in Switch, NEW e \in table'[s] PROVE Plane!FromController(s, e)
  BY <1>1, <1>3, <1>4, <1>5 DEF SentFromHome, Plane!OnlyFromController, ModFromHome, TypeOK
<1>6. \A i \in DOMAIN Tail(chan[c]) :
         i + 1 \in DOMAIN chan[c] /\ Tail(chan[c])[i] = chan[c][i + 1]
  BY <1>1
<1>7. ASSUME NEW d \in Conn, NEW i \in DOMAIN chan'[d]
      PROVE  ModFromHome(Dpid(d), chan'[d][i])
  BY <1>1, <1>6, <1>7 DEF SentFromHome, TypeOK
<1> QED
  BY <1>5, <1>7 DEF SentFromHome, Plane!OnlyFromController

\* An event is put on the queue.
LEMMA PutAtHome ==
    ASSUME TypeOK, AllAtHome, NEW e \in Event, Enqueue(e), UNCHANGED <<task, vnf>>,
           e.type = "register" => e.row = Home[e.vnf]
    PROVE  AllAtHome'
<1>1. events' = Append(events, e) /\ events \in Seq(Event)
  BY DEF Enqueue, TypeOK
<1>2. \A i \in DOMAIN events' :
         (i \in DOMAIN events /\ events'[i] = events[i]) \/ events'[i] = e
  BY <1>1
<1> QED
  BY <1>2 DEF AllAtHome

\* The steps of connections and switches, and registrations.
LEMMA NetworkAtHome ==
    ASSUME TypeOK, WellHome, HomeInv,
           \/ \E c \in Conn : LinkStep(c)
           \/ \E c \in Conn, d \in Datagram : RegisterPacket(c, d)
    PROVE  HomeInv'
<1>1. AllAtHome /\ SentFromHome
  BY DEF HomeInv
<1>2. CASE \E c \in Conn, d \in Datagram : RegisterPacket(c, d)
  <2>1. PICK c \in Conn : \E d \in Datagram : RegisterPacket(c, d)
    BY <1>2
  <2>2. PICK d \in Datagram : RegisterPacket(c, d)
    BY <2>1
  <2> DEFINE e == [type |-> "register", conn |-> c, vnf |-> d.vnf, row |-> d.row]
  <2>3. e \in Event /\ e.row = Home[e.vnf]
    BY DatagramAssumption DEF Event, WellHome
  <2>4. Enqueue(e) /\ UNCHANGED <<table, chan, task, vnf>>
    BY <2>2 DEF RegisterPacket, network
  <2> HIDE DEF e
  <2>5. AllAtHome'
    BY <1>1, <2>3, <2>4, PutAtHome
  <2> QED
    BY <1>1, <2>4, <2>5, NoneSentFromHome DEF HomeInv
<1>3. ASSUME NEW c \in Conn, Connect(c) \/ EnterMain(c) \/ ReportDead(c) PROVE HomeInv'
  <2>1. PICK type \in {"features", "main", "dead"} :
           Enqueue([type |-> type, conn |-> c])
    BY <1>3 DEF Connect, EnterMain, ReportDead
  <2> DEFINE e == [type |-> type, conn |-> c]
  <2>2. e \in Event /\ e.type # "register"
    BY DEF Event
  <2>3. Enqueue(e) /\ UNCHANGED <<table, chan, task, vnf>>
    BY <1>3, <2>1 DEF Connect, EnterMain, ReportDead
  <2> HIDE DEF e
  <2>4. AllAtHome'
    BY <1>1, <2>2, <2>3, PutAtHome
  <2> QED
    BY <1>1, <2>3, <2>4, NoneSentFromHome DEF HomeInv
<1>4. ASSUME NEW c \in Conn, Drop(c) \/ Notice(c) PROVE HomeInv'
  <2>1. /\ \A s \in Switch : table'[s] \subseteq table[s]
        /\ \A d \in Conn : chan'[d] = chan[d] \/ chan'[d] = <<>>
        /\ UNCHANGED <<events, task, vnf>>
    BY <1>4 DEF Drop, Notice, TypeOK
  <2>2. AllAtHome'
    BY <1>1, <2>1 DEF AllAtHome
  <2> QED
    BY <1>1, <2>1, <2>2, NoneSentFromHome DEF HomeInv
<1>5. ASSUME NEW c \in Conn, ApplyMod(c) PROVE HomeInv'
  <2>1. AllAtHome'
    BY <1>1, <1>5 DEF AllAtHome, ApplyMod
  <2> QED
    BY <1>1, <1>5, <2>1, ApplyFromHome DEF HomeInv
<1> QED
  BY <1>2, <1>3, <1>4, <1>5 DEF LinkStep

\* The handlers that the event loop starts.
LEMMA HandleAtHome ==
    ASSUME TypeInv, WellHome, HomeInv, HandleEvent
    PROVE  HomeInv'
<1>1. AllAtHome /\ SentFromHome /\ TypeOK
  BY DEF HomeInv, TypeInv
<1>2. PICK type : NextEvent(type)
  BY DEF HandleEvent, RegisterDatapath, UnregisterDatapath, RegisterVnf, StartDefaults,
         StartDetection
<1>3. /\ events \in Seq(Event) /\ events # <<>> /\ events' = Tail(events) /\ task = NoTask
      /\ Head(events) = events[1] /\ 1 \in DOMAIN events /\ Head(events) \in Event
  BY <1>1, <1>2, HeadTailProperties, LenProperties DEF NextEvent, TypeOK
<1>4. \A i \in DOMAIN events' : i + 1 \in DOMAIN events /\ events'[i] = events[i + 1]
  BY <1>3
<1>5. \A i \in DOMAIN events' :
         events'[i].type = "register" => events'[i].row = Home[events'[i].vnf]
  BY <1>1, <1>4 DEF AllAtHome
<1>6. UNCHANGED <<table, chan>>
  BY DEF HandleEvent, RegisterDatapath, UnregisterDatapath, RegisterVnf, StartDefaults,
         StartDetection, HandledAtOnce, Begin, network
<1>7. SentFromHome'
  BY <1>1, <1>6, NoneSentFromHome
<1>8. \A v \in Vnf : vnf'[v] \subseteq {Home[v]}
  <2>1. CASE RegisterVnf
    <3>1. Head(events).type = "register" /\ Head(events).row = Home[Head(events).vnf]
      BY <1>1, <1>3, <2>1 DEF RegisterVnf, NextEvent, AllAtHome
    <3> QED
      BY <1>1, <2>1, <3>1 DEF RegisterVnf, AllAtHome, TypeOK
  <2>2. CASE ~ RegisterVnf
    BY <1>1, <2>2 DEF HandleEvent, RegisterDatapath, UnregisterDatapath, StartDefaults,
                      StartDetection, HandledAtOnce, Begin, AllAtHome
  <2> QED
    BY <2>1, <2>2
<1>9. task' # NoTask /\ task'.pc # "defaults" => task'.cur = task'.pos
  <2>1. CASE StartDefaults
    BY <2>1 DEF StartDefaults, Begin
  <2>2. CASE StartDetection
    BY <1>3, <2>2 DEF StartDetection, Begin, HandledAtOnce, AfterDeletions
  <2>3. CASE ~ StartDefaults /\ ~ StartDetection
    BY <1>3, <2>3 DEF HandleEvent, RegisterDatapath, UnregisterDatapath, RegisterVnf,
                      HandledAtOnce
  <2> QED
    BY <2>1, <2>2, <2>3
<1> QED
  BY <1>5, <1>7, <1>8, <1>9 DEF HomeInv, AllAtHome

\* The handlers that are sending.
LEMMA RunAtHome ==
    ASSUME TypeInv, WellHome, HomeInv, RunTask
    PROVE  AllAtHome'
<1>1. AllAtHome /\ TypeOK
  BY DEF HomeInv, TypeInv
<1>2. UNCHANGED <<events, vnf>>
  BY DEF RunTask, SendDefault, DeleteCatching, SendSource, AbandonChain, SkipVnf, SendHop,
         SendEnd, Continue
<1>3. task # NoTask /\ task \in Task
  BY <1>1 DEF RunTask, SendDefault, DeleteCatching, SendSource, AbandonChain, SkipVnf,
              SendHop, SendEnd, InTurn, InTask, TypeOK
<1>4. task' # NoTask /\ task'.pc # "defaults" => task'.cur = task'.pos
  <2>1. CASE SendDefault
    BY <1>3, <2>1 DEF SendDefault, InTask, Continue, Task
  <2>2. CASE ~ SendDefault
    <3>1. /\ task.pc # "defaults" /\ task.cur = task.pos /\ task.pos \in Nat
          /\ task.pos \in 1..Len(Path1(task.flow)) /\ task.flow \in Flow
      <4>1. task.pc # "defaults"
        BY <2>2 DEF RunTask, DeleteCatching, SendSource, AbandonChain, SkipVnf, SendHop,
                    SendEnd, InTurn, InTask
      <4> QED
        BY <1>1, <1>3, <4>1, PacketTaskType DEF AllAtHome, TypeInv, TaskInv, TaskOK
    <3>2. CASE DeleteCatching
      BY <1>3, <3>1, <3>2 DEF DeleteCatching, Continue, AfterDeletions, Task
    <3>3. CASE SendSource
      BY <1>3, <3>1, <3>3 DEF SendSource, Continue, Task
    <3>4. CASE AbandonChain
      BY <3>4 DEF AbandonChain, Continue
    <3>5. ~ SkipVnf
      <4> SUFFICES ASSUME SkipVnf PROVE FALSE
        OBVIOUS
      <4>1. /\ task.pos + 1 \in 1..Len(Path1(task.flow))
            /\ NextRows # {} /\ ~ NextBidirectional
        BY <1>1, <3>1, PathType DEF SkipVnf, AtEnd
      <4> QED
        BY <1>1, <3>1, <4>1, AtHome DEF NextRows, NextBidirectional
    <3>6. CASE SendHop
      BY <1>3, <3>1, <3>6 DEF SendHop, Continue, Task
    <3>7. CASE SendEnd
      BY <1>3, <3>1, <3>7 DEF SendEnd, Continue, Task
    <3> QED
      BY <2>2, <3>2, <3>3, <3>4, <3>5, <3>6, <3>7 DEF RunTask
  <2> QED
    BY <2>1, <2>2
<1> QED
  BY <1>1, <1>2, <1>4 DEF AllAtHome

LEMMA RunFromHome ==
    ASSUME TypeInv, WellHome, HomeInv, RunTask
    PROVE  SentFromHome'
<1>1. AllAtHome /\ SentFromHome /\ TypeOK
  BY DEF HomeInv, TypeInv
<1>2. UNCHANGED table
  BY DEF RunTask, SendDefault, DeleteCatching, SendSource, AbandonChain, SkipVnf, SendHop,
         SendEnd, Continue
<1>3. CASE AbandonChain \/ SkipVnf
  BY <1>1, <1>2, <1>3, NoneSentFromHome DEF AbandonChain, SkipVnf
<1>4. CASE SendDefault
  <2>1. task \in Task /\ task.pc = "defaults"
    BY <1>1, <1>4 DEF SendDefault, InTask, TypeOK
  <2>2. task.conn \in Conn /\ task.step \in 1..6
    BY <2>1 DEF Task
  <2> QED
    BY <1>1, <1>2, <1>4, <2>2, DefaultsFromHome, SendFromHome DEF SendDefault
<1>5. CASE DeleteCatching
  <2>1. task \in Task /\ task.pc = "delete" /\ task.flow \in Flow /\ TaskOK(task)
    BY <1>5, PacketTask DEF DeleteCatching
  <2>2. task.todo \in Seq(Conn) /\ task.todo # <<>>
    BY <2>1, PacketTaskType DEF TaskOK
  <2>3. Head(task.todo) \in Conn
    BY <2>2, HeadTailProperties
  <2> QED
    BY <1>1, <1>2, <1>5, <2>1, <2>3, ModsFromHome, SendFromHome DEF DeleteCatching
<1>6. CASE SendSource \/ SendHop \/ SendEnd
  <2> DEFINE f == task.flow
             n == Len(Path1(f))
             row(i) == Home[Path1(f)[i][1]]
  <2>1. /\ task \in Task /\ f \in Flow /\ task.conn \in Conn
        /\ TaskOK(task) /\ task.pc \in {"source", "chain"} /\ task.pc # "defaults"
        /\ n \in Nat \ {0} /\ (task.pc = "chain" \/ SendSource) /\ task # NoTask
    BY <1>6, PacketTask DEF SendSource, SendHop, SendEnd, InTurn
  <2>2. /\ task.pos \in 1..n /\ task.cur = task.pos
        /\ Bidirectional(f, task.pos) /\ task.step \in 1..3 /\ task.port \in Port
    BY <1>1, <2>1, PacketTaskType DEF TaskOK, AllAtHome
  <2>3. CurVnf = row(task.pos)
    BY <1>1, <2>1, <2>2, AtHome DEF CurVnf
  <2>4. \A d \in Registered(CurVnf.dpid) : d \in Conn /\ Dpid(d) = CurVnf.dpid
    BY <1>1, ElementOfSeq, LenProperties DEF Registered, ToSet, TypeOK
  <2>5. CASE SendSource
    <3>1. Send(task.conn, SourceMod(f, task.port, VnfAt(f, 1))) /\ InTask("source")
      BY <2>5 DEF SendSource
    <3>2. task.pc = "source"
      BY <3>1, PacketTask
    <3>3. task.pos = 1
      BY <2>1, <2>2, <3>2 DEF TaskOK
    <3>4. VnfAt(f, 1) = row(1)
      BY <2>2, <2>3, <3>3 DEF CurVnf
    <3>5. ModFromHome(Dpid(task.conn), SourceMod(f, task.port, VnfAt(f, 1)))
      BY <2>1, <2>2, <3>4, ModsFromHome
    <3> QED
      BY <1>1, <1>2, <2>1, <3>1, <3>5, SendFromHome
  <2>6. CASE SendHop
    <3>1. PICK d \in Registered(CurVnf.dpid) :
             Send(d, HopMod(task.step, f, LastSi, Index(task.pos + 1), CurVnf, NextVnf))
      BY <2>6 DEF SendHop
    <3>2. task.pos \in 1..(n - 1) /\ NextBidirectional
      BY <2>1, <2>2, <2>6 DEF SendHop, AtEnd
    <3>3. NextVnf = row(task.pos + 1)
      <4>1. task.pos + 1 \in 1..n
        BY <2>1, <3>2
      <4> QED
        BY <1>1, <2>1, <3>2, <4>1, AtHome DEF NextVnf, NextBidirectional
    <3>4. /\ LastSi = IF task.pos = 1 THEN n ELSE Path1(f)[task.pos][2]
          /\ Index(task.pos + 1) = Path1(f)[task.pos + 1][2]
      BY <2>2 DEF LastSi, Index
    <3>5. ModFromHome(Dpid(d), HopMod(task.step, f, LastSi, Index(task.pos + 1),
                                      CurVnf, NextVnf))
      BY <2>1, <2>2, <2>3, <2>4, <3>2, <3>3, <3>4, ModsFromHome
    <3> QED
      BY <1>1, <1>2, <2>4, <3>1, <3>5, SendFromHome
  <2>7. CASE SendEnd
    <3>1. PICK d \in Registered(CurVnf.dpid) : Send(d, EndMod(task.step, f, CurVnf))
      BY <2>7 DEF SendEnd
    <3>2. InTask("chain") /\ task.pos = n
      BY <2>7 DEF SendEnd, InTurn, AtEnd
    <3>3. task.step \in 1..2
      BY <2>1, <2>2, <3>2, PacketTask DEF TaskOK
    <3>4. ModFromHome(Dpid(d), EndMod(task.step, f, CurVnf))
      BY <2>1, <2>3, <2>4, <3>2, <3>3, ModsFromHome
    <3> QED
      BY <1>1, <1>2, <2>4, <3>1, <3>4, SendFromHome
  <2> QED
    BY <1>6, <2>5, <2>6, <2>7
<1> QED
  BY <1>3, <1>4, <1>5, <1>6 DEF RunTask

\* The event loop.
LEMMA LoopAtHome ==
    ASSUME TypeInv, WellHome, HomeInv, Loop
    PROVE  HomeInv'
<1>1. CASE HandleEvent
  BY <1>1, HandleAtHome
<1>2. CASE RunTask
  BY <1>2, RunAtHome, RunFromHome DEF HomeInv
<1>3. CASE LoopBlocks
  <2>1. UNCHANGED <<table, chan, events, task, vnf>>
    BY <1>3 DEF LoopBlocks, network
  <2>2. AllAtHome'
    BY <2>1 DEF HomeInv, AllAtHome
  <2> QED
    BY <2>1, <2>2, NoneSentFromHome DEF HomeInv
<1> QED
  BY <1>1, <1>2, <1>3 DEF Loop

\* The REST server.
LEMMA ServeAtHome ==
    ASSUME TypeInv, HomeInv, NEW r \in Request, Serve(r)
    PROVE  HomeInv'
<1>1. AllAtHome /\ SentFromHome /\ TypeOK
  BY DEF HomeInv, TypeInv
<1>2. UNCHANGED <<table, events, task, vnf>>
  BY DEF Serve, StartRequest, NextDatapath, SendRequest, RequestBlocks, SetRest, network
<1>3. AllAtHome'
  BY <1>1, <1>2 DEF AllAtHome
<1>4. CASE SendRequest(r)
  <2>1. /\ Subject[r] \in Flow /\ rest[r].seen \in Seq(Conn) /\ rest[r].seen # <<>>
    BY <1>4 DEF SendRequest, TypeInv, RequestInv, TypeOK, RestState
  <2>2. Last(rest[r].seen) \in Conn
    BY <2>1, LenProperties, ElementOfSeq DEF Last
  <2>3. \A s : ModFromHome(s, RequestMod(r))
    BY <2>1, ModsFromHome DEF RequestMod
  <2>4. SentFromHome'
    BY <1>1, <1>2, <1>4, <2>2, <2>3, SendFromHome DEF SendRequest
  <2> QED
    BY <1>3, <2>4 DEF HomeInv
<1>5. CASE StartRequest(r) \/ NextDatapath(r) \/ RequestBlocks(r)
  <2>1. UNCHANGED chan
    BY <1>5 DEF StartRequest, NextDatapath, RequestBlocks, network
  <2> QED
    BY <1>1, <1>2, <1>3, <2>1, NoneSentFromHome DEF HomeInv
<1> QED
  BY <1>4, <1>5 DEF Serve

(***************************************************************************)
(* The whole system.                                                       *)
(***************************************************************************)

\* A packet of the data plane is detected.
LEMMA DetectedLive ==
    ASSUME TypeInv, WellHome, HomeInv, Plane!FrameInv, NEW c \in Conn, DetectLive(c)
    PROVE  TypeInv' /\ HomeInv'
<1>1. Wire.switch \in Switch /\ Wire.port \in Port /\ DetectPacket(c, Wire)
  BY DEF DetectLive, Plane!FrameInv, Wire
<1>2. TypeInv' /\ \E e \in Event : e.type = "packet_in" /\ Enqueue(e)
  BY <1>1, DetectType
<1>3. PICK e \in Event : e.type = "packet_in" /\ Enqueue(e)
  BY <1>2
<1>4. UNCHANGED <<table, chan, task, vnf>>
  BY <1>1 DEF DetectPacket, network
<1>5. AllAtHome'
  BY <1>3, <1>4, PutAtHome DEF HomeInv, TypeInv
<1>6. SentFromHome'
  BY <1>4, NoneSentFromHome DEF HomeInv
<1> QED
  BY <1>2, <1>5, <1>6 DEF HomeInv

\* What the invariants about the packet depend on.
LEMMA PacketStays ==
    ASSUME UNCHANGED <<sent, frame, at, tbl, visited>>,
           phase' = phase \/ phase' = "lost"
    PROVE  /\ Plane!FrameInv => Plane!FrameInv'
           /\ Plane!OnCourse => Plane!OnCourse'
<1>1. /\ Plane!IsPlain' <=> Plane!IsPlain
      /\ \A i : Plane!IsFor(i)' <=> Plane!IsFor(i)
  BY DEF Plane!IsPlain, Plane!IsFor
<1>2. Plane!FrameInv => Plane!FrameInv'
  BY <1>1 DEF Plane!FrameInv, Plane!Service
<1>3. Plane!OnCourse => Plane!OnCourse'
  BY <1>1 DEF Plane!OnCourse, Plane!Entering, Plane!Returned, Plane!Turn, Plane!Service,
              Plane!Stands, Plane!Location
<1> QED
  BY <1>2, <1>3

\* A host sends a packet.
LEMMA PacketSent ==
    ASSUME NEW f \in Flow, Plane!Emit(f)
    PROVE  Plane!FrameInv' /\ Plane!OnCourse'
<1>1. /\ sent' = f /\ frame' = <<Plane!Plain(f)>> /\ at' = Entrance[f] /\ tbl' = 0
      /\ phase' = "switch" /\ visited' = <<>>
  BY DEF Plane!Emit
<1>2. Plane!IsPlain'
  BY <1>1 DEF Plane!IsPlain
<1>3. Entrance[f] \in Switch \X Port
  BY HomeAssumption
<1>4. Plane!FrameInv'
  BY <1>1, <1>2, <1>3 DEF Plane!FrameInv
<1>5. Len(Plane!Service(sent')) \in Nat /\ Len(visited') = 0 /\ DOMAIN visited' = {}
  BY <1>1, PathAssumption, ServiceAssumption, LenProperties DEF Plane!Service
<1>6. Plane!Entering'
  BY <1>1, <1>2 DEF Plane!Entering
<1>7. Plane!OnCourse'
  BY <1>1, <1>2, <1>5, <1>6 DEF Plane!OnCourse
<1> QED
  BY <1>4, <1>7

\* The initial state.
LEMMA InitNet == ASSUME WellHome, NetInit PROVE NetInv /\ Plane!OnCourse
<1>1. TypeInv
  BY InitType DEF NetInit
<1>2. AllAtHome
  BY DEF NetInit, Init, AllAtHome, WellHome
<1>3. \A s, e : e \in DefaultEntries => Plane!FromController(s, e)
  BY RulesOfPlane DEF Plane!FromController
<1>4. SentFromHome
  BY <1>3 DEF NetInit, Init, SentFromHome, Plane!OnlyFromController
<1>5. /\ sent \in Flow /\ frame = <<Plane!Plain(sent)>> /\ at = Entrance[sent] /\ tbl = 0
      /\ phase = "lost" /\ visited = <<>>
  BY DEF NetInit
<1>6. Plane!FrameInv
  <2>1. at \in Switch \X Port
    BY <1>5, HomeAssumption
  <2> QED
    BY <1>5, <2>1 DEF Plane!FrameInv, Plane!IsPlain
<1>7. Plane!OnCourse
  <2>1. Len(Plane!Service(sent)) \in Nat /\ Len(visited) = 0 /\ DOMAIN visited = {}
    BY <1>5, PathAssumption, ServiceAssumption, LenProperties DEF Plane!Service
  <2> QED
    BY <1>5, <2>1 DEF Plane!OnCourse
<1>8. packets \in 0..MaxPacket /\ detected \in Seq(Flow)
  BY HomeAssumption DEF NetInit
<1> QED
  BY <1>1, <1>2, <1>4, <1>6, <1>7, <1>8 DEF NetInv, HomeInv

\* Every step.
LEMMA NextNet ==
    ASSUME WellHome, NetInv, [NetNext]_allVars
    PROVE  /\ NetInv'
           /\ Plane!SourcesAtEntrance /\ Plane!OnCourse => Plane!OnCourse'
<1>1. /\ TypeInv /\ HomeInv /\ Plane!FrameInv /\ TypeOK
      /\ packets \in 0..MaxPacket /\ detected \in Seq(Flow)
  BY DEF NetInv, TypeInv
<1>2. CASE /\ UNCHANGED vars
           /\ UNCHANGED allVars \/ MovePacket \/ \E f \in Flow : SendPacket(f)
  <2>1. TypeInv'
    BY <1>1, <1>2, NextType
  <2>2. HomeInv'
    <3>1. AllAtHome'
      BY <1>1, <1>2 DEF HomeInv, AllAtHome, vars
    <3> QED
      BY <1>1, <1>2, <3>1, NoneSentFromHome DEF HomeInv, vars
  <2>3. CASE UNCHANGED allVars
    BY <1>1, <2>1, <2>2, <2>3, PacketStays DEF NetInv, allVars, packet, history
  <2>4. ASSUME NEW f \in Flow, SendPacket(f)
        PROVE  NetInv' /\ Plane!OnCourse'
    BY <1>1, <2>1, <2>2, <2>4, PacketSent, HomeAssumption DEF SendPacket, NetInv
  <2>5. CASE MovePacket
    <3>1. /\ Plane!Move \/ Plane!Discard
          /\ tbl' # 2 /\ UNCHANGED history
      BY <2>5 DEF MovePacket
    <3>2. Plane!OnlyFromController
      BY <1>1 DEF HomeInv, SentFromHome
    <3>3. /\ Plane!FrameInv'
          /\ Plane!SourcesAtEntrance /\ Plane!OnCourse => Plane!OnCourse'
      BY <1>1, <3>1, <3>2, PacketMoves
    <3> QED
      BY <1>1, <2>1, <2>2, <3>1, <3>3 DEF NetInv, history
  <2> QED
    BY <1>2, <2>3, <2>4, <2>5
<1>3. CASE ControlStep
  <2>1. Next \/ Loop
    BY <1>3 DEF ControlStep, Next
  <2>2. TypeInv'
    BY <1>1, <2>1, NextType DEF Next
  <2>3. HomeInv'
    BY <1>1, <1>3, NetworkAtHome, LoopAtHome, ServeAtHome DEF ControlStep
  <2>4. UNCHANGED <<packet, history>>
    BY <1>3 DEF ControlStep
  <2> QED
    BY <1>1, <2>2, <2>3, <2>4, PacketStays DEF NetInv, packet, history
<1>4. ASSUME NEW c \in Conn, DetectLive(c)
      PROVE  /\ NetInv'
             /\ Plane!OnCourse => Plane!OnCourse'
  <2>1. TypeInv' /\ HomeInv'
    BY <1>1, <1>4, DetectedLive
  <2>2. /\ UNCHANGED <<sent, frame, at, tbl, visited, packets>> /\ phase' = "lost"
        /\ detected' = Append(detected, sent)
    BY <1>4 DEF DetectLive
  <2>3. detected' \in Seq(Flow)
    BY <1>1, <2>2 DEF Plane!FrameInv
  <2> QED
    BY <1>1, <2>1, <2>2, <2>3, PacketStays DEF NetInv
<1>5. \/ UNCHANGED vars /\ ( \/ UNCHANGED allVars \/ MovePacket
                            \/ \E f \in Flow : SendPacket(f))
      \/ ControlStep \/ \E c \in Conn : DetectLive(c)
  BY DEF NetNext, allVars, SendPacket, MovePacket
<1> QED
  BY <1>2, <1>3, <1>4, <1>5

\* In a network whose functions are registered where they stand, whatever the
\* controller has sent, lost, replaced or deleted, and in the middle of any of
\* its handlers: what is on a switch and what is sent are entries of the six
\* forms of sfc_nfv.py:109-372, made from where the functions stand, and every
\* frame is that of the flow that was sent, plain or behind the two headers of
\* one hop of its service, and on a port of a switch.
THEOREM NetInvariant == ASSUME WellHome PROVE NetSpec => []NetInv
<1>1. NetInit => NetInv
  BY InitNet
<1>2. NetInv /\ [NetNext]_allVars => NetInv'
  BY NextNet
<1> QED
  BY <1>1, <1>2, PTL DEF NetSpec

\* Controller and packet stay of their types, whatever is lost, replaced or
\* deleted under the packet (sfc_nfv.py:250-372).
THEOREM NetTypeCorrect == ASSUME WellHome PROVE NetSpec => []NetTypeOK
<1>1. NetInv => NetTypeOK
  <2> SUFFICES ASSUME NetInv PROVE NetTypeOK
    OBVIOUS
  <2>1. /\ F!WellBuilt /\ F!FrameInv /\ Home \in {Home} /\ Plane!FrameInv
    BY SameNetwork, SamePacket DEF NetInv, WellHome
  <2>2. sent \in Flow /\ (F!IsPlain \/ \E i \in 1..Len(F!Service(sent)) : F!IsFor(i))
    BY <2>1 DEF F!FrameInv
  <2>3. frame \in Seq(SUBSET F!Header) /\ Len(frame) \in 1..3
    BY <2>1, <2>2, AssumedByF, F!FrameType
  <2>4. F!Header = Plane!Header
    BY DEF F!Header, Plane!Header, F!FieldName, Plane!FieldName
  <2>5. Plane!PacketOK
    BY <2>1, <2>3, <2>4 DEF Plane!PacketOK, Plane!FrameInv
  <2> QED
    BY <2>5 DEF NetTypeOK, NetInv, TypeInv
<1> QED
  BY <1>1, NetInvariant, PTL

\* The entrance of a source entry.
LEMMA EntranceOfSource ==
    ASSUME SourceAtEntrance
    PROVE  Plane!SourcesAtEntrance
<1> SUFFICES ASSUME NEW f \in Flow, NEW s \in Switch, NEW p \in Port,
                    SourceMod(f, p, Plane!Stands(f, 1)).entry \in table[s]
             PROVE  <<s, p>> = Entrance[f]
  BY RulesOfPlane DEF Plane!SourcesAtEntrance
<1> DEFINE e == SourceMod(f, p, Plane!Stands(f, 1)).entry
<1>1. IsSource(e, f) /\ e.match = FlowMatch(f) \cup {<<"in_port", p>>}
  BY DEF SourceMod, AddMod, IsSource
<1>2. s = Entrance[f][1] /\ <<"in_port", Entrance[f][2]>> \in e.match
  BY <1>1 DEF SourceAtEntrance, AtEntrance
<1>3. <<"in_port", Entrance[f][2]>> \notin FlowMatch(f)
  BY FlowHeaders DEF Column
<1>4. Entrance[f] \in Switch \X Port
  BY HomeAssumption
<1> QED
  BY <1>1, <1>2, <1>3, <1>4

\* Where every source entry is at the entrance of its flow (README.md:48),
\* packets visit functions of their service only, in their order and none
\* twice, whatever part of the chains is installed, however often their flow is
\* detected and while the handler is sending.
THEOREM FunctionsInOrder ==
    ASSUME WellHome
    PROVE  NetSpec /\ []SourceAtEntrance => []IsPrefix(visited, Chain)
<1>1. NetInit => Plane!OnCourse
  BY InitNet
<1>2. NetInv /\ SourceAtEntrance /\ Plane!OnCourse /\ [NetNext]_allVars => Plane!OnCourse'
  BY NextNet, EntranceOfSource
<1>3. NetInv /\ Plane!OnCourse => IsPrefix(visited, Chain)
  <2> SUFFICES ASSUME NetInv, Plane!OnCourse PROVE IsPrefix(visited, Chain)
    OBVIOUS
  <2> DEFINE n == Len(Plane!Service(sent))
  <2>1. /\ visited \in Seq(Vnf) /\ Len(visited) \in Nat /\ Len(visited) <= n
        /\ \A i \in 1..Len(visited) : visited[i] = Plane!Service(sent)[i][1]
    BY LenProperties DEF NetInv, Plane!FrameInv, Plane!OnCourse
  <2>2. n \in Nat /\ \A i \in 1..n : Plane!Service(sent)[i][1] \in Vnf
    <3>1. Plane!Service(sent) \in Seq(Vnf \X (FieldValue \cap Nat))
      BY PathAssumption, ServiceAssumption DEF NetInv, Plane!FrameInv, Plane!Service
    <3>2. \A i \in 1..n : Plane!Service(sent)[i] \in Vnf \X (FieldValue \cap Nat)
      BY <3>1, ElementOfSeq
    <3> QED
      BY <3>1, <3>2, LenProperties
  <2>3. Chain = [i \in 1..n |-> Plane!Service(sent)[i][1]]
    BY DEF Chain, Plane!Functions
  <2> HIDE DEF n
  <2>4. Chain \in [1..n -> Vnf] /\ Chain \in Seq(Vnf) /\ Len(Chain) = n
    BY <2>2, <2>3, SeqDef, LenProperties
  <2>5. \A i \in 1..Len(visited) : visited[i] = Chain[i]
    BY <2>1, <2>2, <2>3
  <2> DEFINE m == Len(visited)
  <2>6. /\ \A i \in 1..m : visited[i] \in Vnf /\ Chain[i] \in Vnf
        /\ m \in Int /\ 1 \in Int
    BY <2>1, <2>2, <2>4
  <2> HIDE DEF m
  <2>7. /\ SubSeq(visited, 1, m) \in Seq(Vnf) /\ SubSeq(Chain, 1, m) \in Seq(Vnf)
        /\ Len(SubSeq(visited, 1, m)) = Len(SubSeq(Chain, 1, m))
        /\ Len(SubSeq(visited, 1, m)) = (IF 1 <= m THEN m - 1 + 1 ELSE 0)
        /\ \A i \in 1..(m - 1 + 1) : /\ SubSeq(visited, 1, m)[i] = visited[1 + i - 1]
                                     /\ SubSeq(Chain, 1, m)[i] = Chain[1 + i - 1]
    BY <2>6, SubSeqProperties
  <2>8. SubSeq(visited, 1, m) = SubSeq(Chain, 1, m)
    BY <2>1, <2>5, <2>7, SeqEqual DEF m
  <2> QED
    BY <2>1, <2>4, <2>8 DEF IsPrefix, m, n
<1> QED
  BY <1>1, <1>2, <1>3, NetInvariant, PTL DEF NetSpec

\* The property of the runs, in which a flow is detected once at most.
THEOREM ChainInOrder ==
    ASSUME WellHome
    PROVE  NetSpec /\ []SourceAtEntrance => []InOrder
<1>1. IsPrefix(visited, Chain) => InOrder
  BY DEF InOrder
<1> QED
  BY <1>1, FunctionsInOrder, PTL
(***************************************************************************)
(* The controller in the network: what hosts put on the wire are the       *)
(* packets that meet a detection entry.                                    *)
(***************************************************************************)

\* Only a packet as its host sent it is detected, by the entry made for its flow.
LEMMA DetectedIsPlain ==
    ASSUME WellHome, HomeInv, Plane!FrameInv, NEW c \in Conn, DetectLive(c)
    PROVE  /\ Plane!IsPlain /\ Wire.packet \cup {<<"in_port", Wire.port>>} = Plane!Visible
           /\ Plane!Visible = Plane!Plain(sent) \cup {<<"in_port", at[2]>>}
<1>1. /\ F!WellBuilt /\ F!RowsMatch /\ F!OnlyFromController /\ F!FrameInv /\ Plane!FrameInv
      /\ Home \in {Home}
  BY SameNetwork, SamePacket DEF WellHome, HomeInv, SentFromHome
<1>2. /\ Wire = [switch |-> at[1], port |-> at[2], packet |-> Plane!Visible]
      /\ tbl = 0 /\ at \in Switch \X Port
  BY <1>1 DEF Wire, DetectLive, Plane!FrameInv
<1>3. Wire.packet \cup {<<"in_port", Wire.port>>} = Plane!Visible
  BY <1>2 DEF Plane!Visible
<1>4. PICK e \in ToController(at[1], Plane!Visible) : TRUE
  BY <1>2, <1>3 DEF DetectLive, DetectPacket
<1>5. e \in Plane!Lookup /\ e.goto = 2
  BY <1>2, <1>4 DEF ToController, Plane!Lookup, Best, Plane!Best, Matching, Plane!Matching
<1>6. F!IsPlain
  <2> SUFFICES ASSUME NEW i \in 1..F!Count(sent), F!IsFor(i) PROVE FALSE
    BY <1>1 DEF F!FrameInv, F!Count
  <2>1. e \in F!Lookup
    BY <1>5, SameLookup
  <2>2. /\ sent \in Flow /\ tbl \in {0, 1, 3}
    BY <1>1, <1>2 DEF F!FrameInv
  <2>3. \/ F!PassesOn(e) /\ e.goto \in {1, 3}
        \/ /\ e.goto = 0 /\ F!Acted(e) = <<F!Plain(sent)>> /\ at[1] = F!Stands(sent, i).dpid
           /\ e.actions = F!Decap(F!Stands(sent, i).in_port)
        \/ F!SentNormal(e)
    BY <1>1, <1>2, <2>1, <2>2, AssumedByF, F!NshMeets
  <2> QED
    BY <1>5, <2>3 DEF F!SentNormal
<1>7. Plane!IsPlain
  BY <1>6, RulesOfF, RulesOfPlane DEF F!IsPlain, Plane!IsPlain, F!Plain, Plane!Plain
<1>8. <<"eth_type", NSH>> \notin Plane!Plain(sent)
  <2>1. <<"eth_type", NSH>> \notin Plane!FlowMatch(sent)
    BY <1>1 DEF WellHome, Plane!WellBuilt, Plane!WellAddressed, Plane!FrameInv
  <2> QED
    BY <2>1 DEF Plane!Plain
<1>9. Plane!Visible = Plane!Plain(sent) \cup {<<"in_port", at[2]>>}
  <2>1. frame[1] = Plane!Plain(sent)
    BY <1>7 DEF Plane!IsPlain
  <2> QED
    BY <1>8, <2>1 DEF Plane!Visible
<1> QED
  BY <1>3, <1>7, <1>9

\* A step of the network is a step of the controller, or none.
LEMMA NextControl ==
    ASSUME WellHome, Heard, NetInv, [NetNext]_allVars
    PROVE  [Next]_vars
<1>1. CASE UNCHANGED vars
  BY <1>1
<1>2. CASE ControlStep
  BY <1>2 DEF ControlStep, Next
<1>3. ASSUME NEW c \in Conn, DetectLive(c)
      PROVE  \E t \in Traffic : DetectPacket(c, t)
  <2>1. /\ Plane!Visible = Plane!Plain(sent) \cup {<<"in_port", at[2]>>}
        /\ Wire.packet \cup {<<"in_port", Wire.port>>} = Plane!Visible
    BY <1>3, DetectedIsPlain DEF NetInv
  <2>2. sent \in Flow /\ at \in Switch \X Port
    BY DEF NetInv, Plane!FrameInv
  <2> DEFINE t == [switch |-> at[1], port |-> at[2], packet |-> Plane!Plain(sent)]
  <2>3. t \in Traffic
    BY <2>2 DEF Heard
  <2>4. /\ t.switch = Wire.switch /\ t.port = Wire.port
        /\ t.packet \cup {<<"in_port", t.port>>} = Wire.packet \cup {<<"in_port", Wire.port>>}
    BY <2>1 DEF Wire
  <2>5. DetectPacket(c, Wire)
    BY <1>3 DEF DetectLive
  <2> HIDE DEF t
  <2>6. DetectPacket(c, t)
    BY <2>4, <2>5 DEF DetectPacket
  <2> QED
    BY <2>3, <2>6
<1>4. \/ UNCHANGED vars \/ ControlStep
      \/ \E c \in Conn : DetectLive(c)
  BY DEF NetNext, allVars, SendPacket, MovePacket
<1> QED
  BY <1>1, <1>2, <1>3, <1>4 DEF Next

\* The controller of the network is the controller of SfcController: packets of
\* the data plane give it nothing to detect that hosts could not send it. So all
\* that is proved of the one holds of the other.
THEOREM ControllerInNetwork == ASSUME WellHome, Heard PROVE NetSpec => Spec
<1>1. NetInit => Init
  BY DEF NetInit
<1>2. NetInv /\ [NetNext]_allVars => [Next]_vars
  BY NextControl
<1> QED
  BY <1>1, <1>2, NetInvariant, PTL DEF NetSpec, Spec
(***************************************************************************)
(* The tables that the controller arrives at.                              *)
(***************************************************************************)

\* Every switch is up, and no deletion is under way.
Joined == \A s \in Switch : \E c \in Conn : Dpid(c) = s /\ link[c] = "main"
NoneDeleting ==
    \A r \in Request : Op[r] = "delete" => rest[r].pc \notin {"next", "send"}

\* What SfcForwarding takes to be sent for a flow is what the handler sends.
LEMMA ChainModsAre ==
    ASSUME TypeOK, WellHome, AllAtHome, Ready, NEW f \in Flow,
           NEW m \in Plane!ChainMods(Home, f)
    PROVE  \/ m = <<Entrance[f][1], SourceMod(f, Entrance[f][2], Plane!Stands(f, 1))>>
           \/ \E i \in DOMAIN Path1(f) : \E k \in Turns(f, i) :
                 m = <<VnfAt(f, i).dpid, ChainMod(f, i, k)>>
<1> DEFINE n == Len(Path1(f))
<1>1. n \in Nat \ {0} /\ DOMAIN Path1(f) = 1..n /\ Plane!Service(f) = Path1(f)
  BY PathType, ServiceAssumption, PathAssumption, LenProperties DEF Path1, Plane!Service
<1>2. \A i \in 1..n : VnfAt(f, i) = Home[Path1(f)[i][1]]
  BY <1>1, AtHome DEF Ready
<1>3. CASE m = <<Entrance[f][1], SourceMod(f, Entrance[f][2], Plane!Stands(f, 1))>>
  BY <1>3
<1>4. ASSUME NEW i \in 1..(n - 1), NEW k \in 1..3,
             m = <<Home[Path1(f)[i][1]].dpid,
                   HopMod(k, f, IF i = 1 THEN n ELSE Path1(f)[i][2], Path1(f)[i + 1][2],
                          Home[Path1(f)[i][1]], Home[Path1(f)[i + 1][1]])>>
      PROVE  \E j \in DOMAIN Path1(f) : \E l \in Turns(f, j) :
                 m = <<VnfAt(f, j).dpid, ChainMod(f, j, l)>>
  <2>1. i \in 1..n /\ i + 1 \in 1..n /\ i # n
    <3> HIDE DEF n
    <3> QED
      BY <1>1, <1>4
  <2>2. k \in Turns(f, i) /\ m = <<VnfAt(f, i).dpid, ChainMod(f, i, k)>>
    BY <1>2, <1>4, <2>1 DEF Turns, ChainMod
  <2> QED
    BY <1>1, <2>1, <2>2
<1>5. ASSUME NEW k \in 1..2,
             m = <<Home[Path1(f)[n][1]].dpid, EndMod(k, f, Home[Path1(f)[n][1]])>>
      PROVE  \E j \in DOMAIN Path1(f) : \E l \in Turns(f, j) :
                 m = <<VnfAt(f, j).dpid, ChainMod(f, j, l)>>
  <2>1. n \in 1..n
    <3> HIDE DEF n
    <3> QED
      BY <1>1
  <2>2. k \in Turns(f, n) /\ m = <<VnfAt(f, n).dpid, ChainMod(f, n, k)>>
    BY <1>2, <1>5, <2>1 DEF Turns, ChainMod
  <2> QED
    BY <1>1, <2>1, <2>2
<1>6. \/ m = <<Entrance[f][1], SourceMod(f, Entrance[f][2], Plane!Stands(f, 1))>>
      \/ \E i \in 1..(n - 1), k \in 1..3 :
            m = <<Home[Path1(f)[i][1]].dpid,
                  HopMod(k, f, IF i = 1 THEN n ELSE Path1(f)[i][2], Path1(f)[i + 1][2],
                         Home[Path1(f)[i][1]], Home[Path1(f)[i + 1][1]])>>
      \/ \E k \in 1..2 :
            m = <<Home[Path1(f)[n][1]].dpid, EndMod(k, f, Home[Path1(f)[n][1]])>>
  <2> HIDE DEF n
  <2> QED
    BY <1>1, RulesOfPlane DEF Plane!ChainMods, Plane!Stands, n
<1> QED
  BY <1>3, <1>4, <1>5, <1>6

\* When nothing is on its way, the tables are what they will be.
LEMMA FinalQuiet ==
    ASSUME \A c \in Conn : chan[c] = <<>>, NEW s \in Switch
    PROVE  Final(s) = table[s]
<1>1. \A c \in Conn : \A e : Outlives(c, 0, e)
  BY DEF Outlives
<1>2. \A c \in Conn : Coming(c) = {}
  BY DEF Coming
<1>3. \A c \in LiveConn(s) : c \in Conn
  BY DEF LiveConn
<1> QED
  BY <1>1, <1>2, <1>3 DEF Final

LEMMA SameTables ==
    ASSUME WellHome, NEW s, NEW f \in Flow, NEW m \in Plane!ChainMods(Home, f),
           m[1] = s, PrereqOK(m[2].entry.match)
    PROVE  m[2].entry \in Plane!Table(Home, s)
<1>1. Plane!PrereqOK(m[2].entry.match)
  BY DEF PrereqOK, Plane!PrereqOK, Fields, Plane!Fields
<1>2. m \in UNION {Plane!ChainMods(Home, g) : g \in Flow}
  OBVIOUS
<1> QED
  BY <1>1, <1>2 DEF Plane!Table

LEMMA AssumedTables ==
    ASSUME WellHome, TypeInv, AtomicInv, ChainInv, HomeInv, SingleSource, DetectionReplaced,
           QuietIsSetUp, Ready, Joined, NoneDeleting
    PROVE  TablesAsAssumed
<1> SUFFICES ASSUME Quiet, \A f \in Flow : Entered(f), NEW s \in Switch
             PROVE  /\ \A e \in Plane!Table(Home, s) : \E x \in table[s] : SameEffect(e, x)
                    /\ \A x \in table[s] : \E e \in Plane!Table(Home, s) : SameEffect(e, x)
  BY DEF TablesAsAssumed
<1>1. /\ events = <<>> /\ task = NoTask /\ \A c \in Conn : chan[c] = <<>>
      /\ TypeOK /\ AllAtHome
      /\ CountingDown /\ RowsApart /\ RowsAccepted
  <2>1. Plane!CountingDown /\ Plane!RowsApart /\ Plane!RowsAccepted
    BY DEF WellHome, Plane!WellBuilt
  <2> QED
    BY <2>1, RulesOfPlane DEF Quiet, TypeInv, HomeInv, CountingDown, Plane!CountingDown,
       RowsApart, Plane!RowsApart, RowsAccepted, Plane!RowsAccepted, PrereqOK,
       Plane!PrereqOK, Fields, Plane!Fields
<1>2. \A t \in Switch : Final(t) = table[t]
  BY <1>1, FinalQuiet
<1>3. DefaultEntries \subseteq table[s]
  <2>1. PICK c \in Conn : Dpid(c) = s /\ link[c] = "main"
    BY DEF Joined
  <2> QED
    BY <1>1, <2>1 DEF QuietIsSetUp
<1>4. ASSUME NEW f \in Flow
      PROVE  /\ SourceMod(f, Entrance[f][2], Plane!Stands(f, 1)).entry \in table[Entrance[f][1]]
             /\ \A t \in Switch : \A p \in Port :
                   SourceMod(f, p, Plane!Stands(f, 1)).entry \in table[t] =>
                      t = Entrance[f][1] /\ p = Entrance[f][2]
             /\ Sources(f) # {}
  <2>1. PICK t \in Switch : \E e \in table[t] : IsSource(e, f) /\ AtEntrance(f, t, e)
    BY DEF Entered
  <2>2. PICK e \in table[t] : IsSource(e, f) /\ AtEntrance(f, t, e)
    BY <2>1
  <2>3. /\ t = Entrance[f][1] /\ <<"in_port", Entrance[f][2]>> \in e.match
        /\ e.flow = f /\ e.table = 0 /\ e.goto = 3 /\ e.priority = 8
    BY <2>2 DEF AtEntrance, IsSource
  <2>4. Plane!FromController(t, e)
    BY DEF HomeInv, SentFromHome, Plane!OnlyFromController
  <2>5. PICK p \in Port : e = SourceMod(f, p, Plane!Stands(f, 1)).entry
    <3>1. e \notin DefaultEntries
      BY <2>3, DefaultFacts, FlowAssumption
    <3>2. PICK g \in Flow :
             \/ e = CatchMod(g).entry
             \/ \E p \in Port : e = SourceMod(g, p, Plane!Stands(g, 1)).entry
             \/ \E m \in Plane!ChainMods(Home, g) : m[1] = t /\ e = m[2].entry
      BY <2>4, <3>1, RulesOfPlane DEF Plane!FromController
    <3>3. e # CatchMod(g).entry
      BY <2>3 DEF CatchMod, AddMod
    <3>4. ASSUME NEW q \in Port, e = SourceMod(g, q, Plane!Stands(g, 1)).entry
          PROVE  g = f
      BY <2>3, <3>4 DEF SourceMod, AddMod
    <3>5. ASSUME NEW m \in Plane!ChainMods(Home, g), e = m[2].entry
          PROVE  \E q \in Port : e = SourceMod(g, q, Plane!Stands(g, 1)).entry
      <4>1. CASE m = <<Entrance[g][1], SourceMod(g, Entrance[g][2], Plane!Stands(g, 1))>>
        BY <3>5, <4>1, HomeAssumption
      <4>2. ASSUME NEW i \in DOMAIN Path1(g), NEW k \in Turns(g, i),
                   m = <<VnfAt(g, i).dpid, ChainMod(g, i, k)>>
            PROVE  FALSE
        <5>1. ChainEntry(e, g)
          BY <3>5, <4>2, ChainIs
        <5> QED
          BY <2>3, <5>1 DEF ChainEntry
      <4> QED
        BY <1>1, <4>1, <4>2, ChainModsAre
    <3> QED
      BY <3>2, <3>3, <3>4, <3>5
  <2>6. p = Entrance[f][2]
    <3>1. e.match = FlowMatch(f) \cup {<<"in_port", p>>}
      BY <2>5 DEF SourceMod, AddMod
    <3>2. <<"in_port", Entrance[f][2]>> \notin FlowMatch(f)
      BY FlowHeaders DEF Column
    <3> QED
      BY <2>3, <3>1, <3>2
  <2>7. <<t, e>> \in Sources(f)
    BY <1>2, <2>2 DEF Sources
  <2>8. ASSUME NEW u \in Switch, NEW q \in Port,
               SourceMod(f, q, Plane!Stands(f, 1)).entry \in table[u]
        PROVE  u = Entrance[f][1] /\ q = Entrance[f][2]
    <3> DEFINE x == SourceMod(f, q, Plane!Stands(f, 1)).entry
    <3>1. IsSource(x, f) /\ x.match = FlowMatch(f) \cup {<<"in_port", q>>}
      BY DEF SourceMod, AddMod, IsSource
    <3>2. <<u, x>> \in Sources(f)
      BY <1>2, <2>8, <3>1 DEF Sources
    <3>3. u = t /\ x = e
      BY <2>7, <3>2 DEF SingleSource
    <3>4. <<"in_port", q>> \in e.match /\ e.match = FlowMatch(f) \cup {<<"in_port", p>>}
      BY <2>5, <3>1, <3>3 DEF SourceMod, AddMod
    <3>5. <<"in_port", q>> \notin FlowMatch(f)
      BY FlowHeaders DEF Column
    <3> QED
      BY <2>3, <2>6, <3>3, <3>4, <3>5
  <2> QED
    BY <2>2, <2>3, <2>5, <2>6, <2>7, <2>8
<1>5. ASSUME NEW f \in Flow, NEW i \in DOMAIN Path1(f), NEW k \in Turns(f, i)
      PROVE  InPlace(f, i, k)
  <2>1. ~ Deleting(f)
    BY <1>1 DEF Deleting, NoneDeleting, Asked
  <2> QED
    BY <1>1, <1>4, <2>1 DEF ChainInv, Sent
<1>6. ASSUME NEW e \in Plane!Table(Home, s) PROVE \E x \in table[s] : SameEffect(e, x)
  <2>1. CASE e \in Plane!DefaultEntries
    BY <1>3, <2>1, RulesOfPlane DEF SameEffect
  <2>2. ASSUME NEW f \in Flow, NEW m \in Plane!ChainMods(Home, f), m[1] = s, e = m[2].entry
        PROVE  \E x \in table[s] : SameEffect(e, x)
    <3>1. CASE m = <<Entrance[f][1], SourceMod(f, Entrance[f][2], Plane!Stands(f, 1))>>
      BY <1>4, <2>2, <3>1 DEF SameEffect
    <3>2. ASSUME NEW i \in DOMAIN Path1(f), NEW k \in Turns(f, i),
                 m = <<VnfAt(f, i).dpid, ChainMod(f, i, k)>>
          PROVE  \E x \in table[s] : SameEffect(e, x)
      BY <1>2, <1>5, <2>2, <3>2 DEF InPlace
    <3> QED
      BY <1>1, <2>2, <3>1, <3>2, ChainModsAre
  <2> QED
    BY <2>1, <2>2 DEF Plane!Table
<1>7. ASSUME NEW x \in table[s] PROVE \E e \in Plane!Table(Home, s) : SameEffect(e, x)
  <2> SUFFICES x \in Plane!Table(Home, s)
    BY DEF SameEffect
  <2>1. Plane!FromController(s, x)
    BY DEF HomeInv, SentFromHome, Plane!OnlyFromController
  <2>2. CASE x \in Plane!DefaultEntries
    BY <2>2 DEF Plane!Table
  <2>3. ASSUME NEW f \in Flow, x = CatchMod(f).entry PROVE FALSE
    <3>1. IsCatch(x, f)
      BY <2>3 DEF IsCatch, CatchMod, AddMod
    <3> QED
      BY <1>2, <1>4, <3>1 DEF DetectionReplaced
  <2>4. ASSUME NEW f \in Flow, NEW m \in Plane!ChainMods(Home, f), m[1] = s, x = m[2].entry
        PROVE  x \in Plane!Table(Home, s)
    <3>1. CASE m = <<Entrance[f][1], SourceMod(f, Entrance[f][2], Plane!Stands(f, 1))>>
      <4>1. x.match = FlowMatch(f) \cup {<<"in_port", Entrance[f][2]>>}
        BY <2>4, <3>1 DEF SourceMod, AddMod
      <4>2. PrereqOK(x.match)
        BY <1>1, <4>1, PortAccepted DEF RowsAccepted
      <4> QED
        BY <2>4, <4>2, SameTables
    <3>2. ASSUME NEW i \in DOMAIN Path1(f), NEW k \in Turns(f, i),
                 m = <<VnfAt(f, i).dpid, ChainMod(f, i, k)>>
          PROVE  x \in Plane!Table(Home, s)
      <4>1. PrereqOK(x.match)
        BY <1>1, <2>4, <3>2, ChainAccepted
      <4> QED
        BY <2>4, <4>1, SameTables
    <3> QED
      BY <1>1, <2>4, <3>1, <3>2, ChainModsAre
  <2>5. ASSUME NEW f \in Flow, NEW p \in Port, x = SourceMod(f, p, Plane!Stands(f, 1)).entry
        PROVE  x \in Plane!Table(Home, s)
    <3> DEFINE m == <<Entrance[f][1], SourceMod(f, Entrance[f][2], Plane!Stands(f, 1))>>
    <3>1. s = Entrance[f][1] /\ p = Entrance[f][2]
      BY <1>4, <2>5
    <3>2. m \in Plane!ChainMods(Home, f)
      BY RulesOfPlane DEF Plane!ChainMods, Plane!Stands
    <3> QED
      BY <2>4, <2>5, <3>1, <3>2
  <2> QED
    BY <2>1, <2>2, <2>3, <2>4, <2>5, RulesOfPlane DEF Plane!FromController
<1> QED
  BY <1>6, <1>7

\* However often and wherever flows were detected, once each has a source entry
\* at its entrance and nothing is on its way, every table is, effect by effect,
\* the one that SfcForwarding starts from: nothing is missing, and no detection
\* entry, second source entry or rest of an abandoned handler is left
\* (sfc_nfv.py:276-395). Behaviours: no connection lost, no queue full, all
\* functions registered; while a deletion is not under way and all switches are up.
THEOREM TablesArrived ==
    ASSUME WellHome, Heard, AddedOnce, SourcesGiven
    PROVE  NetSpec /\ []Smooth /\ []Ready
              => [](Joined /\ NoneDeleting => TablesAsAssumed)
<1>1. CountingDown /\ RowsApart /\ RowsAccepted
  <2>1. Plane!CountingDown /\ Plane!RowsApart /\ Plane!RowsAccepted
    BY DEF WellHome, Plane!WellBuilt
  <2> QED
    BY <2>1, RulesOfPlane DEF CountingDown, Plane!CountingDown,
       RowsApart, Plane!RowsApart, RowsAccepted, Plane!RowsAccepted, PrereqOK,
       Plane!PrereqOK, Fields, Plane!Fields
<1>2. Smooth => NoneLost
  BY DEF Smooth
<1>3. /\ Spec /\ []Smooth /\ []Ready => []ControlInv
      /\ ControlInv => TypeInv /\ AtomicInv /\ ChainInv
  BY <1>1, ChainInvariant DEF ControlInv
<1>4. Spec /\ []NoneLost => []SingleSource
  BY OneEntrance
<1>5. Spec /\ []Smooth => []DetectionReplaced
  BY EntryChanged
<1>6. Spec => []QuietIsSetUp
  BY QuietSwitchesSetUp
<1>7. NetSpec => Spec /\ []NetInv
  BY ControllerInNetwork, NetInvariant, PTL
<1>8. /\ NetInv /\ TypeInv /\ AtomicInv /\ ChainInv /\ SingleSource /\ DetectionReplaced
      /\ QuietIsSetUp /\ Ready
      => (Joined /\ NoneDeleting => TablesAsAssumed)
  BY AssumedTables DEF NetInv
<1> QED
  BY <1>2, <1>3, <1>4, <1>5, <1>6, <1>7, <1>8, PTL
(***************************************************************************)
(* Detection entries, until a packet of their flow is detected.            *)
(***************************************************************************)

\* Every switch is up from the start, and none comes later.
UpAtStart == ToSet(InitialSwitch) = Switch
FromTheStart ==
    /\ \A c \in Conn : link[c] = IF c[2] = 1 THEN "main" ELSE "none"
    /\ \A c \in Conn : c[2] = 1 => c \in ToSet(datapaths)
    /\ \A i \in DOMAIN events : events[i].type \in {"packet_in", "register"}

\* The handler is about flows of which a packet has been detected.
HeardOnly ==
    /\ \A i \in DOMAIN events :
          events[i].type = "packet_in" => events[i].flow \in ToSet(detected)
    /\ task # NoTask => task.pc # "defaults" /\ task.flow \in ToSet(detected)

\* Until then, or until it is to be deleted, the flow's detection entry is where
\* a request to add it has been.
Untouched(f) ==
    f \notin ToSet(detected) /\ \A r \in Asked(f, "delete") : rest[r].pc = "new"
CatchesThere ==
    \A f \in Flow : Untouched(f) => \A r \in Asked(f, "add") :
        /\ \A c \in ToSet(rest[r].seen) :
              rest[r].pc # "send" \/ c # Last(rest[r].seen)
                 => CatchMod(f).entry \in Final(Dpid(c))
        /\ rest[r].pc = "ok" => ToSet(datapaths) \subseteq ToSet(rest[r].seen)

LEMMA CatchIs ==
    ASSUME NEW f \in Flow
    PROVE  /\ CatchMod(f).cmd = "add" /\ CatchMod(f).entry.flow = f
           /\ CatchMod(f).entry.table = 0 /\ CatchMod(f).entry.priority = 8
           /\ CatchMod(f).entry.match = FlowMatch(f) /\ CatchMod(f).entry.meta = f
           /\ CatchMod(f).entry.goto = 2
BY DEF CatchMod, AddMod

\* No entry of the network but itself takes the place of a detection entry.
LEMMA CatchReplaced ==
    ASSUME WellHome, NEW f \in Flow, NEW s \in Switch, NEW m, Plane!FromController(s, m),
           m.table = 0, m.priority = 8, m.match = FlowMatch(f)
    PROVE  m = CatchMod(f).entry
<1>1. F!WellBuilt /\ F!FromController(s, m) /\ Home \in {Home}
  BY SameNetwork DEF WellHome
<1>2. \A q : <<"in_port", q>> \notin m.match
  BY FlowHeaders DEF Column
<1>3. m \notin DefaultEntries
  BY DefaultFacts
<1>4. ASSUME NEW g \in Flow, m = CatchMod(g).entry PROVE g = f
  <2>1. FlowMatch(g) = FlowMatch(f)
    BY <1>4, CatchIs
  <2>2. MiddleFields(g) = MiddleFields(f)
    BY <2>1 DEF MiddleFields
  <2>3. RowsApart
    BY RulesOfPlane DEF WellHome, Plane!WellBuilt, RowsApart, Plane!RowsApart
  <2> QED
    BY <2>2, <2>3 DEF RowsApart
<1>5. ASSUME NEW g \in Flow, NEW q \in Port, m = SourceMod(g, q, F!Stands(g, 1)).entry
      PROVE  FALSE
  <2>1. m.match = FlowMatch(g) \cup {<<"in_port", q>>}
    BY <1>5 DEF SourceMod, AddMod
  <2> QED
    BY <1>2, <2>1
<1>6. ASSUME NEW g \in Flow, NEW x \in F!ChainMods(Home, g), x[1] = s, m = x[2].entry
      PROVE  FALSE
  <2>1. \/ F!SourceAt(m, s, g) \/ F!EndAt(m, g)
        \/ \E i : F!MiddleAt(m, s, g, i) \/ F!ProxyAt(m, s, g, i) \/ F!DecapAt(m, s, g, i)
    BY <1>1, <1>6, AssumedByF, F!EntriesOfChain
  <2>2. ASSUME F!SourceAt(m, s, g) PROVE FALSE
    <3>1. m.match = F!FlowMatch(g) \cup {<<"in_port", Entrance[g][2]>>}
      BY <2>2 DEF F!SourceAt
    <3> QED
      BY <1>2, <3>1
  <2> QED
    BY <2>1, <2>2 DEF F!EndAt, F!MiddleAt, F!ProxyAt, F!DecapAt
<1>7. ASSUME NEW g \in Flow, \E x \in F!ChainMods(Home, g) : x[1] = s /\ m = x[2].entry
      PROVE  FALSE
  BY <1>6, <1>7
<1> QED
  BY <1>1, <1>3, <1>4, <1>5, <1>7, RulesOfF DEF F!FromController

\* What is detected is the flow of the packet.
LEMMA DetectedFlow ==
    ASSUME WellHome, NetInv, NEW c \in Conn, DetectLive(c)
    PROVE  /\ events' = Append(events, [type |-> "packet_in", conn |-> c,
                                        port |-> at[2], flow |-> sent])
           /\ detected' = Append(detected, sent)
           /\ UNCHANGED <<link, chan, table, datapaths, task, rest, running, vnf>>
<1>1. /\ Plane!IsPlain /\ Plane!Visible = Plane!Plain(sent) \cup {<<"in_port", at[2]>>}
      /\ Wire.packet \cup {<<"in_port", Wire.port>>} = Plane!Visible
  BY DetectedIsPlain DEF NetInv
<1>2. Wire.switch = at[1] /\ Wire.port = at[2]
  BY DEF Wire
<1>3. /\ tbl = 0 /\ DetectPacket(c, Wire) /\ detected' = Append(detected, sent)
  BY DEF DetectLive
<1>4. PICK e \in ToController(at[1], Plane!Visible) :
         /\ e.meta # NoMeta
         /\ events' = Append(events, [type |-> "packet_in", conn |-> c,
                                      port |-> at[2], flow |-> e.meta])
  BY <1>1, <1>2, <1>3 DEF DetectPacket, Enqueue
<1>5. e \in Plane!Lookup /\ e.goto = 2
  BY <1>3, <1>4 DEF ToController, Plane!Lookup, Best, Plane!Best, Matching, Plane!Matching
<1>6. /\ F!WellBuilt /\ F!OnlyFromController /\ Home \in {Home}
      /\ sent \in Flow /\ at[1] \in Switch /\ e \in F!Lookup
      /\ F!Plain(sent) = Plane!Plain(sent) /\ F!Visible = Plane!Visible
  BY <1>5, SameNetwork, SameLookup, RulesOfF, RulesOfPlane DEF WellHome, NetInv, HomeInv, SentFromHome, Plane!FrameInv,
     F!Plain, Plane!Plain, F!Visible, Plane!Visible
<1>7. /\ e.table = 0 /\ e.match \subseteq F!Plain(sent) \cup {<<"in_port", at[2]>>}
      /\ \/ e \in F!DefaultEntries
         \/ \E f \in Flow :
               \/ e = F!CatchMod(f).entry
               \/ \E p \in Port : e = F!SourceMod(f, p, F!Stands(f, 1)).entry
               \/ F!SourceAt(e, at[1], f) \/ F!EndAt(e, f)
               \/ \E i : \/ F!MiddleAt(e, at[1], f, i) \/ F!ProxyAt(e, at[1], f, i)
                         \/ F!DecapAt(e, at[1], f, i)
  BY <1>1, <1>3, <1>6, AssumedByF, F!TakenFrom
<1>8. e \notin DefaultEntries
  BY <1>4 DEF DefaultEntries, DefaultMods, Default, AddMod
<1>9. PICK f \in Flow : e = CatchMod(f).entry
  <2>1. \A f, p, row : SourceMod(f, p, row).entry.goto = 3
    BY DEF SourceMod, AddMod
  <2>2. \A f, i : /\ ~ F!SourceAt(e, at[1], f) /\ ~ F!EndAt(e, f)
                  /\ ~ F!MiddleAt(e, at[1], f, i) /\ ~ F!ProxyAt(e, at[1], f, i)
                  /\ ~ F!DecapAt(e, at[1], f, i)
    BY <1>5, <1>7 DEF F!SourceAt, F!EndAt, F!MiddleAt, F!ProxyAt, F!DecapAt
  <2> QED
    BY <1>5, <1>7, <1>8, <2>1, <2>2, RulesOfF
<1>10. e.meta = f /\ e.match = FlowMatch(f)
  BY <1>9, CatchIs
<1>11. F!MiddleFields(f) \subseteq e.match
  BY <1>10, RulesOfF DEF MiddleFields
<1>12. f = sent
  BY <1>6, <1>7, <1>11, AssumedByF, F!SameRow
<1> QED
  BY <1>3, <1>4, <1>10, <1>12 DEF DetectPacket, network

\* Sending anything but a deletion of the flow leaves its detection entry.
LEMMA SendKeepsCatch ==
    ASSUME TypeOK, OneAtATime, EntriesFromRows, RowsApart, NEW f \in Flow,
           NEW s \in Switch, CatchMod(f).entry \in Final(s),
           NEW c \in Conn, link[c] \in {"config", "main"}, NEW mod \in FlowMod,
           mod.cmd = "delete" => OwnDeletion(mod.entry) /\ mod.entry.flow # f,
           Send(c, mod), UNCHANGED <<link, table>>
    PROVE  CatchMod(f).entry \in Final(s)'
<1> DEFINE e == CatchMod(f).entry
<1>1. e.flow = f /\ e.table = 0
  BY CatchIs
<1>2. OwnEntry(e)
  BY FinalOwn
<1> HIDE DEF e
<1>3. mod.cmd = "delete" => ~ Covers(mod.entry, e)
  BY <1>1, <1>2, OwnDeleted
<1>4. e \in Final(s)'
  BY <1>3, FinalSent DEF e
<1> QED
  BY <1>4 DEF e

\* So does what happens on the switches: what takes its place is the same entry.
LEMMA NetworkKeepsCatch ==
    ASSUME WellHome, NetInv, MetInv, OneAtATime, EntriesFromRows, NoneLost',
           NEW f \in Flow, NEW s \in Switch, CatchMod(f).entry \in Final(s),
           \/ \E c \in Conn : LinkStep(c)
           \/ \E c \in Conn, d \in Datagram : RegisterPacket(c, d)
    PROVE  CatchMod(f).entry \in Final(s)'
<1> DEFINE e == CatchMod(f).entry
<1>1. /\ e.flow = f /\ e.table = 0 /\ e.priority = 8 /\ e.match = FlowMatch(f)
  BY CatchIs
<1>2. /\ TypeInv /\ TypeOK /\ SentFromHome /\ OwnEntry(e)
      /\ Plane!RowsAccepted
  BY FinalOwn DEF NetInv, TypeInv, HomeInv, WellHome, Plane!WellBuilt
<1>3. PrereqOK(e.match)
  BY <1>1, <1>2, RulesOfPlane DEF Plane!RowsAccepted, PrereqOK, Plane!PrereqOK, Fields,
     Plane!Fields
<1> HIDE DEF e
<1>4. CASE \A t \in Switch : Final(t)' = Final(t)
  BY <1>4
<1>5. ASSUME NEW c \in Conn, ApplyMod(c) PROVE e \in Final(s)'
  <2>1. CASE s # Dpid(c)
    BY <1>2, <1>5, <2>1, FinalApplied DEF e
  <2>2. CASE s = Dpid(c)
    <3>1. 1 \in DOMAIN chan[c] /\ chan[c][1] \in FlowMod
      BY <1>2, <1>5, <2>2, FinalApplied
    <3>2. PICK m \in Entry : m = chan[c][1].entry
      BY <3>1 DEF FlowMod
    <3>3. \/ e \in Final(s)'
          \/ /\ chan[c][1].cmd = "add" /\ e = m /\ ~ PrereqOK(m.match)
          \/ /\ chan[c][1].cmd = "add" /\ e.table = m.table
             /\ e.priority = m.priority /\ e.match = m.match
             /\ PrereqOK(m.match) /\ m \in Final(s)'
      BY <1>2, <1>5, <2>2, <3>2, FinalApplied DEF e
    <3>4. chan[c][1].cmd = "add" => Plane!FromController(s, m)
      BY <1>2, <2>2, <3>1, <3>2 DEF SentFromHome, ModFromHome
    <3>5. CASE /\ chan[c][1].cmd = "add" /\ e.table = m.table
               /\ e.priority = m.priority /\ e.match = m.match /\ m \in Final(s)'
      <4>1. m = CatchMod(f).entry
        BY <1>1, <3>4, <3>5, CatchReplaced
      <4> QED
        BY <3>5, <4>1 DEF e
    <3> QED
      BY <1>3, <3>3, <3>5
  <2> QED
    BY <2>1, <2>2
<1>6. \/ \A t \in Switch : Final(t)' = Final(t)
      \/ \E c \in Conn : ApplyMod(c)
  BY <1>2, FinalShrinks
<1> QED
  BY <1>4, <1>5, <1>6 DEF e

\* What the event loop sends, and what of it deletes.
LEMMA LoopSends ==
    ASSUME TypeInv, MetInv, NoneLost, EntriesFromRows, Loop
    PROVE  /\ UNCHANGED <<link, table>>
           /\ \/ chan' = chan
              \/ \E c \in Conn, mod \in FlowMod :
                    /\ link[c] \in {"config", "main"} /\ Send(c, mod)
                    /\ mod.cmd = "delete" =>
                          /\ OwnDeletion(mod.entry) /\ mod.entry.flow = task.flow
                          /\ task # NoTask
<1>1. TypeOK /\ UNCHANGED <<link, table>>
  BY DEF TypeInv, Loop, HandleEvent, RunTask, LoopBlocks, RegisterDatapath,
         UnregisterDatapath, RegisterVnf, HandledAtOnce, StartDefaults,
         StartDetection, Begin, SendDefault, DeleteCatching, SendSource,
         AbandonChain, SkipVnf, SendHop, SendEnd, Continue, network
<1>2. CASE \/ RegisterDatapath \/ UnregisterDatapath \/ RegisterVnf \/ StartDefaults
           \/ StartDetection \/ LoopBlocks
  <2>1. UNCHANGED chan
    BY <1>2, SetUpStep, DetectionStep
       DEF RegisterDatapath, UnregisterDatapath, RegisterVnf, HandledAtOnce, LoopBlocks,
           network
  <2> QED
    BY <1>1, <2>1
<1>3. CASE SendDefault
  <2>1. /\ Send(task.conn, DefaultMods[task.step]) /\ task.conn \in Conn
        /\ task.step \in 1..6 /\ DefaultMods[task.step] \in FlowMod /\ task # NoTask
    BY <1>3, DefaultStep
  <2>2. DefaultMods[task.step].cmd = "add"
    BY <2>1, DefaultFacts
  <2>3. Met(task.conn)
    BY <2>1 DEF MetInv, MetTask
  <2> QED
    BY <1>1, <2>1, <2>2, <2>3, MetIsUp
<1>4. CASE DeleteCatching
  <2>1. /\ task # NoTask /\ task.pc = "delete" /\ task.flow \in Flow
        /\ task.todo \in Seq(Conn) /\ task.todo # <<>> /\ Head(task.todo) \in Conn
        /\ Send(Head(task.todo), DeleteFlowMod(task.flow))
    BY <1>4, DeleteStep
  <2>2. /\ DeleteFlowMod(task.flow) \in FlowMod
        /\ OwnDeletion(DeleteFlowMod(task.flow).entry)
        /\ DeleteFlowMod(task.flow).entry.flow = task.flow
    BY <2>1, RequestModTypes, RequestModsOwn
       DEF EntriesFromRows, Translated, DeleteFlowMod, DelMod, OwnMod
  <2>3. Met(Head(task.todo))
    BY <2>1, ElementsOf DEF MetInv, MetTask
  <2> QED
    BY <1>1, <2>1, <2>2, <2>3, MetIsUp
<1>5. CASE SendSource
  <2>1. /\ task # NoTask /\ task.flow \in Flow /\ task.conn \in Conn
        /\ Send(task.conn, SourceMod(task.flow, task.port, VnfAt(task.flow, 1)))
        /\ task.port \in Port /\ VnfAt(task.flow, 1) \in VnfRow
    BY <1>5, SourceStep
  <2>2. SourceMod(task.flow, task.port, VnfAt(task.flow, 1)) \in FlowMod
    BY <2>1, SourceModType
  <2>3. \A port, row : SourceMod(task.flow, port, row).cmd = "add"
    BY DEF SourceMod, AddMod
  <2>4. Met(task.conn)
    BY <2>1 DEF MetInv, MetTask
  <2> QED
    BY <1>1, <2>1, <2>2, <2>3, <2>4, MetIsUp
<1>6. CASE AbandonChain \/ SkipVnf \/ SendHop \/ SendEnd
  <2>1. \/ chan' = chan
        \/ \E d \in Conn, mod \in FlowMod : Met(d) /\ Send(d, mod) /\ mod.cmd = "add"
    BY <1>6, ChainStep DEF MetInv
  <2> QED
    BY <1>1, <2>1, MetIsUp
<1> QED
  BY <1>2, <1>3, <1>4, <1>5, <1>6 DEF Loop, HandleEvent, RunTask

\* What a request sends, and what of it deletes.
LEMMA RequestSends ==
    ASSUME TypeInv, MetInv, NoneLost, EntriesFromRows, NEW r \in Request, SendRequest(r)
    PROVE  /\ link[Last(rest[r].seen)] \in {"config", "main"}
           /\ Last(rest[r].seen) \in Conn /\ RequestMod(r) \in FlowMod
           /\ Send(Last(rest[r].seen), RequestMod(r)) /\ UNCHANGED <<link, table>>
           /\ RequestMod(r).cmd = "delete" =>
                 /\ OwnDeletion(RequestMod(r).entry)
                 /\ RequestMod(r).entry.flow = Subject[r] /\ Op[r] = "delete"
<1>1. /\ rest[r].pc = "send" /\ Subject[r] \in Flow
      /\ Last(rest[r].seen) \in ToSet(rest[r].seen)
      /\ Last(rest[r].seen) \in Conn /\ UNCHANGED <<link, table>>
      /\ Send(Last(rest[r].seen), RequestMod(r)) /\ RequestMod(r) \in FlowMod
  BY RequestStep
<1>2. link[Last(rest[r].seen)] \in {"config", "main"}
  BY <1>1, MetIsUp DEF MetInv, TypeInv
<1>3. Translatable(Subject[r])
  BY <1>1 DEF EntriesFromRows, Translated
<1>4. /\ OwnMod(DeleteFlowMod(Subject[r])) /\ OwnMod(DeleteSpiMod(Subject[r]))
  BY <1>1, <1>3, RequestModsOwn
<1>5. \A g : /\ DeleteFlowMod(g).cmd = "delete" /\ DeleteFlowMod(g).entry.flow = g
             /\ DeleteSpiMod(g).cmd = "delete" /\ DeleteSpiMod(g).entry.flow = g
  BY DEF DeleteFlowMod, DeleteSpiMod, DelMod
<1>6. Op[r] = "add" => RequestMod(r).cmd = "add"
  BY <1>1, CatchIs DEF RequestMod
<1>7. Op[r] \in {"add", "delete"}
  BY RequestAssumption
<1>8. Op[r] = "delete" => RequestMod(r) \in {DeleteFlowMod(Subject[r]), DeleteSpiMod(Subject[r])}
  BY DEF RequestMod
<1> QED
  BY <1>1, <1>2, <1>4, <1>5, <1>6, <1>7, <1>8 DEF OwnMod

\* No step but a detection adds to what is detected, and none takes from it.
LEMMA DetectedGrows ==
    ASSUME NetInv, [NetNext]_allVars
    PROVE  /\ ToSet(detected) \subseteq ToSet(detected')
           /\ \/ UNCHANGED <<vars, detected>>
              \/ ControlStep /\ UNCHANGED detected
              \/ \E c \in Conn : DetectLive(c)
<1>1. ASSUME NEW c \in Conn, DetectLive(c)
      PROVE  ToSet(detected) \subseteq ToSet(detected')
  BY <1>1, ElementsOf DEF DetectLive, NetInv
<1>2. \/ UNCHANGED <<vars, detected>>
      \/ ControlStep /\ UNCHANGED detected
      \/ \E c \in Conn : DetectLive(c)
  BY DEF NetNext, allVars, history, ControlStep, SendPacket, MovePacket
<1>3. UNCHANGED detected => ToSet(detected) \subseteq ToSet(detected')
  OBVIOUS
<1> QED
  BY <1>1, <1>2, <1>3

\* All switches stay up, nothing but packets makes events, and the handler is
\* about flows that are detected.
LEMMA NextHeard ==
    ASSUME WellHome, NetInv, FromTheStart, HeardOnly, NoneLost, NoneLost',
           [NetNext]_allVars
    PROVE  FromTheStart' /\ HeardOnly' /\ UNCHANGED datapaths
<1>1. TypeInv /\ TypeOK
  BY DEF NetInv, TypeInv
<1>2. ToSet(detected) \subseteq ToSet(detected')
  BY DetectedGrows
<1>3. ASSUME UNCHANGED <<link, datapaths, events, task>>
      PROVE  FromTheStart' /\ HeardOnly'
  BY <1>2, <1>3 DEF FromTheStart, HeardOnly
<1>4. ASSUME NEW e, events' = Append(events, e), UNCHANGED <<link, datapaths, task>>,
             \/ e.type = "register"
             \/ e.type = "packet_in" /\ e.flow \in ToSet(detected')
      PROVE  FromTheStart' /\ HeardOnly'
  <2>1. /\ \A i \in DOMAIN events : i \in DOMAIN events' /\ events'[i] = events[i]
        /\ \A i \in DOMAIN events' :
              i \in DOMAIN events \/ (i = Len(events) + 1 /\ events'[i] = e)
    BY <1>1, <1>4, EndStays
  <2>2. \A i \in DOMAIN events' :
           /\ events'[i].type \in {"packet_in", "register"}
           /\ events'[i].type = "packet_in" => events'[i].flow \in ToSet(detected')
    BY <1>2, <1>4, <2>1 DEF FromTheStart, HeardOnly
  <2> QED
    BY <1>2, <1>4, <2>2 DEF FromTheStart, HeardOnly
<1>5. ASSUME NEW type, NextEvent(type), UNCHANGED <<link, datapaths>>,
             \/ task' = NoTask
             \/ task' # NoTask /\ task'.pc # "defaults" /\ task'.flow \in ToSet(detected)
      PROVE  FromTheStart' /\ HeardOnly'
  <2>1. \A i \in DOMAIN events' :
           i \in Nat /\ i + 1 \in DOMAIN events /\ events'[i] = events[i + 1]
    BY <1>1, <1>5, EndMoves DEF NextEvent
  <2>2. \A i \in DOMAIN events' :
           /\ events'[i].type \in {"packet_in", "register"}
           /\ events'[i].type = "packet_in" => events'[i].flow \in ToSet(detected')
    BY <1>2, <2>1 DEF FromTheStart, HeardOnly
  <2> QED
    BY <1>2, <1>5, <2>2 DEF FromTheStart, HeardOnly
<1>6. ASSUME NEW type, NextEvent(type) PROVE type \in {"packet_in", "register"}
  <2>1. 1 \in DOMAIN events /\ events[1] = Head(events)
    BY <1>1, <1>6, EndMoves DEF NextEvent
  <2> QED
    BY <1>6, <2>1 DEF NextEvent, FromTheStart
<1>7. ASSUME NEW c \in Conn, LinkStep(c)
      PROVE  UNCHANGED <<link, datapaths, events, task>>
  <2>1. link[c] = IF c[2] = 1 THEN "main" ELSE "none"
    BY DEF FromTheStart
  <2>2. ~ Connect(c)
    BY <2>1 DEF Connect, NoneLost
  <2>3. ~ Drop(c)
    <3>1. Drop(c) => link'[c] = "stale"
      BY <1>1 DEF Drop, TypeOK
    <3> QED
      BY <3>1 DEF NoneLost, Gone
  <2>4. ~ EnterMain(c) /\ ~ Notice(c) /\ ~ ReportDead(c)
    BY <2>1 DEF EnterMain, Notice, ReportDead
  <2> QED
    BY <1>7, <2>2, <2>3, <2>4 DEF LinkStep, ApplyMod
<1>8. ASSUME NEW c \in Conn, NEW d \in Datagram, RegisterPacket(c, d)
      PROVE  FromTheStart' /\ HeardOnly' /\ UNCHANGED datapaths
  BY <1>4, <1>8 DEF RegisterPacket, Enqueue, network
<1>9. CASE Loop
  <2>1. ~ RegisterDatapath /\ ~ UnregisterDatapath /\ ~ StartDefaults
    BY <1>6 DEF RegisterDatapath, UnregisterDatapath, StartDefaults
  <2>2. CASE RegisterVnf
    <3>1. NextEvent("register") /\ task' = NoTask /\ UNCHANGED <<link, datapaths>>
      BY <2>2 DEF RegisterVnf, HandledAtOnce, network, NextEvent
    <3> QED
      BY <1>5, <3>1
  <2>3. CASE StartDetection
    <3>1. /\ NextEvent("packet_in") /\ UNCHANGED <<link, datapaths>>
          /\ Head(events).type = "packet_in"
          /\ \/ task' = NoTask
             \/ /\ task' # NoTask /\ task'.flow = Head(events).flow
                /\ task'.pc \in {"delete", "source"}
      BY <1>1, <2>3, DetectionStep DEF StartDetection
    <3>2. 1 \in DOMAIN events /\ events[1] = Head(events)
      BY <1>1, <3>1, EndMoves DEF NextEvent
    <3>3. Head(events).flow \in ToSet(detected)
      BY <3>1, <3>2 DEF HeardOnly
    <3> QED
      BY <1>5, <3>1, <3>3
  <2>4. CASE RunTask \/ LoopBlocks
    <3>1. /\ UNCHANGED <<link, datapaths, events>>
          /\ task # NoTask
          /\ \/ task' = NoTask
             \/ task' = task
             \/ task' # NoTask /\ task'.pc = "defaults" /\ task.pc = "defaults"
             \/ task' # NoTask /\ task'.pc # "defaults" /\ task'.flow = task.flow
      <4>1. CASE LoopBlocks
        BY <4>1 DEF LoopBlocks, network
      <4>2. CASE SendDefault
        BY <1>1, <4>2, DefaultStep
      <4>3. CASE DeleteCatching
        BY <1>1, <4>3, DeleteStep
      <4>4. CASE SendSource
        BY <1>1, <4>4, SourceStep
      <4>5. CASE AbandonChain \/ SkipVnf \/ SendHop \/ SendEnd
        BY <1>1, <4>5, ChainStep
      <4> QED
        BY <2>4, <4>1, <4>2, <4>3, <4>4, <4>5 DEF RunTask
    <3> QED
      BY <1>2, <3>1 DEF FromTheStart, HeardOnly
  <2>5. UNCHANGED datapaths
    BY <1>1, <1>9, <2>1, <2>4, DetectionStep DEF Loop, HandleEvent, RegisterVnf, RunTask,
       LoopBlocks, SendDefault, DeleteCatching, SendSource, AbandonChain, SkipVnf, SendHop,
       SendEnd, Continue
  <2> QED
    BY <1>9, <2>1, <2>2, <2>3, <2>4, <2>5 DEF Loop, HandleEvent
<1>10. ASSUME NEW r \in Request, Serve(r)
       PROVE  UNCHANGED <<link, datapaths, events, task>>
  BY <1>10 DEF Serve, StartRequest, NextDatapath, SendRequest, RequestBlocks, SetRest,
     network
<1>11. ASSUME NEW c \in Conn, DetectLive(c)
       PROVE  FromTheStart' /\ HeardOnly' /\ UNCHANGED datapaths
  <2> DEFINE e == [type |-> "packet_in", conn |-> c, port |-> at[2], flow |-> sent]
  <2>1. /\ events' = Append(events, e) /\ detected' = Append(detected, sent)
        /\ UNCHANGED <<link, datapaths, task>>
    BY <1>11, DetectedFlow
  <2>2. sent \in ToSet(detected')
    BY <2>1, ElementsOf DEF NetInv
  <2>3. e.type = "packet_in" /\ e.flow = sent
    OBVIOUS
  <2> HIDE DEF e
  <2> QED
    BY <1>4, <2>1, <2>2, <2>3
<1> QED
  BY <1>3, <1>7, <1>8, <1>9, <1>10, <1>11, DetectedGrows DEF ControlStep, vars

\* An entry that is on a switch or on its way stays until its flow is detected.
LEMMA NextKeepsCatch ==
    ASSUME WellHome, NetInv, MetInv, OneAtATime, EntriesFromRows, NoneLost, NoneLost',
           HeardOnly, [NetNext]_allVars, NEW f \in Flow, Untouched(f), NEW s \in Switch,
           CatchMod(f).entry \in Final(s)
    PROVE  CatchMod(f).entry \in Final(s)'
<1>1. TypeInv /\ TypeOK /\ RowsApart
  <2>1. Plane!RowsApart
    BY DEF WellHome, Plane!WellBuilt
  <2> QED
    BY <2>1, RulesOfPlane DEF NetInv, TypeInv, RowsApart, Plane!RowsApart
<1>2. ASSUME UNCHANGED <<link, table, chan>> PROVE CatchMod(f).entry \in Final(s)'
  BY <1>2, FinalSame
<1>3. CASE \/ \E c \in Conn : LinkStep(c)
           \/ \E c \in Conn, d \in Datagram : RegisterPacket(c, d)
  BY <1>3, NetworkKeepsCatch
<1>4. CASE Loop
  <2>1. /\ UNCHANGED <<link, table>>
        /\ \/ chan' = chan
           \/ \E c \in Conn, mod \in FlowMod :
                 /\ link[c] \in {"config", "main"} /\ Send(c, mod)
                 /\ mod.cmd = "delete" =>
                       /\ OwnDeletion(mod.entry) /\ mod.entry.flow = task.flow
                       /\ task # NoTask
    BY <1>1, <1>4, LoopSends
  <2>2. ASSUME NEW c \in Conn, NEW mod \in FlowMod,
               link[c] \in {"config", "main"}, Send(c, mod),
               mod.cmd = "delete" =>
                  OwnDeletion(mod.entry) /\ mod.entry.flow = task.flow /\ task # NoTask
        PROVE  CatchMod(f).entry \in Final(s)'
    <3>1. mod.cmd = "delete" => OwnDeletion(mod.entry) /\ mod.entry.flow # f
      BY <2>2 DEF HeardOnly, Untouched
    <3> QED
      BY <1>1, <2>1, <2>2, <3>1, SendKeepsCatch
  <2> QED
    BY <1>2, <2>1, <2>2
<1>5. ASSUME NEW r \in Request, Serve(r) PROVE CatchMod(f).entry \in Final(s)'
  <2>1. CASE SendRequest(r)
    <3> DEFINE c == Last(rest[r].seen)
               mod == RequestMod(r)
    <3>1. /\ link[c] \in {"config", "main"} /\ c \in Conn /\ mod \in FlowMod
          /\ Send(c, mod) /\ UNCHANGED <<link, table>>
          /\ mod.cmd = "delete" =>
                OwnDeletion(mod.entry) /\ mod.entry.flow = Subject[r] /\ Op[r] = "delete"
      BY <1>1, <2>1, RequestSends
    <3>2. rest[r].pc # "new"
      BY <2>1 DEF SendRequest
    <3> HIDE DEF c, mod
    <3>3. mod.cmd = "delete" => OwnDeletion(mod.entry) /\ mod.entry.flow # f
      BY <3>1, <3>2 DEF Untouched, Asked
    <3> QED
      BY <1>1, <3>1, <3>3, SendKeepsCatch
  <2>2. CASE ~ SendRequest(r)
    <3>1. UNCHANGED <<link, table, chan>>
      BY <1>5, <2>2 DEF Serve, StartRequest, NextDatapath, RequestBlocks, SetRest, network
    <3> QED
      BY <1>2, <3>1
  <2> QED
    BY <2>1, <2>2
<1>6. ASSUME NEW c \in Conn, DetectLive(c) PROVE UNCHANGED <<link, table, chan>>
  BY <1>6, DetectedFlow
<1> QED
  BY <1>2, <1>3, <1>4, <1>5, <1>6, DetectedGrows DEF ControlStep, vars

LEMMA NextCatches ==
    ASSUME WellHome, Heard, NetInv, MetInv, OneAtATime, EntriesFromRows, TurnInv,
           NoneLost, NoneLost', FromTheStart, HeardOnly, CatchesThere, [NetNext]_allVars
    PROVE  CatchesThere'
<1> SUFFICES ASSUME NEW f \in Flow, Untouched(f)', NEW r \in Asked(f, "add")
             PROVE  /\ \A c \in ToSet(rest'[r].seen) :
                          rest'[r].pc # "send" \/ c # Last(rest'[r].seen)
                             => CatchMod(f).entry \in Final(Dpid(c))'
                    /\ rest'[r].pc = "ok" =>
                          ToSet(datapaths') \subseteq ToSet(rest'[r].seen)
  BY DEF CatchesThere, Asked, Dpid, CatchMod, AddMod, FlowMatch, EthType, IpProto, Has
<1>1. [Next]_vars /\ TypeInv /\ TypeOK /\ datapaths' = datapaths
  BY NextControl, NextHeard DEF NetInv, TypeInv
<1>2. Untouched(f)
  <2>1. f \notin ToSet(detected)
    BY DetectedGrows DEF Untouched
  <2>2. \A q \in Asked(f, "delete") : rest[q].pc = "new"
    BY <1>1, RequestsBegin DEF Untouched, Asked
  <2> QED
    BY <2>1, <2>2 DEF Untouched
<1>3. r \in Request /\ Op[r] = "add" /\ Subject[r] = f
  BY DEF Asked
<1>4. rest[r].seen \in Seq(Conn)
  BY <1>1, <1>3 DEF TypeOK, RestState
<1>5. ASSUME NEW c \in ToSet(rest[r].seen),
             rest[r].pc # "send" \/ c # Last(rest[r].seen)
      PROVE  CatchMod(f).entry \in Final(Dpid(c))'
  <2>1. Dpid(c) \in Switch
    BY <1>4, ElementsOf, ConnParts
  <2>2. CatchMod(f).entry \in Final(Dpid(c))
    BY <1>2, <1>5 DEF CatchesThere
  <2> QED
    BY <1>2, <2>1, <2>2, NextKeepsCatch
<1>6. CASE rest'[r] = rest[r]
  BY <1>1, <1>2, <1>5, <1>6 DEF CatchesThere
<1>7. CASE SendRequest(r)
  <2>1. /\ rest'[r].seen = rest[r].seen /\ rest'[r].pc = "next"
    BY <1>1, <1>3, <1>7, RequestStep
  <2>2. /\ Last(rest[r].seen) \in Conn /\ RequestMod(r) \in FlowMod
        /\ link[Last(rest[r].seen)] \in {"config", "main"}
        /\ Send(Last(rest[r].seen), RequestMod(r)) /\ UNCHANGED <<link, table>>
    BY <1>1, <1>3, <1>7, RequestSends
  <2>3. RequestMod(r) = CatchMod(f) /\ RequestMod(r).cmd = "add"
    BY <1>3, CatchIs DEF RequestMod
  <2>4. ASSUME NEW c \in Conn, c = Last(rest[r].seen)
        PROVE  CatchMod(f).entry \in Final(Dpid(c))'
    <3> DEFINE mod == RequestMod(r)
               e == CatchMod(f).entry
    <3>1. /\ mod \in FlowMod /\ link[c] \in {"config", "main"}
          /\ Send(c, mod) /\ UNCHANGED <<link, table>> /\ Dpid(c) \in Switch
          /\ mod.cmd = "add" /\ e = mod.entry
      BY <2>2, <2>3, <2>4, ConnParts
    <3> HIDE DEF mod, e
    <3>2. PICK s \in Switch : s = Dpid(c)
      BY <3>1
    <3>3. e \in Final(s)' <=>
             \/ /\ e \in Final(s)
                /\ s = Dpid(c) /\ mod.cmd = "delete" => ~ Covers(mod.entry, e)
             \/ s = Dpid(c) /\ mod.cmd = "add" /\ e = mod.entry
      BY <1>1, <3>1, FinalSent
    <3>4. e \in Final(s)'
      BY <3>1, <3>2, <3>3
    <3> QED
      BY <3>2, <3>4 DEF e, Dpid
  <2>5. rest'[r].seen \in Seq(Conn) /\ ToSet(rest[r].seen) \subseteq Conn
    BY <1>4, <2>1, ElementsOf
  <2> QED
    BY <1>5, <2>1, <2>4, <2>5
<1>8. CASE StartRequest(r) \/ NextDatapath(r)
  <2>1. /\ \/ /\ rest[r].pc = "new" /\ rest'[r].pc \in {"next", "not_found"}
              /\ rest'[r].seen = rest[r].seen
           \/ /\ rest[r].pc = "next" /\ rest'[r].pc = "error"
              /\ rest'[r].seen = rest[r].seen
           \/ /\ rest[r].pc = "next" /\ rest'[r].pc = "ok" /\ Unseen(r) = {}
              /\ rest'[r].seen = rest[r].seen
           \/ /\ rest[r].pc = "next" /\ rest'[r].pc = "send"
              /\ \E i \in Unseen(r) : rest'[r].seen = Append(rest[r].seen, datapaths[i])
    BY <1>1, <1>3, <1>8, TurnStep
  <2>2. Unseen(r) = {} => ToSet(datapaths) \subseteq ToSet(rest[r].seen)
    BY DEF Unseen, ToSet
  <2>3. ASSUME NEW x, rest'[r].seen = Append(rest[r].seen, x), NEW c \in ToSet(rest'[r].seen),
               c # Last(rest'[r].seen)
        PROVE  c \in ToSet(rest[r].seen)
    <3>1. Last(Append(rest[r].seen, x)) = x
      BY <1>4 DEF Last
    <3> QED
      BY <1>4, <2>3, <3>1, ElementsOf
  <2> QED
    BY <1>1, <1>5, <2>1, <2>2, <2>3
<1> QED
  BY <1>1, <1>3, <1>6, <1>7, <1>8, OnlyServed

LEMMA InitCatches ==
    ASSUME NetInit, UpAtStart
    PROVE  FromTheStart /\ HeardOnly /\ CatchesThere
<1>1. Init /\ events = <<>> /\ task = NoTask /\ detected = <<>>
  BY DEF NetInit, Init
<1>2. FromTheStart
  <2>1. \A c \in Conn : Dpid(c) \in ToSet(InitialSwitch)
    BY ConnParts DEF UpAtStart
  <2>2. \A c \in Conn : link[c] = IF c[2] = 1 THEN "main" ELSE "none"
    BY <1>1, <2>1 DEF Init
  <2>3. ASSUME NEW c \in Conn, c[2] = 1 PROVE c \in ToSet(datapaths)
    <3>1. PICK i \in DOMAIN InitialSwitch : Dpid(c) = InitialSwitch[i]
      BY <2>1 DEF ToSet
    <3>2. /\ c = <<Dpid(c), 1>> /\ i \in 1..Len(InitialSwitch)
      BY <2>3, ConnParts, SwitchAssumption, LenProperties
    <3>3. datapaths = [j \in 1..Len(InitialSwitch) |-> <<InitialSwitch[j], 1>>]
      BY <1>1 DEF Init
    <3>4. i \in DOMAIN datapaths /\ datapaths[i] = c
      BY <3>1, <3>2, <3>3
    <3> QED
      BY <3>4 DEF ToSet
  <2>4. DOMAIN events = {}
    BY <1>1
  <2> QED
    BY <2>2, <2>3, <2>4 DEF FromTheStart
<1>3. HeardOnly
  BY <1>1 DEF HeardOnly
<1>4. CatchesThere
  <2>1. \A r \in Request : rest[r].pc = "new" /\ ToSet(rest[r].seen) = {}
    BY <1>1 DEF Init, ToSet
  <2> QED
    BY <2>1 DEF CatchesThere, Asked
<1> QED
  BY <1>2, <1>3, <1>4

\* Once a request to add a flow has been answered and nothing is on its way, the
\* detection entry is on every switch, until a packet of the flow is detected or
\* its deletion requested: neither what is sent for other flows and services,
\* by the handler or by requests that run between its turns, nor a full queue
\* can take it away (sfc_nfv.py:276-395, api_add_flow). Behaviours: all switches
\* are up from the start and none is lost.
THEOREM DetectionSpread ==
    ASSUME WellHome, Heard, UpAtStart
    PROVE  NetSpec /\ []NoneLost => []DetectionEverywhere
<1> DEFINE Inv == /\ MetInv /\ OneAtATime /\ EntriesFromRows /\ TurnInv
                  /\ FromTheStart /\ HeardOnly /\ CatchesThere
<1>1. NetInit => Inv
  BY InitCatches, InitMet, InitOneAtATime, InitOwn, InitTurn DEF NetInit
<1>2. NetInv /\ Inv /\ NoneLost /\ NoneLost' /\ [NetNext]_allVars => Inv'
  <2> SUFFICES ASSUME NetInv, Inv, NoneLost, NoneLost', [NetNext]_allVars
               PROVE  Inv'
    OBVIOUS
  <2>1. [Next]_vars /\ TypeInv
    BY NextControl DEF NetInv
  <2>2. MetInv' /\ OneAtATime' /\ EntriesFromRows' /\ TurnInv'
    BY <2>1, NextMet, NextOneAtATime, NextOwn, NextTurn
  <2> QED
    BY <2>2, NextHeard, NextCatches
<1>3. NetInv /\ Inv => DetectionEverywhere
  <2> SUFFICES ASSUME NetInv, Inv, NEW f \in Flow, Quiet, Untouched(f),
                      NEW r \in Asked(f, "add"), rest[r].pc = "ok",
                      NEW c \in Conn, link[c] = "main"
               PROVE  \E e \in table[Dpid(c)] : IsCatch(e, f)
    BY DEF DetectionEverywhere, Untouched
  <2>1. c \in ToSet(rest[r].seen)
    BY DEF FromTheStart, CatchesThere
  <2>2. Dpid(c) \in Switch /\ Final(Dpid(c)) = table[Dpid(c)]
    BY ConnParts, FinalQuiet DEF Quiet
  <2>3. CatchMod(f).entry \in table[Dpid(c)]
    BY <2>1, <2>2 DEF CatchesThere
  <2> QED
    BY <2>3 DEF IsCatch, CatchMod, AddMod
<1> HIDE DEF Inv
<1> QED
  BY <1>1, <1>2, <1>3, NetInvariant, PTL DEF NetSpec
-----------------------------------------------------------------------------
(***************************************************************************)
(* Packets of the flow of a service that is detected first: they stay in   *)
(* the chain, because no switch hands them to a function before it takes   *)
(* them back from it.                                                      *)
(***************************************************************************)

\* Of flow f the first packet of all was or will be detected, no other one has
\* been, and nobody has asked to delete the flow.
First(f) ==
    /\ detected = <<>> \/ detected[1] = f
    /\ \A i, j \in DOMAIN detected : detected[i] = f /\ detected[j] = f => i = j
    /\ \A r \in Asked(f, "delete") : rest[r].pc = "new"

\* The entries that hand packets to functions.
IsTaking(e) == e.table = 1 /\ e.priority = 6
NoneTaking == \A s \in Switch : \A e \in Final(s) : ~ IsTaking(e)

Handling == task # NoTask /\ task.pc # "defaults"
Hears(i, f) == events[i].type = "packet_in" /\ events[i].flow = f
Silent(f) == \A i \in DOMAIN events : ~ Hears(i, f)
\* The first that waits for the handler is of flow f, and the only one of it.
Heads(f) ==
    \E i \in DOMAIN events :
        /\ Hears(i, f)
        /\ \A j \in DOMAIN events :
              events[j].type = "packet_in" /\ j # i => j > i /\ events[j].flow # f
NoPacketIn == \A i \in DOMAIN events : events[i].type # "packet_in"

\* The way of such a flow: nothing has been detected; its packet is the first
\* that waits for the handler; the handler has not come to its chain; the chain
\* is there as far as the handler has come.  Only then is anything handed to a
\* function of its service: the entries of others come later.
Unheard == detected = <<>> /\ ~ Handling /\ NoneTaking /\ NoPacketIn
Waiting(f) == ~ Handling /\ NoneTaking /\ Heads(f)
Entering(f) ==
    /\ Handling /\ task.flow = f /\ task.pc \in {"delete", "source"}
    /\ NoneTaking /\ Silent(f)
OwnTaking(f) ==
    \A s \in Switch : \A e \in Final(s) : IsTaking(e) =>
        \E i \in DOMAIN Path1(f) : \E k \in Turns(f, i) :
            e = ChainMod(f, i, k).entry /\ Sent(f, i, k)
Linked(f) ==
    /\ Sources(f) # {} /\ Silent(f)
    /\ Handling /\ task.flow = f => task.pc = "chain" /\ OwnTaking(f)

Stage(f) ==
    Unheard \/ (detected # <<>> /\ (Waiting(f) \/ Entering(f) \/ Linked(f)))
StageInv == \A f \in Flow : First(f) => Stage(f)

\* Flows whose row cannot be translated are never added.
AddedTranslatable == \A f \in Flow : Forgotten(f) \/ Translatable(f)

LEMMA NextTranslatable ==
    ASSUME TypeInv, MarksInv, EntriesFromRows, AddedTranslatable, [Next]_vars
    PROVE  AddedTranslatable'
<1> SUFFICES ASSUME NEW f \in Flow, ~ Translatable(f) PROVE Forgotten(f)'
  BY DEF AddedTranslatable, Translatable
<1>1. Forgotten(f)
  BY DEF AddedTranslatable
<1>2. \/ Forgotten(f)'
      \/ \E r \in Request : Op[r] = "add" /\ Subject[r] = f /\ rest[r].pc = "send"
  BY <1>1, NextForgets
<1> QED
  BY <1>2 DEF EntriesFromRows, Translated

\* An entry that hands packets to a function is sent by the handler.
LEMMA NewTaking ==
    ASSUME TypeInv, MetInv, OneAtATime, EntriesFromRows, ChainInv, NoneLost,
           NoneLost', Ready, [Next]_vars, NEW s \in Switch, NEW e \in Final(s)',
           IsTaking(e), e \notin Final(s)
    PROVE  /\ AbandonChain \/ SkipVnf \/ SendHop \/ SendEnd
           /\ e = ChainMod(task.flow, task.pos, task.step).entry
<1>1. TypeOK /\ EntriesFromRows'
  BY NextOwn DEF TypeInv
<1>2. ~ UNCHANGED <<link, table, chan>>
  BY FinalSame
<1>3. CASE \/ \E c \in Conn : LinkStep(c)
           \/ \E c \in Conn, t \in Traffic : DetectPacket(c, t)
           \/ \E c \in Conn, d \in Datagram : RegisterPacket(c, d)
  BY <1>3, FinalShrinks
<1>4. CASE Loop \/ \E r \in Request : Serve(r)
  <2>1. UNCHANGED <<link, table>>
    BY <1>1, <1>4, AppSends
  <2>2. PICK c \in Conn, mod \in FlowMod :
           link[c] \in {"config", "main"} /\ Send(c, mod) /\ SentTo(c, mod)
    BY <1>1, <1>2, <1>4, AppSends
  <2>3. mod.cmd = "add" /\ e = mod.entry
    BY <1>1, <2>1, <2>2, FinalSent
  <2>4. mod.entry \notin DefaultEntries
    BY <2>3, DefaultFacts DEF IsTaking
  <2> QED
    BY <2>2, <2>3, <2>4 DEF SentTo, IsTaking
<1> QED
  BY <1>2, <1>3, <1>4 DEF Next, vars

\* What takes the place of a source entry is a source entry of the flow.
LEMMA SourceReplaced ==
    ASSUME TypeOK, WellHome, AllAtHome, Ready, DetectionReplaced, NEW f \in Flow,
           Sources(f) # {}, NEW s \in Switch, NEW m \in Final(s),
           Plane!FromController(s, m), m.flow = f, m.table = 0, m.priority = 8
    PROVE  IsSource(m, f)
<1>1. m \notin DefaultEntries
  BY DefaultFacts, FlowAssumption
<1>2. PICK g \in Flow :
         \/ m = CatchMod(g).entry
         \/ \E p \in Port : m = SourceMod(g, p, Plane!Stands(g, 1)).entry
         \/ \E x \in Plane!ChainMods(Home, g) : x[1] = s /\ m = x[2].entry
  BY <1>1, RulesOfPlane DEF Plane!FromController
<1>3. ASSUME m = CatchMod(g).entry PROVE FALSE
  <2>1. IsCatch(m, f)
    BY <1>3, CatchIs DEF IsCatch
  <2> QED
    BY <2>1 DEF DetectionReplaced
<1>4. ASSUME NEW p, m = SourceMod(g, p, Plane!Stands(g, 1)).entry PROVE IsSource(m, f)
  BY <1>4 DEF SourceMod, AddMod, IsSource
<1>5. ASSUME NEW x \in Plane!ChainMods(Home, g), m = x[2].entry PROVE IsSource(m, f)
  <2>1. CASE x = <<Entrance[g][1], SourceMod(g, Entrance[g][2], Plane!Stands(g, 1))>>
    BY <1>4, <1>5, <2>1
  <2>2. ASSUME NEW i \in DOMAIN Path1(g), NEW k \in Turns(g, i),
               x = <<VnfAt(g, i).dpid, ChainMod(g, i, k)>>
        PROVE  FALSE
    <3>1. ChainEntry(m, g)
      BY <1>5, <2>2, ChainIs
    <3> QED
      BY <3>1 DEF ChainEntry
  <2> QED
    BY <2>1, <2>2, ChainModsAre
<1> QED
  BY <1>2, <1>3, <1>4, <1>5

\* What is asked of the network's rows, of the rows themselves.
LEMMA HomeRules ==
    ASSUME WellHome
    PROVE  CountingDown /\ RowsApart /\ RowsAccepted
<1>1. Plane!CountingDown /\ Plane!RowsApart /\ Plane!RowsAccepted
  BY DEF WellHome, Plane!WellBuilt
<1> QED
  BY <1>1, RulesOfPlane DEF CountingDown, Plane!CountingDown, RowsApart,
     Plane!RowsApart, RowsAccepted, Plane!RowsAccepted, PrereqOK, Plane!PrereqOK,
     Fields, Plane!Fields

\* What is known of the controller at every step.
Orderly ==
    /\ ControlInv /\ MarksInv /\ HomeInv /\ AddedTranslatable
    /\ NoneLost /\ Ready /\ DetectionReplaced

\* A flow keeps its source entry until it is deleted.
LEMMA SourceKept ==
    ASSUME WellHome, Orderly, NoneLost', [Next]_vars, NEW f \in Flow, Sources(f) # {}
    PROVE  \/ Sources(f)' # {}
           \/ DeleteCatching /\ task.flow = f
           \/ \E r \in Asked(f, "delete") : SendRequest(r)
<1>0. /\ TypeInv /\ MetInv /\ OneAtATime /\ EntriesFromRows /\ ChainInv /\ TypeOK
      /\ NoneLost /\ Ready /\ DetectionReplaced /\ AllAtHome /\ SentFromHome
      /\ EntriesFromRows' /\ RowsApart /\ RowsAccepted
  BY HomeRules, NextOwn DEF Orderly, ControlInv, HomeInv, TypeInv
<1>1. PICK s, e : SourceAt(s, e, f)
  BY SourcesAre
<1>2. s \in Switch /\ e \in Final(s) /\ IsSource(e, f) /\ OwnEntry(e)
  BY <1>0, <1>1, FinalOwn DEF SourceAt
<1>3. e.flow = f /\ e.table = 0 /\ e.priority = 8
  BY <1>2 DEF IsSource
<1>4. ASSUME NEW x, x \in Final(s)', IsSource(x, f) PROVE Sources(f)' # {}
  BY <1>2, <1>4, SourcesAre DEF SourceAt, IsSource
<1>5. CASE UNCHANGED <<link, table, chan>>
  BY <1>2, <1>4, <1>5, FinalSame
<1>6. CASE \/ \E c \in Conn : LinkStep(c)
           \/ \E c \in Conn, t \in Traffic : DetectPacket(c, t)
           \/ \E c \in Conn, d \in Datagram : RegisterPacket(c, d)
  <2>1. CASE \A t \in Switch : Final(t)' = Final(t)
    BY <1>2, <1>4, <2>1
  <2>2. ASSUME NEW c \in Conn, ApplyMod(c) PROVE Sources(f)' # {}
    <3>1. CASE s # Dpid(c)
      BY <1>0, <1>2, <1>4, <2>2, <3>1, FinalApplied
    <3>2. CASE s = Dpid(c)
      <4>1. 1 \in DOMAIN chan[c] /\ chan[c][1] \in FlowMod /\ Final(s)' \subseteq Final(s)
        BY <1>0, <1>2, <2>2, <3>2, FinalApplied
      <4>2. PICK m \in Entry : m = chan[c][1].entry
        BY <4>1 DEF FlowMod
      <4>3. \/ e \in Final(s)'
            \/ /\ chan[c][1].cmd = "add" /\ e = m /\ ~ PrereqOK(m.match)
            \/ /\ chan[c][1].cmd = "add" /\ e.table = m.table
               /\ e.priority = m.priority /\ e.match = m.match
               /\ PrereqOK(m.match) /\ m \in Final(s)'
        BY <1>0, <1>2, <2>2, <3>2, <4>2, FinalApplied
      <4>4. chan[c][1].cmd = "add" => OwnEntry(m) /\ Plane!FromController(s, m)
        BY <1>0, <3>2, <4>1, <4>2 DEF EntriesFromRows, SentOwn, OwnMod, SentFromHome, ModFromHome
      <4>5. PrereqOK(e.match)
        BY <1>0, <1>2, <1>3, OwnAccepted
      <4>6. CASE /\ chan[c][1].cmd = "add" /\ e.table = m.table
                 /\ e.priority = m.priority /\ e.match = m.match
                 /\ PrereqOK(m.match) /\ m \in Final(s)'
        <5>1. OwnEntry(m) /\ m.table = 0 /\ m.priority = 8 /\ m \in Final(s)
          BY <1>3, <4>1, <4>4, <4>6
        <5>2. m.flow = f
          BY <1>0, <1>2, <1>3, <4>6, <5>1, OwnReplaced
        <5>3. IsSource(m, f)
          BY <1>0, <1>2, <4>4, <4>6, <5>1, <5>2, SourceReplaced
        <5> QED
          BY <1>4, <4>6, <5>3
      <4> QED
        BY <1>2, <1>4, <4>3, <4>5, <4>6
    <3> QED
      BY <3>1, <3>2
  <2> QED
    BY <1>0, <1>6, <2>1, <2>2, FinalShrinks
<1>7. CASE /\ Loop \/ \E r \in Request : Serve(r)
           /\ ~ UNCHANGED <<link, table, chan>>
  <2>1. UNCHANGED <<link, table>>
    BY <1>0, <1>7, AppSends
  <2>2. PICK c \in Conn, mod \in FlowMod :
           link[c] \in {"config", "main"} /\ Send(c, mod) /\ SentTo(c, mod)
    BY <1>0, <1>7, AppSends
  <2>3. CASE mod.cmd = "delete" => ~ Covers(mod.entry, e)
    <3>1. e \in Final(s)'
      BY <1>0, <1>2, <2>1, <2>2, <2>3, FinalSent
    <3> QED
      BY <1>2, <1>4, <3>1
  <2>4. CASE mod.cmd = "delete" /\ Covers(mod.entry, e)
    <3>1. /\ OwnDeletion(mod.entry)
          /\ \/ DeleteCatching /\ mod.entry.flow = task.flow
             \/ \E r \in Request : /\ SendRequest(r) /\ Op[r] = "delete"
                                   /\ mod.entry.flow = Subject[r]
      BY <2>2, <2>4 DEF SentTo
    <3>2. mod.entry.flow = f
      BY <1>0, <1>2, <1>3, <2>4, <3>1, OwnDeleted
    <3> QED
      BY <3>1, <3>2 DEF Asked
  <2> QED
    BY <2>3, <2>4
<1> QED
  BY <1>5, <1>6, <1>7 DEF Next, vars

-----------------------------------------------------------------------------
\* The way of a flow's first packet, step by step.

LEMMA FirstBefore ==
    ASSUME WellHome, NetInv, [Next]_vars, [NetNext]_allVars, NEW f \in Flow, First(f)'
    PROVE  First(f)
<1>1. \A r \in Asked(f, "delete") : rest[r].pc = "new"
  <2>1. \A r \in Asked(f, "delete") : rest'[r].pc = "new"
    BY DEF First
  <2> QED
    BY <2>1, RequestsBegin DEF NetInv, Asked
<1>2. CASE UNCHANGED detected
  BY <1>1, <1>2 DEF First
<1>3. ASSUME NEW c \in Conn, DetectLive(c) PROVE First(f)
  <2>1. detected' = Append(detected, sent) /\ detected \in Seq(Flow) /\ sent \in Flow
    BY <1>3, DetectedFlow DEF NetInv, Plane!FrameInv
  <2>2. /\ \A i \in DOMAIN detected : i \in DOMAIN detected' /\ detected'[i] = detected[i]
        /\ detected' # <<>>
        /\ detected # <<>> => 1 \in DOMAIN detected
    BY <2>1
  <2> QED
    BY <1>1, <2>2 DEF First
<1> QED
  BY <1>2, <1>3, DetectedGrows

\* What happens to the application's queue but for packets that are detected or
\* handled.
QueueMoves ==
    \/ events' = events
    \/ \E e : e.type # "packet_in" /\ events' = Append(events, e)
    \/ events # <<>> /\ events' = Tail(events) /\ Head(events).type # "packet_in"

LEMMA QueueKept ==
    ASSUME TypeOK, QueueMoves, NEW f
    PROVE  /\ NoPacketIn => NoPacketIn'
           /\ Silent(f) => Silent(f)'
           /\ Heads(f) => Heads(f)'
<1>1. CASE events' = events
  BY <1>1 DEF NoPacketIn, Silent, Heads, Hears
<1>2. ASSUME NEW e, e.type # "packet_in", events' = Append(events, e)
      PROVE  /\ NoPacketIn => NoPacketIn'
             /\ Silent(f) => Silent(f)'
             /\ Heads(f) => Heads(f)'
  <2>1. /\ \A i \in DOMAIN events : i \in DOMAIN events' /\ events'[i] = events[i]
        /\ \A i \in DOMAIN events' :
              i \in DOMAIN events \/ (i = Len(events) + 1 /\ events'[i] = e)
    BY <1>2, EndStays
  <2>2. \A i \in DOMAIN events' : events'[i].type = "packet_in" => i \in DOMAIN events
    BY <1>2, <2>1
  <2> QED
    BY <2>1, <2>2 DEF NoPacketIn, Silent, Heads, Hears
<1>3. CASE events # <<>> /\ events' = Tail(events) /\ Head(events).type # "packet_in"
  <2>1. /\ 1 \in DOMAIN events /\ events[1] = Head(events)
        /\ \A i \in DOMAIN events' :
              i \in Nat /\ i + 1 \in DOMAIN events /\ events'[i] = events[i + 1]
    BY <1>3, EndMoves
  <2>2. /\ DOMAIN events = 1..Len(events) /\ DOMAIN events' = 1..(Len(events) - 1)
        /\ Len(events) \in Nat \ {0}
    BY <1>3, HeadTailProperties, LenProperties, EmptySeq DEF TypeOK
  <2>3. NoPacketIn => NoPacketIn'
    BY <2>1 DEF NoPacketIn
  <2>4. Silent(f) => Silent(f)'
    BY <2>1 DEF Silent, Hears
  <2>5. ASSUME Heads(f) PROVE Heads(f)'
    <3>1. PICK i \in DOMAIN events :
             /\ Hears(i, f)
             /\ \A j \in DOMAIN events :
                   events[j].type = "packet_in" /\ j # i => j > i /\ events[j].flow # f
      BY <2>5 DEF Heads
    <3>2. i # 1 /\ i - 1 \in DOMAIN events' /\ (i - 1) + 1 = i
      BY <1>3, <2>1, <2>2, <3>1 DEF Hears
    <3>3. events'[i - 1] = events[i]
      BY <2>1, <3>2
    <3>4. ASSUME NEW j \in DOMAIN events', events'[j].type = "packet_in", j # i - 1
          PROVE  j > i - 1 /\ events'[j].flow # f
      <4>1. j + 1 \in DOMAIN events /\ events[j + 1] = events'[j] /\ j + 1 # i /\ j \in Nat
        BY <2>1, <2>2, <3>2, <3>4
      <4>2. j + 1 > i /\ events[j + 1].flow # f
        BY <3>1, <3>4, <4>1
      <4> QED
        BY <2>2, <4>1, <4>2
    <3>5. Hears(i - 1, f)'
      BY <3>1, <3>3 DEF Hears
    <3> QED
      BY <3>2, <3>4, <3>5 DEF Heads
  <2> QED
    BY <2>3, <2>4, <2>5
<1> QED
  BY <1>1, <1>2, <1>3 DEF QueueMoves

\* No entry that hands packets to a function comes anywhere.
NoNewTaking == \A s \in Switch : \A e \in Final(s)' : IsTaking(e) => e \in Final(s)

LEMMA TakingKept ==
    ASSUME TypeInv, Ready, Ready', [Next]_vars, NoNewTaking, NEW f \in Flow
    PROVE  /\ NoneTaking => NoneTaking'
           /\ /\ OwnTaking(f)
              /\ \A i \in DOMAIN Path1(f) : \A k \in Turns(f, i) :
                    Sent(f, i, k) => Sent(f, i, k)'
              => OwnTaking(f)'
           /\ NoneTaking => OwnTaking(f)'
<1>1. \A s \in Switch : \A e \in Final(s)' : IsTaking(e) => e \in Final(s)
  BY DEF NoNewTaking
<1>2. NoneTaking => NoneTaking'
  BY <1>1 DEF NoneTaking, IsTaking
<1>3. ASSUME OwnTaking(f),
             \A i \in DOMAIN Path1(f) : \A k \in Turns(f, i) :
                Sent(f, i, k) => Sent(f, i, k)',
             NEW s \in Switch, NEW e \in Final(s)', IsTaking(e)
      PROVE  \E i \in DOMAIN Path1(f) : \E k \in Turns(f, i) :
                e = ChainMod(f, i, k)'.entry /\ Sent(f, i, k)'
  <2>1. e \in Final(s)
    BY <1>1, <1>3
  <2>2. PICK i \in DOMAIN Path1(f) : \E k \in Turns(f, i) :
           e = ChainMod(f, i, k).entry /\ Sent(f, i, k)
    BY <1>3, <2>1 DEF OwnTaking
  <2>3. PICK k \in Turns(f, i) : e = ChainMod(f, i, k).entry /\ Sent(f, i, k)
    BY <2>2
  <2>4. ChainMod(f, i, k)' = ChainMod(f, i, k)
    BY ChainKept
  <2> QED
    BY <1>3, <2>3, <2>4
<1>4. ASSUME NoneTaking PROVE OwnTaking(f)'
  BY <1>2, <1>4 DEF NoneTaking, OwnTaking, IsTaking, Path1, Turns
<1> QED
  BY <1>2, <1>3, <1>4 DEF OwnTaking, IsTaking, Path1, Turns

\* Most steps leave the flow where it is.
LEMMA StageKept ==
    ASSUME TypeInv, Ready, Ready', [Next]_vars, NoNewTaking, NEW f \in Flow, Stage(f),
           QueueMoves, UNCHANGED detected, task' = task \/ (~ Handling /\ ~ Handling'),
           Sources(f) # {} => Sources(f)' # {}
    PROVE  Stage(f)'
<1>1. /\ NoneTaking => NoneTaking'
      /\ NoPacketIn => NoPacketIn'
      /\ Silent(f) => Silent(f)'
      /\ Heads(f) => Heads(f)'
  BY TakingKept, QueueKept DEF TypeInv
<1>2. /\ Handling' => task' = task /\ Handling
      /\ Handling => task' = task /\ Handling'
  BY DEF Handling
<1>3. CASE Unheard
  BY <1>1, <1>2, <1>3 DEF Unheard, Stage
<1>4. CASE detected # <<>> /\ Waiting(f)
  BY <1>1, <1>2, <1>4 DEF Waiting, Stage
<1>5. CASE detected # <<>> /\ Entering(f)
  BY <1>1, <1>2, <1>5 DEF Entering, Stage
<1>6. CASE detected # <<>> /\ Linked(f)
  <2>1. Sources(f)' # {} /\ Silent(f)'
    BY <1>1, <1>6 DEF Linked
  <2>2. ASSUME Handling', task'.flow = f PROVE task'.pc = "chain" /\ OwnTaking(f)'
    <3>1. task' = task /\ Handling /\ task.flow = f
      BY <1>2, <2>2
    <3>2. task.pc = "chain" /\ OwnTaking(f)
      BY <1>6, <3>1 DEF Linked
    <3>3. \A i \in DOMAIN Path1(f) : \A k \in Turns(f, i) :
             Sent(f, i, k) => Sent(f, i, k)'
      BY <3>1 DEF Sent
    <3> QED
      BY <3>1, <3>2, <3>3, TakingKept
  <2> QED
    BY <1>6, <2>1, <2>2 DEF Linked, Stage
<1> QED
  BY <1>3, <1>4, <1>5, <1>6 DEF Stage

\* The handler begins with the flow's packet, or with that of another flow.
LEMMA StageDetection ==
    ASSUME TypeInv, AddedTranslatable, Ready, Ready', [Next]_vars, NEW f \in Flow,
           Stage(f), StartDetection, UNCHANGED detected
    PROVE  Stage(f)'
<1>1. /\ task = NoTask /\ events # <<>> /\ events' = Tail(events)
      /\ UNCHANGED <<link, chan, table, datapaths, rest, vnf>>
      /\ Head(events).type = "packet_in" /\ Head(events).flow \in Flow
      /\ TypeOK /\ ~ Handling
  BY DetectionStep DEF TypeInv, Handling
<1>2. /\ 1 \in DOMAIN events /\ events[1] = Head(events)
      /\ \A i \in DOMAIN events' :
            i \in Nat /\ i + 1 \in DOMAIN events /\ events'[i] = events[i + 1]
  BY <1>1, EndMoves
<1>3. PICK g \in Flow : g = Head(events).flow
  BY <1>1
<1>4. task' # NoTask /\ task'.flow = g /\ task'.pc \in {"delete", "source"}
  <2>1. Bidirectional(g, 1)
    <3>1. 1 \in DOMAIN Path1(g)
      BY <1>1, PathType
    <3> QED
      BY <3>1 DEF Ready
  <2>2. ~ Forgotten(g)
    BY <1>1, <1>2, <1>3 DEF Forgotten
  <2>3. Translatable(g)
    BY <2>2 DEF AddedTranslatable
  <2> QED
    BY <1>3, <2>1, <2>3, DetectionStep
<1>5. \A s \in Switch : Final(s)' = Final(s)
  BY <1>1, FinalSame
<1>6. NoneTaking => NoneTaking'
  BY <1>5 DEF NoneTaking, IsTaking
<1>7. CASE detected # <<>> /\ Waiting(f)
  <2>1. PICK i \in DOMAIN events :
           /\ Hears(i, f)
           /\ \A j \in DOMAIN events :
                 events[j].type = "packet_in" /\ j # i => j > i /\ events[j].flow # f
    BY <1>7 DEF Waiting, Heads
  <2>2. i = 1 /\ g = f
    <3>1. DOMAIN events = 1..Len(events)
      BY <1>1, LenProperties DEF TypeOK
    <3> QED
      BY <1>1, <1>2, <1>3, <2>1, <3>1 DEF Hears
  <2>3. Silent(f)'
    <3>1. DOMAIN events' = 1..Len(events')
      BY <1>1, HeadTailProperties, LenProperties, EmptySeq DEF TypeOK
    <3>2. \A j \in DOMAIN events' : j + 1 # 1
      BY <3>1
    <3> QED
      BY <1>2, <2>1, <2>2, <3>2 DEF Silent, Hears
  <2> QED
    BY <1>4, <1>6, <1>7, <2>2, <2>3 DEF Waiting, Stage, Entering, Handling
<1>8. CASE detected # <<>> /\ Linked(f)
  <2>1. g # f /\ Silent(f)'
    BY <1>1, <1>2, <1>3, <1>8 DEF Linked, Silent, Hears
  <2>2. Sources(f)' # {}
    BY <1>5, <1>8 DEF Linked, Sources, IsSource
  <2> QED
    BY <1>4, <1>8, <2>1, <2>2 DEF Stage, Linked
<1>9. ~ Unheard /\ ~ Entering(f)
  BY <1>1, <1>2 DEF Unheard, NoPacketIn, Entering
<1> QED
  BY <1>7, <1>8, <1>9 DEF Stage

\* It deletes for a flow.
LEMMA StageDeletes ==
    ASSUME TypeInv, Ready, Ready', [Next]_vars, NoNewTaking, NEW f \in Flow, Stage(f),
           DeleteCatching, UNCHANGED detected,
           Sources(f) # {} /\ task.flow # f => Sources(f)' # {}
    PROVE  Stage(f)'
<1>1. /\ task # NoTask /\ task.pc = "delete" /\ task.flow \in Flow
      /\ UNCHANGED <<link, table, datapaths, events, rest, vnf>> /\ Handling
  BY DeleteStep DEF Handling
<1>2. PICK g \in Flow : g = task.flow
  BY <1>1
<1>3. task' # NoTask /\ task'.flow = g /\ task'.pc \in {"delete", "source"}
  <2>1. 1 \in DOMAIN Path1(g)
    BY PathType DEF TypeInv
  <2>2. Bidirectional(g, 1)
    BY <2>1 DEF Ready
  <2> QED
    BY <1>2, <2>2, DeleteStep
<1>4. (NoneTaking => NoneTaking') /\ (Silent(f) => Silent(f)')
  BY <1>1, TakingKept DEF Silent, Hears
<1>5. CASE detected # <<>> /\ Entering(f)
  BY <1>2, <1>3, <1>4, <1>5 DEF Stage, Entering, Handling
<1>6. CASE detected # <<>> /\ Linked(f)
  BY <1>1, <1>2, <1>3, <1>4, <1>6 DEF Stage, Linked, Handling
<1> QED
  BY <1>1, <1>5, <1>6 DEF Stage, Unheard, Waiting

\* It sends a source entry, the flow's or another.
LEMMA StageSource ==
    ASSUME TypeInv, MetInv, OneAtATime, NoneLost, Ready, Ready', [Next]_vars, NoNewTaking,
           NEW f \in Flow, Stage(f),
           SendSource, UNCHANGED detected, Sources(f) # {} => Sources(f)' # {}
    PROVE  Stage(f)'
<1>1. /\ task # NoTask /\ task.pc = "source" /\ task.flow \in Flow
      /\ task.conn \in Conn /\ task.port \in Port /\ VnfAt(task.flow, 1) \in VnfRow
      /\ Send(task.conn, SourceMod(task.flow, task.port, VnfAt(task.flow, 1)))
      /\ UNCHANGED <<link, table, datapaths, events, rest, vnf>>
      /\ task' # NoTask /\ task'.pc = "chain" /\ task'.flow = task.flow
      /\ Handling /\ TypeOK
  BY SourceStep DEF Handling, TypeInv
<1>2. PICK g \in Flow : g = task.flow
  BY <1>1
<1>3. (NoneTaking => NoneTaking' /\ OwnTaking(f)') /\ (Silent(f) => Silent(f)')
  BY <1>1, TakingKept DEF Silent, Hears
<1>4. CASE detected # <<>> /\ Entering(f)
  <2>1. PICK c \in Conn, p \in Port, row \in VnfRow :
           c = task.conn /\ p = task.port /\ row = VnfAt(task.flow, 1)
    BY <1>1
  <2>2. SourceMod(f, p, row) \in FlowMod /\ Send(c, SourceMod(f, p, row))
    BY <1>1, <1>4, <2>1, SourceModType DEF Entering
  <2>3. link[c] \in {"config", "main"} /\ Dpid(c) \in Switch
    BY <1>1, <2>1, MetIsUp, ConnParts DEF MetInv, MetTask
  <2>4. PICK mod \in FlowMod : mod = SourceMod(f, p, row)
    BY <2>2
  <2>5. mod.cmd = "add" /\ IsSource(mod.entry, f)
    BY <2>4 DEF SourceMod, AddMod, IsSource
  <2>6. mod.entry \in Final(Dpid(c))'
    BY <1>1, <2>2, <2>3, <2>4, <2>5, FinalSent
  <2>7. Sources(f)' # {}
    BY <2>3, <2>5, <2>6, SourcesAre DEF SourceAt, IsSource
  <2> QED
    BY <1>1, <1>3, <1>4, <2>7 DEF Stage, Entering, Linked
<1>5. CASE detected # <<>> /\ Linked(f)
  BY <1>1, <1>2, <1>3, <1>5 DEF Stage, Linked, Handling
<1> QED
  BY <1>1, <1>4, <1>5 DEF Stage, Unheard, Waiting

\* It sends an entry of the flow's chain, or of another.
LEMMA StageChain ==
    ASSUME TypeInv, MetInv, OneAtATime, EntriesFromRows, ChainInv, NoneLost, NoneLost',
           Ready, Ready', [Next]_vars, NEW f \in Flow, Stage(f),
           AbandonChain \/ SkipVnf \/ SendHop \/ SendEnd, UNCHANGED detected,
           Sources(f) # {} => Sources(f)' # {}
    PROVE  Stage(f)'
<1>1. /\ task # NoTask /\ task.pc = "chain" /\ task.flow \in Flow /\ Handling
      /\ UNCHANGED <<link, table, datapaths, events, rest, vnf>>
      /\ \/ task' = NoTask
         \/ task' # NoTask /\ task'.pc = "chain" /\ task'.flow = task.flow
  BY ChainStep DEF Handling
<1>2. Silent(f) => Silent(f)'
  BY <1>1 DEF Silent, Hears
<1>3. CASE detected # <<>> /\ Linked(f)
  <2>1. Sources(f)' # {} /\ Silent(f)'
    BY <1>2, <1>3 DEF Linked
  <2>2. ASSUME Handling', task'.flow = f PROVE task'.pc = "chain" /\ OwnTaking(f)'
    <3>1. task' # NoTask /\ task'.pc = "chain" /\ task.flow = f /\ OwnTaking(f)
      BY <1>1, <1>3, <2>2 DEF Handling, Linked
    <3>2. PICK p, q : p = task.pos /\ q = task.step
      OBVIOUS
    <3>3. /\ p \in DOMAIN Path1(f) /\ q \in Turns(f, p)
          /\ \/ task'.pos = p /\ task'.step = q + 1
             \/ task'.pos = p + 1 /\ task'.step = 1
      BY <1>1, <3>1, <3>2, ReadyTurn DEF ChainInv
    <3>4. DOMAIN Path1(f) \subseteq Nat /\ \A i : Turns(f, i) \subseteq Nat
      BY ServiceAssumption, PathAssumption, LenProperties DEF Path1, Turns
    <3>5. Sent(f, p, q)'
      BY <3>1, <3>3, <3>4 DEF Sent
    <3>6. \A i \in DOMAIN Path1(f) : \A k \in Turns(f, i) : Sent(f, i, k) => Sent(f, i, k)'
      BY <1>1, <3>1, <3>2, <3>3, <3>4 DEF Sent
    <3>7. ASSUME NEW s \in Switch, NEW e \in Final(s)', IsTaking(e)
          PROVE  \E i \in DOMAIN Path1(f) : \E k \in Turns(f, i) :
                    e = ChainMod(f, i, k)'.entry /\ Sent(f, i, k)'
      <4>1. \E i \in DOMAIN Path1(f) : \E k \in Turns(f, i) :
               e = ChainMod(f, i, k).entry /\ Sent(f, i, k)'
        <5>1. CASE e \in Final(s)
          BY <3>1, <3>6, <3>7, <5>1 DEF OwnTaking
        <5>2. CASE e \notin Final(s)
          BY <3>1, <3>2, <3>3, <3>5, <3>7, <5>2, NewTaking
        <5> QED
          BY <5>1, <5>2
      <4>2. PICK i \in DOMAIN Path1(f) : \E k \in Turns(f, i) :
               e = ChainMod(f, i, k).entry /\ Sent(f, i, k)'
        BY <4>1
      <4>3. PICK k \in Turns(f, i) : e = ChainMod(f, i, k).entry /\ Sent(f, i, k)'
        BY <4>2
      <4>4. ChainMod(f, i, k)' = ChainMod(f, i, k)
        BY ChainKept
      <4> QED
        BY <4>3, <4>4
    <3> QED
      BY <3>1, <3>7 DEF OwnTaking, IsTaking, Path1, Turns
  <2> QED
    BY <1>3, <2>1, <2>2 DEF Linked, Stage
<1> QED
  BY <1>1, <1>3 DEF Stage, Unheard, Waiting, Entering

\* The other steps of the controller and the switches neither handle a packet of
\* a flow nor put one on the queue.
LEMMA OtherSteps ==
    ASSUME TypeInv,
           \/ \E c \in Conn : LinkStep(c)
           \/ \E c \in Conn, d \in Datagram : RegisterPacket(c, d)
           \/ \E r \in Request : Serve(r)
           \/ RegisterDatapath \/ UnregisterDatapath \/ RegisterVnf
           \/ StartDefaults \/ SendDefault \/ LoopBlocks
    PROVE  QueueMoves /\ (task' = task \/ (~ Handling /\ ~ Handling'))
<1>1. CASE \E c \in Conn : LinkStep(c)
  BY <1>1 DEF LinkStep, Connect, EnterMain, Drop, Notice, ReportDead, ApplyMod, Enqueue, QueueMoves
<1>2. CASE \E c \in Conn, d \in Datagram : RegisterPacket(c, d)
  BY <1>2 DEF RegisterPacket, Enqueue, QueueMoves
<1>3. CASE \E r \in Request : Serve(r)
  BY <1>3 DEF Serve, StartRequest, NextDatapath, SendRequest, RequestBlocks, SetRest, QueueMoves
<1>4. CASE RegisterDatapath \/ UnregisterDatapath \/ RegisterVnf
  BY <1>4 DEF RegisterDatapath, UnregisterDatapath, RegisterVnf, NextEvent, HandledAtOnce, QueueMoves
<1>5. CASE StartDefaults
  BY <1>5, SetUpStep DEF QueueMoves, Handling
<1>6. CASE SendDefault
  BY <1>6, DefaultStep DEF QueueMoves, Handling
<1>7. CASE LoopBlocks
  BY <1>7 DEF LoopBlocks, QueueMoves
<1> QED
  BY <1>1, <1>2, <1>3, <1>4, <1>5, <1>6, <1>7

LEMMA StageControl ==
    ASSUME WellHome, Orderly, NoneLost', Ready', [Next]_vars, ControlStep, UNCHANGED detected,
           NEW f \in Flow, First(f), Stage(f)
    PROVE  Stage(f)'
<1>1. /\ TypeInv /\ MetInv /\ OneAtATime /\ EntriesFromRows /\ ChainInv /\ NoneLost
      /\ Ready /\ AddedTranslatable
  BY DEF Orderly, ControlInv
<1>2. Sources(f) # {} => Sources(f)' # {} \/ (DeleteCatching /\ task.flow = f)
  <2>1. ASSUME NEW r \in Asked(f, "delete"), SendRequest(r) PROVE FALSE
    BY <2>1 DEF First, SendRequest
  <2> QED
    BY <2>1, SourceKept
<1>3. CASE AbandonChain \/ SkipVnf \/ SendHop \/ SendEnd
  <2>1. ~ DeleteCatching
    BY <1>1, <1>3, ChainStep, DeleteStep
  <2> QED
    BY <1>1, <1>2, <1>3, <2>1, StageChain
<1>4. CASE ~ (AbandonChain \/ SkipVnf \/ SendHop \/ SendEnd)
  <2>1. NoNewTaking
    <3> SUFFICES ASSUME NEW s \in Switch, NEW e \in Final(s)', IsTaking(e), e \notin Final(s)
                 PROVE  FALSE
      BY DEF NoNewTaking
    <3> QED
      BY <1>1, <1>4, NewTaking
  <2>2. CASE DeleteCatching
    BY <1>1, <1>2, <2>1, <2>2, StageDeletes
  <2>3. CASE ~ DeleteCatching
    <3>1. Sources(f) # {} => Sources(f)' # {}
      BY <1>2, <2>3
    <3>2. CASE StartDetection
      BY <1>1, <3>2, StageDetection
    <3>3. CASE SendSource
      BY <1>1, <2>1, <3>1, <3>3, StageSource
    <3>4. CASE \/ \E c \in Conn : LinkStep(c)
               \/ \E c \in Conn, d \in Datagram : RegisterPacket(c, d)
               \/ \E r \in Request : Serve(r)
               \/ RegisterDatapath \/ UnregisterDatapath \/ RegisterVnf
               \/ StartDefaults \/ SendDefault \/ LoopBlocks
      <4>1. QueueMoves /\ (task' = task \/ (~ Handling /\ ~ Handling'))
        BY <1>1, <3>4, OtherSteps
      <4> QED
        BY <1>1, <2>1, <3>1, <4>1, StageKept
    <3> QED
      BY <1>4, <2>3, <3>2, <3>3, <3>4 DEF ControlStep, Loop, HandleEvent, RunTask
  <2> QED
    BY <2>2, <2>3
<1> QED
  BY <1>3, <1>4

\* A packet is detected: the first one, or one of another flow.
LEMMA StageDetected ==
    ASSUME WellHome, NetInv, Ready, Ready', [Next]_vars, NEW c \in Conn, DetectLive(c),
           NEW f \in Flow, First(f)', Stage(f)
    PROVE  Stage(f)'
<1>1. /\ events' = Append(events, [type |-> "packet_in", conn |-> c,
                                   port |-> at[2], flow |-> sent])
      /\ detected' = Append(detected, sent)
      /\ UNCHANGED <<link, chan, table, datapaths, task, rest, running, vnf>>
      /\ detected \in Seq(Flow) /\ sent \in Flow /\ TypeInv /\ TypeOK
  BY DetectedFlow DEF NetInv, Plane!FrameInv, TypeInv
<1>2. PICK e : e = [type |-> "packet_in", conn |-> c, port |-> at[2], flow |-> sent]
  OBVIOUS
<1>3. e.type = "packet_in" /\ e.flow = sent /\ events' = Append(events, e)
  BY <1>1, <1>2
<1>4. /\ \A i \in DOMAIN events : i \in DOMAIN events' /\ events'[i] = events[i]
      /\ \A i \in DOMAIN events' :
            i \in DOMAIN events \/ (i = Len(events) + 1 /\ events'[i] = e)
      /\ Len(events) + 1 \in DOMAIN events' /\ events'[Len(events) + 1] = e
  BY <1>1, <1>3, EndStays
<1>5. /\ detected = <<>> => sent = f
      /\ detected # <<>> => sent # f
      /\ detected' # <<>>
  <2>1. /\ DOMAIN detected' = 1..(Len(detected) + 1) /\ Len(detected) \in Nat
        /\ detected'[Len(detected) + 1] = sent
        /\ \A i \in 1..Len(detected) : detected'[i] = detected[i]
        /\ detected # <<>> => Len(detected) # 0
        /\ detected = <<>> => Len(detected) = 0
    BY <1>1
  <2>2. /\ detected' = <<>> \/ detected'[1] = f
        /\ \A i, j \in DOMAIN detected' : detected'[i] = f /\ detected'[j] = f => i = j
    BY DEF First
  <2>3. detected' # <<>>
    BY <2>1
  <2>4. ASSUME detected # <<>>, sent = f PROVE FALSE
    <3>1. Len(detected) # 0 /\ 1 \in DOMAIN detected' /\ Len(detected) + 1 \in DOMAIN detected'
      BY <2>1, <2>4
    <3>2. detected'[1] = f /\ detected'[Len(detected) + 1] = f
      BY <2>1, <2>2, <2>3, <2>4
    <3> QED
      BY <2>1, <2>2, <3>1, <3>2
  <2> QED
    BY <2>1, <2>2, <2>3, <2>4
<1>6. /\ NoneTaking => NoneTaking'
      /\ Sources(f)' = Sources(f)
      /\ OwnTaking(f) => OwnTaking(f)'
      /\ Handling' = Handling
  <2>1. \A s \in Switch : Final(s)' = Final(s)
    BY <1>1, FinalSame
  <2>2. NoNewTaking
    BY <2>1 DEF NoNewTaking
  <2>3. \A i, k : Sent(f, i, k)' <=> Sent(f, i, k)
    BY <1>1 DEF Sent
  <2>4. /\ NoneTaking => NoneTaking'
        /\ OwnTaking(f) => OwnTaking(f)'
    BY <1>1, <2>2, <2>3, TakingKept
  <2> QED
    BY <1>1, <2>1, <2>4 DEF Sources, IsSource, Handling
<1>7. CASE detected = <<>>
  <2>1. Unheard
    BY <1>7 DEF Stage
  <2>2. Heads(f)'
    <3>1. PICK k : k = Len(events) + 1
      OBVIOUS
    <3>2. k \in DOMAIN events' /\ Hears(k, f)'
      BY <1>3, <1>4, <1>5, <1>7, <3>1 DEF Hears
    <3>3. \A j \in DOMAIN events' : events'[j].type = "packet_in" => j = k
      BY <1>4, <2>1, <3>1 DEF Unheard, NoPacketIn
    <3> QED
      BY <3>2, <3>3 DEF Heads
  <2> QED
    BY <1>5, <1>6, <2>1, <2>2 DEF Unheard, Stage, Waiting
<1>8. CASE detected # <<>> /\ Waiting(f)
  <2>1. PICK i \in DOMAIN events :
           /\ Hears(i, f)
           /\ \A j \in DOMAIN events :
                 events[j].type = "packet_in" /\ j # i => j > i /\ events[j].flow # f
    BY <1>8 DEF Waiting, Heads
  <2>2. i < Len(events) + 1
    BY <1>1, LenProperties DEF TypeOK
  <2>3. Heads(f)'
    BY <1>3, <1>4, <1>5, <1>8, <2>1, <2>2 DEF Heads, Hears
  <2> QED
    BY <1>5, <1>6, <1>8, <2>3 DEF Stage, Waiting
<1>9. CASE detected # <<>> /\ (Entering(f) \/ Linked(f))
  <2>1. Silent(f) => Silent(f)'
    BY <1>3, <1>4, <1>5, <1>9 DEF Silent, Hears
  <2> QED
    BY <1>1, <1>5, <1>6, <1>9, <2>1 DEF Stage, Entering, Linked
<1> QED
  BY <1>7, <1>8, <1>9 DEF Stage, Unheard

LEMMA NextStage ==
    ASSUME WellHome, NetInv, Orderly, NoneLost', Ready', [Next]_vars, [NetNext]_allVars,
           StageInv
    PROVE  StageInv'
<1> SUFFICES ASSUME NEW f \in Flow, First(f)' PROVE Stage(f)'
  BY DEF StageInv
<1>1. First(f) /\ Stage(f)
  BY FirstBefore DEF StageInv
<1>2. CASE ControlStep /\ UNCHANGED detected
  BY <1>1, <1>2, StageControl
<1>3. ASSUME NEW c \in Conn, DetectLive(c) PROVE Stage(f)'
  BY <1>1, <1>3, StageDetected DEF Orderly
<1>4. CASE UNCHANGED <<vars, detected>>
  <2>1. QueueMoves /\ task' = task /\ UNCHANGED <<link, table, chan>>
    BY <1>4 DEF vars, QueueMoves
  <2>2. \A s \in Switch : Final(s)' = Final(s)
    BY <2>1, FinalSame
  <2>3. NoNewTaking /\ Sources(f)' = Sources(f)
    BY <2>2 DEF NoNewTaking, Sources, IsSource
  <2> QED
    BY <1>1, <1>4, <2>1, <2>3, StageKept DEF Orderly, NetInv
<1> QED
  BY <1>2, <1>3, <1>4, DetectedGrows

-----------------------------------------------------------------------------
\* What the lemmas about the packet call it, in the controller's terms.
LEMMA StandsAt ==
    ASSUME TypeOK, WellHome, AllAtHome, Ready, NEW f \in Flow, NEW i \in DOMAIN Path1(f)
    PROVE  /\ F!Stands(f, i) = VnfAt(f, i) /\ F!Count(f) = Len(Path1(f))
           /\ \A e : F!Catches(e, f) <=> IsCatch(e, f)
           /\ \A e : F!Takes(e, f, i) <=>
                 /\ IsTaking(e)
                 /\ e.match = NshMatch(ServiceOf[f], Len(Path1(f)) + 1 - i)
                                \cup {<<"eth_dst", VnfAt(f, i).locator_addr>>}
           /\ \A e : F!Resumes(e, f, i) <=>
                 /\ e.table = 0 /\ e.priority = 6
                 /\ e.match = MiddleFields(f) \cup {<<"in_port", VnfAt(f, i).in_port>>}
<1>1. Len(Path1(f)) \in Nat \ {0} /\ DOMAIN Path1(f) = 1..Len(Path1(f))
  BY PathType, ServiceAssumption, PathAssumption, LenProperties DEF Path1
<1>2. VnfAt(f, i) = Home[Path1(f)[i][1]]
  BY <1>1, AtHome DEF Ready
<1>3. F!Stands(f, i) = VnfAt(f, i) /\ F!Count(f) = Len(Path1(f))
  BY <1>2 DEF F!Stands, F!Service, Path1, F!Count
<1> QED
  BY <1>3, RulesOfF DEF F!Catches, IsCatch, F!Takes, IsTaking, F!NshMatch, NshMatch, F!Resumes

\* When everything sent has arrived, a switch that hands packets of the flow to a
\* function takes them back from it, and does not detect them.
LEMMA FinalGuarded ==
    ASSUME WellHome, Orderly, NEW f \in Flow, First(f), Stage(f), NEW i \in DOMAIN Path1(f)
    PROVE  F!Guarded(Final(VnfAt(f, i).dpid), f, i)
<1>0. /\ TypeInv /\ TypeOK /\ ChainInv /\ Ready /\ AllAtHome /\ DetectionReplaced /\ CountingDown
      /\ RowsApart
  BY HomeRules DEF Orderly, ControlInv, TypeInv, HomeInv
<1>1. /\ Len(Path1(f)) \in Nat \ {0} /\ DOMAIN Path1(f) = 1..Len(Path1(f))
      /\ VnfAt(f, i).dpid \in Switch
  BY <1>0, PathType, ServiceAssumption, PathAssumption, LenProperties DEF Path1, Ready, VnfRow
<1>2. PICK s \in Switch : s = VnfAt(f, i).dpid
  BY <1>1
<1> SUFFICES ASSUME NEW e \in Final(s), F!Takes(e, f, i)
             PROVE  /\ \A x \in Final(s) : ~ IsCatch(x, f)
                    /\ i < Len(Path1(f)) => \E x \in Final(s) : F!Resumes(x, f, i)
  BY <1>0, <1>2, StandsAt DEF F!Guarded
<1>3. /\ IsTaking(e)
      /\ e.match = NshMatch(ServiceOf[f], Len(Path1(f)) + 1 - i)
                     \cup {<<"eth_dst", VnfAt(f, i).locator_addr>>}
  BY <1>0, StandsAt
<1>4. Linked(f)
  BY <1>3 DEF Stage, Unheard, Waiting, Entering, NoneTaking
<1>5. \A x \in Final(s) : ~ IsCatch(x, f)
  BY <1>0, <1>4 DEF Linked, DetectionReplaced
<1>6. ASSUME i < Len(Path1(f)) PROVE \E x \in Final(s) : F!Resumes(x, f, i)
  <2>1. 2 \in Turns(f, i) /\ 3 \in Turns(f, i) /\ i # Len(Path1(f))
    BY <1>1, <1>6 DEF Turns
  <2>2. ~ Deleting(f)
    BY <1>4 DEF Linked, Deleting, Handling, First
  <2>3. Sent(f, i, 2)
    <3> SUFFICES ASSUME task # NoTask, task.pc = "chain", task.flow = f
                 PROVE  i < task.pos \/ (i = task.pos /\ 2 < task.step)
      BY DEF Sent
    <3>1. OwnTaking(f)
      BY <1>4 DEF Linked, Handling
    <3>2. PICK j \in DOMAIN Path1(f) : \E k \in Turns(f, j) :
             e = ChainMod(f, j, k).entry /\ Sent(f, j, k)
      BY <1>3, <3>1 DEF OwnTaking
    <3>3. PICK k \in Turns(f, j) : e = ChainMod(f, j, k).entry /\ Sent(f, j, k)
      BY <3>2
    <3>4. IsDecap(e, f, j, k)
      BY <1>0, <1>3, <3>3, ChainShape DEF IsTaking, IsProxy, IsMiddle
    <3>5. IsDecap(e, f, i, 3)
      BY <1>3, <2>1 DEF IsTaking, IsDecap
    <3>6. Len(Path1(f)) + 1 - i = Len(Path1(f)) + 1 - j
      BY <3>4, <3>5, DecapFields
    <3>7. j = i
      BY <1>1, <3>6
    <3>8. k = 3
      BY <2>1, <3>4, <3>7 DEF IsDecap
    <3>9. i < task.pos \/ (i = task.pos /\ 3 < task.step)
      BY <3>3, <3>7, <3>8 DEF Sent
    <3>10. task.step \in 1..3
      BY <1>0, PacketTaskType DEF TypeOK
    <3> QED
      BY <3>9, <3>10
  <2>4. PICK x \in Final(s) : SameEffect(ChainMod(f, i, 2).entry, x)
    BY <1>0, <1>2, <1>4, <2>1, <2>2, <2>3 DEF ChainInv, Linked, InPlace
  <2>5. ChainMod(f, i, 2) = MiddleMod(f, Path1(f)[i + 1][2], VnfAt(f, i), VnfAt(f, i + 1))
    BY <2>1, HopMods DEF ChainMod
  <2>6. F!Resumes(x, f, i)
    BY <1>0, <2>4, <2>5, StandsAt DEF SameEffect, MiddleMod, AddMod
  <2> QED
    BY <2>6
<1> QED
  BY <1>5, <1>6

-----------------------------------------------------------------------------
\* The tables on the way: a switch takes what it was sent in order.
Upto(q, m) == [j \in 1..m |-> q[j]]
Switched(c, m) == After(table[Dpid(c)], Upto(chan[c], m))
IsLive(c) == link[c] \in {"config", "main"}

\* The queue of a connection that is not empty: it stays, grows, or its switch
\* takes the first FlowMod.
LEMMA QueueSteps ==
    ASSUME TypeInv, MetInv, OneAtATime, EntriesFromRows, ChainInv, Ready, NoneLost,
           NoneLost', [Next]_vars, NEW c \in Conn, IsLive(c)', chan'[c] # <<>>
    PROVE  /\ IsLive(c)
           /\ \/ ApplyMod(c)
              \/ /\ table'[Dpid(c)] = table[Dpid(c)]
                 /\ \/ chan'[c] = chan[c]
                    \/ \E mod \in FlowMod : chan'[c] = Append(chan[c], mod)
<1>0. TypeOK /\ EntriesFromRows' /\ Dpid(c) \in Switch /\ link'[c] \in {"config", "main"}
  BY NextOwn, ConnParts DEF TypeInv, IsLive
<1>1. CASE UNCHANGED <<link, table, chan>>
  BY <1>0, <1>1 DEF IsLive
<1>2. CASE Loop \/ \E r \in Request : Serve(r)
  <2>1. /\ UNCHANGED <<link, table>>
        /\ \/ chan' = chan
           \/ \E d \in Conn, mod \in FlowMod :
                 /\ link[d] \in {"config", "main"} /\ Send(d, mod)
                 /\ SentTo(d, mod)
    BY <1>0, <1>2, AppSends
  <2>2. ASSUME NEW d \in Conn, NEW mod \in FlowMod, Send(d, mod)
        PROVE  chan'[c] = chan[c] \/ chan'[c] = Append(chan[c], mod)
    BY <1>0, <2>2, SentOn
  <2> QED
    BY <1>0, <2>1, <2>2 DEF IsLive
<1>3. CASE \E d \in Conn : LinkStep(d)
  <2>1. PICK d \in Conn : LinkStep(d)
    BY <1>3
  <2>2. CASE Connect(d)
    <3>1. d # c
      <4>1. d = c => link[c] = "none" /\ chan'[c] = chan[c]
        BY <2>2 DEF Connect
      <4> QED
        BY <4>1 DEF MetInv, Met
    <3> QED
      BY <1>0, <2>2, <3>1 DEF Connect, IsLive, TypeOK
  <2>3. CASE EnterMain(d)
    BY <1>0, <2>3 DEF EnterMain, IsLive, TypeOK
  <2>4. CASE Drop(d)
    <3>1. link'[d] = "stale"
      BY <1>0, <2>4 DEF Drop, TypeOK
    <3> QED
      BY <3>1 DEF NoneLost, Gone
  <2>5. CASE Notice(d) \/ ReportDead(d)
    BY <2>5 DEF Notice, ReportDead, NoneLost, Gone, Ended
  <2>6. CASE ApplyMod(d)
    <3>1. link[d] \in {"config", "main"} /\ link' = link
      BY <2>6 DEF ApplyMod
    <3>2. CASE d # c
      <4>1. Dpid(d) # Dpid(c)
        BY <1>0, <3>1, <3>2, OneUp
      <4>2. chan'[c] = chan[c] /\ table'[Dpid(c)] = table[Dpid(c)]
        BY <1>0, <2>6, <3>2, <4>1, TakenOn, AppliedOn
      <4> QED
        BY <1>0, <3>1, <4>2 DEF IsLive
    <3> QED
      BY <1>0, <2>6, <3>1, <3>2 DEF IsLive
  <2> QED
    BY <2>1, <2>2, <2>3, <2>4, <2>5, <2>6 DEF LinkStep
<1>4. CASE \/ \E d \in Conn, t \in Traffic : DetectPacket(d, t)
           \/ \E d \in Conn, x \in Datagram : RegisterPacket(d, x)
  BY <1>0, <1>4 DEF DetectPacket, RegisterPacket, network, IsLive
<1> QED
  BY <1>1, <1>2, <1>3, <1>4 DEF Next, vars

LEMMA UptoIs ==
    ASSUME NEW q \in Seq(FlowMod), NEW m \in 0..Len(q)
    PROVE  /\ Upto(q, m) \in Seq(FlowMod) /\ Len(Upto(q, m)) = m
           /\ m = Len(q) => Upto(q, m) = q
           /\ m = 0 => Upto(q, m) = <<>>
           /\ \A mod : Upto(Append(q, mod), m) = Upto(q, m)
           /\ m # 0 => /\ q # <<>> /\ Upto(q, m) # <<>> /\ Upto(q, m)[1] = q[1]
                       /\ Upto(Tail(q), m - 1) = Tail(Upto(q, m))
<1>1. Len(q) \in Nat /\ DOMAIN q = 1..Len(q) /\ m \in Nat /\ \A j \in 1..Len(q) : q[j] \in FlowMod
  BY LenProperties, ElementOfSeq
<1>2. Upto(q, m) \in Seq(FlowMod) /\ Len(Upto(q, m)) = m
  <2>1. Upto(q, m) \in [1..m -> FlowMod]
    BY <1>1 DEF Upto
  <2> QED
    BY <1>1, <2>1, SeqDef, LenProperties
<1>3. m = Len(q) => Upto(q, m) = q
  BY <1>1 DEF Upto
<1>4. m = 0 => Upto(q, m) = <<>>
  BY <1>2, EmptySeq
<1>5. ASSUME NEW mod PROVE Upto(Append(q, mod), m) = Upto(q, m)
  BY <1>1 DEF Upto
<1>6. ASSUME m # 0
      PROVE  /\ q # <<>> /\ Upto(q, m) # <<>> /\ Upto(q, m)[1] = q[1]
             /\ Upto(Tail(q), m - 1) = Tail(Upto(q, m))
  BY <1>1, <1>2, <1>6, HeadTailProperties DEF Upto
<1> QED
  BY <1>2, <1>3, <1>4, <1>5, <1>6

\* What a switch takes from its queue does not undo what guards a flow.
LEMMA GuardedApplied ==
    ASSUME NEW tab, NEW q \in Seq(FlowMod), q # <<>>, NEW mod \in FlowMod, mod = q[1],
           NEW f, NEW i, F!Guarded(After(tab, q), f, i),
           \A e : F!Resumes(e, f, i) => PrereqOK(e.match)
    PROVE  F!Guarded(After(Apply(tab, mod), Tail(q)), f, i)
<1>1. After(Apply(tab, mod), Tail(q)) \subseteq After(tab, q)
  BY AfterApplied
<1> SUFFICES ASSUME NEW x \in After(Apply(tab, mod), Tail(q)), F!Takes(x, f, i)
             PROVE  /\ \A e \in After(Apply(tab, mod), Tail(q)) : ~ F!Catches(e, f)
                    /\ i < F!Count(f) =>
                          \E e \in After(Apply(tab, mod), Tail(q)) : F!Resumes(e, f, i)
  BY DEF F!Guarded
<1>2. /\ \A e \in After(tab, q) : ~ F!Catches(e, f)
      /\ i < F!Count(f) => \E e \in After(tab, q) : F!Resumes(e, f, i)
  BY <1>1 DEF F!Guarded
<1>3. ASSUME i < F!Count(f)
      PROVE  \E e \in After(Apply(tab, mod), Tail(q)) : F!Resumes(e, f, i)
  <2>1. PICK e \in After(tab, q) : F!Resumes(e, f, i)
    BY <1>2, <1>3
  <2>2. \/ e \in After(Apply(tab, mod), Tail(q))
        \/ /\ mod.cmd = "add" /\ e = mod.entry /\ ~ PrereqOK(mod.entry.match)
        \/ /\ mod.cmd = "add" /\ e.table = mod.entry.table
           /\ e.priority = mod.entry.priority /\ e.match = mod.entry.match
           /\ PrereqOK(mod.entry.match)
           /\ mod.entry \in After(Apply(tab, mod), Tail(q))
    BY AfterApplied
  <2> QED
    BY <2>1, <2>2 DEF F!Resumes
<1> QED
  BY <1>1, <1>2, <1>3

\* Once everything has arrived, and at every moment before: on the switch of a
\* function, what hands packets of the flow to it does so only where they are
\* taken back from it, and not detected.
GuardedAtLast ==
    \A f \in Flow : First(f) =>
        \A c \in Conn : \A i \in DOMAIN Path1(f) :
            IsLive(c) /\ VnfAt(f, i).dpid = Dpid(c) =>
               F!Guarded(After(table[Dpid(c)], chan[c]), f, i)
GuardedInv ==
    \A f \in Flow : First(f) =>
        \A c \in Conn : \A i \in DOMAIN Path1(f) :
            IsLive(c) /\ VnfAt(f, i).dpid = Dpid(c) =>
               \A m \in 0..Len(chan[c]) : F!Guarded(Switched(c, m), f, i)

LEMMA ArrivedGuarded ==
    ASSUME WellHome, Orderly, StageInv
    PROVE  GuardedAtLast
<1> SUFFICES ASSUME NEW f \in Flow, First(f), NEW c \in Conn, NEW i \in DOMAIN Path1(f),
                    IsLive(c), VnfAt(f, i).dpid = Dpid(c)
             PROVE  F!Guarded(After(table[Dpid(c)], chan[c]), f, i)
  BY DEF GuardedAtLast
<1>1. F!Guarded(Final(Dpid(c)), f, i)
  BY FinalGuarded DEF StageInv
<1>2. Final(Dpid(c)) = After(table[Dpid(c)], chan[c])
  BY LiveIs, FinalIs DEF Orderly, ControlInv, IsLive
<1> QED
  BY <1>1, <1>2

LEMMA NextGuarded ==
    ASSUME WellHome, Orderly, NoneLost', Ready', GuardedInv, GuardedAtLast', [Next]_vars,
           \A f \in Flow : First(f)' => First(f)
    PROVE  GuardedInv'
<1>0. /\ TypeInv /\ TypeOK /\ MetInv /\ OneAtATime /\ EntriesFromRows /\ ChainInv
      /\ Ready /\ NoneLost /\ AllAtHome /\ RowsAccepted /\ TypeOK'
  BY HomeRules, NextType DEF Orderly, ControlInv, TypeInv, HomeInv
<1> SUFFICES ASSUME NEW f \in Flow, First(f)', NEW c \in Conn, NEW i \in DOMAIN Path1(f),
                    IsLive(c)', VnfAt(f, i)'.dpid = Dpid(c), NEW m \in 0..Len(chan'[c])
             PROVE  F!Guarded(After(table'[Dpid(c)], Upto(chan'[c], m)), f, i)
  <2> SUFFICES ASSUME NEW f \in Flow, First(f)', NEW c \in Conn, NEW i \in DOMAIN Path1(f),
                      IsLive(c)', VnfAt(f, i)'.dpid = Dpid(c), NEW m \in 0..Len(chan'[c])
               PROVE  F!Guarded(Switched(c, m), f, i)'
    BY DEF GuardedInv, Path1
  <2>1. PICK tab : tab = After(table'[Dpid(c)], Upto(chan'[c], m))
    OBVIOUS
  <2>2. Switched(c, m)' = tab
    BY <2>1 DEF Switched, Upto, After, Survives, Covers
  <2>3. F!Guarded(tab, f, i)
    BY <2>1
  <2> QED
    BY <2>2, <2>3 DEF F!Guarded, F!Takes, F!Catches, F!Resumes
<1>1. chan[c] \in Seq(FlowMod) /\ chan'[c] \in Seq(FlowMod)
  BY <1>0 DEF TypeOK
<1>2. Len(chan[c]) \in Nat /\ Len(chan'[c]) \in Nat
  BY <1>1, LenProperties
<1>3. First(f) /\ VnfAt(f, i).dpid = Dpid(c)
  BY <1>0, ChainKept
<1>4. CASE m = Len(chan'[c])
  <2>1. Upto(chan'[c], m) = chan'[c]
    BY <1>1, <1>4, UptoIs
  <2>2. F!Guarded(After(table'[Dpid(c)], chan'[c]), f, i)
    BY DEF GuardedAtLast, After, Survives, Covers, F!Guarded, F!Takes, F!Catches, F!Resumes, Path1
  <2> QED
    BY <2>1, <2>2
<1>5. CASE m # Len(chan'[c])
  <2>1. chan'[c] # <<>>
    BY <1>2, <1>5
  <2>2. IsLive(c)
    BY <1>0, <2>1, QueueSteps
  <2>3. \A k \in 0..Len(chan[c]) : F!Guarded(After(table[Dpid(c)], Upto(chan[c], k)), f, i)
    BY <1>3, <2>2 DEF GuardedInv, Switched
  <2>4. CASE table'[Dpid(c)] = table[Dpid(c)] /\ chan'[c] = chan[c]
    BY <2>3, <2>4
  <2>5. ASSUME table'[Dpid(c)] = table[Dpid(c)],
               NEW mod \in FlowMod, chan'[c] = Append(chan[c], mod)
        PROVE  F!Guarded(After(table'[Dpid(c)], Upto(chan'[c], m)), f, i)
    <3>1. m \in 0..Len(chan[c])
      BY <1>1, <1>2, <1>5, <2>5
    <3>2. Upto(chan'[c], m) = Upto(chan[c], m)
      BY <1>1, <2>5, <3>1, UptoIs
    <3> QED
      BY <2>3, <2>5, <3>1, <3>2
  <2>6. CASE ApplyMod(c)
    <3>1. /\ chan[c] # <<>> /\ chan'[c] = Tail(chan[c])
          /\ Len(chan'[c]) = Len(chan[c]) - 1
      BY <1>0, <2>6, TakenOn DEF ApplyMod, TypeOK
    <3>2. PICK mod \in FlowMod, tab \in SUBSET Entry :
             /\ mod = chan[c][1] /\ tab = table[Dpid(c)]
             /\ table'[Dpid(c)] = Apply(tab, mod)
      BY <1>0, <2>6, AppliedOn
    <3>3. PICK k \in 0..Len(chan[c]) : k = m + 1
      BY <1>2, <1>5, <3>1
    <3>4. /\ Upto(chan[c], k) \in Seq(FlowMod) /\ Upto(chan[c], k) # <<>>
          /\ Upto(chan[c], k)[1] = mod /\ Upto(chan'[c], m) = Tail(Upto(chan[c], k))
      BY <1>1, <1>2, <3>1, <3>2, <3>3, UptoIs
    <3>5. F!Guarded(After(tab, Upto(chan[c], k)), f, i)
      BY <2>3, <3>2
    <3>6. \A e : F!Resumes(e, f, i) => PrereqOK(e.match)
      <4>1. PrereqOK(FlowMatch(f))
        BY <1>0 DEF RowsAccepted
      <4>2. \A p : PrereqOK(MiddleFields(f) \cup {<<"in_port", p>>})
        BY <4>1, PortAccepted
      <4> QED
        BY <1>0, <4>2, StandsAt
    <3>7. PICK q \in Seq(FlowMod) : q = Upto(chan[c], k)
      BY <3>4
    <3>8. F!Guarded(After(Apply(tab, mod), Tail(q)), f, i)
      BY <3>4, <3>5, <3>6, <3>7, GuardedApplied
    <3> QED
      BY <3>2, <3>4, <3>7, <3>8
  <2> QED
    BY <1>0, <2>1, <2>4, <2>5, <2>6, QueueSteps
<1> QED
  BY <1>4, <1>5

\* At first nothing has been detected, and nothing is handed to any function.
LEMMA InitStays ==
    ASSUME WellHome, NetInit
    PROVE  AddedTranslatable /\ StageInv /\ GuardedInv
<1>1. /\ Init /\ detected = <<>> /\ task = NoTask /\ events = <<>>
      /\ \A c \in Conn : chan[c] = <<>>
      /\ \A s \in Switch : table[s] \subseteq DefaultEntries
  BY DEF NetInit, Init
<1>2. \A e \in DefaultEntries : ~ IsTaking(e) /\ \A f \in Flow : e.flow # f
  BY DefaultFacts, FlowAssumption DEF IsTaking
<1>3. AddedTranslatable
  BY <1>1, <1>2 DEF AddedTranslatable, Forgotten
<1>4. StageInv
  <2>1. NoneTaking
    BY <1>1, <1>2, FinalQuiet DEF NoneTaking
  <2>2. Unheard
    BY <1>1, <2>1 DEF Unheard, Handling, NoPacketIn
  <2> QED
    BY <2>2 DEF StageInv, Stage
<1>5. GuardedInv
  <2> SUFFICES ASSUME NEW f \in Flow, NEW c \in Conn, NEW i \in DOMAIN Path1(f),
                      NEW m \in 0..Len(chan[c])
               PROVE  F!Guarded(Switched(c, m), f, i)
    BY DEF GuardedInv
  <2>1. chan[c] = <<>> /\ m = 0 /\ chan[c] \in Seq(FlowMod)
    <3>1. chan[c] = <<>> /\ Len(chan[c]) = 0
      BY <1>1
    <3> QED
      BY <3>1
  <2>2. Switched(c, m) = table[Dpid(c)]
    BY <2>1, UptoIs, AfterNone DEF Switched
  <2>3. \A e \in table[Dpid(c)] : ~ IsTaking(e)
    BY <1>1, <1>2, ConnParts
  <2> QED
    BY <2>2, <2>3 DEF F!Guarded, F!Takes, IsTaking
<1> QED
  BY <1>3, <1>4, <1>5

-----------------------------------------------------------------------------
\* The packet of such a flow among the tables.

LEMMA GuardedNow ==
    ASSUME WellHome, Orderly, GuardedInv, sent \in Flow, First(sent)
    PROVE  F!GuardedAll
<1>0. TypeOK /\ MetInv /\ AllAtHome /\ Ready /\ NoneLost
  BY DEF Orderly, ControlInv, TypeInv, HomeInv
<1> SUFFICES ASSUME NEW i \in 1..F!Count(sent)
             PROVE  F!Guarded(table[F!Stands(sent, i).dpid], sent, i)
  BY DEF F!GuardedAll
<1>1. Len(Path1(sent)) \in Nat \ {0} /\ DOMAIN Path1(sent) = 1..Len(Path1(sent))
  BY PathType, ServiceAssumption, PathAssumption, LenProperties DEF Path1
<1>2. i \in DOMAIN Path1(sent)
  <2>1. F!Count(sent) = Len(Path1(sent))
    BY DEF F!Count, F!Service, Path1
  <2> QED
    BY <1>1, <2>1
<1>3. F!Stands(sent, i) = VnfAt(sent, i)
  BY <1>0, <1>2, StandsAt
<1>4. PICK c \in ToSet(datapaths) : Dpid(c) = VnfAt(sent, i).dpid
  BY <1>0, <1>2 DEF Ready, Registered
<1>5. c \in Conn /\ Met(c)
  BY <1>0, <1>4 DEF TypeOK, MetInv, ToSet
<1>6. IsLive(c)
  BY <1>0, <1>5, MetIsUp DEF IsLive
<1>7. chan[c] \in Seq(FlowMod) /\ Len(chan[c]) \in Nat
  BY <1>0, <1>5, LenProperties DEF TypeOK
<1>8. 0 \in 0..Len(chan[c])
  BY <1>7
<1>9. F!Guarded(Switched(c, 0), sent, i)
  BY <1>2, <1>4, <1>5, <1>6, <1>8 DEF GuardedInv
<1>10. Switched(c, 0) = table[Dpid(c)]
  BY <1>7, <1>8, UptoIs, AfterNone DEF Switched
<1> QED
  BY <1>3, <1>4, <1>9, <1>10

\* An entry that hands packets to a function stays, or is replaced by its like.
LEMMA TakenStays ==
    ASSUME WellHome, Orderly, NoneLost', [Next]_vars, UNCHANGED sent, NEW f \in Flow,
           NEW i \in DOMAIN Path1(f), F!Taken(f, i)
    PROVE  F!Taken(f, i)'
<1>0. /\ TypeInv /\ TypeOK /\ MetInv /\ OneAtATime /\ EntriesFromRows /\ ChainInv
      /\ Ready /\ NoneLost /\ EntriesFromRows' /\ AllAtHome
  BY NextOwn DEF Orderly, ControlInv, TypeInv, HomeInv
<1>1. PICK s \in Switch : s = F!Stands(f, i).dpid
  <2>1. F!Stands(f, i) = VnfAt(f, i) /\ VnfAt(f, i) \in VnfRow
    BY <1>0, StandsAt, PathType DEF Ready
  <2> QED
    BY <2>1 DEF VnfRow
<1>2. PICK e \in table[s] : F!Takes(e, f, i)
  BY <1>1 DEF F!Taken
<1> SUFFICES \E x \in table'[s] : F!Takes(x, f, i)
  BY <1>1 DEF F!Taken, F!Takes, F!Stands, F!Service, F!Count
<1>3. CASE UNCHANGED table
  BY <1>2, <1>3
<1>4. CASE Loop \/ \E r \in Request : Serve(r)
  BY <1>0, <1>3, <1>4, AppSends
<1>5. CASE \E c \in Conn : LinkStep(c)
  <2>1. PICK c \in Conn : LinkStep(c)
    BY <1>5
  <2>2. CASE Drop(c)
    <3>1. link'[c] = "stale"
      BY <1>0, <2>2 DEF Drop, TypeOK
    <3> QED
      BY <3>1 DEF NoneLost, Gone
  <2>3. CASE ApplyMod(c)
    <3>1. PICK mod \in FlowMod, tab \in SUBSET Entry :
              /\ mod = chan[c][1] /\ tab = table[Dpid(c)]
              /\ table'[Dpid(c)] = Apply(tab, mod)
              /\ mod.cmd = "add" \/ mod.cmd = "delete"
              /\ \A t \in Switch : t # Dpid(c) => table'[t] = table[t]
      BY <1>0, <2>3, AppliedOn
    <3>2. CASE s # Dpid(c)
      BY <1>2, <3>1, <3>2
    <3>3. CASE s = Dpid(c)
      <4>1. 1 \in DOMAIN chan[c]
        BY <1>0, <2>3, TakenOn
      <4>2. mod.cmd = "delete" => mod.entry.table = 0
        BY <1>0, <3>1, <4>1 DEF EntriesFromRows, SentOwn, OwnMod, OwnDeletion
      <4>3. e \in tab /\ e.table = 1
        BY <1>2, <3>1, <3>3 DEF F!Takes
      <4>4. CASE mod.cmd = "delete"
        BY <1>2, <3>1, <3>3, <4>2, <4>3, <4>4 DEF Apply, Removed
      <4>5. CASE mod.cmd = "add"
        BY <1>2, <3>1, <3>3, <4>3, <4>5 DEF Apply, Installed, F!Takes
      <4> QED
        BY <3>1, <4>4, <4>5
    <3> QED
      BY <3>2, <3>3
  <2>4. CASE Connect(c) \/ EnterMain(c) \/ Notice(c) \/ ReportDead(c)
    BY <1>3, <2>4 DEF Connect, EnterMain, Notice, ReportDead
  <2> QED
    BY <2>1, <2>2, <2>3, <2>4 DEF LinkStep
<1>6. CASE \/ \E c \in Conn, t \in Traffic : DetectPacket(c, t)
           \/ \E c \in Conn, d \in Datagram : RegisterPacket(c, d)
  BY <1>3, <1>6 DEF DetectPacket, RegisterPacket, network
<1> QED
  BY <1>3, <1>4, <1>5, <1>6 DEF Next, vars

PacketInv == First(sent) => F!HandedOver /\ F!Staying

\* The packet stays in the chain while the tables change.
LEMMA PacketKept ==
    ASSUME WellHome, Orderly, NoneLost', [Next]_vars, Plane!OnCourse, Plane!FrameInv,
           F!HandedOver, F!Staying, UNCHANGED packet
    PROVE  F!HandedOver' /\ F!Staying'
<1>1. /\ UNCHANGED sent /\ sent \in Flow /\ frame' = frame /\ at' = at /\ tbl' = tbl
      /\ phase' = phase /\ visited' = visited /\ visited \in Seq(Vnf)
  BY DEF packet, Plane!FrameInv
<1>2. /\ Len(Path1(sent)) \in Nat /\ DOMAIN Path1(sent) = 1..Len(Path1(sent))
      /\ F!Service(sent) = Path1(sent) /\ F!Count(sent) = Len(Path1(sent))
  BY <1>1, PathType, ServiceAssumption, PathAssumption, LenProperties
     DEF Path1, F!Service, F!Count
<1>3. \A i \in DOMAIN Path1(sent) : F!Taken(sent, i) => F!Taken(sent, i)'
  BY <1>1, TakenStays
<1>4. Len(visited) \in Nat /\ Len(visited) <= Len(Path1(sent))
      /\ (visited # <<>> => Len(visited) # 0)
      /\ (phase = "function" => Len(visited) + 1 <= Len(Path1(sent)))
  BY <1>1, <1>2, LenProperties, EmptySeq DEF Plane!OnCourse, Plane!Turn, Plane!Service, Path1
<1>5. F!IsPlain' <=> F!IsPlain
  BY <1>1 DEF F!IsPlain
<1>6. PICK n \in Nat : n = Len(visited) /\ n = Len(visited')
  BY <1>1, <1>4
<1>7. F!HandedOver'
  <2> SUFFICES ASSUME phase = "function", F!IsPlain
               PROVE  F!Taken(sent, n + 1)'
    BY <1>1, <1>5, <1>6 DEF F!HandedOver, F!Turn
  <2>1. n + 1 \in DOMAIN Path1(sent)
    BY <1>2, <1>4, <1>6
  <2>2. F!Taken(sent, n + 1)
    BY <1>6 DEF F!HandedOver, F!Turn
  <2> QED
    BY <1>3, <2>1, <2>2
<1>8. F!Staying'
  <2> SUFFICES ASSUME visited # <<>>
               PROVE  /\ phase = "switch" /\ F!IsPlain => F!Back' \/ F!Done'
                      /\ phase = "delivered" => F!IsPlain /\ Len(visited) = F!Count(sent)
    BY <1>1, <1>5 DEF F!Staying, F!Count, F!Service
  <2>1. F!Done => F!Done'
    BY <1>1 DEF F!Done, F!Count, F!Service
  <2>2. ASSUME F!Back PROVE F!Back'
    <3>1. n \in DOMAIN Path1(sent)
      BY <1>2, <1>4, <1>6
    <3>2. F!Taken(sent, n)
      BY <2>2, <1>6 DEF F!Back
    <3>3. F!Taken(sent, n)'
      BY <1>3, <3>1, <3>2
    <3>4. F!Returned'
      BY <1>1, <1>5, <2>2 DEF F!Back, F!Returned, F!Location, F!Stands, F!Service
    <3>5. F!Taken(sent, Len(visited))'
      BY <1>1, <1>6, <3>3
    <3> QED
      BY <1>1, <2>2, <3>4, <3>5 DEF F!Back
  <2> QED
    BY <2>1, <2>2 DEF F!Staying
<1> QED
  BY <1>7, <1>8

LEMMA NextPacket ==
    ASSUME WellHome, EndAtExit, NetInv, Orderly, NoneLost', GuardedInv, SourceAtEntrance,
           Plane!OnCourse, PacketInv, [Next]_vars, [NetNext]_allVars
    PROVE  PacketInv'
<1>0. /\ F!WellBuilt /\ F!RowsMatch /\ F!OnlyFromController /\ F!FrameInv /\ F!OnCourse
      /\ F!SourcesAtEntrance /\ Home \in {Home} /\ Plane!FrameInv /\ sent \in Flow
  BY EntranceOfSource, SameNetwork, SamePacket
     DEF WellHome, NetInv, HomeInv, SentFromHome, Plane!FrameInv
<1> SUFFICES ASSUME First(sent)' PROVE F!HandedOver' /\ F!Staying'
  BY DEF PacketInv
<1>1. ASSUME UNCHANGED sent PROVE First(sent) /\ F!HandedOver /\ F!Staying
  <2>1. PICK f \in Flow : f = sent /\ f = sent'
    BY <1>0, <1>1
  <2>2. First(f)'
    BY <2>1
  <2>3. First(f)
    BY <2>2, FirstBefore
  <2> QED
    BY <2>1, <2>3 DEF PacketInv
<1>2. ASSUME NEW f \in Flow, SendPacket(f) PROVE F!HandedOver' /\ F!Staying'
  BY <1>2 DEF SendPacket, Plane!Emit, F!HandedOver, F!Staying
<1>3. CASE MovePacket
  <2>1. /\ F!Move \/ F!Discard
        /\ tbl' # 2 /\ UNCHANGED sent
    BY <1>3, SameMove DEF MovePacket, Plane!Move, Plane!Discard, Plane!GotoTable, Plane!Output,
       Plane!Serve
  <2>2. F!GuardedAll
    BY <1>0, <1>1, <2>1, GuardedNow
  <2>3. F!LastAtExit
    <3> SUFFICES ASSUME NEW f \in Flow PROVE F!Stands(f, F!Count(f)).dpid = Exit[1]
      BY DEF F!LastAtExit
    <3>1. Home[Last(Path1(f))[1]].dpid = Exit[1]
      BY DEF EndAtExit
    <3> QED
      BY <3>1 DEF Last, F!Stands, F!Count, F!Service, Path1
  <2> QED
    BY <1>0, <1>1, <2>1, <2>2, <2>3, AssumedByF, F!NextStaying
<1>4. ASSUME NEW c \in Conn, DetectLive(c) PROVE F!HandedOver' /\ F!Staying'
  BY <1>4 DEF DetectLive, F!HandedOver, F!Staying
<1>5. CASE UNCHANGED packet
  <2>1. UNCHANGED sent
    BY <1>5 DEF packet
  <2> QED
    BY <1>0, <1>1, <1>5, <2>1, PacketKept
<1> QED
  BY <1>2, <1>3, <1>4, <1>5 DEF NetNext, ControlStep, allVars

-----------------------------------------------------------------------------
\* What the property says of the packet.

LEMMA AtMostOne ==
    ASSUME NEW S, IsFiniteSet(S), Cardinality(S) <= 1, NEW i \in S, NEW j \in S
    PROVE  i = j
<1>1. /\ IsFiniteSet(S \ {i}) /\ Cardinality(S \ {i}) = Cardinality(S) - 1
      /\ Cardinality(S) \in Nat
  BY FS_RemoveElement, FS_CardinalityType
<1>2. Cardinality(S \ {i}) = 0
  BY <1>1, FS_CardinalityType
<1> QED
  BY <1>1, <1>2, FS_EmptySet

LEMMA FirstIs ==
    ASSUME NetInv, DetectedOnce, detected[1] = sent,
           \A r \in Asked(sent, "delete") : rest[r].pc = "new"
    PROVE  First(sent)
<1> DEFINE S == {i \in DOMAIN detected : detected[i] = sent}
<1>1. IsFiniteSet(DOMAIN detected)
  <2>1. Len(detected) \in Int /\ 1 \in Int /\ DOMAIN detected = 1..Len(detected)
    BY LenProperties DEF NetInv
  <2> QED
    BY <2>1, FS_Interval
<1>2. S \in SUBSET DOMAIN detected
  OBVIOUS
<1>3. IsFiniteSet(S) /\ Cardinality(S) <= 1
  BY <1>1, <1>2, FS_Subset DEF DetectedOnce
<1>4. ASSUME NEW i \in DOMAIN detected, NEW j \in DOMAIN detected,
             detected[i] = sent, detected[j] = sent
      PROVE  i = j
  <2>1. i \in S /\ j \in S
    BY <1>4
  <2> HIDE DEF S
  <2> QED
    BY <1>3, <2>1, AtMostOne
<1> QED
  BY <1>4 DEF First

LEMMA StaysThere ==
    ASSUME WellHome, NetInv, Orderly, GuardedInv, SourceAtEntrance, Plane!OnCourse, PacketInv
    PROVE  StaysInChain
<1>0. /\ F!WellBuilt /\ F!RowsMatch /\ F!OnlyFromController /\ F!FrameInv /\ F!OnCourse
      /\ F!SourcesAtEntrance /\ Home \in {Home} /\ Plane!FrameInv /\ sent \in Flow
      /\ visited \in Seq(Vnf)
  BY EntranceOfSource, SameNetwork, SamePacket
     DEF WellHome, NetInv, HomeInv, SentFromHome, Plane!FrameInv
<1> SUFFICES ASSUME visited # <<>>, DetectedOnce, detected[1] = sent,
                    \A r \in Asked(sent, "delete") : rest[r].pc = "new"
             PROVE  /\ phase = "delivered" => visited = Chain /\ frame = <<Plane!Plain(sent)>>
                    /\ phase = "switch" => \A e \in Plane!Lookup : e.goto # 2
  BY DEF StaysInChain
<1>1. First(sent)
  BY FirstIs
<1>2. F!HandedOver /\ F!Staying /\ F!GuardedAll
  BY <1>0, <1>1, GuardedNow DEF PacketInv
<1>3. ASSUME phase = "delivered" PROVE visited = Chain /\ frame = <<Plane!Plain(sent)>>
  <2>1. F!IsPlain /\ Len(visited) = F!Count(sent)
    BY <1>2, <1>3 DEF F!Staying
  <2>2. frame = <<Plane!Plain(sent)>>
    BY <2>1, RulesOfF, RulesOfPlane DEF F!IsPlain, F!Plain, Plane!Plain
  <2>3. /\ F!Functions(sent) \in Seq(Vnf) /\ Len(F!Functions(sent)) = F!Count(sent)
        /\ \A i \in 1..F!Count(sent) : F!Functions(sent)[i] = F!Service(sent)[i][1]
    BY <1>0, AssumedByF, F!FunctionsAre
  <2>4. \A i \in 1..Len(visited) : visited[i] = F!Functions(sent)[i]
    <3>1. DOMAIN visited = 1..Len(visited)
      BY <1>0, LenProperties
    <3> QED
      BY <1>0, <2>1, <2>3, <3>1 DEF F!OnCourse
  <2>5. visited = F!Functions(sent)
    BY <1>0, <2>1, <2>3, <2>4, SeqEqual
  <2>6. F!Functions(sent) = Chain
    BY DEF Chain, Plane!Functions, F!Functions, Plane!Service, F!Service
  <2> QED
    BY <2>2, <2>5, <2>6
<1>4. ASSUME phase = "switch", NEW e \in Plane!Lookup PROVE e.goto # 2
  <2>1. e \in F!Lookup
    BY SameLookup
  <2> QED
    BY <1>0, <1>2, <1>4, <2>1, AssumedByF, F!NotToController
<1> QED
  BY <1>3, <1>4

\* Every packet of the flow that is detected first, once a function has returned
\* it, stays in the chain up to its end, and is delivered as its host sent it; no
\* switch hands it to the controller, whatever of the chain, or of the chains of
\* other flows, is still on its way (sfc_nfv.py:293-395). Behaviours: no connection
\* lost, no queue full, all functions registered, source entries where flows enter.
THEOREM ChainKeepsPacket ==
    ASSUME WellHome, Heard, AddedOnce, EndAtExit
    PROVE  NetSpec /\ []Smooth /\ []Ready /\ []SourceAtEntrance => []StaysInChain
<1> DEFINE Known == /\ NetInv /\ ControlInv /\ DetectionReplaced /\ NoneLost /\ Ready
                    /\ SourceAtEntrance
           Inv == /\ MarksInv /\ AddedTranslatable /\ StageInv /\ GuardedInv
                  /\ Plane!OnCourse /\ PacketInv
<1>1. CountingDown /\ RowsApart /\ RowsAccepted
  BY HomeRules
<1>2. Smooth => NoneLost
  BY DEF Smooth
<1>3. Spec /\ []Smooth /\ []Ready => []ControlInv
  BY <1>1, ChainInvariant
<1>4. Spec /\ []Smooth => []DetectionReplaced
  BY EntryChanged
<1>5. NetSpec => Spec /\ []NetInv
  BY ControllerInNetwork, NetInvariant, PTL
<1>6. NetSpec /\ []Smooth /\ []Ready /\ []SourceAtEntrance => []Known
  BY <1>2, <1>3, <1>4, <1>5, PTL
<1>7. NetInit => Inv
  <2> SUFFICES ASSUME NetInit PROVE Inv
    OBVIOUS
  <2>1. MarksInv
    BY InitMarks DEF NetInit
  <2>2. PacketInv
    BY DEF NetInit, PacketInv, F!HandedOver, F!Staying
  <2> QED
    BY <2>1, <2>2, InitStays, InitNet
<1>8. Known /\ MarksInv /\ AddedTranslatable => Orderly
  BY DEF Orderly, NetInv
<1>9. Orderly /\ StageInv => GuardedAtLast
  BY ArrivedGuarded
<1>10. /\ (Known /\ MarksInv /\ AddedTranslatable)' => Orderly'
       /\ (Orderly /\ StageInv)' => GuardedAtLast'
  BY <1>8, <1>9, PTL
<1>11. Known /\ Known' /\ Inv /\ [NetNext]_allVars => Inv'
  <2> SUFFICES ASSUME Known, Known', Inv, [NetNext]_allVars
               PROVE  Inv'
    OBVIOUS
  <2>1. [Next]_vars /\ TypeInv /\ EntriesFromRows /\ Orderly
    BY <1>8, NextControl DEF ControlInv
  <2>2. MarksInv' /\ AddedTranslatable'
    BY <2>1, NextMarks, NextTranslatable
  <2>3. NoneLost' /\ Ready'
    OBVIOUS
  <2>4. StageInv'
    BY <2>1, <2>3, NextStage
  <2>5. GuardedAtLast'
    BY <1>10, <2>2, <2>4
  <2>6. \A f \in Flow : First(f)' => First(f)
    BY <2>1, FirstBefore
  <2>7. GuardedInv'
    BY <2>1, <2>3, <2>5, <2>6, NextGuarded
  <2>8. Plane!OnCourse'
    BY NextNet, EntranceOfSource
  <2>9. PacketInv'
    BY <2>1, <2>3, NextPacket
  <2> QED
    BY <2>2, <2>4, <2>7, <2>8, <2>9
<1>12. Known /\ Inv => StaysInChain
  BY <1>8, StaysThere
<1> HIDE DEF Known, Inv
<1> QED
  BY <1>6, <1>7, <1>11, <1>12, PTL DEF NetSpec
=============================================================================
