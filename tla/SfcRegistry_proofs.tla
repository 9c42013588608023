------------------------- MODULE SfcRegistry_proofs -------------------------
(***************************************************************************)
(* The registry of connections, the registered functions that entries lead *)
(* to and the switches that are set up, for every order of events, lost    *)
(* connections and restarts; and what holds of the registry while no       *)
(* connection is lost.                                                     *)
(***************************************************************************)
EXTENDS SfcController_proofs

(***************************************************************************)
(* Connections and events.                                                 *)
(***************************************************************************)

\* The parts of the invariant after a step that leaves the registry alone.
LEMMA InvariantAfter ==
    ASSUME RegistryInv, datapaths' = datapaths,
           \A i \in DOMAIN events' : \A c :
              c = events'[i].conn /\ events'[i].type = "main" /\ link'[c] = "dead"
                  => EndFollows(c, i)',
           \A c \in ToSet(datapaths) : link'[c] = "dead" => EndFollows(c, 0)'
    PROVE  RegistryInv'
BY DEF RegistryInv, EndFollows

\* An event other than the end of a connection is put on the queue.
LEMMA PutOnQueue ==
    ASSUME TypeOK, RegistryInv, NEW e, events' = Append(events, e),
           datapaths' = datapaths,
           \A c \in Conn : link'[c] = "dead" => link[c] = "dead",
           e.type = "main" => link'[e.conn] # "dead"
    PROVE  RegistryInv'
<1>1. ASSUME NEW i \in DOMAIN events', NEW c, c = events'[i].conn,
             events'[i].type = "main", link'[c] = "dead"
      PROVE  EndFollows(c, i)'
  <2>1. i \in DOMAIN events /\ events'[i] = events[i]
    BY <1>1, EndStays
  <2>2. c \in Conn
    BY <1>1, <2>1, ElementOfSeq, LenProperties DEF TypeOK, Event
  <2>3. EndFollows(c, i)
    BY <1>1, <2>1, <2>2 DEF RegistryInv
  <2> QED
    BY <2>3, EndStays
<1>2. ToSet(datapaths) \subseteq Conn
  BY ElementOfSeq, LenProperties DEF TypeOK, ToSet
<1>3. \A c \in ToSet(datapaths) : link'[c] = "dead" => EndFollows(c, 0)'
  BY <1>2, EndStays DEF RegistryInv
<1> QED
  BY <1>1, <1>3, InvariantAfter

\* The end of a connection is put on the queue: behind its registration.
LEMMA EndOnQueue ==
    ASSUME TypeOK, RegistryInv, NEW c \in Conn, ReportDead(c)
    PROVE  RegistryInv'
<1> DEFINE e == [type |-> "dead", conn |-> c]
<1>1. /\ events' = Append(events, e) /\ datapaths' = datapaths
      /\ link' = [link EXCEPT ![c] = "dead"]
      /\ e.type = "dead"
  BY DEF ReportDead, Enqueue
<1> HIDE DEF e
<1>2. \A d \in Conn : link'[d] = "dead" => d = c \/ link[d] = "dead"
  BY <1>1 DEF TypeOK
<1>3. \A k : k \in 0..Len(events) => EndFollows(c, k)'
  <2>1. Len(events) \in Nat
    BY LenProperties DEF TypeOK
  <2> QED
    BY <1>1, <2>1, EndStays DEF EndFollows, e
<1>4. ASSUME NEW i \in DOMAIN events', NEW d, d = events'[i].conn,
             events'[i].type = "main", link'[d] = "dead"
      PROVE  EndFollows(d, i)'
  <2>1. i \in DOMAIN events /\ events'[i] = events[i]
    BY <1>1, <1>4, EndStays
  <2>2. d \in Conn /\ i \in 0..Len(events)
    BY <1>4, <2>1, ElementOfSeq, LenProperties DEF TypeOK, Event
  <2>3. CASE d = c
    BY <1>3, <2>2, <2>3
  <2>4. CASE link[d] = "dead"
    <3>1. EndFollows(d, i)
      BY <1>4, <2>1, <2>4 DEF RegistryInv
    <3> QED
      BY <1>1, <3>1, EndStays
  <2> QED
    BY <1>2, <1>4, <2>2, <2>3, <2>4
<1>5. ASSUME NEW d \in ToSet(datapaths), link'[d] = "dead" PROVE EndFollows(d, 0)'
  <2>1. d \in Conn
    BY ElementOfSeq, LenProperties DEF TypeOK, ToSet
  <2>2. 0 \in 0..Len(events)
    BY LenProperties DEF TypeOK
  <2>3. CASE link[d] = "dead"
    BY <1>1, <2>3, EndStays DEF RegistryInv
  <2> QED
    BY <1>2, <1>3, <1>5, <2>1, <2>2, <2>3
<1> QED
  BY <1>1, <1>4, <1>5, InvariantAfter

\* Steps that neither register a connection nor tell of one.
LEMMA NoEvent ==
    ASSUME TypeOK, RegistryInv, UNCHANGED <<datapaths, events>>,
           \A c \in Conn : link'[c] = "dead" => link[c] = "dead"
    PROVE  RegistryInv'
<1>1. \A c, k : EndFollows(c, k) => EndFollows(c, k)'
  BY DEF EndFollows
<1>2. \A i \in DOMAIN events : events[i].conn \in Conn
  BY ElementOfSeq, LenProperties DEF TypeOK, Event
<1>3. ToSet(datapaths) \subseteq Conn
  BY ElementOfSeq, LenProperties DEF TypeOK, ToSet
<1> QED
  BY <1>1, <1>2, <1>3 DEF RegistryInv

\* The loop takes an event that is no end of a connection.
LEMMA OtherEvent ==
    ASSUME TypeOK, RegistryInv, NEW type, type # "dead", NextEvent(type),
           UNCHANGED <<link, datapaths>>
    PROVE  RegistryInv'
<1>1. events # <<>> /\ events' = Tail(events) /\ Head(events).type = type
  BY DEF NextEvent
<1>2. ASSUME NEW i \in DOMAIN events', NEW c, c = events'[i].conn,
             events'[i].type = "main", link'[c] = "dead"
      PROVE  EndFollows(c, i)'
  <2>1. i \in Nat /\ i + 1 \in DOMAIN events /\ events'[i] = events[i + 1]
    BY <1>1, <1>2, EndMoves
  <2>2. EndFollows(c, i + 1)
    BY <1>2, <2>1 DEF RegistryInv
  <2> QED
    BY <1>1, <2>1, <2>2, EndMoves
<1>3. \A c \in ToSet(datapaths) : link'[c] = "dead" => EndFollows(c, 0)'
  BY <1>1, EndMoves DEF RegistryInv
<1> QED
  BY <1>2, <1>3, InvariantAfter

\* A connection is registered: if it has ended since, the end is behind.
LEMMA RegisterKeeps ==
    ASSUME TypeOK, RegistryInv, RegisterDatapath
    PROVE  RegistryInv'
<1>0. PICK c \in Conn : c = Head(events).conn
  BY NextEventType DEF RegisterDatapath
<1>1. /\ NextEvent("main") /\ UNCHANGED link
      /\ datapaths' = IF Registered(Dpid(c)) = {} THEN Append(datapaths, c) ELSE datapaths
  BY <1>0 DEF RegisterDatapath, HandledAtOnce, network
<1>2. events # <<>> /\ events' = Tail(events) /\ Head(events).type = "main"
  BY <1>1 DEF NextEvent
<1>3. ASSUME Registered(Dpid(c)) # {} PROVE RegistryInv'
  BY <1>1, <1>3, OtherEvent
<1>4. ASSUME Registered(Dpid(c)) = {} PROVE RegistryInv'
  <2>1. datapaths \in Seq(Conn) /\ datapaths' = Append(datapaths, c)
    BY <1>1, <1>4 DEF TypeOK
  <2>2. /\ Len(datapaths) \in Nat /\ DOMAIN datapaths = 1..Len(datapaths)
        /\ DOMAIN datapaths' = 1..(Len(datapaths) + 1)
        /\ \A i \in 1..Len(datapaths) : datapaths'[i] = datapaths[i]
        /\ datapaths'[Len(datapaths) + 1] = c
    BY <1>2, <2>1
  <2>3. \A i \in DOMAIN datapaths : Dpid(datapaths[i]) # Dpid(c)
    BY <1>4 DEF Registered, ToSet
  <2>4. \A i, j \in DOMAIN datapaths' : Dpid(datapaths'[i]) = Dpid(datapaths'[j]) => i = j
    BY <2>2, <2>3 DEF RegistryInv
  <2>5. ASSUME NEW i \in DOMAIN events', NEW d, d = events'[i].conn,
               events'[i].type = "main", link'[d] = "dead"
        PROVE  EndFollows(d, i)'
    <3>1. i \in Nat /\ i + 1 \in DOMAIN events /\ events'[i] = events[i + 1]
      BY <1>2, <2>5, EndMoves
    <3>2. EndFollows(d, i + 1)
      BY <1>1, <2>5, <3>1 DEF RegistryInv
    <3> QED
      BY <1>2, <3>1, <3>2, EndMoves
  <2>6. link'[c] = "dead" => EndFollows(c, 0)'
    <3>1. 1 \in DOMAIN events /\ events[1].type = "main" /\ events[1].conn = c
      BY <1>0, <1>2, EndMoves
    <3>2. link[c] = "dead" => EndFollows(c, 1)
      BY <3>1 DEF RegistryInv
    <3>3. \A k \in Nat : EndFollows(c, k + 1) => EndFollows(c, k)'
      BY <1>2, EndMoves
    <3>4. EndFollows(c, 0 + 1) => EndFollows(c, 0)'
      BY <3>3
    <3> QED
      BY <1>1, <3>2, <3>4
  <2>7. \A d \in ToSet(datapaths) : link'[d] = "dead" => EndFollows(d, 0)'
    BY <1>1, <1>2, EndMoves DEF RegistryInv
  <2>8. \A d \in ToSet(datapaths)' : d \in ToSet(datapaths) \/ d = c
    BY <2>2 DEF ToSet
  <2>9. \A d \in ToSet(datapaths)' : link'[d] = "dead" => EndFollows(d, 0)'
    BY <2>6, <2>7, <2>8
  <2> QED
    BY <2>4, <2>5, <2>9 DEF RegistryInv, EndFollows
<1> QED
  BY <1>3, <1>4

\* A connection leaves the registry: the only one of its switch.
LEMMA UnregisterKeeps ==
    ASSUME TypeOK, RegistryInv, UnregisterDatapath
    PROVE  RegistryInv'
<1>0. PICK c \in Conn : c = Head(events).conn
  BY NextEventType DEF UnregisterDatapath
<1>1. NextEvent("dead") /\ UNCHANGED link
  BY DEF UnregisterDatapath, HandledAtOnce, network
<1>2. events # <<>> /\ events' = Tail(events) /\ datapaths \in Seq(Conn)
  BY <1>1 DEF NextEvent, TypeOK
<1>3. ASSUME NEW i \in DOMAIN events', NEW d, d = events'[i].conn,
             events'[i].type = "main", link'[d] = "dead"
      PROVE  EndFollows(d, i)'
  <2>1. i \in Nat /\ i + 1 \in DOMAIN events /\ events'[i] = events[i + 1]
    BY <1>2, <1>3, EndMoves
  <2>2. EndFollows(d, i + 1)
    BY <1>1, <1>3, <2>1 DEF RegistryInv
  <2> QED
    BY <1>2, <2>1, <2>2, EndMoves
<1>4. \A d \in ToSet(datapaths) : link'[d] = "dead" /\ d # c => EndFollows(d, 0)'
  BY <1>0, <1>1, <1>2, EndMoves DEF RegistryInv
<1>5. CASE Registered(Dpid(c)) = {}
  <2>1. datapaths' = datapaths
    BY <1>0, <1>5 DEF UnregisterDatapath
  <2>2. c \notin ToSet(datapaths)
    BY <1>5 DEF Registered
  <2> QED
    BY <1>3, <1>4, <2>1, <2>2, InvariantAfter
<1>6. CASE Registered(Dpid(c)) # {}
  <2>1. PICK k \in DOMAIN datapaths :
            Dpid(datapaths[k]) = Dpid(c) /\ datapaths' = RemoveAt(datapaths, k)
    BY <1>0, <1>6 DEF UnregisterDatapath
  <2> DEFINE n == Len(datapaths)
             at(i) == IF i < k THEN i ELSE i + 1
  <2>2. n \in Nat /\ DOMAIN datapaths = 1..n /\ k \in 1..n
    BY <1>2, <2>1
  <2>3. /\ DOMAIN datapaths' = 1..(n - 1)
        /\ \A i \in 1..(n - 1) : datapaths'[i] = datapaths[at(i)]
    <3>1. \A i \in 1..(n - 1) :
             datapaths'[i] = IF i < k THEN datapaths[i] ELSE datapaths[i + 1]
      BY <1>2, <2>1, <2>2, WithoutOne
    <3> QED
      BY <1>2, <2>1, <2>2, <3>1, WithoutOne
  <2>4. \A i \in 1..(n - 1) : at(i) \in 1..n /\ at(i) # k
    BY <2>2
  <2>5. \A i, j \in 1..(n - 1) : at(i) = at(j) => i = j
    BY <2>2
  <2> HIDE DEF at
  <2>6. \A i, j \in DOMAIN datapaths' : Dpid(datapaths'[i]) = Dpid(datapaths'[j]) => i = j
    BY <2>2, <2>3, <2>4, <2>5 DEF RegistryInv
  <2>7. \A i \in 1..(n - 1) : datapaths'[i] # c
    BY <2>1, <2>2, <2>3, <2>4 DEF RegistryInv
  <2>8. \A d \in ToSet(datapaths)' : d \in ToSet(datapaths) /\ d # c
    BY <2>2, <2>3, <2>4, <2>7 DEF ToSet
  <2>9. \A d \in ToSet(datapaths)' : link'[d] = "dead" => EndFollows(d, 0)'
    BY <1>4, <2>8
  <2> QED
    BY <1>3, <2>6, <2>9 DEF RegistryInv, EndFollows
<1> QED
  BY <1>5, <1>6

\* Every step.
LEMMA NextRegistry == TypeOK /\ RegistryInv /\ [Next]_vars => RegistryInv'
<1> SUFFICES ASSUME TypeOK, RegistryInv, [Next]_vars PROVE RegistryInv'
  OBVIOUS
<1>1. ASSUME NEW c \in Conn, Connect(c) \/ EnterMain(c) PROVE RegistryInv'
  <2>1. link' = [link EXCEPT ![c] = "config"] \/ link' = [link EXCEPT ![c] = "main"]
    BY <1>1 DEF Connect, EnterMain
  <2>2. \A d \in Conn : link'[d] = "dead" => link[d] = "dead"
    BY <2>1 DEF TypeOK
  <2>3. PICK e : e.conn = c /\ events' = Append(events, e) /\ datapaths' = datapaths
    BY <1>1 DEF Connect, EnterMain, Enqueue
  <2>4. link'[c] # "dead"
    BY <2>1 DEF TypeOK
  <2> QED
    BY <2>2, <2>3, <2>4, PutOnQueue
<1>2. ASSUME NEW c \in Conn, Drop(c) \/ Notice(c) \/ ApplyMod(c) PROVE RegistryInv'
  <2>1. \A d \in Conn : link'[d] = "dead" => link[d] = "dead"
    BY <1>2 DEF Drop, Notice, ApplyMod, TypeOK
  <2> QED
    BY <1>2, <2>1, NoEvent DEF Drop, Notice, ApplyMod
<1>3. ASSUME NEW c \in Conn, LinkStep(c) PROVE RegistryInv'
  BY <1>1, <1>2, <1>3, EndOnQueue DEF LinkStep
<1>4. ASSUME NEW c \in Conn,
             \/ \E t \in Traffic : DetectPacket(c, t)
             \/ \E d \in Datagram : RegisterPacket(c, d)
      PROVE  RegistryInv'
  <2>1. PICK e : e.type # "main" /\ events' = Append(events, e)
    BY <1>4 DEF DetectPacket, RegisterPacket, Enqueue
  <2>2. UNCHANGED <<link, datapaths>>
    BY <1>4 DEF DetectPacket, RegisterPacket, network
  <2> QED
    BY <2>1, <2>2, PutOnQueue
<1>5. CASE Loop
  <2>1. CASE RegisterDatapath \/ UnregisterDatapath
    BY <2>1, RegisterKeeps, UnregisterKeeps
  <2>2. CASE RegisterVnf
    BY <2>2, OtherEvent DEF RegisterVnf, HandledAtOnce, network
  <2>3. CASE StartDefaults
    BY <2>3, OtherEvent DEF StartDefaults, Begin, network
  <2>4. CASE StartDetection
    <3>1. UNCHANGED <<link, datapaths>>
      BY <2>4 DEF StartDetection, Begin, HandledAtOnce, network
    <3> QED
      BY <2>4, <3>1, OtherEvent DEF StartDetection
  <2>5. CASE RunTask \/ LoopBlocks
    <3>1. UNCHANGED <<link, datapaths, events>>
      BY <2>5 DEF RunTask, LoopBlocks, SendDefault, DeleteCatching, SendSource,
                  AbandonChain, SkipVnf, SendHop, SendEnd, Continue, network
    <3> QED
      BY <3>1, NoEvent
  <2> QED
    BY <1>5, <2>1, <2>2, <2>3, <2>4, <2>5 DEF Loop, HandleEvent
<1>6. ASSUME NEW r \in Request, Serve(r) PROVE RegistryInv'
  <2>1. UNCHANGED <<link, datapaths, events>>
    BY <1>6 DEF Serve, StartRequest, NextDatapath, SendRequest, RequestBlocks,
                SetRest, network
  <2> QED
    BY <2>1, NoEvent
<1>7. CASE UNCHANGED vars
  BY <1>7, NoEvent DEF vars
<1> QED
  BY <1>3, <1>4, <1>5, <1>6, <1>7 DEF Next

\* The initial state: switches are in the registry once.
LEMMA InitRegistry == Init => RegistryInv
<1> SUFFICES ASSUME Init PROVE RegistryInv
  OBVIOUS
<1>1. /\ DOMAIN datapaths = 1..Len(InitialSwitch)
      /\ \A i \in DOMAIN datapaths : datapaths[i] = <<InitialSwitch[i], 1>>
      /\ \A i \in DOMAIN datapaths : InitialSwitch[i] \in Switch
  BY SwitchAssumption DEF Init
<1>2. \A i, j \in DOMAIN datapaths : Dpid(datapaths[i]) = Dpid(datapaths[j]) => i = j
  <2>1. \A i, j \in DOMAIN InitialSwitch :
           InitialSwitch[i] = InitialSwitch[j] => i = j
    BY SwitchAssumption DEF IsInjective
  <2>2. DOMAIN InitialSwitch = 1..Len(InitialSwitch)
    BY SwitchAssumption
  <2> QED
    BY <1>1, <2>1, <2>2 DEF Dpid
<1>3. \A c \in Conn : link[c] # "dead"
  BY DEF Init
<1>4. \A c \in ToSet(datapaths) : c \in Conn
  BY <1>1, BoundAssumption DEF ToSet, Conn
<1> QED
  BY <1>2, <1>3, <1>4 DEF Init, RegistryInv

\* Nothing stays registered that is dead and whose end is not on its way to the
\* application: for any number of switches, connections, losses and restarts,
\* in every order of their events.
THEOREM DeadLeaves == Spec => []DeadWillLeave
<1>1. Init => TypeInv /\ RegistryInv
  BY InitType, InitRegistry
<1>2. TypeInv /\ RegistryInv /\ [Next]_vars => (TypeInv /\ RegistryInv)'
  BY NextType, NextRegistry DEF TypeInv
<1>3. RegistryInv => DeadWillLeave
  BY DEF RegistryInv, DeadWillLeave, EndFollows
<1> QED
  BY <1>1, <1>2, <1>3, PTL DEF Spec

(***************************************************************************)
(* Entries follow the registrations.                                       *)
(***************************************************************************)

\* A function that is registered stays so, and entries go on leading to it.
LEMMA ReachStays ==
    ASSUME \A v \in Vnf : vnf[v] \subseteq vnf'[v]
    PROVE  \A s, e : EntryReaches(s, e) => EntryReaches(s, e)'
<1>1. ASSUME NEW f \in Flow PROVE Usable(f) \subseteq Usable(f)'
  <2>1. \A i \in DOMAIN Path1(f) : Path1(f)[i][1] \in Vnf
    BY ServiceAssumption, PathAssumption, LenProperties, ElementOfSeq DEF Path1
  <2>2. \A i \in DOMAIN Path1(f) : Rows(f, i) \subseteq Rows(f, i)'
    BY <2>1 DEF Rows, Path1
  <2> QED
    BY <2>2 DEF Usable, Path1
<1>2. ASSUME NEW s, NEW e, EntryReaches(s, e), e.flow \in Flow PROVE Reaches(s, e)'
  BY <1>1, <1>2 DEF EntryReaches, Reaches, TakenAt
<1> QED
  BY <1>2 DEF EntryReaches

\* A bidirectional function at a position of the service can be used.
LEMMA VnfUsable ==
    ASSUME NEW f, NEW i \in DOMAIN Path1(f), Bidirectional(f, i)
    PROVE  VnfAt(f, i) \in Usable(f)
<1>1. \E x \in Rows(f, i) : x.iftype = 3
  BY DEF Bidirectional
<1>2. VnfAt(f, i) \in Rows(f, i) /\ VnfAt(f, i).iftype = 3
  BY <1>1 DEF VnfAt
<1> QED
  BY <1>2 DEF Usable

\* The addresses in the actions of an entry.
LEMMA SetAddress ==
    /\ \A dst, sid, si : \A a \in ToSet(Encap(sid, si, dst)) :
          a[1] = "set_eth_dst" => a[2] = dst
    /\ \A port : \A a \in ToSet(Decap(port)) : a[1] # "set_eth_dst"
    /\ \A dst : \A a \in ToSet(<<<<"set_eth_dst", dst>>>>) : a[2] = dst
    /\ \A a \in ToSet(<<<<"decap", NoArg>>, <<"decap", NoArg>>>>) :
          a[1] # "set_eth_dst"
    /\ ToSet(<<>>) = {}
BY DEF ToSet, Encap, Decap

\* What is sent for a flow leads to functions that can be used, and is on the
\* switch of the function it takes packets from or for.
LEMMA ModsReach ==
    ASSUME NEW f \in Flow
    PROVE  /\ \A s : ModReaches(s, CatchMod(f))
           /\ \A s, port : \A row \in Usable(f) : ModReaches(s, SourceMod(f, port, row))
           /\ \A lastSi, si : \A cur, nxt \in Usable(f) : \A step \in 1..3 :
                 ModReaches(cur.dpid, HopMod(step, f, lastSi, si, cur, nxt))
           /\ \A cur \in Usable(f) : \A step \in 1..2 :
                 ModReaches(cur.dpid, EndMod(step, f, cur))
           /\ \A s : ModReaches(s, DeleteFlowMod(f)) /\ ModReaches(s, DeleteSpiMod(f))
<1> USE DEF ModReaches, EntryReaches, Reaches, TakenAt
<1>1. \A s : ModReaches(s, CatchMod(f))
  BY SetAddress DEF CatchMod, AddMod
<1>2. \A s, port : \A row \in Usable(f) : ModReaches(s, SourceMod(f, port, row))
  BY SetAddress DEF SourceMod, AddMod
<1>3. \A si : \A cur, nxt \in Usable(f) : ModReaches(cur.dpid, ProxyMod(f, si, nxt))
  BY SetAddress DEF ProxyMod, AddMod
<1>4. \A si : \A cur, nxt \in Usable(f) : ModReaches(cur.dpid, MiddleMod(f, si, cur, nxt))
  BY SetAddress DEF MiddleMod, AddMod
<1>5. \A lastSi : \A cur, nxt \in Usable(f) :
         ModReaches(cur.dpid, DecapMod(f, lastSi, cur, nxt))
  BY SetAddress DEF DecapMod, AddMod
<1>6. \A cur \in Usable(f) : \A step \in 1..2 :
         ModReaches(cur.dpid, EndMod(step, f, cur))
  BY SetAddress DEF EndMod, AddMod
<1>7. \A s : ModReaches(s, DeleteFlowMod(f)) /\ ModReaches(s, DeleteSpiMod(f))
  BY DEF DeleteFlowMod, DeleteSpiMod, DelMod
<1> HIDE DEF ModReaches, EntryReaches, Reaches, TakenAt
<1>8. \A lastSi, si : \A cur, nxt \in Usable(f) : \A step \in 1..3 :
         ModReaches(cur.dpid, HopMod(step, f, lastSi, si, cur, nxt))
  BY <1>3, <1>4, <1>5 DEF HopMod
<1> QED
  BY <1>1, <1>2, <1>6, <1>7, <1>8

\* What a switch is set up with leads nowhere.
LEMMA DefaultsReach == \A s : \A i \in 1..6 : ModReaches(s, DefaultMods[i])
BY DefaultFacts, FlowAssumption DEF ModReaches, EntryReaches, DefaultEntries

\* Sending a FlowMod that leads where it should.
LEMMA SendReaches ==
    ASSUME TypeOK, ReachInv, NEW c \in Conn, NEW mod, ModReaches(Dpid(c), mod),
           Send(c, mod), UNCHANGED <<table, vnf>>
    PROVE  ReachInv'
<1>1. \A s, e : EntryReaches(s, e) => EntryReaches(s, e)'
  BY ReachStays
<1>2. \A s, m : ModReaches(s, m) => ModReaches(s, m)'
  BY <1>1 DEF ModReaches
<1>3. ASSUME NEW d \in Conn, NEW i \in DOMAIN chan'[d]
      PROVE  ModReaches(Dpid(d), chan'[d][i])
  <2>1. CASE chan' = chan \/ d # c
    BY <1>3, <2>1 DEF ReachInv, Send, TypeOK
  <2>2. CASE chan' # chan /\ d = c
    <3>1. chan'[d] = Append(chan[c], mod) /\ chan[c] \in Seq(FlowMod)
      BY <2>2 DEF Send, TypeOK
    <3>2. \/ i \in DOMAIN chan[c] /\ chan'[d][i] = chan[c][i]
          \/ chan'[d][i] = mod
      BY <1>3, <3>1
    <3> QED
      BY <2>2, <3>2 DEF ReachInv
  <2> QED
    BY <2>1, <2>2
<1> QED
  BY <1>1, <1>2, <1>3 DEF ReachInv

\* Steps that send nothing and install nothing.
LEMMA NothingSent ==
    ASSUME ReachInv, \A v \in Vnf : vnf[v] \subseteq vnf'[v],
           \A s \in Switch : table'[s] \subseteq table[s],
           \A c \in Conn : chan'[c] = chan[c] \/ chan'[c] = <<>>
    PROVE  ReachInv'
<1>1. \A s, e : EntryReaches(s, e) => EntryReaches(s, e)'
  BY ReachStays
<1>2. \A s, m : ModReaches(s, m) => ModReaches(s, m)'
  BY <1>1 DEF ModReaches
<1> QED
  BY <1>1, <1>2 DEF ReachInv

\* A switch processes what it was sent.
LEMMA ApplyReaches ==
    ASSUME TypeOK, ReachInv, NEW c \in Conn, ApplyMod(c)
    PROVE  ReachInv'
<1>1. /\ chan[c] \in Seq(FlowMod) /\ chan[c] # <<>> /\ vnf' = vnf
      /\ table' = [table EXCEPT ![Dpid(c)] = Apply(@, Head(chan[c]))]
      /\ chan' = [chan EXCEPT ![c] = Tail(@)]
  BY DEF ApplyMod, TypeOK
<1>2. /\ Head(chan[c]) = chan[c][1] /\ 1 \in DOMAIN chan[c]
      /\ Head(chan[c]) \in FlowMod
  BY <1>1, HeadTailProperties, LenProperties
<1>3. PICK mod \in FlowMod : mod = Head(chan[c]) /\ ModReaches(Dpid(c), mod)
  BY <1>2 DEF ReachInv
<1>4. \A e \in Apply(table[Dpid(c)], mod) :
         e \in table[Dpid(c)] \/ (mod.cmd = "add" /\ e = mod.entry)
  <2>1. mod.cmd \in {"add", "delete"}
    BY DEF FlowMod
  <2> QED
    BY <2>1, AppliedFrom
<1>5. ASSUME NEW s \in Switch, NEW e \in table'[s] PROVE EntryReaches(s, e)
  BY <1>1, <1>3, <1>4, <1>5 DEF ReachInv, ModReaches, TypeOK
<1>6. \A i \in DOMAIN Tail(chan[c]) :
         i + 1 \in DOMAIN chan[c] /\ Tail(chan[c])[i] = chan[c][i + 1]
  BY <1>1
<1>7. ASSUME NEW d \in Conn, NEW i \in DOMAIN chan'[d]
      PROVE  ModReaches(Dpid(d), chan'[d][i])
  BY <1>1, <1>6, <1>7 DEF ReachInv, TypeOK
<1>8. \A s, e : EntryReaches(s, e) => EntryReaches(s, e)'
  BY <1>1, ReachStays
<1>9. \A s, m : ModReaches(s, m) => ModReaches(s, m)'
  BY <1>8 DEF ModReaches
<1> QED
  BY <1>5, <1>7, <1>8, <1>9 DEF ReachInv

\* The steps of connections and switches.
LEMMA NetworkReaches ==
    ASSUME TypeOK, ReachInv,
           \/ \E c \in Conn : LinkStep(c)
           \/ \E c \in Conn, t \in Traffic : DetectPacket(c, t)
           \/ \E c \in Conn, d \in Datagram : RegisterPacket(c, d)
    PROVE  ReachInv'
<1>1. CASE \E c \in Conn : ApplyMod(c)
  BY <1>1, ApplyReaches
<1>2. CASE ~ \E c \in Conn : ApplyMod(c)
  <2>1. /\ vnf' = vnf
        /\ \A s \in Switch : table'[s] \subseteq table[s]
        /\ \A c \in Conn : chan'[c] = chan[c] \/ chan'[c] = <<>>
    BY <1>2 DEF LinkStep, Connect, EnterMain, Drop, Notice, ReportDead,
                DetectPacket, RegisterPacket, network, TypeOK
  <2> QED
    BY <2>1, NothingSent
<1> QED
  BY <1>1, <1>2

\* The steps of the event loop.
LEMMA LoopReaches ==
    ASSUME TypeInv, ReachInv, Loop
    PROVE  ReachInv'
<1>1. TypeOK
  BY DEF TypeInv
<1>2. CASE RegisterVnf
  <2>1. \A v \in Vnf : vnf[v] \subseteq vnf'[v]
    BY <1>1, <1>2 DEF RegisterVnf, TypeOK
  <2>2. UNCHANGED <<chan, table>>
    BY <1>2 DEF RegisterVnf, HandledAtOnce, network
  <2> QED
    BY <2>1, <2>2, NothingSent
<1>3. CASE \/ RegisterDatapath \/ UnregisterDatapath \/ StartDefaults
           \/ StartDetection \/ AbandonChain \/ SkipVnf \/ LoopBlocks
  <2>1. UNCHANGED <<chan, table, vnf>>
    BY <1>3 DEF RegisterDatapath, UnregisterDatapath, StartDefaults, StartDetection,
                AbandonChain, SkipVnf, LoopBlocks, HandledAtOnce, Begin, Continue,
                network
  <2> QED
    BY <2>1, NothingSent
<1>4. CASE SendDefault
  <2>1. task \in Task /\ task.pc = "defaults"
    BY <1>1, <1>4 DEF SendDefault, InTask, TypeOK
  <2>2. task.conn \in Conn /\ task.step \in 1..6
    BY <2>1 DEF Task
  <2> QED
    BY <1>1, <1>4, <2>2, DefaultsReach, SendReaches DEF SendDefault, Continue
<1>5. CASE DeleteCatching
  <2>1. task \in Task /\ task.pc = "delete" /\ task.flow \in Flow /\ TaskOK(task)
    BY <1>5, PacketTask DEF DeleteCatching
  <2>2. task.todo \in Seq(Conn) /\ task.todo # <<>>
    BY <2>1, PacketTaskType DEF TaskOK
  <2>3. Head(task.todo) \in Conn
    BY <2>2, HeadTailProperties
  <2> QED
    BY <1>1, <1>5, <2>1, <2>3, ModsReach, SendReaches DEF DeleteCatching, Continue
<1>6. CASE SendSource \/ SendHop \/ SendEnd
  <2>1. /\ task \in Task /\ task.flow \in Flow /\ task.conn \in Conn
        /\ TaskOK(task) /\ task.pc \in {"source", "chain"} /\ task.pc # "defaults"
        /\ Len(Path1(task.flow)) \in Nat /\ (task.pc = "chain" \/ SendSource)
    BY <1>6, PacketTask DEF SendSource, SendHop, SendEnd, InTurn
  <2>2. /\ task.pos \in 1..Len(Path1(task.flow)) /\ task.cur \in 1..task.pos
        /\ Bidirectional(task.flow, task.cur) /\ task.step \in 1..3
    BY <2>1, PacketTaskType DEF TaskOK
  <2>3. /\ DOMAIN Path1(task.flow) = 1..Len(Path1(task.flow))
        /\ task.cur \in DOMAIN Path1(task.flow)
    BY <2>1, <2>2, ServiceAssumption, PathAssumption, LenProperties DEF Path1
  <2>4. CurVnf \in Usable(task.flow)
    BY <2>2, <2>3, VnfUsable DEF CurVnf
  <2>5. \A d \in Registered(CurVnf.dpid) : d \in Conn /\ Dpid(d) = CurVnf.dpid
    BY <1>1, ElementOfSeq, LenProperties DEF Registered, ToSet, TypeOK
  <2>6. CASE SendSource
    <3>1. /\ Send(task.conn, SourceMod(task.flow, task.port, VnfAt(task.flow, 1)))
          /\ UNCHANGED <<table, vnf>> /\ InTask("source")
      BY <2>6 DEF SendSource, Continue
    <3>2. VnfAt(task.flow, 1) \in Usable(task.flow)
      <4>1. task.pc = "source"
        BY <3>1, PacketTask
      <4>2. task.pos = 1 /\ task.cur = 1
        BY <2>1, <2>2, <4>1 DEF TaskOK
      <4> QED
        BY <2>4, <4>2 DEF CurVnf
    <3> QED
      BY <1>1, <2>1, <3>1, <3>2, ModsReach, SendReaches
  <2>7. CASE SendHop
    <3>1. PICK d \in Registered(CurVnf.dpid) :
             Send(d, HopMod(task.step, task.flow, LastSi, Index(task.pos + 1),
                            CurVnf, NextVnf))
      BY <2>7 DEF SendHop
    <3>2. UNCHANGED <<table, vnf>> /\ ~ AtEnd /\ NextBidirectional
      BY <2>7 DEF SendHop, Continue
    <3>3. NextVnf \in Usable(task.flow)
      <4>1. task.pos + 1 \in DOMAIN Path1(task.flow)
        BY <2>1, <2>2, <2>3, <3>2 DEF AtEnd
      <4> QED
        BY <3>2, <4>1, VnfUsable DEF NextVnf, NextBidirectional
    <3>4. ModReaches(Dpid(d), HopMod(task.step, task.flow, LastSi,
                                     Index(task.pos + 1), CurVnf, NextVnf))
      BY <2>1, <2>2, <2>4, <2>5, <3>3, ModsReach
    <3> QED
      BY <1>1, <2>5, <3>1, <3>2, <3>4, SendReaches
  <2>8. CASE SendEnd
    <3>1. PICK d \in Registered(CurVnf.dpid) :
             Send(d, EndMod(task.step, task.flow, CurVnf))
      BY <2>8 DEF SendEnd
    <3>2. UNCHANGED <<table, vnf>> /\ InTask("chain") /\ AtEnd
      BY <2>8 DEF SendEnd, InTurn, Continue
    <3>3. task.step \in 1..2
      BY <2>1, <2>2, <3>2, PacketTask DEF TaskOK, AtEnd
    <3>4. ModReaches(Dpid(d), EndMod(task.step, task.flow, CurVnf))
      BY <2>1, <2>4, <2>5, <3>3, ModsReach
    <3> QED
      BY <1>1, <2>5, <3>1, <3>2, <3>4, SendReaches
  <2> QED
    BY <1>6, <2>6, <2>7, <2>8
<1> QED
  BY <1>2, <1>3, <1>4, <1>5, <1>6 DEF Loop, HandleEvent, RunTask

\* The steps of the REST server.
LEMMA ServeReaches ==
    ASSUME TypeInv, ReachInv, NEW r \in Request, Serve(r)
    PROVE  ReachInv'
<1>1. TypeOK
  BY DEF TypeInv
<1>2. UNCHANGED <<table, vnf>>
  BY DEF Serve, StartRequest, NextDatapath, SendRequest, RequestBlocks, SetRest,
         network
<1>3. CASE SendRequest(r)
  <2>1. /\ Subject[r] \in Flow /\ rest[r].seen \in Seq(Conn) /\ rest[r].seen # <<>>
    BY <1>1, <1>3 DEF SendRequest, TypeInv, RequestInv, TypeOK, RestState
  <2>2. Last(rest[r].seen) \in Conn
    BY <2>1, LenProperties, ElementOfSeq DEF Last
  <2>3. \A s : ModReaches(s, RequestMod(r))
    BY <2>1, ModsReach DEF RequestMod
  <2> QED
    BY <1>1, <1>2, <1>3, <2>2, <2>3, SendReaches DEF SendRequest
<1>4. CASE StartRequest(r) \/ NextDatapath(r) \/ RequestBlocks(r)
  <2>1. UNCHANGED chan
    BY <1>4 DEF StartRequest, NextDatapath, RequestBlocks, network
  <2> QED
    BY <1>2, <2>1, NothingSent
<1> QED
  BY <1>3, <1>4 DEF Serve

\* The initial state.
LEMMA InitReach == Init => ReachInv
<1> SUFFICES ASSUME Init PROVE ReachInv
  OBVIOUS
<1>1. \A s : \A e \in DefaultEntries : EntryReaches(s, e)
  BY DefaultFacts, FlowAssumption DEF EntryReaches
<1> QED
  BY <1>1 DEF Init, ReachInv

\* Every step.
LEMMA NextReach == TypeInv /\ ReachInv /\ [Next]_vars => ReachInv'
<1> SUFFICES ASSUME TypeInv, ReachInv, [Next]_vars PROVE ReachInv'
  OBVIOUS
<1>1. CASE UNCHANGED vars
  BY <1>1, NothingSent DEF vars
<1>2. CASE Next
  BY <1>2, NetworkReaches, LoopReaches, ServeReaches DEF Next, TypeInv
<1> QED
  BY <1>1, <1>2

\* What is final is installed, or was sent on a connection of the switch.
LEMMA FinalReaches == ReachInv => FollowsRegistrations
<1> SUFFICES ASSUME ReachInv, NEW f \in Flow, NEW s \in Switch, NEW e \in Final(s),
                    e.flow = f
             PROVE  Reaches(s, e)
  BY DEF FollowsRegistrations
<1>1. EntryReaches(s, e)
  <2>1. CASE e \in table[s]
    BY <2>1 DEF ReachInv
  <2>2. CASE e \notin table[s]
    <3>1. PICK c \in LiveConn(s) : e \in Coming(c)
      BY <2>2 DEF Final
    <3>2. PICK i \in DOMAIN chan[c] : chan[c][i].cmd = "add" /\ e = chan[c][i].entry
      BY <3>1 DEF Coming
    <3>3. c \in Conn /\ Dpid(c) = s
      BY DEF LiveConn
    <3> QED
      BY <3>2, <3>3 DEF ReachInv, ModReaches
  <2> QED
    BY <2>1, <2>2
<1> QED
  BY <1>1 DEF EntryReaches

\* For any services, functions and registrations, and whatever is lost or blocked
\* on the way: an entry made for a flow leads to registered functions of its
\* service, and what takes packets from one of them by its port, or for it by its
\* address, is on the switch where it is.
THEOREM PlacesFollowed == Spec => []FollowsRegistrations
<1>1. Init => TypeInv /\ ReachInv
  BY InitType, InitReach
<1>2. TypeInv /\ ReachInv /\ [Next]_vars => (TypeInv /\ ReachInv)'
  BY NextType, NextReach
<1> QED
  BY <1>1, <1>2, FinalReaches, PTL DEF Spec

(***************************************************************************)
(* Connections that were made.                                             *)
(***************************************************************************)

\* A connection that was made never becomes unmade.
LEMMA StaysMet ==
    ASSUME TypeInv, [Next]_vars
    PROVE  \A c \in Conn : Met(c) => link'[c] # "none"
<1>1. \/ link' = link
      \/ \E c \in Conn : \E state \in LinkState \ {"none"} :
            link' = [link EXCEPT ![c] = state]
  BY DEF Next, vars, Loop, HandleEvent, RunTask, LoopBlocks,
     RegisterDatapath, UnregisterDatapath, RegisterVnf, HandledAtOnce,
     StartDefaults, StartDetection, Begin, SendDefault, DeleteCatching,
     SendSource, AbandonChain, SkipVnf, SendHop, SendEnd, Continue, network,
     Serve, StartRequest, NextDatapath, SendRequest, RequestBlocks, SetRest,
     LinkStep, Connect, EnterMain, Drop, Notice, ReportDead, ApplyMod,
     DetectPacket, RegisterPacket, LinkState
<1> QED
  BY <1>1 DEF Met, TypeInv, TypeOK

\* Sending to one that was made puts nothing on the others.
LEMMA SendMet ==
    ASSUME TypeOK, NEW c \in Conn, Met(c), NEW mod, Send(c, mod),
           UNCHANGED link, \A d \in Conn : ~ Met(d) => chan[d] = <<>>
    PROVE  \A d \in Conn : ~ Met(d)' => chan'[d] = <<>>
<1>1. \A d \in Conn : Met(d)' <=> Met(d)
  BY DEF Met
<1>2. chan' = chan \/ chan' = [chan EXCEPT ![c] = Append(@, mod)]
  BY DEF Send
<1> QED
  BY <1>1, <1>2 DEF TypeOK

\* The steps of connections and switches.
LEMMA NetworkMet ==
    ASSUME TypeInv, MetInv, [Next]_vars,
           \/ \E c \in Conn : LinkStep(c)
           \/ \E c \in Conn, t \in Traffic : DetectPacket(c, t)
           \/ \E c \in Conn, d \in Datagram : RegisterPacket(c, d)
    PROVE  MetInv'
<1>1. TypeOK /\ \A c \in Conn : Met(c) => link'[c] # "none"
  BY StaysMet DEF TypeInv
<1>2. /\ ToSet(datapaths) \subseteq Conn
      /\ \A i \in DOMAIN events : events[i].conn \in Conn
      /\ \A r \in Request : ToSet(rest[r].seen) \subseteq Conn
      /\ task # NoTask => task.conn \in Conn
      /\ task # NoTask /\ task.pc = "delete" => ToSet(task.todo) \subseteq Conn
  <2>1. ToSet(datapaths) \subseteq Conn
    BY <1>1, ElementOfSeq, LenProperties DEF TypeOK, ToSet
  <2>2. \A i \in DOMAIN events : events[i].conn \in Conn
    BY <1>1, ElementOfSeq, LenProperties DEF TypeOK, Event
  <2>3. \A r \in Request : rest[r].seen \in Seq(Conn)
    BY <1>1 DEF TypeOK, RestState
  <2>4. \A r \in Request : ToSet(rest[r].seen) \subseteq Conn
    BY <2>3, ElementOfSeq, LenProperties DEF ToSet
  <2>5. task # NoTask => task \in Task
    BY <1>1 DEF TypeOK
  <2>6. task # NoTask => task.conn \in Conn
    BY <2>5 DEF Task
  <2>7. task # NoTask /\ task.pc = "delete" => task.todo \in Seq(Conn)
    BY <2>5, PacketTaskType
  <2>8. task # NoTask /\ task.pc = "delete" => ToSet(task.todo) \subseteq Conn
    BY <2>7, ElementOfSeq, LenProperties DEF ToSet
  <2> QED
    BY <2>1, <2>2, <2>4, <2>6, <2>8
<1>3. UNCHANGED <<datapaths, task, rest>>
  BY DEF LinkStep, Connect, EnterMain, Drop, Notice, ReportDead, ApplyMod,
         DetectPacket, RegisterPacket
<1>4. \A d \in Conn : ~ Met(d)' => chan'[d] = <<>>
  <2>1. \/ chan' = chan
        \/ \E c \in Conn : chan' = [chan EXCEPT ![c] = <<>>]
        \/ \E c \in Conn : /\ chan[c] # <<>>
                           /\ chan' = [chan EXCEPT ![c] = Tail(@)]
    BY DEF LinkStep, Connect, EnterMain, Drop, Notice, ReportDead, ApplyMod,
           DetectPacket, RegisterPacket, network
  <2> QED
    BY <1>1, <2>1 DEF MetInv, TypeOK, Met
<1>5. \/ events' = events
      \/ \E e : /\ events' = Append(events, e)
                /\ e.conn \in Conn /\ link'[e.conn] # "none"
  <2>1. ASSUME NEW c \in Conn, Connect(c) \/ EnterMain(c) \/ ReportDead(c)
        PROVE  \E e : events' = Append(events, e) /\ e.conn \in Conn /\ link'[e.conn] # "none"
    <3>1. \E e : events' = Append(events, e) /\ e.conn = c
      BY <2>1 DEF Connect, EnterMain, ReportDead, Enqueue
    <3>2. link'[c] # "none"
      BY <1>1, <2>1 DEF Connect, EnterMain, ReportDead, TypeOK
    <3> QED
      BY <3>1, <3>2
  <2>2. ASSUME NEW c \in Conn,
               \/ \E t \in Traffic : DetectPacket(c, t)
               \/ \E d \in Datagram : RegisterPacket(c, d)
        PROVE  \E e : events' = Append(events, e) /\ e.conn \in Conn /\ link'[e.conn] # "none"
    <3>1. \E e : events' = Append(events, e) /\ e.conn = c
      <4>1. ASSUME NEW t \in Traffic, DetectPacket(c, t)
            PROVE  \E e : events' = Append(events, e) /\ e.conn = c
        <5>1. PICK x : Enqueue([type |-> "packet_in", conn |-> c, port |-> t.port,
                                flow |-> x.meta])
          BY <4>1 DEF DetectPacket
        <5> QED
          BY <5>1 DEF Enqueue
      <4>2. ASSUME NEW d \in Datagram, RegisterPacket(c, d)
            PROVE  \E e : events' = Append(events, e) /\ e.conn = c
        BY <4>2 DEF RegisterPacket, Enqueue
      <4> QED
        BY <2>2, <4>1, <4>2
    <3>2. link'[c] # "none"
      BY <1>1, <2>2 DEF DetectPacket, RegisterPacket, Met, TypeOK
    <3> QED
      BY <3>1, <3>2
  <2>3. ASSUME NEW c \in Conn, Drop(c) \/ Notice(c) \/ ApplyMod(c)
        PROVE  events' = events
    BY <2>3 DEF Drop, Notice, ApplyMod
  <2> QED
    BY <2>1, <2>2, <2>3 DEF LinkStep
<1>6. \A i \in DOMAIN events' : link'[events'[i].conn] # "none"
  <2>1. CASE events' = events
    BY <1>1, <1>2, <2>1 DEF MetInv
  <2>2. ASSUME NEW e, events' = Append(events, e), e.conn \in Conn, link'[e.conn] # "none"
        PROVE  \A i \in DOMAIN events' : link'[events'[i].conn] # "none"
    <3>1. \A i \in DOMAIN events' :
             \/ i \in DOMAIN events /\ events'[i] = events[i]
             \/ events'[i] = e
      BY <1>1, <2>2, EndStays
    <3> QED
      BY <1>1, <1>2, <2>2, <3>1 DEF MetInv
  <2> QED
    BY <1>5, <2>1, <2>2
<1> QED
  BY <1>1, <1>2, <1>3, <1>4, <1>6 DEF MetInv, MetTask, Met

\* The steps of the event loop.
LEMMA LoopMet ==
    ASSUME TypeInv, MetInv, Loop
    PROVE  MetInv'
<1>1. /\ TypeOK /\ datapaths \in Seq(Conn) /\ events \in Seq(Event)
  BY DEF TypeInv, TypeOK
<1>2. link' = link /\ rest' = rest
  BY DEF Loop, HandleEvent, RunTask, LoopBlocks, RegisterDatapath,
         UnregisterDatapath, RegisterVnf, HandledAtOnce, StartDefaults,
         StartDetection, Begin, SendDefault, DeleteCatching, SendSource,
         AbandonChain, SkipVnf, SendHop, SendEnd, Continue, network
<1>3. ASSUME UNCHANGED chan PROVE \A c \in Conn : ~ Met(c)' => chan'[c] = <<>>
  BY <1>2, <1>3 DEF MetInv, Met
<1>4. ASSUME events' = events \/ (events # <<>> /\ events' = Tail(events))
      PROVE  \A i \in DOMAIN events' : link[events'[i].conn] # "none"
  <2>1. CASE events' = events
    BY <2>1 DEF MetInv, Met
  <2>2. CASE events # <<>> /\ events' = Tail(events)
    <3>1. \A i \in DOMAIN events' : i + 1 \in DOMAIN events /\ events'[i] = events[i + 1]
      BY <1>1, <2>2, EndMoves
    <3> QED
      BY <3>1 DEF MetInv, Met
  <2> QED
    BY <1>4, <2>1, <2>2
<1>5. ASSUME ToSet(datapaths') \subseteq ToSet(datapaths)
      PROVE  \A c \in ToSet(datapaths') : link[c] # "none"
  BY <1>5 DEF MetInv, Met
<1>6. ASSUME \A c \in Conn : ~ Met(c)' => chan'[c] = <<>>,
             events' = events \/ (events # <<>> /\ events' = Tail(events)),
             \A c \in ToSet(datapaths') : link[c] # "none",
             task' # NoTask =>
                /\ link[task'.conn] # "none"
                /\ task'.pc = "delete" => \A c \in ToSet(task'.todo) : link[c] # "none"
      PROVE  MetInv'
  BY <1>2, <1>4, <1>6 DEF MetInv, MetTask, Met
<1>7. ASSUME events # <<>>
      PROVE  link[Head(events).conn] # "none" /\ Head(events) = events[1]
  <2>1. 1 \in DOMAIN events /\ Head(events) = events[1]
    BY <1>1, <1>7, LenProperties
  <2> QED
    BY <2>1 DEF MetInv, Met
<1>8. CASE RegisterDatapath \/ UnregisterDatapath
  <2>1. /\ UNCHANGED chan /\ events # <<>> /\ events' = Tail(events) /\ task' = NoTask
    BY <1>8 DEF RegisterDatapath, UnregisterDatapath, HandledAtOnce, network, NextEvent
  <2>2. \A c \in ToSet(datapaths') : link[c] # "none"
    <3>1. CASE RegisterDatapath
      <4>1. datapaths' = datapaths \/ datapaths' = Append(datapaths, Head(events).conn)
        BY <3>1 DEF RegisterDatapath
      <4>2. \A x : ToSet(Append(datapaths, x)) = ToSet(datapaths) \cup {x}
        BY <1>1, ElementsOf
      <4>3. PICK x : /\ link[x] # "none"
                     /\ datapaths' = datapaths \/ datapaths' = Append(datapaths, x)
        BY <1>7, <2>1, <4>1
      <4>4. datapaths' = datapaths \/ ToSet(datapaths') = ToSet(datapaths) \cup {x}
        BY <4>2, <4>3
      <4> QED
        BY <4>3, <4>4 DEF MetInv, Met
    <3>2. CASE UnregisterDatapath
      <4>1. \/ datapaths' = datapaths
            \/ \E i \in DOMAIN datapaths : datapaths' = RemoveAt(datapaths, i)
        BY <3>2 DEF UnregisterDatapath
      <4>2. ToSet(datapaths') \subseteq ToSet(datapaths)
        BY <1>1, <4>1, ElementsOf
      <4> QED
        BY <1>5, <4>2
    <3> QED
      BY <1>8, <3>1, <3>2
  <2> QED
    BY <1>3, <1>6, <2>1, <2>2
<1>9. CASE RegisterVnf
  <2>1. /\ UNCHANGED <<chan, datapaths>> /\ events # <<>> /\ events' = Tail(events)
        /\ task' = NoTask
    BY <1>9 DEF RegisterVnf, HandledAtOnce, network, NextEvent
  <2> QED
    BY <1>3, <1>5, <1>6, <2>1
<1>10. CASE StartDefaults
  <2>1. /\ UNCHANGED <<chan, datapaths>> /\ events # <<>> /\ events' = Tail(events)
        /\ task'.pc = "defaults" /\ task'.conn = Head(events).conn
    BY <1>10, SetUpStep
  <2> QED
    BY <1>3, <1>5, <1>6, <1>7, <2>1
<1>11. CASE StartDetection
  <2>1. /\ UNCHANGED <<chan, datapaths>> /\ events # <<>> /\ events' = Tail(events)
        /\ task' # NoTask => /\ task'.conn = Head(events).conn
                             /\ task'.pc = "delete" => task'.todo = datapaths
    BY <1>11, DetectionStep
  <2>2. task' # NoTask =>
                /\ link[task'.conn] # "none"
                /\ task'.pc = "delete" => \A c \in ToSet(task'.todo) : link[c] # "none"
    BY <1>7, <2>1 DEF MetInv, Met
  <2> QED
    BY <1>3, <1>5, <1>6, <2>1, <2>2
<1>12. CASE LoopBlocks
  <2>1. UNCHANGED <<chan, datapaths, events, task>>
    BY <1>12 DEF LoopBlocks, network
  <2> QED
    BY <1>3, <1>5, <1>6, <2>1 DEF MetInv, MetTask, Met
<1>13. CASE SendDefault
  <2>1. /\ task # NoTask /\ task.conn \in Conn /\ UNCHANGED <<datapaths, events>>
        /\ Send(task.conn, DefaultMods[task.step])
        /\ task' # NoTask => task'.pc = "defaults" /\ task'.conn = task.conn
    BY <1>13, DefaultStep
  <2>2. Met(task.conn)
    BY <2>1 DEF MetInv, MetTask
  <2>3. \A d \in Conn : ~ Met(d)' => chan'[d] = <<>>
    BY <1>1, <1>2, <2>1, <2>2, SendMet DEF MetInv
  <2> QED
    BY <1>5, <1>6, <2>1, <2>2, <2>3 DEF Met
<1>14. CASE DeleteCatching
  <2>1. /\ task # NoTask /\ UNCHANGED <<datapaths, events>>
        /\ task.pc = "delete" /\ task.todo \in Seq(Conn) /\ task.todo # <<>>
        /\ Head(task.todo) \in Conn
        /\ Send(Head(task.todo), DeleteFlowMod(task.flow))
        /\ task' # NoTask => /\ task'.conn = task.conn
                             /\ task'.pc = "delete" => task'.todo = Tail(task.todo)
    BY <1>14, DeleteStep
  <2>2. Met(task.conn) /\ \A c \in ToSet(task.todo) : Met(c)
    BY <2>1 DEF MetInv, MetTask
  <2>3. ToSet(task.todo) = {Head(task.todo)} \cup ToSet(Tail(task.todo))
    BY <2>1, ElementsOf
  <2>4. \A d \in Conn : ~ Met(d)' => chan'[d] = <<>>
    BY <1>1, <1>2, <2>1, <2>2, <2>3, SendMet DEF MetInv
  <2> QED
    BY <1>5, <1>6, <2>1, <2>2, <2>3, <2>4 DEF Met
<1>15. CASE SendSource
  <2>1. /\ task # NoTask /\ task.conn \in Conn /\ UNCHANGED <<datapaths, events>>
        /\ Send(task.conn, SourceMod(task.flow, task.port, VnfAt(task.flow, 1)))
        /\ task'.pc = "chain" /\ task'.conn = task.conn
    BY <1>15, SourceStep
  <2>2. Met(task.conn)
    BY <2>1 DEF MetInv, MetTask
  <2>3. \A d \in Conn : ~ Met(d)' => chan'[d] = <<>>
    BY <1>1, <1>2, <2>1, <2>2, SendMet DEF MetInv
  <2> QED
    BY <1>5, <1>6, <2>1, <2>2, <2>3 DEF Met
<1>16. CASE AbandonChain \/ SkipVnf \/ SendHop \/ SendEnd
  <2>1. /\ task # NoTask /\ UNCHANGED <<datapaths, events>>
        /\ task' # NoTask => task'.pc = "chain" /\ task'.conn = task.conn
        /\ \/ chan' = chan
           \/ \E d \in ToSet(datapaths), mod \in FlowMod :
                 d \in Conn /\ Send(d, mod)
    BY <1>16, ChainStep
  <2>2. Met(task.conn) /\ \A d \in ToSet(datapaths) : Met(d)
    BY <2>1 DEF MetInv, MetTask
  <2>3. \A d \in Conn : ~ Met(d)' => chan'[d] = <<>>
    BY <1>1, <1>2, <1>3, <2>1, <2>2, SendMet DEF MetInv
  <2> QED
    BY <1>5, <1>6, <2>1, <2>2, <2>3 DEF Met
<1> QED
  BY <1>8, <1>9, <1>10, <1>11, <1>12, <1>13, <1>14, <1>15, <1>16
     DEF Loop, HandleEvent, RunTask

\* The steps of the REST server.
LEMMA ServeMet ==
    ASSUME TypeInv, MetInv, NEW r \in Request, Serve(r)
    PROVE  MetInv'
<1>1. /\ TypeOK /\ datapaths \in Seq(Conn) /\ rest[r].seen \in Seq(Conn)
  BY DEF TypeInv, TypeOK, RestState
<1>2. UNCHANGED <<link, datapaths, events, task>>
  BY DEF Serve, StartRequest, NextDatapath, SendRequest, RequestBlocks, SetRest,
         network
<1>3. ASSUME \A c \in Conn : ~ Met(c)' => chan'[c] = <<>>,
             \A q \in Request : q # r => rest'[q] = rest[q],
             \A c \in ToSet(rest'[r].seen) : link[c] # "none"
      PROVE  MetInv'
  BY <1>2, <1>3 DEF MetInv, MetTask, Met
<1>4. CASE StartRequest(r) \/ NextDatapath(r)
  <2>1. /\ UNCHANGED chan /\ \A q \in Request : q # r => rest'[q] = rest[q]
        /\ \/ rest'[r].seen = rest[r].seen
           \/ \E i \in Unseen(r) : rest'[r].seen = Append(rest[r].seen, datapaths[i])
    BY <1>4, TurnStep
  <2>2. \A i \in Unseen(r) : datapaths[i] \in ToSet(datapaths)
    BY DEF Unseen, ToSet
  <2>3. \A x : ToSet(Append(rest[r].seen, x)) = ToSet(rest[r].seen) \cup {x}
    BY <1>1, ElementsOf
  <2>4. ToSet(rest'[r].seen) \subseteq ToSet(rest[r].seen) \cup ToSet(datapaths)
    <3>1. ASSUME NEW i \in Unseen(r), rest'[r].seen = Append(rest[r].seen, datapaths[i])
          PROVE  ToSet(rest'[r].seen) \subseteq ToSet(rest[r].seen) \cup ToSet(datapaths)
      BY <2>2, <2>3, <3>1
    <3> QED
      BY <2>1, <3>1
  <2> QED
    BY <1>2, <1>3, <2>1, <2>4 DEF MetInv, Met
<1>5. CASE SendRequest(r)
  <2>1. /\ Last(rest[r].seen) \in Conn /\ Last(rest[r].seen) \in ToSet(rest[r].seen)
        /\ Send(Last(rest[r].seen), RequestMod(r))
        /\ \A q \in Request : q # r => rest'[q] = rest[q]
        /\ rest'[r].seen = rest[r].seen
    BY <1>5, RequestStep
  <2>2. \A d \in Conn : ~ Met(d)' => chan'[d] = <<>>
    BY <1>1, <1>2, <2>1, SendMet DEF MetInv
  <2> QED
    BY <1>3, <2>1, <2>2 DEF MetInv, Met
<1>6. CASE RequestBlocks(r)
  <2>1. UNCHANGED <<chan, rest>>
    BY <1>6 DEF RequestBlocks, network
  <2> QED
    BY <1>2, <1>3, <2>1 DEF MetInv, Met
<1> QED
  BY <1>4, <1>5, <1>6 DEF Serve

\* The initial state, and every step.
LEMMA InitMet == Init => MetInv
<1> SUFFICES ASSUME Init PROVE MetInv
  OBVIOUS
<1>1. /\ DOMAIN datapaths = 1..Len(InitialSwitch)
      /\ \A i \in DOMAIN datapaths : datapaths[i] = <<InitialSwitch[i], 1>>
      /\ \A i \in DOMAIN datapaths : InitialSwitch[i] \in Switch
      /\ DOMAIN InitialSwitch = 1..Len(InitialSwitch)
  BY SwitchAssumption DEF Init
<1>2. ASSUME NEW c \in ToSet(datapaths) PROVE Met(c)
  <2>1. PICK i \in DOMAIN datapaths : c = <<InitialSwitch[i], 1>>
    BY <1>1 DEF ToSet
  <2>2. c \in Conn /\ Dpid(c) \in ToSet(InitialSwitch) /\ c[2] = 1
    BY <1>1, <2>1, BoundAssumption DEF Conn, Dpid, ToSet
  <2> QED
    BY <2>2 DEF Init, Met
<1>3. \A r \in Request : ToSet(rest[r].seen) = {}
  BY DEF Init, ToSet
<1> QED
  BY <1>2, <1>3 DEF Init, MetInv

LEMMA NextMet == TypeInv /\ MetInv /\ [Next]_vars => MetInv'
<1> SUFFICES ASSUME TypeInv, MetInv, [Next]_vars PROVE MetInv'
  OBVIOUS
<1>1. CASE UNCHANGED vars
  BY <1>1 DEF vars, MetInv, MetTask, Met
<1>2. CASE Next
  BY <1>2, NetworkMet, LoopMet, ServeMet DEF Next
<1> QED
  BY <1>1, <1>2

(***************************************************************************)
(* One connection of a switch after the other.                             *)
(***************************************************************************)

\* A connection that is gone stays gone, and only a new one becomes met.
LEMMA StaysGone ==
    ASSUME TypeInv, [Next]_vars
    PROVE  /\ \A c \in Conn : c \in Gone => c \in Gone'
           /\ \/ \A c \in Conn : Met(c)' => Met(c)
              \/ \E c \in Conn : Connect(c)
<1>1. link \in [Conn -> LinkState]
  BY DEF TypeInv, TypeOK
<1>2. \/ link' = link
      \/ \E c \in Conn :
            /\ Connect(c) \/ EnterMain(c) \/ Drop(c) \/ Notice(c) \/ ReportDead(c)
  BY DEF Next, LinkStep, ApplyMod, DetectPacket, RegisterPacket, Loop, HandleEvent,
         RunTask, LoopBlocks, RegisterDatapath, UnregisterDatapath, RegisterVnf,
         HandledAtOnce, StartDefaults, StartDetection, Begin, SendDefault,
         DeleteCatching, SendSource, AbandonChain, SkipVnf, SendHop, SendEnd,
         Continue, Serve, StartRequest, NextDatapath, SendRequest, RequestBlocks,
         SetRest, network, vars
<1>3. CASE link' = link
  BY <1>3 DEF Gone, Ended, Met
<1>4. ASSUME NEW c \in Conn,
             Connect(c) \/ EnterMain(c) \/ Drop(c) \/ Notice(c) \/ ReportDead(c)
      PROVE  /\ \A d \in Conn : d \in Gone => d \in Gone'
             /\ \/ \A d \in Conn : Met(d)' => Met(d)
                \/ Connect(c)
  <2>1. \E state \in LinkState :
           /\ link' = [link EXCEPT ![c] = state]
           /\ link[c] \in {"stale", "closed"} => state \in {"closed", "dead"}
           /\ link[c] # "dead"
           /\ link[c] # "none" \/ Connect(c)
    BY <1>4 DEF Connect, EnterMain, Drop, Notice, ReportDead, LinkState
  <2> QED
    BY <1>1, <2>1 DEF Gone, Ended, Met
<1> QED
  BY <1>2, <1>3, <1>4

\* A switch connects again only when its last connection is gone.
LEMMA NextOneAtATime ==
    TypeInv /\ OneAtATime /\ [Next]_vars => OneAtATime'
<1> SUFFICES ASSUME TypeInv, OneAtATime, [Next]_vars,
                    NEW c \in Conn, NEW d \in Conn,
                    Dpid(c) = Dpid(d), d[2] < c[2], link'[c] # "none"
             PROVE  d \in Gone'
  BY DEF OneAtATime, Met, Dpid
<1>1. \A x \in Conn : x \in Gone => x \in Gone'
  BY StaysGone
<1>2. CASE Met(c)
  BY <1>1, <1>2 DEF OneAtATime
<1>3. CASE ~ Met(c)
  <2>1. PICK x \in Conn : Connect(x)
    BY <1>3, StaysGone DEF Met
  <2>2. link \in [Conn -> LinkState] /\ link' = [link EXCEPT ![x] = "config"]
    BY <2>1 DEF TypeInv, TypeOK, Connect
  <2>3. x = c
    BY <1>3, <2>2 DEF Met
  <2> DEFINE p == <<Dpid(c), c[2] - 1>>
  <2>4. p \in Gone
    BY <2>1, <2>3, ConnParts DEF Connect
  <2>5. p \in Conn /\ Dpid(p) = Dpid(c) /\ p[2] = c[2] - 1 /\ Met(p)
    BY <2>4 DEF Gone, Dpid, Met, Ended
  <2> HIDE DEF p
  <2>6. d[2] \in Nat /\ c[2] \in Nat
    BY ConnParts
  <2>7. CASE d[2] = p[2]
    BY <1>1, <2>4, <2>5, <2>7, ConnParts
  <2>8. CASE d[2] # p[2]
    BY <1>1, <2>5, <2>6, <2>8 DEF OneAtATime
  <2> QED
    BY <2>7, <2>8
<1> QED
  BY <1>2, <1>3

\* Each switch begins with at most its first connection.
LEMMA InitOneAtATime == Init => OneAtATime
<1> SUFFICES ASSUME Init, NEW c \in Conn, NEW d \in Conn, d[2] < c[2], Met(c)
             PROVE  FALSE
  BY DEF OneAtATime
<1>1. c[2] = 1
  BY DEF Init, Met
<1> QED
  BY <1>1, ConnParts

(***************************************************************************)
(* Setting up a switch.                                                    *)
(***************************************************************************)

\* A switch accepts every default.
LEMMA DefaultInstalled ==
    ASSUME NEW k \in 1..6, NEW tbl
    PROVE  DefaultMods[k].entry \in Apply(tbl, DefaultMods[k])
<1>1. DefaultMods[k].cmd = "add"
  BY DefaultFacts
<1>2. PrereqOK(DefaultMods[k].entry.match)
  <2>1. /\ PrereqOK(RegistrationMatch) /\ PrereqOK({<<"eth_type", NSH>>}) /\ PrereqOK({})
    <3>1. Fields(RegistrationMatch) =
            {"eth_type", "eth_dst", "ipv4_dst", "ip_proto", "udp_dst"}
      BY DEF Fields, RegistrationMatch
    <3>2. {<<"eth_type", IPv4>>, <<"ip_proto", UDP>>} \subseteq RegistrationMatch
      BY DEF RegistrationMatch
    <3>3. Fields({<<"eth_type", NSH>>}) = {"eth_type"} /\ Fields({}) = {}
      BY DEF Fields
    <3>4. PrereqOK(RegistrationMatch)
      BY <3>1, <3>2 DEF PrereqOK
    <3> QED
      BY <3>3, <3>4 DEF PrereqOK
  <2>2. DefaultMods[k].entry.match \in {RegistrationMatch, {<<"eth_type", NSH>>}, {}}
    <3>1. /\ DefaultMods[1].entry.match = RegistrationMatch
          /\ DefaultMods[2].entry.match = {<<"eth_type", NSH>>}
          /\ \A i \in 3..6 : DefaultMods[i].entry.match = {}
      BY DEF DefaultMods, Default, AddMod
    <3>2. k = 1 \/ k = 2 \/ k \in 3..6
      OBVIOUS
    <3> QED
      BY <3>1, <3>2
  <2> QED
    BY <2>1, <2>2
<1> QED
  BY <1>1, <1>2 DEF Apply, Installed

\* Two connections of one switch are not up at the same time.
LEMMA OneUp ==
    ASSUME OneAtATime, NEW c \in Conn, NEW d \in Conn, Dpid(c) = Dpid(d),
           link[c] \in {"config", "main"}, link[d] \in {"config", "main"}
    PROVE  c = d
<1>1. c \notin Gone /\ d \notin Gone /\ Met(c) /\ Met(d)
  BY DEF Gone, Ended, Met
<1>2. ~ (c[2] < d[2]) /\ ~ (d[2] < c[2])
  BY <1>1 DEF OneAtATime
<1>3. c[2] \in Nat /\ d[2] \in Nat
  BY ConnParts
<1>4. c[2] = d[2]
  BY <1>2, <1>3
<1> QED
  BY <1>4, ConnParts

\* What was installed or on its way still is.
LEMMA PlacedStays ==
    ASSUME NEW c \in Conn, NEW k, Placed(c, k),
           DefaultMods[k].entry \in table[Dpid(c)]
              => DefaultMods[k].entry \in table'[Dpid(c)],
           \A i \in DOMAIN chan[c] : i \in DOMAIN chan'[c] /\ chan'[c][i] = chan[c][i]
    PROVE  Placed(c, k)'
BY DEF Placed, Dpid

\* The steps of connections and switches.
LEMMA NetworkSetUp ==
    ASSUME SourcesGiven, TypeInv, EntriesFromRows, OneAtATime, SetUpInv,
           \/ \E c \in Conn : LinkStep(c)
           \/ \E c \in Conn, t \in Traffic : DetectPacket(c, t)
           \/ \E c \in Conn, d \in Datagram : RegisterPacket(c, d)
    PROVE  SetUpInv'
<1>1. TypeOK
  BY DEF TypeInv
<1> SUFFICES ASSUME NEW c \in Conn, NEW k \in 1..6,
                    link'[c] \in {"config", "main"}, ~ Announced(c)'
             PROVE  Placed(c, k)' \/ SettingUp(c, k)'
  BY DEF SetUpInv
<1>2. task' = task
  BY DEF LinkStep, Connect, EnterMain, Drop, Notice, ReportDead, ApplyMod,
         DetectPacket, RegisterPacket
<1>3. ASSUME link[c] \in {"config", "main"},
             events' = events \/ \E e : Enqueue(e)
      PROVE  Placed(c, k) \/ SettingUp(c, k)'
  <2>1. \A i \in DOMAIN events : i \in DOMAIN events' /\ events'[i] = events[i]
    BY <1>1, <1>3, EndStays DEF Enqueue
  <2>2. ~ Announced(c)
    BY <2>1 DEF Announced
  <2> QED
    BY <1>2, <1>3, <2>2 DEF SetUpInv, SettingUp
<1>4. ASSUME UNCHANGED <<table, chan>>, link[c] \in {"config", "main"},
             \E e : Enqueue(e)
      PROVE  Placed(c, k)' \/ SettingUp(c, k)'
  BY <1>3, <1>4, PlacedStays
<1>5. ASSUME NEW x \in Conn, LinkStep(x)
      PROVE  Placed(c, k)' \/ SettingUp(c, k)'
  <2>1. link \in [Conn -> LinkState]
    BY <1>1 DEF TypeOK
  <2>2. CASE Connect(x) /\ x = c
    <3>1. PICK e : e = [type |-> "features", conn |-> c]
                   /\ events' = Append(events, e)
      BY <2>2 DEF Connect, Enqueue
    <3>2. e.type = "features" /\ e.conn = c
      BY <3>1
    <3>3. Len(events) + 1 \in DOMAIN events' /\ events'[Len(events) + 1] = e
      BY <1>1, <3>1, EndStays
    <3> QED
      BY <3>2, <3>3 DEF Announced
  <2>3. CASE (Connect(x) /\ x # c) \/ EnterMain(x) \/ ReportDead(x)
    <3>1. link[c] \in {"config", "main"}
      BY <2>1, <2>3 DEF Connect, EnterMain, ReportDead
    <3>2. UNCHANGED <<table, chan>> /\ \E e : Enqueue(e)
      BY <2>3 DEF Connect, EnterMain, ReportDead
    <3> QED
      BY <1>4, <3>1, <3>2
  <2>4. CASE Drop(x) \/ Notice(x)
    <3>1. /\ x # c /\ link'[c] = link[c] /\ UNCHANGED events
          /\ chan'[c] = chan[c]
      BY <1>1, <2>1, <2>4 DEF Drop, Notice, TypeOK
    <3>2. table'[Dpid(c)] = table[Dpid(c)]
      <4>1. CASE Drop(x)
        <5>1. Dpid(x) # Dpid(c)
          BY <3>1, <4>1, OneUp DEF Drop
        <5> QED
          BY <1>1, <4>1, <5>1, ConnParts DEF Drop, TypeOK
      <4> QED
        BY <2>4, <4>1 DEF Notice
    <3> QED
      BY <1>3, <3>1, <3>2, PlacedStays
  <2>5. CASE ApplyMod(x)
    <3>1. PICK mod \in FlowMod, tbl \in SUBSET Entry :
             /\ mod = chan[x][1] /\ tbl = table[Dpid(x)]
             /\ table'[Dpid(x)] = Apply(tbl, mod)
             /\ mod.cmd = "add" \/ mod.cmd = "delete"
             /\ \A e \in Apply(tbl, mod) :
                   e \in tbl \/ (mod.cmd = "add" /\ e = mod.entry)
             /\ \A s \in Switch : s # Dpid(x) => table'[s] = table[s]
      BY <1>1, <2>5, AppliedOn
    <3>7. /\ 1 \in DOMAIN chan[x]
          /\ \A i \in DOMAIN chan[x] :
                i # 1 => i - 1 \in DOMAIN chan'[x] /\ chan'[x][i - 1] = chan[x][i]
          /\ \A d \in Conn : d # x => chan'[d] = chan[d]
      BY <1>1, <2>5, TakenOn
    <3>2. link[c] \in {"config", "main"} /\ UNCHANGED events
          /\ link[x] \in {"config", "main"}
      BY <2>5 DEF ApplyMod
    <3>3. Placed(c, k) \/ SettingUp(c, k)'
      BY <1>3, <3>2
    <3>4. CASE x # c /\ Placed(c, k)
      <4>1. Dpid(x) # Dpid(c)
        BY <3>2, <3>4, OneUp
      <4>2. table'[Dpid(c)] = table[Dpid(c)]
        BY <3>1, <4>1, ConnParts
      <4>3. chan'[c] = chan[c]
        BY <3>4, <3>7
      <4> QED
        BY <3>4, <4>2, <4>3, PlacedStays
    <3>5. CASE x = c /\ DefaultMods[k].entry \in table[Dpid(c)]
      <4>1. OwnMod(mod)
        BY <3>1, <3>7 DEF EntriesFromRows, SentOwn
      <4>2. DefaultMods[k].entry \in DefaultEntries
        BY DEF DefaultEntries
      <4>3. DefaultMods[k].entry \in Apply(tbl, mod)
        BY <3>1, <3>5, <4>1, <4>2, DefaultOutlives
      <4> QED
        BY <3>1, <3>5, <4>3 DEF Placed, Dpid
    <3>6. ASSUME x = c, NEW i \in DOMAIN chan[c], chan[c][i] = DefaultMods[k]
          PROVE  Placed(c, k)'
      <4>1. CASE i = 1
        <5>1. DefaultMods[k].entry \in Apply(tbl, mod)
          BY <3>1, <3>6, <4>1, DefaultInstalled
        <5> QED
          BY <3>1, <3>6, <5>1 DEF Placed, Dpid
      <4>2. CASE i # 1
        <5>1. i - 1 \in DOMAIN chan'[c] /\ chan'[c][i - 1] = DefaultMods[k]
          BY <3>6, <3>7, <4>2
        <5> QED
          BY <5>1 DEF Placed
      <4> QED
        BY <4>1, <4>2
    <3> QED
      BY <3>3, <3>4, <3>5, <3>6 DEF Placed
  <2> QED
    BY <1>5, <2>2, <2>3, <2>4, <2>5 DEF LinkStep
<1>6. ASSUME NEW x \in Conn, NEW t \in Traffic, DetectPacket(x, t)
      PROVE  Placed(c, k)' \/ SettingUp(c, k)'
  <2>1. UNCHANGED <<table, chan, link>> /\ \E e : Enqueue(e)
    BY <1>6 DEF DetectPacket, network
  <2> QED
    BY <1>4, <2>1
<1>7. ASSUME NEW x \in Conn, NEW d \in Datagram, RegisterPacket(x, d)
      PROVE  Placed(c, k)' \/ SettingUp(c, k)'
  <2>1. UNCHANGED <<table, chan, link>> /\ \E e : Enqueue(e)
    BY <1>7 DEF RegisterPacket, network
  <2> QED
    BY <1>4, <2>1
<1> QED
  BY <1>5, <1>6, <1>7

\* The steps of the event loop and of the requests.
LEMMA AppSetUp ==
    ASSUME TypeInv, SetUpInv, Loop \/ \E r \in Request : Serve(r)
    PROVE  SetUpInv'
<1>1. TypeOK
  BY DEF TypeInv
<1>2. UNCHANGED <<link, table>>
  BY DEF Loop, HandleEvent, RunTask, LoopBlocks, RegisterDatapath,
         UnregisterDatapath, RegisterVnf, HandledAtOnce, StartDefaults,
         StartDetection, Begin, SendDefault, DeleteCatching, SendSource,
         AbandonChain, SkipVnf, SendHop, SendEnd, Continue, Serve, StartRequest,
         NextDatapath, SendRequest, RequestBlocks, SetRest, network
<1> SUFFICES ASSUME NEW c \in Conn, NEW k \in 1..6,
                    link[c] \in {"config", "main"}, ~ Announced(c)'
             PROVE  Placed(c, k)' \/ SettingUp(c, k)'
  BY <1>2 DEF SetUpInv
<1>3. ASSUME UNCHANGED events PROVE Placed(c, k) \/ SettingUp(c, k)
  BY <1>3 DEF SetUpInv, Announced
<1>4. ASSUME events # <<>>, events' = Tail(events), task = NoTask,
             ~ (Head(events).type = "features" /\ Head(events).conn = c)
      PROVE  Placed(c, k)
  <2>1. ~ Announced(c)
    <3> SUFFICES ASSUME NEW i \in DOMAIN events, events[i].type = "features",
                        events[i].conn = c
                 PROVE  FALSE
      BY DEF Announced
    <3>1. \A j \in DOMAIN events' :
             j + 1 \in DOMAIN events /\ events'[j] = events[j + 1]
      BY <1>1, <1>4, EndMoves
    <3>2. events[1] = Head(events) /\ i # 1
      BY <1>1, <1>4, EndMoves
    <3>3. i - 1 \in DOMAIN events' /\ events'[i - 1] = events[i]
      BY <1>1, <1>4, <3>2 DEF TypeOK
    <3> QED
      BY <3>3 DEF Announced
  <2> QED
    BY <1>4, <2>1 DEF SetUpInv, SettingUp
<1>5. ASSUME Placed(c, k),
             \/ UNCHANGED chan
             \/ \E d \in Conn : \E mod : Send(d, mod)
      PROVE  Placed(c, k)'
  <2>1. \A i \in DOMAIN chan[c] : i \in DOMAIN chan'[c] /\ chan'[c][i] = chan[c][i]
    BY <1>1, <1>5, SentOn
  <2> QED
    BY <1>2, <1>5, <2>1, PlacedStays
<1>6. CASE StartDefaults
  <2>1. CASE Head(events).conn = c
    BY <1>6, <2>1, SetUpStep DEF SettingUp
  <2>2. CASE Head(events).conn # c
    BY <1>4, <1>5, <1>6, <2>2, SetUpStep
  <2> QED
    BY <2>1, <2>2
<1>7. CASE HandleEvent /\ ~ StartDefaults
  <2>1. /\ UNCHANGED chan /\ events # <<>> /\ events' = Tail(events)
        /\ task = NoTask /\ Head(events).type # "features"
    BY <1>7 DEF HandleEvent, RegisterDatapath, UnregisterDatapath, RegisterVnf,
                StartDetection, NextEvent, HandledAtOnce, Begin, network
  <2> QED
    BY <1>4, <1>5, <2>1
<1>8. CASE SendDefault
  <2>1. /\ Send(task.conn, DefaultMods[task.step]) /\ task.conn \in Conn
        /\ task.step \in 1..6 /\ UNCHANGED events
        /\ \/ task' = NoTask /\ task.step = 6
           \/ /\ task' # NoTask /\ task'.pc = "defaults"
              /\ task'.conn = task.conn /\ task'.step = task.step + 1
    BY <1>8, DefaultStep
  <2>2. CASE Placed(c, k)
    BY <1>5, <2>1, <2>2
  <2>3. CASE SettingUp(c, k) /\ task.step = k
    <3>1. ~ Ended(c)
      BY DEF Ended
    <3>2. \E i \in DOMAIN chan'[c] : chan'[c][i] = DefaultMods[k]
      BY <1>1, <2>1, <2>3, <3>1, SentOn DEF SettingUp
    <3> QED
      BY <3>2 DEF Placed
  <2>4. CASE SettingUp(c, k) /\ task.step # k
    BY <2>1, <2>4 DEF SettingUp
  <2> QED
    BY <1>3, <2>1, <2>2, <2>3, <2>4
<1>9. CASE DeleteCatching \/ SendSource \/ AbandonChain \/ SkipVnf \/ SendHop \/ SendEnd
  <2>1. /\ UNCHANGED events /\ task.pc # "defaults"
        /\ \/ UNCHANGED chan
           \/ \E d \in Conn : \E mod : Send(d, mod)
    BY <1>9, DeleteStep, SourceStep, ChainStep
  <2> QED
    BY <1>3, <1>5, <2>1 DEF SettingUp
<1>10. CASE LoopBlocks
  BY <1>3, <1>5, <1>10 DEF LoopBlocks, network, SettingUp
<1>11. ASSUME NEW r \in Request, Serve(r) PROVE Placed(c, k)' \/ SettingUp(c, k)'
  <2>1. UNCHANGED <<events, task>>
    BY <1>11 DEF Serve, StartRequest, NextDatapath, SendRequest, RequestBlocks, SetRest
  <2>2. UNCHANGED chan \/ \E d \in Conn : \E mod : Send(d, mod)
    BY <1>11, RequestStep DEF Serve, StartRequest, NextDatapath, RequestBlocks, network
  <2> QED
    BY <1>3, <1>5, <2>1, <2>2 DEF SettingUp
<1> QED
  BY <1>6, <1>7, <1>8, <1>9, <1>10, <1>11 DEF Loop, RunTask

\* Every step, and the initial state.
LEMMA NextSetUp ==
    ASSUME SourcesGiven
    PROVE  TypeInv /\ EntriesFromRows /\ OneAtATime /\ SetUpInv /\ [Next]_vars
              => SetUpInv'
<1> SUFFICES ASSUME TypeInv, EntriesFromRows, OneAtATime, SetUpInv, [Next]_vars
             PROVE  SetUpInv'
  OBVIOUS
<1>1. CASE UNCHANGED vars
  BY <1>1 DEF vars, SetUpInv, Announced, Placed, SettingUp, Dpid
<1> QED
  BY <1>1, NetworkSetUp, AppSetUp DEF Next

LEMMA InitSetUp == Init => SetUpInv
<1> SUFFICES ASSUME Init, NEW c \in Conn, NEW k \in 1..6,
                    link[c] \in {"config", "main"}
             PROVE  Placed(c, k)
  BY DEF SetUpInv
<1>1. Dpid(c) \in ToSet(InitialSwitch)
  BY DEF Init
<1>2. table[Dpid(c)] = DefaultEntries
  BY <1>1, ConnParts DEF Init
<1> QED
  BY <1>2 DEF DefaultEntries, Placed

\* When no row has the source address 0.0.0.0, a switch whose connection is up
\* and quiet has every entry it should be set up with, also one that came back
\* with empty tables or with what was left of an earlier connection
\* (sfc_nfv.py:136-175).
THEOREM QuietSwitchesSetUp == ASSUME SourcesGiven PROVE Spec => []QuietIsSetUp
<1> DEFINE Inv == TypeInv /\ EntriesFromRows /\ OneAtATime /\ SetUpInv
<1>1. Init => Inv
  BY InitType, InitOwn, InitOneAtATime, InitSetUp
<1>2. Inv /\ [Next]_vars => Inv'
  BY NextType, NextOwn, NextOneAtATime, NextSetUp
<1>3. Inv => QuietIsSetUp
  <2> SUFFICES ASSUME SetUpInv, events = <<>>, task = NoTask, NEW c \in Conn,
                      link[c] = "main", chan[c] = <<>>, NEW k \in 1..6
               PROVE  DefaultMods[k].entry \in table[Dpid(c)]
    BY DEF QuietIsSetUp, DefaultEntries
  <2>1. ~ Announced(c) /\ ~ SettingUp(c, k)
    BY DEF Announced, SettingUp
  <2> QED
    BY <2>1 DEF SetUpInv, Placed
<1> QED
  BY <1>1, <1>2, <1>3, PTL DEF Spec

(***************************************************************************)
(* Behaviours in which no connection is lost.                              *)
(***************************************************************************)

\* A connection that was made is up.
LEMMA MetIsUp ==
    ASSUME TypeOK, NoneLost, NEW c \in Conn, Met(c)
    PROVE  link[c] \in {"config", "main"} /\ ~ Ended(c)
<1>1. link[c] \in LinkState /\ c \notin Gone
  BY DEF TypeOK, NoneLost
<1> QED
  BY <1>1 DEF Gone, Ended, Met, LinkState

\* Registered by the time of an event: as long as the registry only grows, so
\* it stays when an event is put on the queue or the registration is handled.
LEMMA RegisteredStays ==
    ASSUME TypeOK, ToSet(datapaths) \subseteq ToSet(datapaths'),
           NEW c, NEW k, RegisteredBy(c, k)
    PROVE  /\ events' = events => RegisteredBy(c, k)'
           /\ \A e : events' = Append(events, e) => RegisteredBy(c, k)'
<1>1. CASE c \in ToSet(datapaths)
  BY <1>1 DEF RegisteredBy
<1>2. CASE c \notin ToSet(datapaths)
  <2>1. PICK j \in DOMAIN events :
           j < k /\ events[j].type = "main" /\ events[j].conn = c
    BY <1>2 DEF RegisteredBy
  <2>2. ASSUME \E e : events' = Append(events, e)
        PROVE  j \in DOMAIN events' /\ events'[j] = events[j]
    BY <2>2, EndStays
  <2> QED
    BY <2>1, <2>2 DEF RegisteredBy
<1> QED
  BY <1>1, <1>2

\* and taking the first event registers its connection or moves the others up.
LEMMA RegisteredMoves ==
    ASSUME TypeOK, ToSet(datapaths) \subseteq ToSet(datapaths'),
           events # <<>>, events' = Tail(events), NEW c, NEW k \in Nat,
           RegisteredBy(c, k + 1),
           Head(events).type = "main" /\ Head(events).conn = c => c \in ToSet(datapaths')
    PROVE  RegisteredBy(c, k)'
<1>1. CASE c \in ToSet(datapaths)
  BY <1>1 DEF RegisteredBy
<1>2. CASE c \notin ToSet(datapaths)
  <2>1. PICK j \in DOMAIN events :
           j < k + 1 /\ events[j].type = "main" /\ events[j].conn = c
    BY <1>2 DEF RegisteredBy
  <2>2. CASE j = 1
    <3>1. Head(events).type = "main" /\ Head(events).conn = c
      BY <2>1, <2>2, EndMoves
    <3> QED
      BY <3>1 DEF RegisteredBy
  <2>3. CASE j # 1
    <3>1. PICK q \in Seq(Event) : q = events /\ q # <<>>
      BY DEF TypeOK
    <3>2. j \in Nat /\ j - 1 \in DOMAIN Tail(q) /\ Tail(q)[j - 1] = q[j] /\ j - 1 < k
      BY <2>1, <2>3, <3>1
    <3> QED
      BY <2>1, <3>1, <3>2 DEF RegisteredBy
  <2> QED
    BY <2>2, <2>3
<1> QED
  BY <1>1, <1>2

\* The steps of connections and switches.
LEMMA NetworkUp ==
    ASSUME TypeInv, UpInv, NoneLost, NoneLost',
           \/ \E c \in Conn : LinkStep(c)
           \/ \E c \in Conn, t \in Traffic : DetectPacket(c, t)
           \/ \E c \in Conn, d \in Datagram : RegisterPacket(c, d)
    PROVE  UpInv'
<1>1. TypeOK /\ events \in Seq(Event) /\ Len(events) \in Nat
  BY DEF TypeInv, TypeOK
<1>2. UNCHANGED <<datapaths, task, rest>>
  BY DEF LinkStep, Connect, EnterMain, Drop, Notice, ReportDead, ApplyMod,
         DetectPacket, RegisterPacket
<1>3. ASSUME UNCHANGED <<link, events>> PROVE UpInv'
  BY <1>2, <1>3 DEF UpInv, RegisteredBy
<1>4. ASSUME NEW e, Enqueue(e), e.type # "dead",
             e.type = "packet_in" => link[e.conn] = "main" /\ e.conn \in Conn,
             \A c \in Conn : link'[c] = "main" =>
                link[c] = "main" \/ (e.type = "main" /\ e.conn = c)
      PROVE  UpInv'
  <2>1. /\ events' = Append(events, e)
        /\ \A i \in DOMAIN events : i \in DOMAIN events' /\ events'[i] = events[i]
        /\ \A i \in DOMAIN events' :
              i \in DOMAIN events \/ (i = Len(events) + 1 /\ events'[i] = e)
        /\ Len(events) + 1 \in DOMAIN events' /\ events'[Len(events) + 1] = e
    BY <1>1, <1>4, EndStays DEF Enqueue
  <2>2. ASSUME NEW c, NEW k, RegisteredBy(c, k) PROVE RegisteredBy(c, k)'
    <3>1. ToSet(datapaths) \subseteq ToSet(datapaths')
      BY <1>2
    <3> QED
      BY <1>1, <2>1, <2>2, <3>1, RegisteredStays
  <2>3. ASSUME NEW c \in Conn, link'[c] = "main"
        PROVE  \E k \in Nat : RegisteredBy(c, k)'
    <3>1. CASE link[c] = "main"
      BY <2>2, <3>1 DEF UpInv
    <3>2. CASE e.type = "main" /\ e.conn = c
      <4>1. Len(events) + 1 < Len(events) + 2 /\ Len(events) + 2 \in Nat
        BY <1>1
      <4>2. PICK k : k = Len(events) + 2
        OBVIOUS
      <4> QED
        BY <2>1, <3>2, <4>1, <4>2 DEF RegisteredBy
    <3> QED
      BY <1>4, <2>3, <3>1, <3>2
  <2>4. ASSUME NEW c \in Conn, NEW i \in DOMAIN events',
               events'[i].type = "packet_in", events'[i].conn = c
        PROVE  RegisteredBy(c, i)'
    <3>1. CASE i \in DOMAIN events
      BY <2>1, <2>2, <2>4, <3>1 DEF UpInv
    <3>2. CASE i = Len(events) + 1 /\ events'[i] = e
      <4>1. PICK k \in Nat : RegisteredBy(c, k)
        BY <1>4, <2>4, <3>2 DEF UpInv
      <4>2. RegisteredBy(c, i)
        BY <1>1, <3>2, <4>1, LenProperties DEF RegisteredBy
      <4> QED
        BY <2>2, <4>2
    <3> QED
      BY <2>1, <3>1, <3>2
  <2>5. \A i \in DOMAIN events' : events'[i].type # "dead"
    BY <1>4, <2>1 DEF UpInv
  <2> QED
    BY <1>2, <2>3, <2>4, <2>5 DEF UpInv
<1>5. link \in [Conn -> LinkState]
  BY <1>1 DEF TypeOK
<1>6. ASSUME NEW c \in Conn, LinkStep(c) PROVE UpInv'
  <2>1. CASE Connect(c)
    <3>1. PICK e : e = [type |-> "features", conn |-> c] /\ Enqueue(e)
      BY <2>1 DEF Connect
    <3>2. e.type = "features"
      BY <3>1
    <3>3. \A d \in Conn : link'[d] = "main" => link[d] = "main"
      BY <1>5, <2>1 DEF Connect
    <3> QED
      BY <1>4, <3>1, <3>2, <3>3
  <2>2. CASE EnterMain(c)
    <3>1. PICK e : e = [type |-> "main", conn |-> c] /\ Enqueue(e)
      BY <2>2 DEF EnterMain
    <3>2. e.type = "main" /\ e.conn = c
      BY <3>1
    <3>3. \A d \in Conn : link'[d] = "main" => link[d] = "main" \/ d = c
      BY <1>5, <2>2 DEF EnterMain
    <3> QED
      BY <1>4, <3>1, <3>2, <3>3
  <2>3. ~ (Drop(c) \/ Notice(c) \/ ReportDead(c))
    <3> SUFFICES ASSUME Drop(c) \/ Notice(c) \/ ReportDead(c) PROVE c \in Gone'
      BY DEF NoneLost
    <3>1. link'[c] \in {"stale", "closed", "dead"}
      BY <1>5 DEF Drop, Notice, ReportDead
    <3> QED
      BY <3>1 DEF Gone, Ended
  <2>4. CASE ApplyMod(c)
    BY <1>3, <2>4 DEF ApplyMod
  <2> QED
    BY <1>6, <2>1, <2>2, <2>3, <2>4 DEF LinkStep
<1>7. ASSUME NEW c \in Conn, NEW t \in Traffic, DetectPacket(c, t) PROVE UpInv'
  <2>1. PICK m : Enqueue([type |-> "packet_in", conn |-> c, port |-> t.port,
                          flow |-> m])
    BY <1>7 DEF DetectPacket
  <2>2. PICK e : /\ e = [type |-> "packet_in", conn |-> c, port |-> t.port, flow |-> m]
                 /\ Enqueue(e)
    BY <2>1
  <2>3. e.type = "packet_in" /\ e.conn = c
    BY <2>2
  <2>4. link[c] = "main" /\ UNCHANGED link
    BY <1>7 DEF DetectPacket, network
  <2> QED
    BY <1>4, <2>2, <2>3, <2>4
<1>8. ASSUME NEW c \in Conn, NEW d \in Datagram, RegisterPacket(c, d) PROVE UpInv'
  <2>1. PICK e : /\ e = [type |-> "register", conn |-> c, vnf |-> d.vnf, row |-> d.row]
                 /\ Enqueue(e)
    BY <1>8 DEF RegisterPacket
  <2>2. e.type = "register"
    BY <2>1
  <2>3. UNCHANGED link
    BY <1>8 DEF RegisterPacket, network
  <2> QED
    BY <1>4, <2>1, <2>2, <2>3
<1> QED
  BY <1>6, <1>7, <1>8

\* The steps of the event loop and of the requests.
LEMMA AppUp ==
    ASSUME TypeInv, MetInv, OneAtATime, UpInv, NoneLost,
           Loop \/ \E r \in Request : Serve(r)
    PROVE  /\ UpInv'
           /\ ToSet(datapaths) \subseteq ToSet(datapaths')
<1>1. /\ TypeOK /\ events \in Seq(Event) /\ datapaths \in Seq(Conn)
      /\ \A r \in Request : rest[r].seen \in Seq(Conn)
  BY DEF TypeInv, TypeOK, RestState
<1>2. UNCHANGED link
  BY DEF Loop, HandleEvent, RunTask, LoopBlocks, RegisterDatapath,
         UnregisterDatapath, RegisterVnf, HandledAtOnce, StartDefaults,
         StartDetection, Begin, SendDefault, DeleteCatching, SendSource,
         AbandonChain, SkipVnf, SendHop, SendEnd, Continue, Serve, StartRequest,
         NextDatapath, SendRequest, RequestBlocks, SetRest, network
<1>3. ASSUME UNCHANGED <<datapaths, events>>,
             task' # NoTask /\ task'.pc # "defaults" => task'.conn \in ToSet(datapaths),
             task' # NoTask /\ task'.pc = "delete"
                => ToSet(task'.todo) \subseteq ToSet(datapaths),
             \A r \in Request : ToSet(rest'[r].seen) \subseteq ToSet(datapaths)
      PROVE  UpInv' /\ ToSet(datapaths) \subseteq ToSet(datapaths')
  BY <1>2, <1>3 DEF UpInv, RegisteredBy
<1>4. ASSUME ToSet(datapaths) \subseteq ToSet(datapaths'),
             events # <<>>, events' = Tail(events), UNCHANGED rest,
             Head(events).type = "main" => Head(events).conn \in ToSet(datapaths'),
             task' # NoTask /\ task'.pc # "defaults" => task'.conn \in ToSet(datapaths),
             task' # NoTask /\ task'.pc = "delete"
                => ToSet(task'.todo) \subseteq ToSet(datapaths)
      PROVE  UpInv'
  <2>1. \A i \in DOMAIN events' :
           i \in Nat /\ i + 1 \in DOMAIN events /\ events'[i] = events[i + 1]
    BY <1>1, <1>4, EndMoves
  <2>2. ASSUME NEW c, NEW k \in Nat, RegisteredBy(c, k + 1) PROVE RegisteredBy(c, k)'
    BY <1>1, <1>4, <2>2, RegisteredMoves
  <2>3. ASSUME NEW c \in Conn, link'[c] = "main"
        PROVE  \E k \in Nat : RegisteredBy(c, k)'
    <3>1. PICK k \in Nat : RegisteredBy(c, k)
      BY <1>2, <2>3 DEF UpInv
    <3>2. RegisteredBy(c, k + 1)
      BY <1>1, <3>1 DEF RegisteredBy
    <3> QED
      BY <2>2, <3>2
  <2>4. ASSUME NEW c \in Conn, NEW i \in DOMAIN events',
               events'[i].type = "packet_in", events'[i].conn = c
        PROVE  RegisteredBy(c, i)'
    BY <2>1, <2>2, <2>4 DEF UpInv
  <2>5. \A i \in DOMAIN events' : events'[i].type # "dead"
    BY <2>1 DEF UpInv
  <2>6. \A r \in Request : ToSet(rest'[r].seen) \subseteq ToSet(datapaths')
    BY <1>4 DEF UpInv
  <2> QED
    BY <1>4, <2>3, <2>4, <2>5, <2>6 DEF UpInv
<1>5. CASE RegisterDatapath
  <2>1. PICK c : /\ c = Head(events).conn
                 /\ datapaths' = IF Registered(Dpid(c)) = {} THEN Append(datapaths, c)
                                 ELSE datapaths
    BY <1>5 DEF RegisterDatapath
  <2>2. /\ events # <<>> /\ events' = Tail(events) /\ UNCHANGED rest /\ task' = NoTask
    BY <1>5 DEF RegisterDatapath, NextEvent, HandledAtOnce
  <2>3. c \in Conn /\ Met(c)
    <3>1. 1 \in DOMAIN events /\ events[1] = Head(events) /\ events[1] \in Event
      BY <1>1, <2>2, EndMoves, ElementOfSeq, LenProperties
    <3>2. events[1].conn \in Conn
      BY <3>1 DEF Event
    <3> QED
      BY <2>1, <3>1, <3>2 DEF MetInv, Met
  <2>4. ToSet(Append(datapaths, c)) = ToSet(datapaths) \cup {c}
    BY <1>1, ElementsOf
  <2>5. Registered(Dpid(c)) # {} => c \in ToSet(datapaths)
    <3> SUFFICES ASSUME NEW d \in ToSet(datapaths), Dpid(d) = Dpid(c)
                 PROVE  c = d
      BY DEF Registered
    <3>1. d \in Conn /\ Met(d)
      BY <1>1, ElementsOf DEF MetInv
    <3> QED
      BY <1>1, <2>3, <3>1, MetIsUp, OneUp
  <2>6. ToSet(datapaths) \subseteq ToSet(datapaths') /\ c \in ToSet(datapaths')
    BY <2>1, <2>4, <2>5
  <2> QED
    BY <1>4, <2>1, <2>2, <2>6
<1>6. CASE UnregisterDatapath
  <2>1. Head(events).type = "dead" /\ events # <<>>
    BY <1>6 DEF UnregisterDatapath, NextEvent
  <2> QED
    BY <1>1, <2>1, EndMoves DEF UpInv
<1>7. CASE RegisterVnf
  <2>1. /\ events # <<>> /\ events' = Tail(events) /\ UNCHANGED <<rest, datapaths>>
        /\ task' = NoTask /\ Head(events).type = "register"
    BY <1>7 DEF RegisterVnf, NextEvent, HandledAtOnce
  <2> QED
    BY <1>4, <2>1
<1>8. CASE StartDefaults
  <2>1. /\ events # <<>> /\ events' = Tail(events) /\ UNCHANGED <<rest, datapaths>>
        /\ task'.pc = "defaults" /\ Head(events).type = "features"
    BY <1>8, SetUpStep
  <2> QED
    BY <1>4, <2>1
<1>9. CASE StartDetection
  <2>1. /\ events # <<>> /\ events' = Tail(events) /\ UNCHANGED <<rest, datapaths>>
        /\ Head(events).type = "packet_in" /\ Head(events).conn \in Conn
        /\ task' # NoTask => /\ task'.conn = Head(events).conn
                             /\ task'.pc = "delete" => task'.todo = datapaths
    BY <1>9, DetectionStep
  <2>2. PICK c \in Conn : c = Head(events).conn
    BY <2>1
  <2>3. RegisteredBy(c, 1)
    BY <1>1, <2>1, <2>2, EndMoves DEF UpInv
  <2>4. c \in ToSet(datapaths)
    <3>1. \A j \in DOMAIN events : ~ (j < 1)
      BY <1>1
    <3> QED
      BY <2>3, <3>1 DEF RegisteredBy
  <2> QED
    BY <1>4, <2>1, <2>2, <2>4
<1>10. CASE LoopBlocks
  <2>1. UNCHANGED <<datapaths, events, task, rest>>
    BY <1>10 DEF LoopBlocks
  <2> QED
    BY <1>3, <2>1 DEF UpInv
<1>11. CASE SendDefault
  <2>1. /\ UNCHANGED <<datapaths, events, rest>>
        /\ task' # NoTask => task'.pc = "defaults"
    BY <1>11, DefaultStep
  <2> QED
    BY <1>3, <2>1 DEF UpInv
<1>12. CASE DeleteCatching
  <2>1. /\ UNCHANGED <<datapaths, events, rest>> /\ task # NoTask /\ task.pc = "delete"
        /\ task.todo \in Seq(Conn) /\ task.todo # <<>>
        /\ task' # NoTask => /\ task'.conn = task.conn
                             /\ task'.pc = "delete" => task'.todo = Tail(task.todo)
    BY <1>12, DeleteStep
  <2>2. ToSet(task.todo) = {Head(task.todo)} \cup ToSet(Tail(task.todo))
    BY <2>1, ElementsOf
  <2> QED
    BY <1>3, <2>1, <2>2 DEF UpInv
<1>13. CASE SendSource
  <2>1. /\ UNCHANGED <<datapaths, events, rest>> /\ task # NoTask /\ task.pc = "source"
        /\ task'.conn = task.conn /\ task'.pc = "chain"
    BY <1>13, SourceStep
  <2> QED
    BY <1>3, <2>1 DEF UpInv
<1>14. CASE AbandonChain \/ SkipVnf \/ SendHop \/ SendEnd
  <2>1. /\ UNCHANGED <<datapaths, events, rest>> /\ task # NoTask /\ task.pc = "chain"
        /\ task' # NoTask => task'.conn = task.conn /\ task'.pc = "chain"
    BY <1>14, ChainStep
  <2> QED
    BY <1>3, <2>1 DEF UpInv
<1>15. ASSUME NEW r \in Request, Serve(r)
       PROVE  UpInv' /\ ToSet(datapaths) \subseteq ToSet(datapaths')
  <2>1. UNCHANGED <<datapaths, events, task>>
    BY <1>15 DEF Serve, StartRequest, NextDatapath, SendRequest, RequestBlocks, SetRest
  <2>2. ASSUME \A q \in Request : ToSet(rest'[q].seen) \subseteq ToSet(datapaths)
        PROVE  UpInv' /\ ToSet(datapaths) \subseteq ToSet(datapaths')
    BY <1>3, <2>1, <2>2 DEF UpInv
  <2>3. CASE StartRequest(r) \/ NextDatapath(r)
    <3>1. /\ \A q \in Request : q # r => rest'[q] = rest[q]
          /\ \/ rest'[r].seen = rest[r].seen
             \/ \E i \in Unseen(r) : rest'[r].seen = Append(rest[r].seen, datapaths[i])
      BY <2>3, TurnStep
    <3>2. \A i \in Unseen(r) : datapaths[i] \in ToSet(datapaths)
      BY DEF Unseen, ToSet
    <3>3. \A x : ToSet(Append(rest[r].seen, x)) = ToSet(rest[r].seen) \cup {x}
      BY <1>1, ElementsOf
    <3>4. ToSet(rest'[r].seen) \subseteq ToSet(rest[r].seen) \cup ToSet(datapaths)
      <4>1. ASSUME NEW i \in Unseen(r),
                   rest'[r].seen = Append(rest[r].seen, datapaths[i])
            PROVE  ToSet(rest'[r].seen) \subseteq ToSet(rest[r].seen) \cup ToSet(datapaths)
        BY <3>2, <3>3, <4>1
      <4> QED
        BY <3>1, <4>1
    <3> QED
      BY <2>2, <3>1, <3>4 DEF UpInv
  <2>4. CASE SendRequest(r)
    BY <2>2, <2>4, RequestStep DEF UpInv
  <2>5. CASE RequestBlocks(r)
    BY <2>2, <2>5 DEF RequestBlocks, UpInv
  <2> QED
    BY <1>15, <2>3, <2>4, <2>5 DEF Serve
<1> QED
  BY <1>5, <1>6, <1>7, <1>8, <1>9, <1>10, <1>11, <1>12, <1>13, <1>14, <1>15
     DEF Loop, HandleEvent, RunTask

\* Every step, and the initial state.
LEMMA NextUp ==
    TypeInv /\ MetInv /\ OneAtATime /\ UpInv /\ NoneLost /\ NoneLost' /\ [Next]_vars
       => UpInv' /\ ToSet(datapaths) \subseteq ToSet(datapaths')
<1> SUFFICES ASSUME TypeInv, MetInv, OneAtATime, UpInv, NoneLost, NoneLost', [Next]_vars
             PROVE  UpInv' /\ ToSet(datapaths) \subseteq ToSet(datapaths')
  OBVIOUS
<1>1. CASE UNCHANGED vars
  BY <1>1 DEF vars, UpInv, RegisteredBy
<1>2. CASE \/ \E c \in Conn : LinkStep(c)
           \/ \E c \in Conn, t \in Traffic : DetectPacket(c, t)
           \/ \E c \in Conn, d \in Datagram : RegisterPacket(c, d)
  <2>1. UNCHANGED datapaths
    BY <1>2 DEF LinkStep, Connect, EnterMain, Drop, Notice, ReportDead, ApplyMod,
       DetectPacket, RegisterPacket
  <2> QED
    BY <1>2, <2>1, NetworkUp
<1> QED
  BY <1>1, <1>2, AppUp DEF Next

LEMMA InitUp == Init => UpInv
<1> SUFFICES ASSUME Init PROVE UpInv
  OBVIOUS
<1>1. DOMAIN InitialSwitch = 1..Len(InitialSwitch)
  BY SwitchAssumption
<1>2. ASSUME NEW c \in Conn, link[c] = "main" PROVE RegisteredBy(c, 0)
  <2>1. c[2] = 1 /\ Dpid(c) \in ToSet(InitialSwitch)
    BY <1>2 DEF Init
  <2>2. PICK i \in 1..Len(InitialSwitch) : Dpid(c) = InitialSwitch[i]
    BY <1>1, <2>1 DEF ToSet
  <2>3. datapaths[i] = c /\ i \in DOMAIN datapaths
    BY <2>1, <2>2, ConnParts DEF Init
  <2> QED
    BY <2>3 DEF RegisteredBy, ToSet
<1>3. \A r \in Request : ToSet(rest[r].seen) = {}
  BY DEF Init, ToSet
<1> QED
  BY <1>2, <1>3 DEF Init, UpInv

(***************************************************************************)
(* Handlers that are never suspended.                                      *)
(***************************************************************************)

\* While no queue is full every greenlet can send.
LEMMA RoomToSend ==
    ASSUME TypeOK, Room, NEW c \in Conn
    PROVE  CanSend(c)
<1>1. chan[c] \in Seq(FlowMod)
  BY DEF TypeOK
<1> QED
  BY <1>1, LenProperties DEF Room, CanSend

\* so none is suspended,
LEMMA NobodyBlocks ==
    ASSUME TypeInv, Room
    PROVE  ~ LoopBlocks /\ \A r \in Request : ~ RequestBlocks(r)
<1>1. TypeOK /\ datapaths \in Seq(Conn)
  BY DEF TypeInv, TypeOK
<1>2. ASSUME LoopBlocks PROVE FALSE
  <2>1. task # NoTask /\ task \in Task
    BY <1>1, <1>2 DEF LoopBlocks, TypeOK
  <2>2. PICK c \in Targets : ~ CanSend(c)
    BY <1>2 DEF LoopBlocks
  <2>3. CASE task.pc = "defaults"
    <3>1. task.conn \in Conn /\ c = task.conn
      BY <2>1, <2>2, <2>3 DEF Task, Targets
    <3> QED
      BY <1>1, <2>2, <3>1, RoomToSend
  <2>4. CASE task.pc = "source"
    <3>1. task.conn \in Conn /\ c = task.conn
      BY <2>1, <2>2, <2>4 DEF Task, Targets
    <3> QED
      BY <1>1, <2>2, <3>1, RoomToSend
  <2>5. CASE task.pc = "delete"
    <3>1. c = Head(task.todo) /\ task.todo \in Seq(Conn) /\ task.todo # <<>>
      BY <2>1, <2>2, <2>5 DEF Task, Targets, TypeInv, TaskInv, TaskOK
    <3>2. c \in Conn
      BY <3>1
    <3> QED
      BY <1>1, <2>2, <3>2, RoomToSend
  <2>6. CASE task.pc = "chain"
    <3>1. c \in ToSet(datapaths)
      BY <2>2, <2>6 DEF Targets, Registered
    <3>2. c \in Conn
      BY <1>1, <3>1, ElementsOf
    <3> QED
      BY <1>1, <2>2, <3>2, RoomToSend
  <2> QED
    BY <2>1, <2>3, <2>4, <2>5, <2>6 DEF Task
<1>3. ASSUME NEW r \in Request, RequestBlocks(r) PROVE FALSE
  <2>1. rest[r].seen \in Seq(Conn) /\ rest[r].seen # <<>>
    BY <1>1, <1>3 DEF RequestBlocks, TypeOK, RestState, TypeInv, RequestInv
  <2>2. Last(rest[r].seen) \in Conn
    BY <2>1, LenProperties, ElementOfSeq DEF Last
  <2> QED
    BY <1>1, <1>3, <2>2, RoomToSend DEF RequestBlocks
<1> QED
  BY <1>2, <1>3

\* and a handler or a turn of a request is over before anything else runs.
LEMMA NextAtomic ==
    TypeInv /\ AtomicInv /\ Room /\ [Next]_vars => AtomicInv'
<1> SUFFICES ASSUME TypeInv, AtomicInv, Room, [Next]_vars PROVE AtomicInv'
  OBVIOUS
<1>1. CASE UNCHANGED <<task, rest, running>>
  BY <1>1 DEF AtomicInv
<1>2. ASSUME UNCHANGED rest, MayRun("loop"),
             running' = IF task' = NoTask THEN "none" ELSE "loop"
      PROVE  AtomicInv'
  <2>1. \A r \in Request : ~ rest[r].pc \in {"next", "send"}
    BY <1>2, RequestAssumption DEF AtomicInv, MayRun
  <2> QED
    BY <1>2, <2>1 DEF AtomicInv
<1>3. CASE Loop
  <2>1. ~ LoopBlocks
    BY NobodyBlocks
  <2>2. CASE RegisterDatapath \/ UnregisterDatapath \/ RegisterVnf
    BY <1>1, <2>2 DEF RegisterDatapath, UnregisterDatapath, RegisterVnf, HandledAtOnce
  <2>3. CASE StartDefaults
    BY <1>2, <2>3 DEF StartDefaults, NextEvent, Begin
  <2>4. CASE StartDetection
    <3>1. MayRun("loop") /\ UNCHANGED rest
      BY <2>4 DEF StartDetection, NextEvent, HandledAtOnce, Begin
    <3>2. \/ UNCHANGED <<task, rest, running>>
          \/ running' = IF task' = NoTask THEN "none" ELSE "loop"
      BY <2>4 DEF StartDetection, HandledAtOnce, Begin
    <3> QED
      BY <1>1, <1>2, <3>1, <3>2
  <2>5. CASE RunTask
    <3>1. MayRun("loop") /\ UNCHANGED rest
          /\ running' = IF task' = NoTask THEN "none" ELSE "loop"
      BY <2>5 DEF RunTask, SendDefault, DeleteCatching, SendSource, AbandonChain,
         SkipVnf, SendHop, SendEnd, InTurn, InTask, Continue
    <3> QED
      BY <1>2, <3>1
  <2> QED
    BY <1>3, <2>1, <2>2, <2>3, <2>4, <2>5 DEF Loop, HandleEvent
<1>4. ASSUME NEW r \in Request, Serve(r) PROVE AtomicInv'
  <2>1. ~ RequestBlocks(r)
    BY NobodyBlocks
  <2>2. /\ MayRun(r) /\ UNCHANGED task
        /\ \A q \in Request : q # r => rest'[q] = rest[q]
        /\ running' = IF rest'[r].pc \in {"next", "send"} THEN r ELSE "none"
    <3>1. CASE StartRequest(r) \/ NextDatapath(r)
      BY <3>1, TurnStep DEF StartRequest, NextDatapath, MayRun
    <3>2. CASE SendRequest(r)
      BY <3>2, RequestStep DEF SendRequest
    <3> QED
      BY <1>4, <2>1, <3>1, <3>2 DEF Serve
  <2>3. task = NoTask /\ \A q \in Request : q # r => ~ rest[q].pc \in {"next", "send"}
    BY <2>2, RequestAssumption DEF AtomicInv, MayRun
  <2> QED
    BY <2>2, <2>3 DEF AtomicInv
<1>5. CASE \/ \E c \in Conn : LinkStep(c)
           \/ \E c \in Conn, t \in Traffic : DetectPacket(c, t)
           \/ \E c \in Conn, d \in Datagram : RegisterPacket(c, d)
  BY <1>1, <1>5 DEF LinkStep, Connect, EnterMain, Drop, Notice, ReportDead, ApplyMod,
     DetectPacket, RegisterPacket
<1> QED
  BY <1>1, <1>3, <1>4, <1>5 DEF Next, vars

LEMMA InitAtomic == Init => AtomicInv
BY DEF Init, AtomicInv
=============================================================================
