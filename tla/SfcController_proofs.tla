------------------------ MODULE SfcController_proofs ------------------------
(***************************************************************************)
(* Theorems about the controller application, for any number of switches,  *)
(* flows, services, requests, connections and queue slots: its types, and  *)
(* what the FlowMods it sends add to the tables of the switches and take   *)
(* away from them.                                                         *)
(***************************************************************************)
EXTENDS SfcInvariants, SfcRules_proofs

(***************************************************************************)
(* The state stays in its type.                                            *)
(***************************************************************************)

\* Taking the next event from the queue.
LEMMA NextEventType ==
    ASSUME TypeOK, NEW type, NextEvent(type)
    PROVE  /\ events' \in Seq(Event)
           /\ Head(events) \in Event
           /\ Head(events).type = type
           /\ Head(events).conn \in Conn
<1>1. events \in Seq(Event) /\ events # <<>> /\ events' = Tail(events)
  BY DEF TypeOK, NextEvent
<1>2. Head(events) \in Event /\ Tail(events) \in Seq(Event)
  BY <1>1, HeadTailProperties
<1> QED
  BY <1>1, <1>2 DEF NextEvent, Event

\* Putting an event on the queue.
LEMMA EnqueueType ==
    ASSUME TypeOK, NEW e \in Event, Enqueue(e)
    PROVE  events' \in Seq(Event)
BY AppendProperties DEF TypeOK, Enqueue

\* Sending a FlowMod.
LEMMA SendType ==
    ASSUME TypeOK, NEW c \in Conn, NEW mod \in FlowMod, Send(c, mod)
    PROVE  chan' \in [Conn -> Seq(FlowMod)]
<1>1. Append(chan[c], mod) \in Seq(FlowMod)
  BY AppendProperties DEF TypeOK
<1> QED
  BY <1>1 DEF Send, TypeOK

\* A handler goes on with t.
LEMMA ContinueType ==
    ASSUME TypeInv, chan' \in [Conn -> Seq(FlowMod)],
           NEW t \in Task \cup {NoTask},
           t # NoTask /\ t.pc # "defaults" => TaskOK(t),
           Continue(t)
    PROVE  TypeInv'
<1>1. TypeOK'
  BY DEF TypeInv, TypeOK, Continue
<1>2. TaskInv'
  BY DEF TaskInv, TaskOK, Continue, Bidirectional, Rows
<1>3. RequestInv'
  BY DEF TypeInv, RequestInv, Continue
<1> QED
  BY <1>1, <1>2, <1>3 DEF TypeInv

\* A handler starts with t.
LEMMA BeginType ==
    ASSUME TypeInv, events' \in Seq(Event), NEW t \in Task \cup {NoTask},
           t # NoTask /\ t.pc # "defaults" => TaskOK(t),
           Begin(t)
    PROVE  TypeInv'
<1>1. TypeOK'
  BY DEF TypeInv, TypeOK, Begin, network
<1>2. TaskInv'
  BY DEF TaskInv, TaskOK, Begin, Bidirectional, Rows
<1>3. RequestInv'
  BY DEF TypeInv, RequestInv, Begin
<1> QED
  BY <1>1, <1>2, <1>3 DEF TypeInv

\* A request moves on to a state.
LEMMA SetRestType ==
    ASSUME TypeInv, chan' \in [Conn -> Seq(FlowMod)],
           NEW r \in Request, NEW state \in RestState,
           state.pc \in {"next", "send"} => Subject[r] \in Flow,
           state.pc = "send" => state.seen # <<>>,
           SetRest(r, state)
    PROVE  TypeInv'
<1>1. TypeOK'
  BY DEF TypeInv, TypeOK, SetRest
<1>2. TaskInv'
  BY DEF TypeInv, TaskInv, TaskOK, SetRest, Bidirectional, Rows
<1>3. RequestInv'
  BY DEF TypeInv, TypeOK, RequestInv, SetRest
<1> QED
  BY <1>1, <1>2, <1>3 DEF TypeInv

\* What neither the event loop nor a request does.
LEMMA FrameType ==
    ASSUME TypeInv, TypeOK', UNCHANGED <<task, rest, vnf>>
    PROVE  TypeInv'
BY DEF TypeInv, TaskInv, TaskOK, RequestInv, Bidirectional, Rows

\* The initial state.
LEMMA InitType == Init => TypeInv
<1> SUFFICES ASSUME Init PROVE TypeInv
  OBVIOUS
<1>1. link \in [Conn -> LinkState]
  BY DEF Init, LinkState
<1>2. chan \in [Conn -> Seq(FlowMod)]
  BY DEF Init
<1>3. \A i \in 1..6 : DefaultMods[i] \in FlowMod
  BY DefaultModsType
<1>4. DefaultEntries \subseteq Entry
  BY <1>3 DEF DefaultEntries, FlowMod
<1>5. table \in [Switch -> SUBSET Entry]
  BY <1>4 DEF Init
<1>6. \A i \in 1..Len(InitialSwitch) : <<InitialSwitch[i], 1>> \in Conn
  BY SwitchAssumption, BoundAssumption DEF Conn
<1>7. datapaths \in Seq(Conn)
  <2>1. datapaths \in [1..Len(InitialSwitch) -> Conn]
    BY <1>6 DEF Init
  <2>2. Len(InitialSwitch) \in Nat
    BY SwitchAssumption
  <2> QED
    BY <2>1, <2>2
<1>8. rest \in [Request -> RestState]
  BY DEF Init, RestState
<1>9. TypeOK
  BY <1>1, <1>2, <1>5, <1>7, <1>8, VnfAssumption DEF Init, TypeOK
<1>10. TaskInv
  BY DEF Init, TaskInv
<1>11. RequestInv
  BY DEF Init, RequestInv
<1> QED
  BY <1>9, <1>10, <1>11 DEF TypeInv

\* A packet of a flow is detected, wherever it comes in.
LEMMA DetectType ==
    ASSUME TypeInv, NEW c \in Conn, NEW t, t.switch \in Switch, t.port \in Port,
           DetectPacket(c, t)
    PROVE  /\ TypeInv'
           /\ \E e \in Event : e.type = "packet_in" /\ Enqueue(e)
<1>1. PICK e \in ToController(t.switch, t.packet \cup {<<"in_port", t.port>>}) :
         /\ e.meta # NoMeta
         /\ Enqueue([type |-> "packet_in", conn |-> c, port |-> t.port,
                     flow |-> e.meta])
  BY DEF DetectPacket
<1>2. e \in Entry
  BY <1>1 DEF ToController, Best, Matching, TypeInv, TypeOK
<1>3. e.meta \in Flow
  BY <1>1, <1>2 DEF Entry
<1> DEFINE ev == [type |-> "packet_in", conn |-> c, port |-> t.port, flow |-> e.meta]
<1>4. ev \in Event /\ ev.type = "packet_in" /\ Enqueue(ev)
  BY <1>1, <1>3 DEF Event
<1> HIDE DEF ev
<1>5. events' \in Seq(Event)
  BY <1>4, EnqueueType DEF TypeInv
<1>6. TypeOK' /\ UNCHANGED <<task, rest, vnf>>
  BY <1>5 DEF DetectPacket, TypeInv, TypeOK, network
<1> QED
  BY <1>4, <1>6, FrameType DEF TypeInv

\* Connections and switches.
LEMMA NetworkType ==
    ASSUME TypeInv,
           \/ \E c \in Conn : LinkStep(c)
           \/ \E c \in Conn, t \in Traffic : DetectPacket(c, t)
           \/ \E c \in Conn, d \in Datagram : RegisterPacket(c, d)
    PROVE  TypeInv'
<1> USE DEF TypeInv
<1>1. ASSUME NEW c \in Conn, Connect(c) PROVE TypeInv'
  <2>1. [type |-> "features", conn |-> c] \in Event
    BY DEF Event
  <2>2. events' \in Seq(Event)
    BY <1>1, <2>1, EnqueueType DEF Connect
  <2>3. link' \in [Conn -> LinkState]
    BY <1>1 DEF Connect, TypeOK, LinkState
  <2>4. TypeOK' /\ UNCHANGED <<task, rest, vnf>>
    BY <1>1, <2>2, <2>3 DEF Connect, TypeOK, Enqueue
  <2> QED
    BY <2>4, FrameType
<1>2. ASSUME NEW c \in Conn, EnterMain(c) PROVE TypeInv'
  <2>1. [type |-> "main", conn |-> c] \in Event
    BY DEF Event
  <2>2. events' \in Seq(Event)
    BY <1>2, <2>1, EnqueueType DEF EnterMain
  <2>3. link' \in [Conn -> LinkState]
    BY <1>2 DEF EnterMain, TypeOK, LinkState
  <2>4. TypeOK' /\ UNCHANGED <<task, rest, vnf>>
    BY <1>2, <2>2, <2>3 DEF EnterMain, TypeOK, Enqueue
  <2> QED
    BY <2>4, FrameType
<1>3. ASSUME NEW c \in Conn, Drop(c) PROVE TypeInv'
  <2>1. link' \in [Conn -> LinkState]
    BY <1>3 DEF Drop, TypeOK, LinkState
  <2>2. table' \in [Switch -> SUBSET Entry]
    BY <1>3 DEF Drop, TypeOK
  <2>3. TypeOK' /\ UNCHANGED <<task, rest, vnf>>
    BY <1>3, <2>1, <2>2 DEF Drop, TypeOK
  <2> QED
    BY <2>3, FrameType
<1>4. ASSUME NEW c \in Conn, Notice(c) PROVE TypeInv'
  <2>1. link' \in [Conn -> LinkState]
    BY <1>4 DEF Notice, TypeOK, LinkState
  <2>2. chan' \in [Conn -> Seq(FlowMod)]
    BY <1>4 DEF Notice, TypeOK
  <2>3. TypeOK' /\ UNCHANGED <<task, rest, vnf>>
    BY <1>4, <2>1, <2>2 DEF Notice, TypeOK
  <2> QED
    BY <2>3, FrameType
<1>5. ASSUME NEW c \in Conn, ReportDead(c) PROVE TypeInv'
  <2>1. [type |-> "dead", conn |-> c] \in Event
    BY DEF Event
  <2>2. events' \in Seq(Event)
    BY <1>5, <2>1, EnqueueType DEF ReportDead
  <2>3. link' \in [Conn -> LinkState]
    BY <1>5 DEF ReportDead, TypeOK, LinkState
  <2>4. TypeOK' /\ UNCHANGED <<task, rest, vnf>>
    BY <1>5, <2>2, <2>3 DEF ReportDead, TypeOK, Enqueue
  <2> QED
    BY <2>4, FrameType
<1>6. ASSUME NEW c \in Conn, ApplyMod(c) PROVE TypeInv'
  <2>1. chan[c] \in Seq(FlowMod) /\ chan[c] # <<>>
    BY <1>6 DEF ApplyMod, TypeOK
  <2>2. Head(chan[c]) \in FlowMod /\ Tail(chan[c]) \in Seq(FlowMod)
    BY <2>1, HeadTailProperties
  <2>3. chan' \in [Conn -> Seq(FlowMod)]
    BY <1>6, <2>2 DEF ApplyMod, TypeOK
  <2>4. table[Dpid(c)] \in SUBSET Entry
    BY DEF TypeOK, Conn, Dpid
  <2>5. Apply(table[Dpid(c)], Head(chan[c])) \in SUBSET Entry
    BY <2>2, <2>4, ApplyType
  <2>6. table' \in [Switch -> SUBSET Entry]
    BY <1>6, <2>5 DEF ApplyMod, TypeOK
  <2>7. TypeOK' /\ UNCHANGED <<task, rest, vnf>>
    BY <1>6, <2>3, <2>6 DEF ApplyMod, TypeOK
  <2> QED
    BY <2>7, FrameType
<1>7. ASSUME NEW c \in Conn, NEW t \in Traffic, DetectPacket(c, t)
      PROVE  TypeInv'
  BY <1>7, TrafficAssumption, DetectType
<1>8. ASSUME NEW c \in Conn, NEW d \in Datagram, RegisterPacket(c, d)
      PROVE  TypeInv'
  <2>1. d.vnf \in Vnf /\ d.row \in VnfRow
    BY DatagramAssumption
  <2>2. [type |-> "register", conn |-> c, vnf |-> d.vnf, row |-> d.row]
          \in Event
    BY <2>1 DEF Event
  <2>3. events' \in Seq(Event)
    BY <1>8, <2>2, EnqueueType DEF RegisterPacket
  <2>4. TypeOK' /\ UNCHANGED <<task, rest, vnf>>
    BY <1>8, <2>3 DEF RegisterPacket, TypeOK, network
  <2> QED
    BY <2>4, FrameType
<1> QED
  BY <1>1, <1>2, <1>3, <1>4, <1>5, <1>6, <1>7, <1>8 DEF LinkStep

\* The rows of a service, and what the vnf table has for them.
LEMMA PathType ==
    ASSUME TypeOK, NEW f \in Flow
    PROVE  /\ Len(Path1(f)) \in Nat \ {0}
           /\ Len(Path1(f)) \in FieldValue
           /\ \A i \in 1..Len(Path1(f)) :
                 /\ Bidirectional(f, i) => VnfAt(f, i) \in VnfRow
                 /\ Path1(f)[i][2] \in FieldValue
<1>1. Path1(f) \in Seq(Vnf \X (FieldValue \cap Nat)) /\ Path1(f) # <<>>
  BY PathAssumption, ServiceAssumption DEF Path1
<1>2. Len(Path1(f)) \in FieldValue
  BY PathAssumption, ServiceAssumption DEF Path1
<1>3. Len(Path1(f)) \in Nat \ {0}
  BY <1>1, LenProperties
<1>4. \A i \in 1..Len(Path1(f)) : Path1(f)[i] \in Vnf \X (FieldValue \cap Nat)
  BY <1>1, ElementOfSeq
<1> QED
  BY <1>2, <1>3, <1>4 DEF Bidirectional, Rows, VnfAt, TypeOK

\* A task that handles a packet, and the changes its steps make to it.
LEMMA PacketTaskType ==
    ASSUME NEW t \in Task, t.pc # "defaults"
    PROVE  /\ t.conn \in Conn /\ t.port \in Port /\ t.flow \in Flow
           /\ t.todo \in Seq(Conn) /\ t.cur \in Nat /\ t.pos \in Nat
           /\ t.step \in 1..3
           /\ [t EXCEPT !.pc = "source"] \in Task
           /\ [t EXCEPT !.pc = "chain"] \in Task
           /\ \A todo \in Seq(Conn) : [t EXCEPT !.todo = todo] \in Task
           /\ \A step \in 1..3 : [t EXCEPT !.step = step] \in Task
           /\ \A pos \in Nat : [t EXCEPT !.pos = pos] \in Task
           /\ \A pos, cur \in Nat :
                 [t EXCEPT !.step = 1, !.pos = pos, !.cur = cur] \in Task
<1> DEFINE P == [pc : {"delete", "source", "chain"}, conn : Conn, port : Port,
                 flow : Flow, todo : Seq(Conn), cur : Nat, pos : Nat,
                 step : 1..3]
<1>1. t \in P
  BY DEF Task
<1>2. \A u \in P : u \in Task
  BY DEF Task
<1>3. [t EXCEPT !.pc = "source"] \in P /\ [t EXCEPT !.pc = "chain"] \in P
  BY <1>1
<1>4. \A todo \in Seq(Conn) : [t EXCEPT !.todo = todo] \in P
  BY <1>1
<1>5. \A step \in 1..3 : [t EXCEPT !.step = step] \in P
  BY <1>1
<1>6. \A pos \in Nat : [t EXCEPT !.pos = pos] \in P
  BY <1>1
<1>7. \A pos, cur \in Nat :
         [t EXCEPT !.step = 1, !.pos = pos, !.cur = cur] \in P
  <2> TAKE pos, cur \in Nat
  <2>1. [t EXCEPT !.step = 1, !.pos = pos, !.cur = cur]
          = [[[t EXCEPT !.step = 1] EXCEPT !.pos = pos] EXCEPT !.cur = cur]
    BY <1>1
  <2>2. [t EXCEPT !.step = 1] \in P
    BY <1>5
  <2> QED
    BY <2>1, <2>2
<1> HIDE DEF P
<1>8. /\ t.conn \in Conn /\ t.port \in Port /\ t.flow \in Flow
      /\ t.todo \in Seq(Conn) /\ t.cur \in Nat /\ t.pos \in Nat
      /\ t.step \in 1..3
  BY <1>1 DEF P
<1> QED
  BY <1>2, <1>3, <1>4, <1>5, <1>6, <1>7, <1>8

\* What follows the deletions.
LEMMA AfterDeletionsType ==
    ASSUME TypeOK, NEW t \in Task, t.pc = "delete",
           t.pos = 1, t.cur = 1, t.step = 1
    PROVE  /\ AfterDeletions(t) \in Task \cup {NoTask}
           /\ AfterDeletions(t) # NoTask => TaskOK(AfterDeletions(t))
<1> DEFINE u == [t EXCEPT !.pc = "source"]
<1>1. u \in Task /\ t.flow \in Flow
  BY PacketTaskType
<1>2. /\ u.pc = "source" /\ u.flow = t.flow
      /\ u.pos = 1 /\ u.cur = 1 /\ u.step = 1
  BY DEF Task
<1>3. CASE Bidirectional(t.flow, 1)
  <2>1. Bidirectional(u.flow, u.cur)
    BY <1>2, <1>3
  <2>2. Len(Path1(u.flow)) \in Nat \ {0}
    BY <1>1, <1>2, PathType
  <2>3. TaskOK(u)
    BY <1>2, <2>1, <2>2 DEF TaskOK
  <2>4. AfterDeletions(t) = u
    BY <1>3 DEF AfterDeletions
  <2> QED
    BY <1>1, <2>3, <2>4
<1>4. CASE ~ Bidirectional(t.flow, 1)
  BY <1>4 DEF AfterDeletions
<1> QED
  BY <1>3, <1>4

\* The handlers that do not send.
LEMMA RegistryType ==
    ASSUME TypeInv, RegisterDatapath \/ UnregisterDatapath
    PROVE  TypeInv'
<1> USE DEF TypeInv
<1>1. ASSUME RegisterDatapath PROVE datapaths' \in Seq(Conn)
                                    /\ events' \in Seq(Event)
  <2>1. events' \in Seq(Event) /\ Head(events).conn \in Conn
    BY <1>1, NextEventType DEF RegisterDatapath
  <2>2. Append(datapaths, Head(events).conn) \in Seq(Conn)
    BY <2>1, AppendProperties DEF TypeOK
  <2> QED
    BY <1>1, <2>1, <2>2 DEF RegisterDatapath, TypeOK
<1>2. ASSUME UnregisterDatapath PROVE datapaths' \in Seq(Conn)
                                      /\ events' \in Seq(Event)
  <2>1. events' \in Seq(Event)
    BY <1>2, NextEventType DEF UnregisterDatapath
  <2>2. ASSUME NEW i \in DOMAIN datapaths
        PROVE  RemoveAt(datapaths, i) \in Seq(Conn)
    <3>1. datapaths \in Seq(Conn) /\ i \in 1..Len(datapaths)
      BY <2>2, LenProperties DEF TypeOK
    <3>2. /\ SubSeq(datapaths, 1, i - 1) \in Seq(Conn)
          /\ SubSeq(datapaths, i + 1, Len(datapaths)) \in Seq(Conn)
      BY <3>1, SubSeqProperties
    <3> QED
      BY <3>2, ConcatProperties DEF RemoveAt
  <2>3. datapaths' \in Seq(Conn)
    BY <1>2, <2>2 DEF UnregisterDatapath, TypeOK
  <2> QED
    BY <2>1, <2>3
<1>3. UNCHANGED <<link, chan, table, task, rest, running, vnf>>
  BY DEF RegisterDatapath, UnregisterDatapath, HandledAtOnce, network
<1>4. TypeOK'
  BY <1>1, <1>2, <1>3 DEF TypeOK
<1> QED
  BY <1>3, <1>4, FrameType

\* A registration: there is no task whose functions it could change.
LEMMA RegisterVnfType ==
    ASSUME TypeInv, RegisterVnf
    PROVE  TypeInv'
<1> USE DEF TypeInv
<1>1. /\ events' \in Seq(Event) /\ Head(events) \in Event
      /\ Head(events).type = "register"
  BY NextEventType DEF RegisterVnf
<1>2. Head(events).row \in VnfRow
  BY <1>1 DEF Event
<1>3. vnf' \in [Vnf -> SUBSET VnfRow]
  BY <1>2 DEF RegisterVnf, TypeOK
<1>4. task' = NoTask /\ UNCHANGED <<link, chan, table, datapaths, rest, running>>
  BY DEF RegisterVnf, NextEvent, HandledAtOnce, network
<1>5. TypeOK' /\ TaskInv'
  BY <1>1, <1>3, <1>4 DEF TypeOK, TaskInv
<1>6. RequestInv'
  BY <1>4 DEF RequestInv, TypeOK, RegisterVnf, HandledAtOnce
<1> QED
  BY <1>5, <1>6

\* The handlers that send start.
LEMMA StartType ==
    ASSUME TypeInv, StartDefaults \/ StartDetection
    PROVE  TypeInv'
<1> USE DEF TypeInv
<1>1. CASE StartDefaults
  <2>1. events' \in Seq(Event) /\ Head(events).conn \in Conn
    BY <1>1, NextEventType DEF StartDefaults
  <2>2. [pc |-> "defaults", conn |-> Head(events).conn, step |-> 1] \in Task
    BY <2>1 DEF Task
  <2> QED
    BY <1>1, <2>1, <2>2, BeginType DEF StartDefaults
<1>2. CASE StartDetection
  <2> DEFINE e == Head(events)
             t == [pc |-> "delete", conn |-> e.conn, port |-> e.port,
                   flow |-> e.flow, todo |-> datapaths,
                   cur |-> 1, pos |-> 1, step |-> 1]
             u == IF datapaths = <<>> THEN AfterDeletions(t) ELSE t
  <2>1. events' \in Seq(Event) /\ e \in Event /\ e.type = "packet_in"
        /\ e.conn \in Conn
    BY <1>2, NextEventType DEF StartDetection
  <2>2. e.port \in Port /\ e.flow \in Flow
    BY <2>1 DEF Event
  <2>3. CASE ~ Translatable(e.flow)
    <3>1. TypeOK' /\ UNCHANGED <<task, rest, vnf>>
      BY <1>2, <2>1, <2>3
         DEF StartDetection, HandledAtOnce, network, TypeOK
    <3> QED
      BY <3>1, FrameType
  <2>4. CASE Translatable(e.flow)
    <3>1. Begin(u)
      BY <1>2, <2>4 DEF StartDetection, DeletionTargets
    <3>2. t \in Task
      BY <2>1, <2>2 DEF Task, TypeOK
    <3>3. AfterDeletions(t) \in Task \cup {NoTask}
          /\ (AfterDeletions(t) # NoTask => TaskOK(AfterDeletions(t)))
      BY <3>2, AfterDeletionsType
    <3>4. ASSUME datapaths # <<>> PROVE TaskOK(t)
      <4>1. Len(Path1(t.flow)) \in Nat \ {0}
        BY <2>2, PathType
      <4> QED
        BY <3>4, <4>1 DEF TaskOK
    <3>5. u \in Task \cup {NoTask} /\ (u # NoTask => TaskOK(u))
      BY <3>2, <3>3, <3>4
    <3> HIDE DEF u
    <3> QED
      BY <2>1, <3>1, <3>5, BeginType
  <2> QED
    BY <2>3, <2>4
<1> QED
  BY <1>1, <1>2

\* The six default entries.
LEMMA SendDefaultType ==
    ASSUME TypeInv, SendDefault
    PROVE  TypeInv'
<1> USE DEF TypeInv
<1>1. task \in Task /\ task.pc = "defaults"
  BY DEF SendDefault, InTask, TypeOK
<1>2. task.conn \in Conn /\ task.step \in 1..6
  BY <1>1 DEF Task
<1>3. DefaultMods[task.step] \in FlowMod
  <2>1. \A i \in 1..6 : DefaultMods[i] \in FlowMod
    BY DefaultModsType
  <2> QED
    BY <1>2, <2>1
<1>4. chan' \in [Conn -> Seq(FlowMod)]
  BY <1>2, <1>3, SendType DEF SendDefault
<1>5. CASE task.step = 6
  BY <1>4, <1>5, ContinueType DEF SendDefault
<1>6. CASE task.step # 6
  <2> DEFINE u == [task EXCEPT !.step = @ + 1]
  <2>1. u \in Task /\ u.pc = "defaults"
    BY <1>1, <1>2, <1>6 DEF Task
  <2>2. Continue(u)
    BY <1>6 DEF SendDefault
  <2> HIDE DEF u
  <2> QED
    BY <1>4, <2>1, <2>2, ContinueType
<1> QED
  BY <1>5, <1>6

\* A task that handles a packet: its types and where it stands.
LEMMA PacketTask ==
    ASSUME TypeInv, NEW pc \in {"delete", "source", "chain"}, InTask(pc)
    PROVE  /\ task \in Task /\ task.pc = pc /\ task # NoTask
           /\ task.pc # "defaults"
           /\ TaskOK(task)
           /\ task.flow \in Flow /\ task.conn \in Conn
           /\ Len(Path1(task.flow)) \in Nat \ {0}
           /\ Bidirectional(task.flow, task.cur) =>
                 VnfAt(task.flow, task.cur) \in VnfRow
<1>1. /\ task \in Task /\ task.pc = pc /\ task # NoTask
      /\ task.pc # "defaults"
  BY DEF TypeInv, TypeOK, InTask
<1>2. TaskOK(task)
  BY <1>1 DEF TypeInv, TaskInv
<1>3. task.flow \in Flow /\ task.conn \in Conn
  BY <1>1, PacketTaskType
<1>4. TypeOK
  BY DEF TypeInv
<1>5. Len(Path1(task.flow)) \in Nat \ {0}
  BY <1>3, <1>4, PathType
<1>6. task.cur \in 1..Len(Path1(task.flow))
  BY <1>2, <1>5 DEF TaskOK
<1>7. Bidirectional(task.flow, task.cur) =>
         VnfAt(task.flow, task.cur) \in VnfRow
  BY <1>3, <1>4, <1>6, PathType
<1> QED
  BY <1>1, <1>2, <1>3, <1>5, <1>7

\* The deletions of a detection.
LEMMA DeleteCatchingType ==
    ASSUME TypeInv, DeleteCatching
    PROVE  TypeInv'
<1> DEFINE t == [task EXCEPT !.todo = Tail(@)]
           u == IF Tail(task.todo) = <<>> THEN AfterDeletions(t) ELSE t
<1>1. InTask("delete")
  BY DEF DeleteCatching
<1>2. /\ task \in Task /\ task.pc = "delete"
      /\ task.flow \in Flow /\ TaskOK(task)
      /\ task.todo \in Seq(Conn)
  BY <1>1, PacketTask, PacketTaskType
<1>3. task.todo # <<>> /\ task.pos = 1 /\ task.cur = 1 /\ task.step = 1
  BY <1>2 DEF TaskOK
<1>4. Head(task.todo) \in Conn /\ Tail(task.todo) \in Seq(Conn)
  BY <1>2, <1>3, HeadTailProperties
<1>5. DeleteFlowMod(task.flow) \in FlowMod
  BY <1>2, RequestModTypes
<1>6. chan' \in [Conn -> Seq(FlowMod)]
  BY <1>4, <1>5, SendType DEF DeleteCatching, TypeInv
<1>7. t \in Task
  BY <1>2, <1>4, PacketTaskType
<1>8. /\ t.pc = "delete" /\ t.pos = 1 /\ t.cur = 1 /\ t.step = 1
      /\ t.flow = task.flow /\ t.todo = Tail(task.todo)
  BY <1>2, <1>3 DEF Task
<1>9. TaskOK(t) \/ Tail(task.todo) = <<>>
  BY <1>2, <1>8 DEF TaskOK
<1>10. /\ AfterDeletions(t) \in Task \cup {NoTask}
       /\ AfterDeletions(t) # NoTask => TaskOK(AfterDeletions(t))
  BY <1>7, <1>8, AfterDeletionsType DEF TypeInv
<1>11. u \in Task \cup {NoTask} /\ (u # NoTask => TaskOK(u))
  BY <1>7, <1>9, <1>10
<1>12. Continue(u)
  BY <1>8 DEF DeleteCatching
<1> HIDE DEF u
<1> QED
  BY <1>6, <1>11, <1>12, ContinueType

\* The source entry.
LEMMA SendSourceType ==
    ASSUME TypeInv, SendSource
    PROVE  TypeInv'
<1> DEFINE u == [task EXCEPT !.pc = "chain"]
<1>1. InTask("source")
  BY DEF SendSource
<1>2. /\ task \in Task /\ task.pc = "source" /\ task.pc # "defaults"
      /\ task.flow \in Flow /\ task.conn \in Conn /\ TaskOK(task)
      /\ task.port \in Port
  BY <1>1, PacketTask, PacketTaskType
<1>3. task.pos = 1 /\ task.cur = 1 /\ Bidirectional(task.flow, 1) /\ task.step = 1
  BY <1>2 DEF TaskOK
<1>4. VnfAt(task.flow, 1) \in VnfRow
  BY <1>1, <1>3, PacketTask
<1>5. SourceMod(task.flow, task.port, VnfAt(task.flow, 1)) \in FlowMod
  BY <1>2, <1>4, SourceModType
<1>6. chan' \in [Conn -> Seq(FlowMod)]
  BY <1>2, <1>5, SendType DEF SendSource, TypeInv
<1>7. u \in Task
  BY <1>2, PacketTaskType
<1>8. /\ u.pc = "chain" /\ u.pos = 1 /\ u.cur = 1 /\ u.step = 1
      /\ u.flow = task.flow
  BY <1>2, <1>3 DEF Task
<1>9. TaskOK(u)
  BY <1>2, <1>3, <1>8 DEF TaskOK
<1>10. Continue(u)
  BY DEF SendSource
<1> HIDE DEF u
<1> QED
  BY <1>6, <1>7, <1>9, <1>10, ContinueType

\* The turns of the loop over the service that send nothing.
LEMMA QuietTurnType ==
    ASSUME TypeInv, AbandonChain \/ SkipVnf
    PROVE  TypeInv'
<1>1. InTask("chain")
  BY DEF AbandonChain, SkipVnf, InTurn
<1>2. chan' \in [Conn -> Seq(FlowMod)]
  BY DEF AbandonChain, SkipVnf, TypeInv, TypeOK
<1>3. CASE AbandonChain
  BY <1>2, <1>3, ContinueType DEF AbandonChain
<1>4. CASE SkipVnf
  <2> DEFINE n == Len(Path1(task.flow))
             u == [task EXCEPT !.pos = @ + 1]
  <2>1. /\ task \in Task /\ task.pc = "chain" /\ task.pc # "defaults"
        /\ task.flow \in Flow /\ TaskOK(task) /\ n \in Nat \ {0}
        /\ task.pos \in Nat
    BY <1>1, PacketTask, PacketTaskType
  <2>2. task.pos # n /\ ~ NextBidirectional
    BY <1>4 DEF SkipVnf, AtEnd
  <2>3. /\ task.pos \in 1..n /\ task.cur \in 1..task.pos
        /\ Bidirectional(task.flow, task.cur) /\ task.step = 1
    BY <2>1, <2>2 DEF TaskOK, NextBidirectional
  <2>4. u \in Task
    <3>1. \A pos \in Nat : [task EXCEPT !.pos = pos] \in Task
      BY <2>1, PacketTaskType
    <3>2. task.pos + 1 \in Nat
      BY <2>1
    <3> QED
      BY <3>1, <3>2
  <2>5. /\ u.pc = "chain" /\ u.pos = task.pos + 1 /\ u.cur = task.cur
        /\ u.step = 1 /\ u.flow = task.flow
    BY <2>1, <2>3 DEF Task
  <2>6. TaskOK(u)
    BY <2>1, <2>2, <2>3, <2>5 DEF TaskOK
  <2>7. Continue(u)
    BY <1>4 DEF SkipVnf
  <2> HIDE DEF u
  <2> QED
    BY <1>2, <2>4, <2>6, <2>7, ContinueType
<1> QED
  BY <1>3, <1>4

\* The service indices of a turn are field values.
LEMMA IndexType ==
    ASSUME TypeInv, InTask("chain")
    PROVE  /\ LastSi \in FieldValue
           /\ ~ AtEnd => /\ Index(task.pos + 1) \in FieldValue
                         /\ NextBidirectional => NextVnf \in VnfRow
<1>1. /\ task.flow \in Flow /\ TaskOK(task) /\ TypeOK
      /\ task.pc = "chain" /\ Len(Path1(task.flow)) \in Nat \ {0}
  BY PacketTask DEF TypeInv
<1>2. task.pos \in 1..Len(Path1(task.flow)) /\ task.cur \in 1..task.pos
  BY <1>1 DEF TaskOK
<1>3. task.cur \in 1..Len(Path1(task.flow))
  BY <1>1, <1>2
<1>4. LastSi \in FieldValue
  BY <1>1, <1>3, PathType DEF LastSi, Index
<1>5. ASSUME ~ AtEnd PROVE task.pos + 1 \in 1..Len(Path1(task.flow))
  BY <1>1, <1>2, <1>5 DEF AtEnd
<1> QED
  BY <1>1, <1>4, <1>5, PathType DEF Index, NextVnf, NextBidirectional

\* The entries of a hop.
LEMMA SendHopType ==
    ASSUME TypeInv, SendHop
    PROVE  TypeInv'
<1> DEFINE n == Len(Path1(task.flow))
           u == IF task.step < 3 THEN [task EXCEPT !.step = @ + 1]
                ELSE [task EXCEPT !.step = 1, !.pos = @ + 1,
                                  !.cur = task.pos + 1]
<1>1. InTask("chain") /\ ~ AtEnd /\ NextBidirectional
  BY DEF SendHop, InTurn
<1>2. /\ task \in Task /\ task.pc = "chain" /\ task.pc # "defaults"
      /\ task.flow \in Flow /\ TaskOK(task) /\ n \in Nat \ {0}
      /\ task.pos \in Nat /\ task.step \in 1..3
      /\ Bidirectional(task.flow, task.cur) =>
            VnfAt(task.flow, task.cur) \in VnfRow
  BY <1>1, PacketTask, PacketTaskType
<1>3. /\ task.pos \in 1..n /\ task.cur \in 1..task.pos
      /\ Bidirectional(task.flow, task.cur)
  BY <1>2 DEF TaskOK
<1>4. CurVnf \in VnfRow /\ NextVnf \in VnfRow
  BY <1>1, <1>2, <1>3, IndexType DEF CurVnf
<1>5. HopMod(task.step, task.flow, LastSi, Index(task.pos + 1),
             CurVnf, NextVnf) \in FlowMod
  BY <1>1, <1>2, <1>4, IndexType, ChainModType
<1>6. \A d \in Registered(CurVnf.dpid) : d \in Conn
  BY DEF Registered, ToSet, TypeInv, TypeOK
<1>7. chan' \in [Conn -> Seq(FlowMod)]
  BY <1>5, <1>6, SendType DEF SendHop, TypeInv
<1>8. u \in Task
  <2>1. CASE task.step < 3
    <3>1. \A step \in 1..3 : [task EXCEPT !.step = step] \in Task
      BY <1>2, PacketTaskType
    <3>2. task.step + 1 \in 1..3
      BY <1>2, <2>1
    <3> QED
      BY <2>1, <3>1, <3>2
  <2>2. CASE ~ (task.step < 3)
    <3>1. \A pos, cur \in Nat :
             [task EXCEPT !.step = 1, !.pos = pos, !.cur = cur] \in Task
      BY <1>2, PacketTaskType
    <3>2. task.pos + 1 \in Nat
      BY <1>2
    <3> QED
      BY <2>2, <3>1, <3>2
  <2> QED
    BY <2>1, <2>2
<1>9. TaskOK(u)
  <2>1. task.pos # n
    BY <1>1 DEF AtEnd
  <2>2. CASE task.step < 3
    <3>1. /\ u.pc = "chain" /\ u.pos = task.pos /\ u.cur = task.cur
          /\ u.flow = task.flow
      BY <1>2, <2>2 DEF Task
    <3> QED
      BY <1>1, <1>2, <1>3, <2>1, <3>1 DEF TaskOK, NextBidirectional
  <2>3. CASE ~ (task.step < 3)
    <3>1. /\ u.pc = "chain" /\ u.pos = task.pos + 1 /\ u.cur = task.pos + 1
          /\ u.flow = task.flow /\ u.step = 1
      BY <1>2, <2>3 DEF Task
    <3> QED
      BY <1>1, <1>2, <1>3, <2>1, <3>1 DEF TaskOK
  <2> QED
    BY <2>2, <2>3
<1>10. Continue(u)
  BY DEF SendHop
<1> HIDE DEF u
<1> QED
  BY <1>7, <1>8, <1>9, <1>10, ContinueType

\* The entries of the end of the service.
LEMMA SendEndType ==
    ASSUME TypeInv, SendEnd
    PROVE  TypeInv'
<1> DEFINE n == Len(Path1(task.flow))
           u == IF task.step < 2 THEN [task EXCEPT !.step = @ + 1] ELSE NoTask
<1>1. InTask("chain") /\ AtEnd
  BY DEF SendEnd, InTurn
<1>2. /\ task \in Task /\ task.pc = "chain" /\ task.pc # "defaults"
      /\ task.flow \in Flow /\ TaskOK(task) /\ n \in Nat \ {0}
      /\ task.step \in 1..3
      /\ Bidirectional(task.flow, task.cur) =>
            VnfAt(task.flow, task.cur) \in VnfRow
  BY <1>1, PacketTask, PacketTaskType
<1>3. /\ task.pos = n /\ task.cur \in 1..n
      /\ Bidirectional(task.flow, task.cur) /\ task.step \in 1..2
  BY <1>1, <1>2 DEF TaskOK, AtEnd
<1>4. CurVnf \in VnfRow
  BY <1>2, <1>3 DEF CurVnf
<1>5. EndMod(task.step, task.flow, CurVnf) \in FlowMod
  BY <1>2, <1>3, <1>4, ValueAssumption, ChainModType
<1>6. \A d \in Registered(CurVnf.dpid) : d \in Conn
  BY DEF Registered, ToSet, TypeInv, TypeOK
<1>7. chan' \in [Conn -> Seq(FlowMod)]
  BY <1>5, <1>6, SendType DEF SendEnd, TypeInv
<1>8. CASE task.step < 2
  <2>1. u \in Task
    <3>1. \A step \in 1..3 : [task EXCEPT !.step = step] \in Task
      BY <1>2, PacketTaskType
    <3>2. task.step + 1 \in 1..3
      BY <1>2, <1>8
    <3> QED
      BY <1>8, <3>1, <3>2
  <2>2. /\ u.pc = "chain" /\ u.pos = n /\ u.cur = task.cur
        /\ u.flow = task.flow /\ u.step = 2
    BY <1>2, <1>3, <1>8 DEF Task
  <2>3. TaskOK(u)
    BY <1>2, <1>3, <2>2 DEF TaskOK
  <2>4. Continue(u)
    BY DEF SendEnd
  <2> HIDE DEF u
  <2> QED
    BY <1>7, <2>1, <2>3, <2>4, ContinueType
<1>9. CASE ~ (task.step < 2)
  BY <1>7, <1>9, ContinueType DEF SendEnd
<1> QED
  BY <1>8, <1>9

\* The event loop.
LEMMA LoopType ==
    ASSUME TypeInv, Loop
    PROVE  TypeInv'
<1>1. CASE HandleEvent
  BY <1>1, RegistryType, RegisterVnfType, StartType DEF HandleEvent
<1>2. CASE RunTask
  BY <1>2, SendDefaultType, DeleteCatchingType, SendSourceType,
     QuietTurnType, SendHopType, SendEndType DEF RunTask
<1>3. CASE LoopBlocks
  <2>1. TypeOK' /\ UNCHANGED <<task, rest, vnf>>
    BY <1>3 DEF LoopBlocks, network, TypeInv, TypeOK
  <2> QED
    BY <2>1, FrameType
<1> QED
  BY <1>1, <1>2, <1>3 DEF Loop

\* A request that is being served, and the changes its steps make to it.
LEMMA RequestStateType ==
    ASSUME NEW state \in RestState
    PROVE  /\ \A pc \in {"next", "send", "ok", "not_found", "error"} :
                 [state EXCEPT !.pc = pc] \in RestState
           /\ \A size \in Nat :
                 [state EXCEPT !.pc = "next", !.size = size] \in RestState
           /\ \A seen \in Seq(Conn) :
                 [state EXCEPT !.pc = "send", !.seen = seen] \in RestState
           /\ [state EXCEPT !.step = 2] \in RestState
           /\ [state EXCEPT !.pc = "next", !.step = 1] \in RestState
<1>1. \A pc \in {"next", "send", "ok", "not_found", "error"} :
         [state EXCEPT !.pc = pc] \in RestState
  BY DEF RestState
<1>2. \A size \in Nat :
         [state EXCEPT !.pc = "next", !.size = size] \in RestState
  BY DEF RestState
<1>3. \A seen \in Seq(Conn) :
         [state EXCEPT !.pc = "send", !.seen = seen] \in RestState
  BY DEF RestState
<1>4. [state EXCEPT !.step = 2] \in RestState
  BY DEF RestState
<1>5. [state EXCEPT !.pc = "next", !.step = 1] \in RestState
  <2>1. \A u \in RestState : [u EXCEPT !.step = 1] \in RestState
    BY DEF RestState
  <2>2. [state EXCEPT !.pc = "next"] \in RestState
    BY <1>1
  <2>3. [state EXCEPT !.pc = "next", !.step = 1]
          = [[state EXCEPT !.pc = "next"] EXCEPT !.step = 1]
    BY DEF RestState
  <2> QED
    BY <2>1, <2>2, <2>3
<1> QED
  BY <1>1, <1>2, <1>3, <1>4, <1>5

\* A request starts.
LEMMA StartRequestType ==
    ASSUME TypeInv, NEW r \in Request, StartRequest(r)
    PROVE  TypeInv'
<1> DEFINE state == IF Subject[r] = NoFlow
                    THEN [rest[r] EXCEPT !.pc = "not_found"]
                    ELSE [rest[r] EXCEPT !.pc = "next", !.size = Len(datapaths)]
<1>1. rest[r] \in RestState /\ Len(datapaths) \in Nat
      /\ chan' \in [Conn -> Seq(FlowMod)]
  BY LenProperties DEF StartRequest, TypeInv, TypeOK
<1>2. state \in RestState
  BY <1>1, RequestStateType
<1>3. /\ state.pc \in {"next", "send"} => Subject[r] \in Flow
      /\ state.pc # "send"
  BY <1>1, RequestAssumption DEF RestState
<1>4. SetRest(r, state)
  BY DEF StartRequest
<1> HIDE DEF state
<1> QED
  BY <1>1, <1>2, <1>3, <1>4, SetRestType

\* The next turn of a request's iteration.
LEMMA NextDatapathType ==
    ASSUME TypeInv, NEW r \in Request, NextDatapath(r)
    PROVE  TypeInv'
<1>1. /\ rest[r] \in RestState /\ rest[r].pc = "next" /\ Subject[r] \in Flow
      /\ chan' \in [Conn -> Seq(FlowMod)] /\ datapaths \in Seq(Conn)
      /\ rest[r].seen \in Seq(Conn)
  BY DEF NextDatapath, TypeInv, TypeOK, RequestInv, RestState
<1>2. ASSUME NEW pc \in {"ok", "error"},
             SetRest(r, [rest[r] EXCEPT !.pc = pc])
      PROVE  TypeInv'
  <2> DEFINE state == [rest[r] EXCEPT !.pc = pc]
  <2>1. state \in RestState
    BY <1>1, RequestStateType
  <2>2. state.pc \notin {"next", "send"}
    BY <1>1 DEF RestState
  <2>3. SetRest(r, state)
    BY <1>2
  <2> HIDE DEF state
  <2> QED
    BY <1>1, <2>1, <2>2, <2>3, SetRestType
<1>3. ASSUME NEW i \in Unseen(r),
             SetRest(r, [rest[r] EXCEPT !.pc = "send",
                                        !.seen = Append(@, datapaths[i])])
      PROVE  TypeInv'
  <2> DEFINE seen  == Append(rest[r].seen, datapaths[i])
             state == [rest[r] EXCEPT !.pc = "send", !.seen = seen]
  <2>1. datapaths[i] \in Conn
    BY <1>1, ElementOfSeq, LenProperties DEF Unseen
  <2>2. seen \in Seq(Conn) /\ seen # <<>>
    <3>1. rest[r].seen \in Seq(Conn)
      BY <1>1
    <3> QED
      BY <2>1, <3>1, AppendProperties
  <2>3. state \in RestState
    BY <1>1, <2>2, RequestStateType
  <2>4. state.seen = seen
    BY <1>1 DEF RestState
  <2>5. SetRest(r, state)
    BY <1>3
  <2> HIDE DEF state
  <2> QED
    BY <1>1, <2>2, <2>3, <2>4, <2>5, SetRestType
<1> QED
  BY <1>2, <1>3 DEF NextDatapath

\* A request sends.
LEMMA SendRequestType ==
    ASSUME TypeInv, NEW r \in Request, SendRequest(r)
    PROVE  TypeInv'
<1> DEFINE state == IF Op[r] = "delete" /\ rest[r].step = 1
                    THEN [rest[r] EXCEPT !.step = 2]
                    ELSE [rest[r] EXCEPT !.pc = "next", !.step = 1]
<1>1. /\ rest[r] \in RestState /\ rest[r].pc = "send" /\ Subject[r] \in Flow
      /\ rest[r].seen \in Seq(Conn) /\ rest[r].seen # <<>>
  BY DEF SendRequest, TypeInv, TypeOK, RequestInv, RestState
<1>2. Last(rest[r].seen) \in Conn
  BY <1>1, LenProperties, ElementOfSeq DEF Last
<1>3. RequestMod(r) \in FlowMod
  BY <1>1, RequestModTypes DEF RequestMod
<1>4. chan' \in [Conn -> Seq(FlowMod)]
  BY <1>2, <1>3, SendType DEF SendRequest, TypeInv
<1>5. state \in RestState
  BY <1>1, RequestStateType
<1>6. state.seen # <<>>
  BY <1>1 DEF RestState
<1>7. SetRest(r, state)
  BY DEF SendRequest
<1> HIDE DEF state
<1> QED
  BY <1>1, <1>4, <1>5, <1>6, <1>7, SetRestType

\* The REST server.
LEMMA ServeType ==
    ASSUME TypeInv, NEW r \in Request, Serve(r)
    PROVE  TypeInv'
<1>1. CASE RequestBlocks(r)
  <2>1. TypeOK' /\ UNCHANGED <<task, rest, vnf>>
    BY <1>1 DEF RequestBlocks, network, TypeInv, TypeOK
  <2> QED
    BY <2>1, FrameType
<1> QED
  BY <1>1, StartRequestType, NextDatapathType, SendRequestType DEF Serve

\* Every step of the application, its connections and its switches.
LEMMA NextType == TypeInv /\ [Next]_vars => TypeInv'
<1> SUFFICES ASSUME TypeInv, [Next]_vars PROVE TypeInv'
  OBVIOUS
<1>1. CASE \E c \in Conn : LinkStep(c)
  BY <1>1, NetworkType
<1>2. CASE \E c \in Conn, t \in Traffic : DetectPacket(c, t)
  BY <1>2, NetworkType
<1>3. CASE \E c \in Conn, d \in Datagram : RegisterPacket(c, d)
  BY <1>3, NetworkType
<1>4. CASE Loop
  BY <1>4, LoopType
<1>5. CASE \E r \in Request : Serve(r)
  BY <1>5, ServeType
<1>6. CASE UNCHANGED vars
  <2>1. TypeOK' /\ UNCHANGED <<task, rest, vnf>>
    BY <1>6 DEF vars, TypeInv, TypeOK
  <2> QED
    BY <2>1, FrameType
<1> QED
  BY <1>1, <1>2, <1>3, <1>4, <1>5, <1>6 DEF Next

\* Where the event loop and the requests can stand, in every behaviour: no
\* handler goes past the end of a service, reads a function that is not
\* registered, or sends to nobody (sfc_nfv.py:178-430, 29-110).
THEOREM Positions == Spec => []TypeInv
<1>1. Init => TypeInv
  BY InitType
<1>2. TypeInv /\ [Next]_vars => TypeInv'
  BY NextType
<1> QED
  BY <1>1, <1>2, PTL DEF Spec

\* Everything the application sends is a FlowMod of the tables it knows, and
\* everything a switch, a queue or a handler holds is of its type.
THEOREM TypeCorrect == Spec => []TypeOK
<1>1. TypeInv => TypeOK
  BY DEF TypeInv
<1> QED
  BY <1>1, Positions, PTL

(***************************************************************************)
(* The steps of the handlers, as what they send and where they go on.      *)
(***************************************************************************)

\* The handler of a packet of a flow that is detected.
LEMMA DetectionStep ==
    ASSUME TypeInv, StartDetection
    PROVE  /\ task = NoTask /\ events # <<>> /\ events' = Tail(events)
           /\ UNCHANGED <<link, chan, table, datapaths, rest, vnf>>
           /\ Head(events).type = "packet_in" /\ Head(events).conn \in Conn
           /\ Head(events).flow \in Flow /\ Head(events).port \in Port
           /\ \/ /\ task' = NoTask
                 /\ \/ ~ Translatable(Head(events).flow)
                    \/ datapaths = <<>> /\ ~ Bidirectional(Head(events).flow, 1)
              \/ /\ task' # NoTask /\ task'.flow = Head(events).flow
                 /\ task'.conn = Head(events).conn
                 /\ Translatable(Head(events).flow)
                 /\ \/ task'.pc = "delete" /\ task'.todo = datapaths /\ datapaths # <<>>
                    \/ task'.pc = "source" /\ datapaths = <<>>
<1> DEFINE e == Head(events)
           t == [pc |-> "delete", conn |-> e.conn, port |-> e.port,
                 flow |-> e.flow, todo |-> datapaths,
                 cur |-> 1, pos |-> 1, step |-> 1]
           u == IF datapaths = <<>> THEN AfterDeletions(t) ELSE t
<1>1. /\ e \in Event /\ e.type = "packet_in" /\ e.conn \in Conn
      /\ task = NoTask /\ events # <<>> /\ events' = Tail(events)
  BY NextEventType DEF StartDetection, TypeInv, NextEvent
<1>2. e.port \in Port /\ e.flow \in Flow
  BY <1>1 DEF Event
<1>3. CASE ~ Translatable(e.flow)
  BY <1>1, <1>2, <1>3 DEF StartDetection, HandledAtOnce, network
<1>4. CASE Translatable(e.flow)
  <2>1. Begin(u)
    BY <1>4 DEF StartDetection, DeletionTargets
  <2>2. t \in Task /\ t.pc = "delete" /\ t.flow = e.flow /\ t.conn = e.conn
        /\ t.todo = datapaths
    BY <1>1, <1>2 DEF Task, TypeInv, TypeOK
  <2>3. t # NoTask
    BY <2>2, TaskAssumption
  <2> HIDE DEF t
  <2>4. UNCHANGED <<link, chan, table, datapaths, rest, vnf>> /\ task' = u
    BY <2>1 DEF Begin, network
  <2>5. CASE datapaths # <<>>
    <3>1. task' = t
      BY <2>4, <2>5
    <3> QED
      BY <1>1, <1>2, <1>4, <2>2, <2>3, <2>4, <2>5, <3>1
  <2>6. CASE datapaths = <<>> /\ ~ Bidirectional(e.flow, 1)
    <3>1. task' = NoTask
      BY <2>2, <2>4, <2>6 DEF AfterDeletions
    <3> QED
      BY <1>1, <1>2, <2>4, <2>6, <3>1
  <2>7. CASE datapaths = <<>> /\ Bidirectional(e.flow, 1)
    <3>1. task' = [t EXCEPT !.pc = "source"]
      BY <2>2, <2>4, <2>7 DEF AfterDeletions
    <3>2. [t EXCEPT !.pc = "source"] \in Task
      BY <2>2, PacketTaskType
    <3>3. /\ task' # NoTask /\ task'.pc = "source" /\ task'.flow = e.flow
          /\ task'.conn = e.conn
      BY <2>2, <3>1, <3>2, TaskAssumption DEF Task
    <3> QED
      BY <1>1, <1>2, <1>4, <2>4, <2>7, <3>3
  <2> QED
    BY <2>5, <2>6, <2>7
<1> QED
  BY <1>3, <1>4

\* It deletes on one connection, and goes on to the next or to the source entry.
LEMMA DeleteStep ==
    ASSUME TypeInv, DeleteCatching
    PROVE  /\ task # NoTask /\ task.pc = "delete" /\ task.flow \in Flow
           /\ task.todo \in Seq(Conn) /\ task.todo # <<>>
           /\ Head(task.todo) \in Conn /\ task.conn \in Conn
           /\ Send(Head(task.todo), DeleteFlowMod(task.flow))
           /\ UNCHANGED <<link, table, datapaths, events, rest, vnf>>
           /\ \/ /\ task' = NoTask /\ Tail(task.todo) = <<>>
                 /\ ~ Bidirectional(task.flow, 1)
              \/ /\ task' # NoTask /\ task'.flow = task.flow
                 /\ task'.conn = task.conn
                 /\ \/ task'.pc = "delete" /\ task'.todo = Tail(task.todo)
                    \/ task'.pc = "source" /\ Tail(task.todo) = <<>>
<1> DEFINE t == [task EXCEPT !.todo = Tail(@)]
           u == IF Tail(task.todo) = <<>> THEN AfterDeletions(t) ELSE t
<1>1. InTask("delete")
  BY DEF DeleteCatching
<1>2. /\ task \in Task /\ task.pc = "delete" /\ task # NoTask
      /\ task.flow \in Flow /\ TaskOK(task) /\ task.conn \in Conn
      /\ task.todo \in Seq(Conn)
  BY <1>1, PacketTask, PacketTaskType
<1>3. task.todo # <<>>
  BY <1>2 DEF TaskOK
<1>4. Head(task.todo) \in Conn /\ Tail(task.todo) \in Seq(Conn)
  BY <1>2, <1>3, HeadTailProperties
<1>5. t \in Task
  BY <1>2, <1>4, PacketTaskType
<1>6. /\ t.pc = "delete" /\ t.flow = task.flow /\ t.conn = task.conn
      /\ t.todo = Tail(task.todo) /\ t # NoTask
  BY <1>2, <1>5, TaskAssumption DEF Task
<1>7. Continue(u)
  BY <1>6 DEF DeleteCatching
<1>8. /\ Send(Head(task.todo), DeleteFlowMod(task.flow)) /\ task' = u
      /\ UNCHANGED <<link, table, datapaths, events, rest, vnf>>
  BY <1>7 DEF DeleteCatching, Continue
<1> HIDE DEF t
<1>9. CASE Tail(task.todo) # <<>>
  <2>1. task' = t
    BY <1>8, <1>9
  <2> QED
    BY <1>2, <1>3, <1>4, <1>6, <1>8, <2>1
<1>10. CASE Tail(task.todo) = <<>> /\ ~ Bidirectional(task.flow, 1)
  <2>1. task' = NoTask
    BY <1>6, <1>8, <1>10 DEF AfterDeletions
  <2> QED
    BY <1>2, <1>3, <1>4, <1>8, <1>10, <2>1
<1>11. CASE Tail(task.todo) = <<>> /\ Bidirectional(task.flow, 1)
  <2>1. task' = [t EXCEPT !.pc = "source"]
    BY <1>6, <1>8, <1>11 DEF AfterDeletions
  <2>2. [t EXCEPT !.pc = "source"] \in Task
    BY <1>5, <1>6, PacketTaskType
  <2>3. /\ task' # NoTask /\ task'.pc = "source" /\ task'.flow = task.flow
        /\ task'.conn = task.conn
    BY <1>5, <1>6, <2>1, <2>2, TaskAssumption DEF Task
  <2> QED
    BY <1>2, <1>3, <1>4, <1>8, <1>11, <2>3
<1> QED
  BY <1>9, <1>10, <1>11

\* It sends the source entry to the connection the packet came in on,
LEMMA SourceStep ==
    ASSUME TypeInv, SendSource
    PROVE  /\ task # NoTask /\ task.pc = "source" /\ task.flow \in Flow
           /\ task.conn \in Conn /\ task.port \in Port
           /\ VnfAt(task.flow, 1) \in VnfRow
           /\ Send(task.conn, SourceMod(task.flow, task.port, VnfAt(task.flow, 1)))
           /\ UNCHANGED <<link, table, datapaths, events, rest, vnf>>
           /\ task' = [task EXCEPT !.pc = "chain"]
           /\ task' # NoTask /\ task'.pc = "chain" /\ task'.flow = task.flow
           /\ task'.conn = task.conn /\ task'.pos = 1 /\ task'.cur = 1
           /\ task'.step = 1
<1>1. InTask("source")
  BY DEF SendSource
<1>2. /\ task \in Task /\ task.pc = "source" /\ task.pc # "defaults"
      /\ task.flow \in Flow /\ task.conn \in Conn /\ TaskOK(task)
      /\ task.port \in Port /\ task # NoTask
  BY <1>1, PacketTask, PacketTaskType
<1>3. /\ task.pos = 1 /\ task.cur = 1 /\ Bidirectional(task.flow, 1)
      /\ task.step = 1
  BY <1>2 DEF TaskOK
<1>4. VnfAt(task.flow, 1) \in VnfRow
  BY <1>1, <1>3, PacketTask
<1>5. [task EXCEPT !.pc = "chain"] \in Task
  BY <1>2, PacketTaskType
<1>6. task' = [task EXCEPT !.pc = "chain"]
      /\ UNCHANGED <<link, table, datapaths, events, rest, vnf>>
  BY DEF SendSource, Continue
<1>7. /\ task' # NoTask /\ task'.pc = "chain" /\ task'.flow = task.flow
      /\ task'.conn = task.conn /\ task'.pos = 1 /\ task'.cur = 1
      /\ task'.step = 1
  BY <1>2, <1>3, <1>5, <1>6, TaskAssumption DEF Task
<1> QED
  BY <1>2, <1>4, <1>6, <1>7 DEF SendSource

\* What it sends then is an entry of the chain.
LEMMA ChainEntries ==
    ASSUME NEW f \in Flow
    PROVE  /\ \A lastSi, si, cur, nxt : \A step \in 1..3 :
                 /\ HopMod(step, f, lastSi, si, cur, nxt).cmd = "add"
                 /\ ChainEntry(HopMod(step, f, lastSi, si, cur, nxt).entry, f)
           /\ \A cur : \A step \in 1..2 :
                 /\ EndMod(step, f, cur).cmd = "add"
                 /\ ChainEntry(EndMod(step, f, cur).entry, f)
<1>1. \A si, nxt : /\ ProxyMod(f, si, nxt).cmd = "add"
                   /\ ChainEntry(ProxyMod(f, si, nxt).entry, f)
  BY DEF ProxyMod, AddMod, ChainEntry
<1>2. \A si, cur, nxt : /\ MiddleMod(f, si, cur, nxt).cmd = "add"
                        /\ ChainEntry(MiddleMod(f, si, cur, nxt).entry, f)
  BY DEF MiddleMod, AddMod, ChainEntry
<1>3. \A lastSi, cur, nxt : /\ DecapMod(f, lastSi, cur, nxt).cmd = "add"
                            /\ ChainEntry(DecapMod(f, lastSi, cur, nxt).entry, f)
  BY DEF DecapMod, AddMod, ChainEntry
<1>4. \A lastSi, si, cur, nxt : \A step \in 1..3 :
         /\ HopMod(step, f, lastSi, si, cur, nxt).cmd = "add"
         /\ ChainEntry(HopMod(step, f, lastSi, si, cur, nxt).entry, f)
  BY <1>1, <1>2, <1>3 DEF HopMod
<1>5. \A cur : \A step \in 1..2 :
         EndMod(step, f, cur).cmd = "add" /\ ChainEntry(EndMod(step, f, cur).entry, f)
  BY DEF EndMod, AddMod, ChainEntry
<1> QED
  BY <1>4, <1>5

\* It is sent to a registered connection, or nothing is, and the handler goes on
\* or ends.
LEMMA ChainStep ==
    ASSUME TypeInv, AbandonChain \/ SkipVnf \/ SendHop \/ SendEnd
    PROVE  /\ task # NoTask /\ task.pc = "chain" /\ task.flow \in Flow
           /\ task.conn \in Conn
           /\ UNCHANGED <<link, table, datapaths, events, rest, vnf>>
           /\ \/ task' = NoTask
              \/ /\ task' # NoTask /\ task'.pc = "chain"
                 /\ task'.flow = task.flow /\ task'.conn = task.conn
           /\ \/ chan' = chan
              \/ \E d \in ToSet(datapaths), mod \in FlowMod :
                    /\ d \in Conn /\ Send(d, mod)
                    /\ mod.cmd = "add" /\ ChainEntry(mod.entry, task.flow)
<1>1. InTask("chain")
  BY DEF AbandonChain, SkipVnf, SendHop, SendEnd, InTurn
<1>2. /\ task \in Task /\ task.pc = "chain" /\ task.pc # "defaults"
      /\ task # NoTask /\ task.flow \in Flow /\ task.conn \in Conn
      /\ TaskOK(task) /\ task.pos \in Nat /\ task.step \in 1..3
      /\ Len(Path1(task.flow)) \in Nat \ {0}
      /\ Bidirectional(task.flow, task.cur) =>
            VnfAt(task.flow, task.cur) \in VnfRow
  BY <1>1, PacketTask, PacketTaskType
<1>3. UNCHANGED <<link, table, datapaths, events, rest, vnf>>
  BY DEF AbandonChain, SkipVnf, SendHop, SendEnd, Continue
<1>4. CurVnf \in VnfRow
  BY <1>2 DEF TaskOK, CurVnf
<1>5. \A d \in Registered(CurVnf.dpid) : d \in ToSet(datapaths) /\ d \in Conn
  BY DEF Registered, ToSet, TypeInv, TypeOK
<1>6. \/ task' = NoTask
      \/ \E i \in 1..3 : task' = [task EXCEPT !.step = i]
      \/ \E i \in Nat : task' = [task EXCEPT !.pos = i]
      \/ \E i \in Nat : task' = [task EXCEPT !.step = 1, !.pos = i, !.cur = i]
  <2>1. task.pos + 1 \in Nat /\ (task.step < 3 => task.step + 1 \in 1..3)
        /\ (task.step < 2 => task.step + 1 \in 1..3)
    BY <1>2
  <2>2. CASE AbandonChain
    BY <2>2 DEF AbandonChain, Continue
  <2>3. CASE SkipVnf
    BY <2>1, <2>3 DEF SkipVnf, Continue
  <2>4. CASE SendHop
    BY <2>1, <2>4 DEF SendHop, Continue
  <2>5. CASE SendEnd
    BY <2>1, <2>5 DEF SendEnd, Continue
  <2> QED
    BY <2>2, <2>3, <2>4, <2>5
<1>7. \/ task' = NoTask
      \/ /\ task' # NoTask /\ task'.pc = "chain"
         /\ task'.flow = task.flow /\ task'.conn = task.conn
  <2>1. ASSUME NEW i \in 1..3, task' = [task EXCEPT !.step = i]
        PROVE  /\ task' \in Task /\ task'.pc = "chain"
               /\ task'.flow = task.flow /\ task'.conn = task.conn
    <3>1. task' \in Task
      BY <1>2, <2>1, PacketTaskType
    <3> QED
      BY <1>2, <2>1, <3>1 DEF Task
  <2>2. ASSUME NEW i \in Nat, task' = [task EXCEPT !.pos = i]
        PROVE  /\ task' \in Task /\ task'.pc = "chain"
               /\ task'.flow = task.flow /\ task'.conn = task.conn
    <3>1. task' \in Task
      BY <1>2, <2>2, PacketTaskType
    <3> QED
      BY <1>2, <2>2, <3>1 DEF Task
  <2>3. ASSUME NEW i \in Nat, task' = [task EXCEPT !.step = 1, !.pos = i, !.cur = i]
        PROVE  /\ task' \in Task /\ task'.pc = "chain"
               /\ task'.flow = task.flow /\ task'.conn = task.conn
    <3>1. task' \in Task
      BY <1>2, <2>3, PacketTaskType
    <3> QED
      BY <1>2, <2>3, <3>1 DEF Task
  <2> QED
    BY <1>6, <2>1, <2>2, <2>3, TaskAssumption
<1>8. CASE AbandonChain \/ SkipVnf
  <2>1. chan' = chan
    BY <1>8 DEF AbandonChain, SkipVnf
  <2> QED
    BY <1>2, <1>3, <1>7, <2>1
<1>9. CASE SendHop
  <2>1. PICK d \in Registered(CurVnf.dpid) :
           Send(d, HopMod(task.step, task.flow, LastSi, Index(task.pos + 1),
                          CurVnf, NextVnf))
    BY <1>9 DEF SendHop
  <2>2. ~ AtEnd /\ NextBidirectional
    BY <1>9 DEF SendHop
  <2>3. HopMod(task.step, task.flow, LastSi, Index(task.pos + 1), CurVnf, NextVnf)
          \in FlowMod
    BY <1>1, <1>2, <1>4, <2>2, IndexType, ChainModType
  <2>4. PICK mod \in FlowMod :
           /\ mod = HopMod(task.step, task.flow, LastSi, Index(task.pos + 1),
                           CurVnf, NextVnf)
           /\ mod.cmd = "add" /\ ChainEntry(mod.entry, task.flow)
    BY <1>2, <2>3, ChainEntries
  <2> QED
    BY <1>2, <1>3, <1>5, <1>7, <2>1, <2>4
<1>10. CASE SendEnd
  <2>1. PICK d \in Registered(CurVnf.dpid) :
           Send(d, EndMod(task.step, task.flow, CurVnf))
    BY <1>10 DEF SendEnd
  <2>2. task.step \in 1..2
    BY <1>1, <1>2, <1>10 DEF SendEnd, InTurn, TaskOK, AtEnd
  <2>3. EndMod(task.step, task.flow, CurVnf) \in FlowMod
    BY <1>2, <1>4, <2>2, ValueAssumption, ChainModType
  <2>4. PICK mod \in FlowMod :
           /\ mod = EndMod(task.step, task.flow, CurVnf)
           /\ mod.cmd = "add" /\ ChainEntry(mod.entry, task.flow)
    BY <1>2, <2>2, <2>3, ChainEntries
  <2> QED
    BY <1>2, <1>3, <1>5, <1>7, <2>1, <2>4
<1> QED
  BY <1>8, <1>9, <1>10

\* The handler of a new switch sends the next default.
LEMMA DefaultStep ==
    ASSUME TypeInv, SendDefault
    PROVE  /\ task # NoTask /\ task.pc = "defaults" /\ task.conn \in Conn
           /\ task.step \in 1..6 /\ DefaultMods[task.step] \in FlowMod
           /\ Send(task.conn, DefaultMods[task.step])
           /\ UNCHANGED <<link, table, datapaths, events, rest, vnf>>
           /\ \/ task' = NoTask /\ task.step = 6
              \/ /\ task' # NoTask /\ task'.pc = "defaults"
                 /\ task'.conn = task.conn /\ task'.step = task.step + 1
<1>1. task \in Task /\ task.pc = "defaults" /\ task # NoTask
  BY DEF SendDefault, InTask, TypeInv, TypeOK
<1>2. task.conn \in Conn /\ task.step \in 1..6
  BY <1>1 DEF Task
<1>3. DefaultMods[task.step] \in FlowMod
  BY <1>2, DefaultModsType
<1>4. CASE task.step = 6
  BY <1>1, <1>2, <1>3, <1>4 DEF SendDefault, Continue
<1>5. CASE task.step # 6
  <2>1. task' = [task EXCEPT !.step = @ + 1]
    BY <1>5 DEF SendDefault, Continue
  <2>2. task' \in Task
    BY <1>1, <1>2, <1>5, <2>1 DEF Task
  <2>3. /\ task' # NoTask /\ task'.pc = "defaults" /\ task'.conn = task.conn
        /\ task'.step = task.step + 1
    BY <1>1, <2>1, <2>2, TaskAssumption DEF Task
  <2> QED
    BY <1>1, <1>2, <1>3, <2>3 DEF SendDefault, Continue
<1> QED
  BY <1>4, <1>5

\* The handler of a new switch starts.
LEMMA SetUpStep ==
    ASSUME TypeInv, StartDefaults
    PROVE  /\ task = NoTask /\ events # <<>> /\ events' = Tail(events)
           /\ UNCHANGED <<link, chan, table, datapaths, rest, vnf>>
           /\ Head(events).type = "features" /\ Head(events).conn \in Conn
           /\ task' # NoTask /\ task'.pc = "defaults" /\ task'.step = 1
           /\ task'.conn = Head(events).conn
<1>1. /\ Head(events).type = "features" /\ Head(events).conn \in Conn
      /\ task = NoTask /\ events # <<>> /\ events' = Tail(events)
  BY NextEventType DEF StartDefaults, TypeInv, NextEvent
<1>2. /\ UNCHANGED <<link, chan, table, datapaths, rest, vnf>>
      /\ task' = [pc |-> "defaults", conn |-> Head(events).conn, step |-> 1]
  BY DEF StartDefaults, Begin, network
<1>3. task' \in Task
  BY <1>1, <1>2 DEF Task
<1> QED
  BY <1>1, <1>2, <1>3, TaskAssumption

\* A request sends to the connection it has taken last.
LEMMA RequestStep ==
    ASSUME TypeInv, NEW r \in Request, SendRequest(r)
    PROVE  /\ Subject[r] \in Flow /\ rest[r].pc = "send"
           /\ rest[r].seen \in Seq(Conn) /\ rest[r].seen # <<>>
           /\ Last(rest[r].seen) \in Conn
           /\ Last(rest[r].seen) \in ToSet(rest[r].seen)
           /\ RequestMod(r) \in FlowMod
           /\ Send(Last(rest[r].seen), RequestMod(r))
           /\ UNCHANGED <<link, table, datapaths, events, task, vnf>>
           /\ \A q \in Request : q # r => rest'[q] = rest[q]
           /\ rest'[r].seen = rest[r].seen /\ rest'[r].pc \in {"next", "send"}
           /\ rest'[r].size = rest[r].size
           /\ rest'[r].pc = "send" =>
                 Op[r] = "delete" /\ rest[r].step = 1 /\ rest'[r].step = 2
           /\ running' = r
<1> DEFINE state == IF Op[r] = "delete" /\ rest[r].step = 1
                    THEN [rest[r] EXCEPT !.step = 2]
                    ELSE [rest[r] EXCEPT !.pc = "next", !.step = 1]
<1>1. /\ rest \in [Request -> RestState]
      /\ rest[r] \in RestState /\ rest[r].pc = "send" /\ Subject[r] \in Flow
      /\ rest[r].seen \in Seq(Conn) /\ rest[r].seen # <<>>
  BY DEF SendRequest, TypeInv, TypeOK, RequestInv, RestState
<1>2. Last(rest[r].seen) \in Conn /\ Last(rest[r].seen) \in ToSet(rest[r].seen)
  BY <1>1, LenProperties, ElementOfSeq DEF Last, ToSet
<1>3. RequestMod(r) \in FlowMod
  BY <1>1, RequestModTypes DEF RequestMod
<1>4. SetRest(r, state)
  BY DEF SendRequest
<1>5. /\ state.seen = rest[r].seen /\ state.size = rest[r].size
      /\ state.pc \in {"next", "send"}
      /\ state.pc = "send" =>
            Op[r] = "delete" /\ rest[r].step = 1 /\ state.step = 2
  BY <1>1 DEF RestState
<1> HIDE DEF state
<1>6. rest'[r] = state /\ \A q \in Request : q # r => rest'[q] = rest[q]
  BY <1>1, <1>4 DEF SetRest
<1>7. running' = r
  BY <1>4, <1>5 DEF SetRest
<1> QED
  BY <1>1, <1>2, <1>3, <1>4, <1>5, <1>6, <1>7 DEF SendRequest, SetRest

\* A request starts, or takes the next connection of the registry.
LEMMA TurnStep ==
    ASSUME TypeInv, NEW r \in Request, StartRequest(r) \/ NextDatapath(r)
    PROVE  /\ UNCHANGED <<link, chan, table, datapaths, events, task, vnf>>
           /\ \A q \in Request : q # r => rest'[q] = rest[q]
           /\ rest[r].pc \in {"new", "next"} /\ rest'[r].pc # "new"
           /\ \/ /\ StartRequest(r) /\ rest[r].pc = "new" /\ running = "none"
                 /\ rest'[r].pc \in {"next", "not_found"}
                 /\ rest'[r].seen = rest[r].seen
                 /\ rest'[r].size = Len(datapaths) \/ rest'[r].pc = "not_found"
              \/ /\ rest[r].pc = "next" /\ rest'[r].pc = "error"
                 /\ rest'[r].seen = rest[r].seen /\ running' = "none"
              \/ /\ rest[r].pc = "next" /\ rest'[r].pc = "ok" /\ Unseen(r) = {}
                 /\ rest'[r].seen = rest[r].seen /\ running' = "none"
              \/ /\ rest[r].pc = "next" /\ rest'[r].pc = "send" /\ MayRun(r)
                 /\ Translatable(Subject[r]) /\ Subject[r] \in Flow
                 /\ running' = r
                 /\ \E i \in Unseen(r) :
                       rest'[r].seen = Append(rest[r].seen, datapaths[i])
           /\ rest'[r].step = rest[r].step
           /\ running' = IF rest'[r].pc \in {"next", "send"} THEN r ELSE "none"
<1>1. /\ rest \in [Request -> RestState] /\ rest[r] \in RestState
      /\ datapaths \in Seq(Conn)
  BY DEF TypeInv, TypeOK
<1>2. \A state : SetRest(r, state) =>
         /\ UNCHANGED <<link, table, datapaths, events, task, vnf>>
         /\ \A q \in Request : q # r => rest'[q] = rest[q]
         /\ rest'[r] = state
         /\ running' = IF state.pc \in {"next", "send"} THEN r ELSE "none"
  BY <1>1 DEF SetRest
<1>3. UNCHANGED chan
  BY DEF StartRequest, NextDatapath
<1>4. CASE StartRequest(r)
  <2>1. /\ rest[r].pc = "new" /\ running = "none"
        /\ SetRest(r, IF Subject[r] = NoFlow
                  THEN [rest[r] EXCEPT !.pc = "not_found"]
                  ELSE [rest[r] EXCEPT !.pc = "next", !.size = Len(datapaths)])
    BY <1>4 DEF StartRequest
  <2>2. CASE Subject[r] = NoFlow
    <3>1. SetRest(r, [rest[r] EXCEPT !.pc = "not_found"])
      BY <2>1, <2>2
    <3>2. [rest[r] EXCEPT !.pc = "not_found"].pc = "not_found"
          /\ [rest[r] EXCEPT !.pc = "not_found"].seen = rest[r].seen
          /\ [rest[r] EXCEPT !.pc = "not_found"].step = rest[r].step
      BY <1>1 DEF RestState
    <3> QED
      BY <1>2, <1>3, <1>4, <2>1, <3>1, <3>2
  <2>3. CASE Subject[r] # NoFlow
    <3> DEFINE state == [rest[r] EXCEPT !.pc = "next", !.size = Len(datapaths)]
    <3>1. SetRest(r, state)
      BY <2>1, <2>3
    <3>2. state.pc = "next" /\ state.seen = rest[r].seen /\ state.step = rest[r].step
          /\ state.size = Len(datapaths)
      BY <1>1 DEF RestState
    <3> HIDE DEF state
    <3> QED
      BY <1>2, <1>3, <1>4, <2>1, <3>1, <3>2
  <2> QED
    BY <2>2, <2>3
<1>5. CASE NextDatapath(r)
  <2>1. MayRun(r) /\ rest[r].pc = "next" /\ Subject[r] \in Flow
    BY <1>5 DEF NextDatapath, TypeInv, RequestInv
  <2>2. \/ SetRest(r, [rest[r] EXCEPT !.pc = "error"])
        \/ Unseen(r) = {} /\ SetRest(r, [rest[r] EXCEPT !.pc = "ok"])
        \/ /\ Translatable(Subject[r])
           /\ \E i \in Unseen(r) :
                SetRest(r, [rest[r] EXCEPT !.pc = "send",
                                           !.seen = Append(@, datapaths[i])])
    BY <1>5 DEF NextDatapath
  <2>3. CASE SetRest(r, [rest[r] EXCEPT !.pc = "error"])
    <3>1. [rest[r] EXCEPT !.pc = "error"].pc = "error"
          /\ [rest[r] EXCEPT !.pc = "error"].seen = rest[r].seen
          /\ [rest[r] EXCEPT !.pc = "error"].step = rest[r].step
      BY <1>1 DEF RestState
    <3> QED
      BY <1>2, <1>3, <2>1, <2>3, <3>1
  <2>4. CASE Unseen(r) = {} /\ SetRest(r, [rest[r] EXCEPT !.pc = "ok"])
    <3>1. [rest[r] EXCEPT !.pc = "ok"].pc = "ok"
          /\ [rest[r] EXCEPT !.pc = "ok"].seen = rest[r].seen
          /\ [rest[r] EXCEPT !.pc = "ok"].step = rest[r].step
      BY <1>1 DEF RestState
    <3> QED
      BY <1>2, <1>3, <2>1, <2>4, <3>1
  <2>5. ASSUME NEW i \in Unseen(r), Translatable(Subject[r]),
               SetRest(r, [rest[r] EXCEPT !.pc = "send",
                                          !.seen = Append(@, datapaths[i])])
        PROVE  /\ rest'[r].pc = "send" /\ rest'[r].step = rest[r].step
               /\ rest'[r].seen = Append(rest[r].seen, datapaths[i])
               /\ UNCHANGED <<link, table, datapaths, events, task, vnf>>
               /\ \A q \in Request : q # r => rest'[q] = rest[q]
               /\ running' = r
    <3> DEFINE state == [rest[r] EXCEPT !.pc = "send",
                                        !.seen = Append(@, datapaths[i])]
    <3>1. state.pc = "send" /\ state.step = rest[r].step
          /\ state.seen = Append(rest[r].seen, datapaths[i])
      BY <1>1 DEF RestState
    <3>2. SetRest(r, state)
      BY <2>5
    <3> HIDE DEF state
    <3> QED
      BY <1>2, <3>1, <3>2
  <2> QED
    BY <1>3, <2>1, <2>2, <2>3, <2>4, <2>5
<1> QED
  BY <1>4, <1>5

(***************************************************************************)
(* The queues.                                                             *)
(***************************************************************************)

\* What is behind a position stays there when an event is put on the queue,
LEMMA EndStays ==
    ASSUME TypeOK, NEW e, events' = Append(events, e)
    PROVE  /\ \A c, k : EndFollows(c, k) => EndFollows(c, k)'
           /\ \A i \in DOMAIN events : i \in DOMAIN events' /\ events'[i] = events[i]
           /\ \A i \in DOMAIN events' :
                 i \in DOMAIN events \/ (i = Len(events) + 1 /\ events'[i] = e)
           /\ Len(events) + 1 \in DOMAIN events' /\ events'[Len(events) + 1] = e
<1>1. events \in Seq(Event) /\ Len(events) \in Nat /\ DOMAIN events = 1..Len(events)
  BY LenProperties DEF TypeOK
<1>2. /\ DOMAIN events' = 1..(Len(events) + 1)
      /\ \A i \in 1..Len(events) : events'[i] = events[i]
      /\ events'[Len(events) + 1] = e
  BY <1>1
<1>3. /\ \A i \in DOMAIN events : i \in DOMAIN events' /\ events'[i] = events[i]
      /\ \A i \in DOMAIN events' :
            i \in DOMAIN events \/ (i = Len(events) + 1 /\ events'[i] = e)
      /\ Len(events) + 1 \in DOMAIN events' /\ events'[Len(events) + 1] = e
  BY <1>1, <1>2
<1>4. \A c, k : EndFollows(c, k) => EndFollows(c, k)'
  BY <1>3 DEF EndFollows
<1> QED
  BY <1>3, <1>4

\* and comes one place forward when the first event is taken.
LEMMA EndMoves ==
    ASSUME TypeOK, events # <<>>, events' = Tail(events)
    PROVE  /\ 1 \in DOMAIN events /\ events[1] = Head(events)
           /\ \A i \in DOMAIN events' :
                 i \in Nat /\ i + 1 \in DOMAIN events /\ events'[i] = events[i + 1]
           /\ \A c : \A k \in Nat : EndFollows(c, k + 1) => EndFollows(c, k)'
           /\ \A c : /\ EndFollows(c, 0)
                     /\ ~ (Head(events).type = "dead" /\ Head(events).conn = c)
                     => EndFollows(c, 0)'
<1>1. events \in Seq(Event) /\ Len(events) \in Nat \ {0} /\ DOMAIN events = 1..Len(events)
  BY LenProperties DEF TypeOK
<1>2. /\ 1 \in DOMAIN events /\ events[1] = Head(events)
      /\ DOMAIN events' = 1..(Len(events) - 1)
      /\ \A i \in 1..(Len(events) - 1) : events'[i] = events[i + 1]
  BY <1>1
<1>3. \A i \in DOMAIN events' :
         i \in Nat /\ i + 1 \in DOMAIN events /\ events'[i] = events[i + 1]
  BY <1>1, <1>2
<1>4. \A j \in DOMAIN events : j > 1 => j - 1 \in DOMAIN events' /\ events'[j - 1] = events[j]
  BY <1>1, <1>2
<1>5. ASSUME NEW c, NEW k \in Nat, EndFollows(c, k + 1) PROVE EndFollows(c, k)'
  <2>1. PICK j \in DOMAIN events :
            j > k + 1 /\ events[j].type = "dead" /\ events[j].conn = c
    BY <1>5 DEF EndFollows
  <2>2. j \in Nat /\ j > 1 /\ j - 1 > k
    BY <1>1, <2>1
  <2>3. j - 1 \in DOMAIN events' /\ events'[j - 1] = events[j]
    BY <1>4, <2>2
  <2> QED
    BY <2>1, <2>2, <2>3 DEF EndFollows
<1>6. ASSUME NEW c, EndFollows(c, 0),
             ~ (Head(events).type = "dead" /\ Head(events).conn = c)
      PROVE  EndFollows(c, 0)'
  <2>1. PICK j \in DOMAIN events :
            j > 0 /\ events[j].type = "dead" /\ events[j].conn = c
    BY <1>6 DEF EndFollows
  <2>2. j \in Nat /\ j > 1 /\ j - 1 > 0
    BY <1>1, <1>2, <1>6, <2>1
  <2>3. j - 1 \in DOMAIN events' /\ events'[j - 1] = events[j]
    BY <1>4, <2>2
  <2> QED
    BY <2>1, <2>2, <2>3 DEF EndFollows
<1> QED
  BY <1>2, <1>3, <1>5, <1>6

\* A sequence without its element at k.
LEMMA WithoutOne ==
    ASSUME NEW S, NEW s \in Seq(S), NEW k \in 1..Len(s)
    PROVE  /\ DOMAIN RemoveAt(s, k) = 1..(Len(s) - 1)
           /\ \A i \in 1..(Len(s) - 1) :
                 RemoveAt(s, k)[i] = IF i < k THEN s[i] ELSE s[i + 1]
<1> DEFINE n == Len(s)
           front == SubSeq(s, 1, k - 1)
           back == SubSeq(s, k + 1, n)
<1>1. n \in Nat /\ k \in 1..n
  OBVIOUS
<1>2. /\ front \in Seq(S) /\ Len(front) = k - 1
      /\ \A i \in 1..(k - 1) : front[i] = s[i]
  BY <1>1
<1>3. /\ back \in Seq(S) /\ Len(back) = n - k
      /\ \A i \in 1..(n - k) : back[i] = s[i + k]
  BY <1>1
<1>4. RemoveAt(s, k) = front \o back
  BY DEF RemoveAt
<1> HIDE DEF front, back, n
<1>5. /\ Len(front \o back) = n - 1 /\ DOMAIN (front \o back) = 1..(n - 1)
      /\ \A i \in 1..(n - 1) :
            (front \o back)[i] = IF i < k THEN front[i] ELSE back[i - (k - 1)]
  <2>1. Len(front) + Len(back) = n - 1
    BY <1>1, <1>2, <1>3
  <2>2. /\ front \o back \in Seq(S) /\ Len(front \o back) = Len(front) + Len(back)
        /\ \A i \in 1..(Len(front) + Len(back)) :
              (front \o back)[i] = IF i <= Len(front) THEN front[i]
                                   ELSE back[i - Len(front)]
    BY <1>2, <1>3, ConcatProperties
  <2>3. \A i \in 1..(n - 1) : i <= k - 1 <=> i < k
    BY <1>1
  <2>4. Len(front) = k - 1
    BY <1>2
  <2> QED
    BY <2>1, <2>2, <2>3, <2>4, LenProperties
<1>6. ASSUME NEW i \in 1..(n - 1), ~ (i < k) PROVE back[i - (k - 1)] = s[i + 1]
  <2>1. i - (k - 1) \in 1..(n - k) /\ (i - (k - 1)) + k = i + 1
    BY <1>1, <1>6
  <2> QED
    BY <1>3, <2>1
<1>7. \A i \in 1..(n - 1) : i < k => i \in 1..(k - 1)
  BY <1>1
<1> QED
  BY <1>2, <1>4, <1>5, <1>6, <1>7 DEF n

\* The elements of a sequence when one is added at the end, taken from the front
\* or removed.
LEMMA ElementsOf ==
    ASSUME NEW S, NEW s \in Seq(S)
    PROVE  /\ ToSet(s) \subseteq S
           /\ \A x : ToSet(Append(s, x)) = ToSet(s) \cup {x}
           /\ s # <<>> => ToSet(s) = {Head(s)} \cup ToSet(Tail(s))
           /\ \A k \in DOMAIN s : ToSet(RemoveAt(s, k)) \subseteq ToSet(s)
<1>1. Len(s) \in Nat /\ DOMAIN s = 1..Len(s)
  BY LenProperties
<1>2. ToSet(s) \subseteq S
  BY <1>1, ElementOfSeq DEF ToSet
<1>3. ASSUME NEW x PROVE ToSet(Append(s, x)) = ToSet(s) \cup {x}
  <2> DEFINE t == Append(s, x)
  <2>1. /\ DOMAIN t = 1..(Len(s) + 1)
        /\ \A i \in 1..Len(s) : t[i] = s[i]
        /\ t[Len(s) + 1] = x
    BY <1>1
  <2> HIDE DEF t
  <2>2. 1..(Len(s) + 1) = 1..Len(s) \cup {Len(s) + 1}
    BY <1>1
  <2> QED
    BY <1>1, <2>1, <2>2 DEF ToSet, t
<1>4. ASSUME s # <<>> PROVE ToSet(s) = {Head(s)} \cup ToSet(Tail(s))
  <2> DEFINE t == Tail(s)
  <2>1. /\ Head(s) = s[1] /\ 1 \in 1..Len(s) /\ DOMAIN t = 1..(Len(s) - 1)
        /\ \A i \in 1..(Len(s) - 1) : t[i] = s[i + 1] /\ i + 1 \in 1..Len(s)
    BY <1>1, <1>4
  <2> HIDE DEF t
  <2>2. \A i \in 1..Len(s) :
           i # 1 => i - 1 \in 1..(Len(s) - 1) /\ t[i - 1] = s[i]
    BY <1>1, <2>1
  <2>3. ToSet(s) \subseteq {Head(s)} \cup ToSet(t)
    BY <1>1, <2>1, <2>2 DEF ToSet
  <2>4. {Head(s)} \cup ToSet(t) \subseteq ToSet(s)
    BY <1>1, <2>1 DEF ToSet
  <2> QED
    BY <2>3, <2>4 DEF t
<1>5. ASSUME NEW k \in DOMAIN s PROVE ToSet(RemoveAt(s, k)) \subseteq ToSet(s)
  <2>1. /\ DOMAIN RemoveAt(s, k) = 1..(Len(s) - 1)
        /\ \A i \in 1..(Len(s) - 1) :
              RemoveAt(s, k)[i] = IF i < k THEN s[i] ELSE s[i + 1]
    BY <1>1, <1>5, WithoutOne
  <2>2. \A i \in 1..(Len(s) - 1) : i \in 1..Len(s) /\ i + 1 \in 1..Len(s)
    BY <1>1
  <2> QED
    BY <1>1, <2>1, <2>2 DEF ToSet
<1> QED
  BY <1>2, <1>3, <1>4, <1>5

\* The switch and the number of a connection.
LEMMA ConnParts ==
    ASSUME NEW c \in Conn
    PROVE  /\ Dpid(c) \in Switch /\ c[2] \in 1..MaxConn /\ c[2] \in Nat
           /\ c = <<Dpid(c), c[2]>>
BY BoundAssumption DEF Conn, Dpid

\* What is sent goes to the end of one queue, if the connection has not ended.
LEMMA SentOn ==
    ASSUME TypeOK, NEW c \in Conn, NEW mod, Send(c, mod)
    PROVE  /\ \A d \in Conn : d # c => chan'[d] = chan[d]
           /\ chan'[c] = IF Ended(c) THEN chan[c] ELSE Append(chan[c], mod)
           /\ \A d \in Conn : \A i \in DOMAIN chan[d] :
                 i \in DOMAIN chan'[d] /\ chan'[d][i] = chan[d][i]
           /\ \A d \in Conn : \A i \in DOMAIN chan'[d] :
                 \/ i \in DOMAIN chan[d] /\ chan'[d][i] = chan[d][i]
                 \/ d = c /\ i = Len(chan[c]) + 1 /\ chan'[d][i] = mod
           /\ ~ Ended(c) => /\ Len(chan[c]) + 1 \in DOMAIN chan'[c]
                            /\ chan'[c][Len(chan[c]) + 1] = mod
<1>1. chan \in [Conn -> Seq(FlowMod)] /\ chan[c] \in Seq(FlowMod)
  BY DEF TypeOK
<1>2. CASE Ended(c)
  BY <1>2 DEF Send
<1>3. CASE ~ Ended(c)
  <2>1. /\ chan'[c] = Append(chan[c], mod)
        /\ \A d \in Conn : d # c => chan'[d] = chan[d]
    BY <1>1, <1>3 DEF Send
  <2>2. PICK q \in Seq(FlowMod) : q = chan[c]
    BY <1>1
  <2>3. /\ \A i \in DOMAIN q :
              i \in DOMAIN Append(q, mod) /\ Append(q, mod)[i] = q[i]
        /\ \A i \in DOMAIN Append(q, mod) :
              \/ i \in DOMAIN q /\ Append(q, mod)[i] = q[i]
              \/ i = Len(q) + 1 /\ Append(q, mod)[i] = mod
        /\ Len(q) + 1 \in DOMAIN Append(q, mod) /\ Append(q, mod)[Len(q) + 1] = mod
    BY AppendProperties, LenProperties
  <2>4. chan'[c] = Append(q, mod)
    BY <2>1, <2>2
  <2> QED
    BY <1>3, <2>1, <2>2, <2>3, <2>4
<1> QED
  BY <1>2, <1>3

\* A switch takes the head of one queue,
LEMMA TakenOn ==
    ASSUME TypeOK, NEW c \in Conn, ApplyMod(c)
    PROVE  /\ 1 \in DOMAIN chan[c] /\ chan[c][1] = Head(chan[c])
           /\ Len(chan[c]) \in Nat \ {0} /\ Len(chan'[c]) = Len(chan[c]) - 1
           /\ \A i \in DOMAIN chan'[c] :
                 i \in Nat /\ i + 1 \in DOMAIN chan[c] /\ chan'[c][i] = chan[c][i + 1]
           /\ \A i \in DOMAIN chan[c] :
                 i # 1 => /\ i \in Nat /\ i - 1 \in DOMAIN chan'[c]
                          /\ chan'[c][i - 1] = chan[c][i]
           /\ \A d \in Conn : d # c => chan'[d] = chan[d]
<1>1. chan \in [Conn -> Seq(FlowMod)] /\ chan[c] \in Seq(FlowMod) /\ chan[c] # <<>>
  BY DEF TypeOK, ApplyMod
<1>2. PICK q \in Seq(FlowMod) : q = chan[c] /\ q # <<>>
  BY <1>1
<1>3. /\ Head(q) = q[1] /\ 1 \in DOMAIN q
      /\ Len(Tail(q)) = Len(q) - 1 /\ Len(q) \in Nat \ {0}
      /\ \A i \in DOMAIN Tail(q) : i \in Nat /\ i + 1 \in DOMAIN q /\ Tail(q)[i] = q[i + 1]
      /\ \A i \in DOMAIN q : i # 1 => /\ i \in Nat /\ i - 1 \in DOMAIN Tail(q)
                                      /\ Tail(q)[i - 1] = q[i]
  <2>1. /\ Head(q) = q[1] /\ Len(q) \in Nat \ {0} /\ DOMAIN q = 1..Len(q)
        /\ Len(Tail(q)) = Len(q) - 1 /\ DOMAIN Tail(q) = 1..(Len(q) - 1)
        /\ \A i \in 1..(Len(q) - 1) : Tail(q)[i] = q[i + 1]
    BY <1>2
  <2>2. \A i \in DOMAIN q : i # 1 => i - 1 \in 1..(Len(q) - 1) /\ (i - 1) + 1 = i
    BY <2>1
  <2>3. \A i \in DOMAIN q : i # 1 => Tail(q)[i - 1] = q[i]
    BY <2>1, <2>2
  <2> QED
    BY <2>1, <2>2, <2>3
<1>4. /\ chan'[c] = Tail(q)
      /\ \A d \in Conn : d # c => chan'[d] = chan[d]
  BY <1>1, <1>2 DEF ApplyMod
<1> QED
  BY <1>2, <1>3, <1>4

\* What a table holds after a FlowMod it held before, or was sent.
LEMMA AppliedFrom ==
    ASSUME NEW tbl, NEW mod, mod.cmd \in {"add", "delete"}
    PROVE  \A e \in Apply(tbl, mod) : e \in tbl \/ (mod.cmd = "add" /\ e = mod.entry)
<1>1. CASE mod.cmd = "delete"
  BY <1>1 DEF Apply, Removed
<1>2. CASE mod.cmd = "add"
  BY <1>2 DEF Apply, Installed
<1> QED
  BY <1>1, <1>2

\* and applies it to its tables.
LEMMA AppliedOn ==
    ASSUME TypeOK, NEW c \in Conn, ApplyMod(c)
    PROVE  \E mod \in FlowMod, tbl \in SUBSET Entry :
              /\ mod = chan[c][1] /\ tbl = table[Dpid(c)]
              /\ table'[Dpid(c)] = Apply(tbl, mod)
              /\ mod.cmd = "add" \/ mod.cmd = "delete"
              /\ \A e \in Apply(tbl, mod) :
                    e \in tbl \/ (mod.cmd = "add" /\ e = mod.entry)
              /\ \A s \in Switch : s # Dpid(c) => table'[s] = table[s]
<1>1. /\ chan \in [Conn -> Seq(FlowMod)] /\ table \in [Switch -> SUBSET Entry]
      /\ chan[c] \in Seq(FlowMod) /\ Dpid(c) \in Switch
  BY ConnParts DEF TypeOK
<1>2. 1 \in DOMAIN chan[c] /\ chan[c][1] = Head(chan[c])
  BY TakenOn
<1>3. PICK mod \in FlowMod : mod = chan[c][1]
  BY <1>1, <1>2, LenProperties, ElementOfSeq
<1>4. PICK tbl \in SUBSET Entry : tbl = table[Dpid(c)]
  BY <1>1
<1>5. mod.cmd = "add" \/ mod.cmd = "delete"
  BY DEF FlowMod
<1>6. \A e \in Apply(tbl, mod) : e \in tbl \/ (mod.cmd = "add" /\ e = mod.entry)
  BY <1>5, AppliedFrom
<1>7. /\ table'[Dpid(c)] = Apply(tbl, mod)
      /\ \A s \in Switch : s # Dpid(c) => table'[s] = table[s]
  BY <1>1, <1>2, <1>3, <1>4 DEF ApplyMod
<1> QED
  BY <1>3, <1>4, <1>5, <1>6, <1>7

(***************************************************************************)
(* The turns of the requests.                                              *)
(***************************************************************************)

\* A request moves only by its own steps.
LEMMA OnlyServed ==
    ASSUME TypeInv, [Next]_vars
    PROVE  /\ \A r \in Request :
                 \/ rest'[r] = rest[r]
                 \/ StartRequest(r) \/ NextDatapath(r) \/ SendRequest(r)
           /\ rest' = rest \/ \E r \in Request : Serve(r)
<1>1. CASE UNCHANGED rest
  BY <1>1
<1>2. ASSUME NEW q \in Request, Serve(q), NEW r \in Request, rest'[r] # rest[r]
      PROVE  StartRequest(r) \/ NextDatapath(r) \/ SendRequest(r)
  <2>1. ~ RequestBlocks(q)
    BY <1>2 DEF RequestBlocks
  <2>2. CASE StartRequest(q) \/ NextDatapath(q)
    BY <1>2, <2>2, TurnStep
  <2>3. CASE SendRequest(q)
    BY <1>2, <2>3, RequestStep
  <2> QED
    BY <1>2, <2>1, <2>2, <2>3 DEF Serve
<1>3. CASE Loop
  <2>1. UNCHANGED rest
    BY <1>3 DEF Loop, HandleEvent, RunTask, LoopBlocks, RegisterDatapath,
         UnregisterDatapath, RegisterVnf, HandledAtOnce, StartDefaults,
         StartDetection, Begin, SendDefault, DeleteCatching, SendSource,
         AbandonChain, SkipVnf, SendHop, SendEnd, Continue
  <2> QED
    BY <1>1, <2>1
<1>4. CASE \/ \E c \in Conn : LinkStep(c)
           \/ \E c \in Conn, t \in Traffic : DetectPacket(c, t)
           \/ \E c \in Conn, d \in Datagram : RegisterPacket(c, d)
  BY <1>1, <1>4 DEF LinkStep, Connect, EnterMain, Drop, Notice, ReportDead, ApplyMod,
     DetectPacket, RegisterPacket
<1> QED
  BY <1>1, <1>2, <1>3, <1>4 DEF Next, vars

\* A request that has begun stays begun.
LEMMA RequestsBegin ==
    ASSUME TypeInv, [Next]_vars
    PROVE  \A r \in Request : rest[r].pc # "new" => rest'[r].pc # "new"
BY OnlyServed, TurnStep, RequestStep

\* Only the turns of a request take it on.
LEMMA NextTurn == TypeInv /\ TurnInv /\ [Next]_vars => TurnInv'
<1> SUFFICES ASSUME TypeInv, TurnInv, [Next]_vars, NEW r \in Request
             PROVE  /\ rest'[r].pc = "new" => rest'[r].seen = <<>>
                    /\ rest'[r].pc \in {"new", "next"} => rest'[r].step = 1
  BY DEF TurnInv
<1>1. CASE rest'[r] = rest[r]
  BY <1>1 DEF TurnInv
<1>2. CASE StartRequest(r) \/ NextDatapath(r)
  BY <1>2, TurnStep DEF TurnInv
<1>3. CASE SendRequest(r)
  <2>1. rest \in [Request -> RestState] /\ rest[r] \in RestState
    BY DEF TypeInv, TypeOK
  <2>2. rest'[r] = IF Op[r] = "delete" /\ rest[r].step = 1
                   THEN [rest[r] EXCEPT !.step = 2]
                   ELSE [rest[r] EXCEPT !.pc = "next", !.step = 1]
    BY <1>3, <2>1 DEF SendRequest, SetRest
  <2>3. rest[r].pc = "send"
    BY <1>3 DEF SendRequest
  <2> QED
    BY <2>1, <2>2, <2>3 DEF RestState
<1> QED
  BY <1>1, <1>2, <1>3, OnlyServed

LEMMA InitTurn == Init => TurnInv
BY DEF Init, TurnInv

(***************************************************************************)
(* Entries and deletions, one kind at a time.                              *)
(***************************************************************************)

\* What the requests and the detection of a flow send is the flow's own.
LEMMA RequestModsOwn ==
    ASSUME NEW f \in Flow
    PROVE  /\ OwnMod(CatchMod(f))
           /\ Translatable(f) => OwnMod(DeleteFlowMod(f))
           /\ Translatable(f) => OwnMod(DeleteSpiMod(f))
<1>1. OwnMod(CatchMod(f))
  BY FlowHeaders DEF OwnMod, OwnEntry, CatchMod, AddMod
<1>2. ASSUME Translatable(f) PROVE OwnMod(DeleteFlowMod(f))
  BY <1>2 DEF OwnMod, OwnDeletion, DeleteFlowMod, DelMod
<1>3. ASSUME Translatable(f) PROVE OwnMod(DeleteSpiMod(f))
  BY <1>3 DEF OwnMod, OwnDeletion, DeleteSpiMod, DelMod, Fields
<1> QED
  BY <1>1, <1>2, <1>3

\* So are its source entry and the entries of its chain.
LEMMA ChainModsOwn ==
    ASSUME NEW f \in Flow
    PROVE  /\ \A port, row : OwnMod(SourceMod(f, port, row))
           /\ \A lastSi, si, cur, nxt : \A step \in 1..3 :
                 OwnMod(HopMod(step, f, lastSi, si, cur, nxt))
           /\ \A cur : \A step \in 1..2 : OwnMod(EndMod(step, f, cur))
<1>1. \A port, row : OwnMod(SourceMod(f, port, row))
  BY FlowHeaders DEF OwnMod, OwnEntry, SourceMod, AddMod
<1>2. \A si, nxt : OwnMod(ProxyMod(f, si, nxt))
  BY DEF OwnMod, OwnEntry, ProxyMod, AddMod
<1>3. \A si, cur, nxt : OwnMod(MiddleMod(f, si, cur, nxt))
  BY FlowHeaders DEF OwnMod, OwnEntry, MiddleMod, AddMod
<1>4. \A lastSi, cur, nxt : OwnMod(DecapMod(f, lastSi, cur, nxt))
  BY DEF OwnMod, OwnEntry, DecapMod, AddMod
<1>5. \A lastSi, si, cur, nxt : \A step \in 1..3 :
         OwnMod(HopMod(step, f, lastSi, si, cur, nxt))
  BY <1>2, <1>3, <1>4 DEF HopMod
<1>6. \A cur : \A step \in 1..2 : OwnMod(EndMod(step, f, cur))
  BY DEF OwnMod, OwnEntry, EndMod, AddMod
<1> QED
  BY <1>1, <1>5, <1>6

\* So is what a switch is set up with.
LEMMA DefaultModsOwn == \A i \in 1..6 : OwnMod(DefaultMods[i])
BY DefaultFacts DEF OwnMod, OwnEntry, DefaultEntries

(***************************************************************************)
(* Nothing but own entries and deletions.                                  *)
(***************************************************************************)

\* Sending a FlowMod of one's own.
LEMMA SendOwn ==
    ASSUME TypeOK, SentOwn, NEW c \in Conn, NEW mod, OwnMod(mod), Send(c, mod)
    PROVE  SentOwn'
<1>1. CASE Ended(c)
  BY <1>1 DEF Send, SentOwn
<1>2. CASE ~ Ended(c)
  <2>1. chan' = [chan EXCEPT ![c] = Append(@, mod)]
    BY <1>2 DEF Send
  <2>2. chan[c] \in Seq(FlowMod \cup {mod})
    BY SeqMonotonic DEF TypeOK
  <2>3. ASSUME NEW i \in DOMAIN Append(chan[c], mod)
        PROVE  OwnMod(Append(chan[c], mod)[i])
    <3>1. /\ i \in 1..(Len(chan[c]) + 1) /\ DOMAIN chan[c] = 1..Len(chan[c])
          /\ Len(chan[c]) \in Nat
      BY <2>2, <2>3, AppendProperties, LenProperties
    <3>2. CASE i = Len(chan[c]) + 1
      BY <2>2, <3>2, AppendProperties
    <3>3. CASE i # Len(chan[c]) + 1
      <4>1. i \in 1..Len(chan[c])
        BY <3>1, <3>3
      <4>2. Append(chan[c], mod)[i] = chan[c][i]
        BY <2>2, <4>1, AppendProperties
      <4> QED
        BY <3>1, <4>1, <4>2 DEF SentOwn
    <3> QED
      BY <3>2, <3>3
  <2> QED
    BY <2>1, <2>3 DEF SentOwn, TypeOK
<1> QED
  BY <1>1, <1>2

\* A switch that is sent own FlowMods has own entries.
LEMMA ApplyOwn ==
    ASSUME NEW tbl, \A e \in tbl : OwnEntry(e), NEW mod, OwnMod(mod),
           mod.cmd \in {"add", "delete"}
    PROVE  \A e \in Apply(tbl, mod) : OwnEntry(e)
<1>1. CASE mod.cmd = "delete"
  BY <1>1 DEF Apply, Removed
<1>2. CASE mod.cmd = "add"
  BY <1>2 DEF Apply, Installed, OwnMod
<1> QED
  BY <1>1, <1>2

\* The steps of connections and switches.
LEMMA NetworkOwn ==
    ASSUME TypeInv, EntriesFromRows,
           \/ \E c \in Conn : LinkStep(c)
           \/ \E c \in Conn, t \in Traffic : DetectPacket(c, t)
           \/ \E c \in Conn, d \in Datagram : RegisterPacket(c, d)
    PROVE  EntriesFromRows'
<1> USE DEF EntriesFromRows
<1>1. UNCHANGED <<task, rest>>
  BY DEF LinkStep, Connect, EnterMain, Drop, Notice, ReportDead, ApplyMod,
         DetectPacket, RegisterPacket
<1>2. Translated'
  BY <1>1 DEF Translated
<1>3. ASSUME UNCHANGED <<chan, table>> PROVE TablesOwn' /\ SentOwn'
  BY <1>3 DEF TablesOwn, SentOwn
<1>4. ASSUME NEW c \in Conn, Drop(c) PROVE TablesOwn' /\ SentOwn'
  BY <1>4 DEF Drop, TablesOwn, SentOwn, TypeInv, TypeOK
<1>5. ASSUME NEW c \in Conn, Notice(c) PROVE TablesOwn' /\ SentOwn'
  BY <1>5 DEF Notice, TablesOwn, SentOwn, TypeInv, TypeOK
<1>6. ASSUME NEW c \in Conn, ApplyMod(c) PROVE TablesOwn' /\ SentOwn'
  <2>1. chan[c] \in Seq(FlowMod) /\ chan[c] # <<>> /\ Dpid(c) \in Switch
    BY <1>6 DEF ApplyMod, TypeInv, TypeOK, Conn, Dpid
  <2>2. /\ Head(chan[c]) = chan[c][1] /\ 1 \in DOMAIN chan[c]
        /\ Head(chan[c]) \in FlowMod
    BY <2>1, HeadTailProperties, LenProperties
  <2>3. OwnMod(Head(chan[c])) /\ Head(chan[c]).cmd \in {"add", "delete"}
    BY <2>2 DEF SentOwn, FlowMod
  <2>4. \A e \in Apply(table[Dpid(c)], Head(chan[c])) : OwnEntry(e)
    BY <2>1, <2>3, ApplyOwn DEF TablesOwn
  <2>5. TablesOwn'
    BY <1>6, <2>4 DEF ApplyMod, TablesOwn, TypeInv, TypeOK
  <2>6. \A i \in DOMAIN Tail(chan[c]) :
           i + 1 \in DOMAIN chan[c] /\ Tail(chan[c])[i] = chan[c][i + 1]
    BY <2>1
  <2>7. SentOwn'
    BY <1>6, <2>6 DEF ApplyMod, SentOwn, TypeInv, TypeOK
  <2> QED
    BY <2>5, <2>7
<1>7. \/ UNCHANGED <<chan, table>>
      \/ \E c \in Conn : Drop(c) \/ Notice(c) \/ ApplyMod(c)
  BY DEF LinkStep, Connect, EnterMain, ReportDead, DetectPacket,
         RegisterPacket, network
<1> QED
  BY <1>2, <1>3, <1>4, <1>5, <1>6, <1>7

\* The steps of the event loop.
LEMMA LoopOwn ==
    ASSUME TypeInv, EntriesFromRows, Loop
    PROVE  EntriesFromRows'
<1> USE DEF EntriesFromRows
<1>1. TypeOK
  BY DEF TypeInv
<1>2. UNCHANGED <<table, rest>>
  BY DEF Loop, HandleEvent, RunTask, LoopBlocks, RegisterDatapath,
         UnregisterDatapath, RegisterVnf, HandledAtOnce, StartDefaults,
         StartDetection, Begin, SendDefault, DeleteCatching, SendSource,
         AbandonChain, SkipVnf, SendHop, SendEnd, Continue, network
<1>3. TablesOwn'
  BY <1>2 DEF TablesOwn
<1>4. ASSUME task' = NoTask \/ task'.pc # "delete" \/ Translatable(task'.flow)
      PROVE  Translated'
  BY <1>2, <1>4 DEF Translated
<1>5. ASSUME UNCHANGED chan PROVE SentOwn'
  BY <1>5 DEF SentOwn
<1>6. CASE RegisterDatapath \/ UnregisterDatapath \/ RegisterVnf \/ LoopBlocks
  <2>1. UNCHANGED <<chan, task>>
    BY <1>6 DEF RegisterDatapath, UnregisterDatapath, RegisterVnf, LoopBlocks,
                HandledAtOnce, network
  <2>2. Translated'
    BY <1>4, <2>1 DEF Translated
  <2> QED
    BY <1>3, <1>5, <2>1, <2>2
<1>7. CASE StartDefaults
  <2>1. UNCHANGED chan /\ task'.pc = "defaults"
    BY <1>7 DEF StartDefaults, Begin, network
  <2> QED
    BY <1>3, <1>4, <1>5, <2>1
<1>8. CASE StartDetection
  <2> DEFINE e == Head(events)
             t == [pc |-> "delete", conn |-> e.conn, port |-> e.port,
                   flow |-> e.flow, todo |-> datapaths,
                   cur |-> 1, pos |-> 1, step |-> 1]
  <2>1. UNCHANGED chan
    BY <1>8 DEF StartDetection, Begin, HandledAtOnce, network
  <2>2. CASE ~ Translatable(e.flow)
    <3>1. UNCHANGED task
      BY <1>8, <2>2 DEF StartDetection, HandledAtOnce
    <3>2. Translated'
      BY <1>4, <3>1 DEF Translated
    <3> QED
      BY <1>3, <1>5, <2>1, <3>2
  <2>3. CASE Translatable(e.flow)
    <3>1. task' = t \/ task' = AfterDeletions(t)
      BY <1>8, <2>3 DEF StartDetection, Begin, DeletionTargets
    <3>2. AfterDeletions(t) = NoTask \/ AfterDeletions(t).pc = "source"
      BY DEF AfterDeletions
    <3>3. t.flow = e.flow
      OBVIOUS
    <3> HIDE DEF t
    <3> QED
      BY <1>3, <1>4, <1>5, <2>1, <2>3, <3>1, <3>2, <3>3
  <2> QED
    BY <2>2, <2>3
<1>9. CASE SendDefault
  <2>1. task \in Task /\ task.pc = "defaults"
    BY <1>1, <1>9 DEF SendDefault, InTask, TypeOK
  <2>2. task.conn \in Conn /\ task.step \in 1..6
    BY <2>1 DEF Task
  <2>3. OwnMod(DefaultMods[task.step])
    BY <2>2, DefaultModsOwn
  <2>4. SentOwn'
    BY <1>1, <1>9, <2>2, <2>3, SendOwn DEF SendDefault
  <2>5. task' = NoTask \/ task'.pc = "defaults"
    BY <1>9, <2>1 DEF SendDefault, Continue, Task
  <2> QED
    BY <1>3, <1>4, <2>4, <2>5
<1>10. CASE DeleteCatching
  <2>1. /\ task \in Task /\ task.pc = "delete" /\ task # NoTask
        /\ task.flow \in Flow /\ task.todo \in Seq(Conn) /\ TaskOK(task)
    BY <1>10, PacketTask, PacketTaskType DEF DeleteCatching
  <2>2. Head(task.todo) \in Conn /\ Tail(task.todo) \in Seq(Conn)
    BY <2>1, HeadTailProperties DEF TaskOK
  <2>3. Translatable(task.flow)
    BY <2>1 DEF Translated
  <2>4. SentOwn'
    BY <1>1, <1>10, <2>1, <2>2, <2>3, RequestModsOwn, SendOwn
       DEF DeleteCatching
  <2> DEFINE t == [task EXCEPT !.todo = Tail(@)]
  <2>5. t.flow = task.flow
    BY <2>1 DEF Task
  <2>6. task' = t \/ task' = AfterDeletions(t)
    BY <1>10 DEF DeleteCatching, Continue
  <2>7. AfterDeletions(t) = NoTask \/ AfterDeletions(t).pc = "source"
    <3>1. [t EXCEPT !.pc = "source"].pc = "source"
      BY <2>1, <2>2, PacketTaskType DEF Task
    <3> QED
      BY <3>1 DEF AfterDeletions
  <2> HIDE DEF t
  <2> QED
    BY <1>3, <1>4, <2>3, <2>4, <2>5, <2>6, <2>7
<1>11. CASE SendSource
  <2>1. /\ task \in Task /\ task.flow \in Flow /\ task.conn \in Conn
        /\ task.pc = "source"
    BY <1>11, PacketTask DEF SendSource
  <2>2. SentOwn'
    BY <1>1, <1>11, <2>1, ChainModsOwn, SendOwn DEF SendSource
  <2>3. task'.pc = "chain"
    BY <1>11, <2>1 DEF SendSource, Continue, Task
  <2> QED
    BY <1>3, <1>4, <2>2, <2>3
<1>12. CASE AbandonChain \/ SkipVnf
  <2>1. InTask("chain") /\ UNCHANGED chan
    BY <1>12 DEF AbandonChain, SkipVnf, InTurn
  <2>2. task \in Task /\ task.pc = "chain" /\ task.pc # "defaults"
    BY <2>1, PacketTask
  <2>3. task' = NoTask \/ task'.pc = "chain"
    BY <1>12, <2>2 DEF AbandonChain, SkipVnf, Continue, Task
  <2> QED
    BY <1>3, <1>4, <1>5, <2>1, <2>3
<1>13. CASE SendHop
  <2>1. InTask("chain")
    BY <1>13 DEF SendHop, InTurn
  <2>2. /\ task \in Task /\ task.pc = "chain" /\ task.flow \in Flow
        /\ task.step \in 1..3
    BY <2>1, PacketTask, PacketTaskType
  <2>3. \A d \in Registered(CurVnf.dpid) : d \in Conn
    BY <1>1 DEF Registered, ToSet, TypeOK
  <2>4. OwnMod(HopMod(task.step, task.flow, LastSi, Index(task.pos + 1),
                      CurVnf, NextVnf))
    BY <2>2, ChainModsOwn
  <2>5. SentOwn'
    BY <1>1, <1>13, <2>3, <2>4, SendOwn DEF SendHop
  <2>6. task'.pc = "chain"
    BY <1>13, <2>2 DEF SendHop, Continue, Task
  <2> QED
    BY <1>3, <1>4, <2>5, <2>6
<1>14. CASE SendEnd
  <2>1. InTask("chain") /\ AtEnd
    BY <1>14 DEF SendEnd, InTurn
  <2>2. /\ task \in Task /\ task.pc = "chain" /\ task.flow \in Flow
        /\ TaskOK(task) /\ task.step \in 1..3
    BY <2>1, PacketTask, PacketTaskType
  <2>3. task.step \in 1..2
    BY <2>1, <2>2, PacketTask DEF TaskOK, AtEnd
  <2>4. \A d \in Registered(CurVnf.dpid) : d \in Conn
    BY <1>1 DEF Registered, ToSet, TypeOK
  <2>5. OwnMod(EndMod(task.step, task.flow, CurVnf))
    BY <2>2, <2>3, ChainModsOwn
  <2>6. SentOwn'
    BY <1>1, <1>14, <2>4, <2>5, SendOwn DEF SendEnd
  <2>7. task' = NoTask \/ task'.pc = "chain"
    BY <1>14, <2>2 DEF SendEnd, Continue, Task
  <2> QED
    BY <1>3, <1>4, <2>6, <2>7
<1> QED
  BY <1>6, <1>7, <1>8, <1>9, <1>10, <1>11, <1>12, <1>13, <1>14
     DEF Loop, HandleEvent, RunTask

\* The steps of the REST server.
LEMMA ServeOwn ==
    ASSUME TypeInv, EntriesFromRows, NEW r \in Request, Serve(r)
    PROVE  EntriesFromRows'
<1> USE DEF EntriesFromRows
<1>1. TypeOK /\ rest \in [Request -> RestState]
  BY DEF TypeInv, TypeOK
<1>2. UNCHANGED <<table, task>>
  BY DEF Serve, StartRequest, NextDatapath, SendRequest, RequestBlocks,
         SetRest, network
<1>3. TablesOwn'
  BY <1>2 DEF TablesOwn
<1>4. ASSUME UNCHANGED chan PROVE SentOwn'
  BY <1>4 DEF SentOwn
<1>5. ASSUME NEW state \in RestState, SetRest(r, state),
             state.pc = "send" => Translatable(Subject[r])
      PROVE  Translated'
  BY <1>1, <1>2, <1>5 DEF SetRest, Translated
<1>6. CASE StartRequest(r)
  <2>1. UNCHANGED chan
    BY <1>6 DEF StartRequest
  <2>2. rest'[r].pc # "send"
    BY <1>1, <1>6 DEF StartRequest, SetRest, RestState
  <2>3. \A q \in Request : q # r => rest'[q] = rest[q]
    BY <1>1, <1>6 DEF StartRequest, SetRest
  <2> QED
    BY <1>2, <1>3, <1>4, <2>1, <2>2, <2>3 DEF Translated
<1>7. CASE NextDatapath(r)
  <2>1. UNCHANGED chan
    BY <1>7 DEF NextDatapath
  <2>2. rest'[r].pc = "send" => Translatable(Subject[r])
    <3>1. rest[r] \in RestState
      BY <1>1
    <3>2. CASE Translatable(Subject[r])
      BY <3>2
    <3>3. CASE ~ Translatable(Subject[r])
      <4>1. \/ SetRest(r, [rest[r] EXCEPT !.pc = "error"])
            \/ SetRest(r, [rest[r] EXCEPT !.pc = "ok"])
        BY <1>7, <3>3 DEF NextDatapath
      <4> QED
        BY <1>1, <3>1, <4>1 DEF SetRest, RestState
    <3> QED
      BY <3>2, <3>3
  <2>3. \A q \in Request : q # r => rest'[q] = rest[q]
    BY <1>1, <1>7 DEF NextDatapath, SetRest
  <2> QED
    BY <1>2, <1>3, <1>4, <2>1, <2>2, <2>3 DEF Translated
<1>8. CASE SendRequest(r)
  <2>1. /\ rest[r] \in RestState /\ rest[r].pc = "send" /\ Subject[r] \in Flow
        /\ rest[r].seen \in Seq(Conn) /\ rest[r].seen # <<>>
    BY <1>1, <1>8 DEF SendRequest, TypeInv, RequestInv, RestState
  <2>2. Last(rest[r].seen) \in Conn
    BY <2>1, LenProperties, ElementOfSeq DEF Last
  <2>3. Translatable(Subject[r])
    BY <2>1 DEF Translated
  <2>4. OwnMod(RequestMod(r))
    BY <2>1, <2>3, RequestModsOwn DEF RequestMod
  <2>5. SentOwn'
    BY <1>1, <1>8, <2>2, <2>4, SendOwn DEF SendRequest
  <2>6. \A q \in Request : q # r => rest'[q] = rest[q]
    BY <1>1, <1>8 DEF SendRequest, SetRest
  <2> QED
    BY <1>2, <1>3, <2>3, <2>5, <2>6 DEF Translated
<1>9. CASE RequestBlocks(r)
  <2>1. UNCHANGED <<chan, rest>>
    BY <1>9 DEF RequestBlocks, network
  <2> QED
    BY <1>2, <1>3, <1>4, <2>1 DEF Translated
<1> QED
  BY <1>6, <1>7, <1>8, <1>9 DEF Serve

\* The initial state.
LEMMA InitOwn == Init => EntriesFromRows
<1> SUFFICES ASSUME Init PROVE EntriesFromRows
  OBVIOUS
<1>1. TablesOwn
  BY DEF Init, TablesOwn, OwnEntry
<1>2. SentOwn
  BY DEF Init, SentOwn
<1>3. Translated
  BY DEF Init, Translated
<1> QED
  BY <1>1, <1>2, <1>3 DEF EntriesFromRows

\* Every step.
LEMMA NextOwn == TypeInv /\ EntriesFromRows /\ [Next]_vars => EntriesFromRows'
<1> SUFFICES ASSUME TypeInv, EntriesFromRows, [Next]_vars
             PROVE  EntriesFromRows'
  OBVIOUS
<1>1. CASE UNCHANGED vars
  BY <1>1 DEF vars, EntriesFromRows, TablesOwn, SentOwn, Translated
<1>2. CASE Loop
  BY <1>2, LoopOwn
<1>3. CASE \E r \in Request : Serve(r)
  BY <1>3, ServeOwn
<1>4. CASE \/ \E c \in Conn : LinkStep(c)
           \/ \E c \in Conn, t \in Traffic : DetectPacket(c, t)
           \/ \E c \in Conn, d \in Datagram : RegisterPacket(c, d)
  BY <1>4, NetworkOwn
<1> QED
  BY <1>1, <1>2, <1>3, <1>4 DEF Next

\* Whatever is sent or installed is one of the defaults, an entry made for a
\* row, or the deletion of a row with both addresses; also when handlers are
\* interleaved, abandoned or blocked and connections are lost.
THEOREM OnlyOwnEntries == Spec => []EntriesFromRows
<1>1. Init => TypeInv /\ EntriesFromRows
  BY InitType, InitOwn
<1>2. TypeInv /\ EntriesFromRows /\ [Next]_vars => (TypeInv /\ EntriesFromRows)'
  BY NextType, NextOwn
<1> QED
  BY <1>1, <1>2, PTL DEF Spec

(***************************************************************************)
(* What a step takes from a table.                                         *)
(***************************************************************************)

\* A step that takes an entry from a switch without restarting it is the
\* switch processing the FlowMod at the head of its connection.
LEMMA WhoTakes ==
    ASSUME TypeInv, EntriesFromRows, [Next]_vars, NEW s \in Switch,
           ~ Restarted(s), NEW e \in Lost(s)
    PROVE  \E c \in Conn :
              /\ Dpid(c) = s /\ chan[c] # <<>>
              /\ e \in table[s] /\ OwnEntry(e)
              /\ OwnMod(Head(chan[c])) /\ Head(chan[c]) \in FlowMod
              /\ e \notin Apply(table[s], Head(chan[c]))
<1>1. e \in table[s] /\ e \notin table'[s] /\ OwnEntry(e)
  BY DEF Lost, EntriesFromRows, TablesOwn
<1>2. table' # table
  BY <1>1
<1>3. \E c \in Conn : Drop(c) \/ ApplyMod(c)
  BY <1>2 DEF Next, vars, Loop, HandleEvent, RunTask, LoopBlocks,
     RegisterDatapath, UnregisterDatapath, RegisterVnf, HandledAtOnce,
     StartDefaults, StartDetection, Begin, SendDefault, DeleteCatching,
     SendSource, AbandonChain, SkipVnf, SendHop, SendEnd, Continue, network,
     Serve, StartRequest, NextDatapath, SendRequest, RequestBlocks, SetRest,
     LinkStep, Connect, EnterMain, Notice, ReportDead, DetectPacket,
     RegisterPacket
<1>4. ASSUME NEW c \in Conn, Drop(c) PROVE FALSE
  BY <1>1, <1>4 DEF Drop, Restarted, TypeInv, TypeOK
<1>5. PICK c \in Conn : ApplyMod(c)
  BY <1>3, <1>4
<1>6. /\ table' = [table EXCEPT ![Dpid(c)] = Apply(@, Head(chan[c]))]
      /\ chan[c] # <<>> /\ chan[c] \in Seq(FlowMod)
  BY <1>5 DEF ApplyMod, TypeInv, TypeOK
<1>7. Dpid(c) = s /\ e \notin Apply(table[s], Head(chan[c]))
  BY <1>1, <1>6 DEF TypeInv, TypeOK
<1>8. /\ Head(chan[c]) = chan[c][1] /\ 1 \in DOMAIN chan[c]
      /\ Head(chan[c]) \in FlowMod
  BY <1>6, HeadTailProperties, LenProperties
<1>9. OwnMod(Head(chan[c]))
  BY <1>8 DEF EntriesFromRows, SentOwn
<1> QED
  BY <1>1, <1>6, <1>7, <1>8, <1>9

\* A row with both addresses, the source not 0.0.0.0, matches on the source.
LEMMA SourceMatched ==
    ASSUME SourcesGiven, NEW f \in Flow, Translatable(f)
    PROVE  \E h \in FlowMatch(f) : h[1] = "ipv4_src"
<1>1. PICK h \in Row[f] : h[1] = "ipv4_src"
  BY DEF Translatable, Fields
<1>2. h[2] # 0
  BY <1>1 DEF SourcesGiven
<1> QED
  BY <1>1, <1>2 DEF FlowMatch

\* No FlowMod of one's own takes a default out of a table.
LEMMA DefaultOutlives ==
    ASSUME SourcesGiven, NEW tbl, NEW e \in tbl, e \in DefaultEntries,
           NEW mod \in FlowMod, OwnMod(mod)
    PROVE  e \in Apply(tbl, mod)
<1> SUFFICES ASSUME e \notin Apply(tbl, mod) PROVE FALSE
  OBVIOUS
<1>1. /\ e.priority \in {0, 9, 10}
      /\ \A h \in e.match : h[1] \notin {"ipv4_src", "nsh_spi"}
  BY DefaultFacts
<1>2. ASSUME mod.cmd = "delete", mod.entry.match \subseteq e.match PROVE FALSE
  <2>1. OwnDeletion(mod.entry)
    BY <1>2 DEF OwnMod
  <2>2. \E h \in mod.entry.match : h[1] \in {"ipv4_src", "nsh_spi"}
    BY <2>1, SourceMatched DEF OwnDeletion, Fields
  <2> QED
    BY <1>1, <1>2, <2>2
<1>3. ASSUME mod.cmd = "add", mod.entry # e, mod.entry.table = e.table,
             mod.entry.priority = e.priority
      PROVE  FALSE
  <2>1. OwnEntry(mod.entry)
    BY <1>3 DEF OwnMod
  <2>2. mod.entry \in DefaultEntries
    BY <1>1, <1>3, <2>1 DEF OwnEntry
  <2> QED
    BY <1>3, <2>2, DefaultFacts
<1> QED
  BY <1>2, <1>3, HowTaken

\* When no row of the flows table has the source address 0.0.0.0, no step
\* takes from a switch an entry it was set up with: however many flows are
\* added, detected and deleted, only a restart of the switch does.
THEOREM DefaultsKept == ASSUME SourcesGiven PROVE Spec => DefaultsStay
<1>1. Init => TypeInv /\ EntriesFromRows
  BY InitType, InitOwn
<1>2. TypeInv /\ EntriesFromRows /\ [Next]_vars => (TypeInv /\ EntriesFromRows)'
  BY NextType, NextOwn
<1>3. TypeInv /\ EntriesFromRows /\ [Next]_vars =>
         [\A s \in Switch : Restarted(s) \/
            \A e \in Lost(s) : e.flow # NoFlow]_vars
  <2> SUFFICES ASSUME TypeInv, EntriesFromRows, [Next]_vars,
                      NEW s \in Switch, ~ Restarted(s), NEW e \in Lost(s),
                      e.flow = NoFlow
               PROVE  FALSE
    OBVIOUS
  <2>1. PICK c \in Conn :
           /\ Dpid(c) = s /\ chan[c] # <<>>
           /\ e \in table[s] /\ OwnEntry(e)
           /\ OwnMod(Head(chan[c])) /\ Head(chan[c]) \in FlowMod
           /\ e \notin Apply(table[s], Head(chan[c]))
    BY WhoTakes
  <2>2. e \in DefaultEntries
    BY <2>1, FlowAssumption DEF OwnEntry
  <2> QED
    BY <2>1, <2>2, DefaultOutlives
<1> QED
  BY <1>1, <1>2, <1>3, PTL DEF Spec, DefaultsStay

\* When, moreover, no row is a part of another, handling a flow takes from
\* table 0 entries of that flow only, although deletions are not strict and an
\* entry replaces one with the same match.
THEOREM OnlyOwnLost ==
    ASSUME SourcesGiven, RowsApart PROVE Spec => OwnEntriesOnly
<1>1. Init => TypeInv /\ EntriesFromRows
  BY InitType, InitOwn
<1>2. TypeInv /\ EntriesFromRows /\ [Next]_vars => (TypeInv /\ EntriesFromRows)'
  BY NextType, NextOwn
<1>3. TypeInv /\ EntriesFromRows /\ [Next]_vars =>
         [\A s \in Switch : Restarted(s) \/
            \A e \in Lost(s) : e.table = 0 =>
               \E c \in Conn : /\ Dpid(c) = s /\ chan[c] # <<>>
                               /\ Head(chan[c]).entry.flow = e.flow]_vars
  <2> SUFFICES ASSUME TypeInv, EntriesFromRows, [Next]_vars,
                      NEW s \in Switch, ~ Restarted(s), NEW e \in Lost(s),
                      e.table = 0
               PROVE  \E c \in Conn :
                         /\ Dpid(c) = s /\ chan[c] # <<>>
                         /\ Head(chan[c]).entry.flow = e.flow
    OBVIOUS
  <2>1. PICK c \in Conn :
           /\ Dpid(c) = s /\ chan[c] # <<>>
           /\ e \in table[s] /\ OwnEntry(e)
           /\ OwnMod(Head(chan[c])) /\ Head(chan[c]) \in FlowMod
           /\ e \notin Apply(table[s], Head(chan[c]))
    BY WhoTakes
  <2> DEFINE mod == Head(chan[c])
  <2> SUFFICES ASSUME mod.entry.flow # e.flow PROVE FALSE
    BY <2>1
  <2>2. ASSUME mod.cmd = "delete", mod.entry.match \subseteq e.match PROVE FALSE
    <3>1. OwnDeletion(mod.entry)
      BY <2>1, <2>2 DEF OwnMod
    <3>2. \E h \in mod.entry.match : h[1] \in {"ipv4_src", "nsh_spi"}
      BY <3>1, SourceMatched DEF OwnDeletion, Fields
    <3>3. e \notin DefaultEntries
      BY <2>2, <3>2, DefaultFacts
    <3>4. /\ e.flow \in Flow
          /\ \A h \in e.match : h \in FlowMatch(e.flow) \/ h[1] = "in_port"
      BY <2>1, <3>3 DEF OwnEntry
    <3>5. \A h \in e.match : h[1] # "nsh_spi"
      BY <3>4, FlowHeaders DEF Column
    <3>6. mod.entry.match = FlowMatch(mod.entry.flow) /\ mod.entry.flow \in Flow
      BY <2>2, <3>1, <3>5 DEF OwnDeletion, Fields
    <3>7. MiddleFields(mod.entry.flow) \subseteq e.match
      BY <2>2, <3>6, FlowHeaders
    <3> QED
      BY <3>4, <3>6, <3>7, PartOfAnother
  <2>3. ASSUME mod.cmd = "add", mod.entry.table = e.table,
               mod.entry.priority = e.priority, mod.entry.match = e.match
        PROVE  FALSE
    <3>1. OwnEntry(mod.entry)
      BY <2>1, <2>3 DEF OwnMod
    <3>2. CASE e \in DefaultEntries
      <4>1. mod.entry \in DefaultEntries
        BY <2>3, <3>1, <3>2, DefaultFacts DEF OwnEntry
      <4> QED
        BY <3>2, <4>1, DefaultFacts
    <3>3. CASE e \notin DefaultEntries
      <4>1. /\ e.flow \in Flow /\ e.priority \in {6, 8}
            /\ \A h \in e.match : h \in FlowMatch(e.flow) \/ h[1] = "in_port"
        BY <2>1, <3>3 DEF OwnEntry
      <4>2. mod.entry \notin DefaultEntries
        BY <2>3, <4>1, DefaultFacts
      <4>3. /\ mod.entry.flow \in Flow
            /\ MiddleFields(mod.entry.flow) \subseteq e.match
        BY <2>3, <3>1, <4>2 DEF OwnEntry
      <4> QED
        BY <4>1, <4>3, PartOfAnother
    <3> QED
      BY <3>2, <3>3
  <2> QED
    BY <2>1, <2>2, <2>3, HowTaken
<1> QED
  BY <1>1, <1>2, <1>3, PTL DEF Spec, OwnEntriesOnly

(***************************************************************************)
(* Metadata.                                                               *)
(***************************************************************************)

\* Everything that is sent marks only what it was made for.
LEMMA ModsMark ==
    /\ \A f : MarksOwn(CatchMod(f).entry)
    /\ \A f, port, row : MarksOwn(SourceMod(f, port, row).entry)
    /\ \A i \in 1..6 : MarksOwn(DefaultMods[i].entry)
    /\ \A f, e : ChainEntry(e, f) => MarksOwn(e)
<1>1. \A i \in 1..6 : DefaultMods[i].entry.meta = NoMeta
  BY DEF DefaultMods, Default, AddMod
<1> QED
  BY <1>1 DEF CatchMod, SourceMod, AddMod, ChainEntry, MarksOwn

\* So the queues and the tables hold only such entries, when one more is sent,
LEMMA SendMarks ==
    ASSUME TypeOK, MarksInv, NEW c \in Conn, NEW mod,
           mod.cmd = "add" => MarksOwn(mod.entry),
           Send(c, mod), UNCHANGED table
    PROVE  MarksInv'
<1>1. \A d \in Conn : \A i \in DOMAIN chan'[d] :
         (i \in DOMAIN chan[d] /\ chan'[d][i] = chan[d][i]) \/ chan'[d][i] = mod
  BY SentOn
<1> QED
  BY <1>1 DEF MarksInv

\* when nothing is sent or applied,
LEMMA NothingMarked ==
    ASSUME MarksInv,
           \A s \in Switch : table'[s] \subseteq table[s],
           \A c \in Conn : chan'[c] = chan[c] \/ chan'[c] = <<>>
    PROVE  MarksInv'
BY DEF MarksInv

\* when a switch processes what it was sent,
LEMMA ApplyMarks ==
    ASSUME TypeOK, MarksInv, NEW c \in Conn, ApplyMod(c)
    PROVE  MarksInv'
<1>1. PICK mod \in FlowMod, tbl \in SUBSET Entry :
         /\ mod = chan[c][1] /\ tbl = table[Dpid(c)]
         /\ table'[Dpid(c)] = Apply(tbl, mod)
         /\ mod.cmd = "add" \/ mod.cmd = "delete"
         /\ \A e \in Apply(tbl, mod) :
               e \in tbl \/ (mod.cmd = "add" /\ e = mod.entry)
         /\ \A s \in Switch : s # Dpid(c) => table'[s] = table[s]
  BY AppliedOn
<1>2. /\ 1 \in DOMAIN chan[c]
      /\ \A i \in DOMAIN chan'[c] :
            i + 1 \in DOMAIN chan[c] /\ chan'[c][i] = chan[c][i + 1]
      /\ \A d \in Conn : d # c => chan'[d] = chan[d]
  BY TakenOn
<1>3. Dpid(c) \in Switch
  BY ConnParts
<1>4. \A e \in Apply(tbl, mod) : MarksOwn(e)
  BY <1>1, <1>2, <1>3 DEF MarksInv
<1>5. \A s \in Switch : \A e \in table'[s] : MarksOwn(e)
  BY <1>1, <1>4 DEF MarksInv
<1>6. \A d \in Conn : \A i \in DOMAIN chan'[d] :
         chan'[d][i].cmd = "add" => MarksOwn(chan'[d][i].entry)
  BY <1>2 DEF MarksInv
<1> QED
  BY <1>5, <1>6 DEF MarksInv

\* and in every step,
LEMMA NextMarks == TypeInv /\ MarksInv /\ [Next]_vars => MarksInv'
<1> SUFFICES ASSUME TypeInv, MarksInv, [Next]_vars PROVE MarksInv'
  OBVIOUS
<1>1. TypeOK
  BY DEF TypeInv
<1>2. CASE UNCHANGED <<table, chan>>
  BY <1>2 DEF MarksInv
<1>3. ASSUME NEW c \in Conn, LinkStep(c) PROVE MarksInv'
  <2>1. CASE Connect(c) \/ EnterMain(c) \/ ReportDead(c)
    BY <1>2, <2>1 DEF Connect, EnterMain, ReportDead
  <2>2. CASE Drop(c)
    BY <1>1, <2>2, NothingMarked DEF Drop, TypeOK
  <2>3. CASE Notice(c)
    BY <1>1, <2>3, NothingMarked DEF Notice, TypeOK
  <2> QED
    BY <1>1, <1>3, <2>1, <2>2, <2>3, ApplyMarks DEF LinkStep
<1>4. ASSUME Loop PROVE MarksInv'
  <2>1. CASE HandleEvent \/ LoopBlocks
    BY <1>2, <2>1 DEF HandleEvent, LoopBlocks, RegisterDatapath, UnregisterDatapath,
       RegisterVnf, StartDefaults, StartDetection, HandledAtOnce, Begin, network
  <2>2. CASE SendDefault
    BY <1>1, <2>2, DefaultStep, ModsMark, SendMarks
  <2>3. CASE DeleteCatching
    <3>1. DeleteFlowMod(task.flow).cmd = "delete"
      BY DEF DeleteFlowMod, DelMod
    <3> QED
      BY <1>1, <2>3, <3>1, DeleteStep, SendMarks
  <2>4. CASE SendSource
    BY <1>1, <2>4, SourceStep, ModsMark, SendMarks
  <2>5. CASE AbandonChain \/ SkipVnf \/ SendHop \/ SendEnd
    <3>1. UNCHANGED table
      BY <2>5, ChainStep
    <3>2. \/ chan' = chan
          \/ \E d \in Conn : \E mod : Send(d, mod) /\ mod.cmd = "add" /\ MarksOwn(mod.entry)
      BY <2>5, ChainStep, ModsMark
    <3> QED
      BY <1>1, <1>2, <3>1, <3>2, SendMarks
  <2> QED
    BY <1>4, <2>1, <2>2, <2>3, <2>4, <2>5 DEF Loop, RunTask
<1>5. ASSUME NEW r \in Request, Serve(r) PROVE MarksInv'
  <2>1. CASE SendRequest(r)
    <3>1. RequestMod(r).cmd = "add" => MarksOwn(RequestMod(r).entry)
      BY ModsMark DEF RequestMod, DeleteFlowMod, DeleteSpiMod, DelMod
    <3> QED
      BY <1>1, <2>1, <3>1, RequestStep, SendMarks
  <2>2. CASE ~ SendRequest(r)
    BY <1>2, <1>5, <2>2 DEF Serve, StartRequest, NextDatapath, RequestBlocks, SetRest,
                            network
  <2> QED
    BY <2>1, <2>2
<1> QED
  BY <1>2, <1>3, <1>4, <1>5 DEF Next, DetectPacket, RegisterPacket, network, vars

\* from the empty tables on.
LEMMA InitMarks == Init => MarksInv
<1> SUFFICES ASSUME Init PROVE MarksInv
  OBVIOUS
<1>1. \A e \in DefaultEntries : MarksOwn(e)
  BY ModsMark DEF DefaultEntries
<1> QED
  BY <1>1 DEF Init, MarksInv

(***************************************************************************)
(* A flow that is gone.                                                    *)
(***************************************************************************)

\* What is sent leaves a flow forgotten unless it is an entry of that flow.
LEMMA SendForgets ==
    ASSUME TypeOK, NEW f, Forgotten(f), NEW c \in Conn, NEW mod,
           mod.cmd = "add" => mod.entry.flow # f,
           Send(c, mod), UNCHANGED <<table, events>>,
           task' # NoTask => task'.pc = "defaults" \/ task'.flow # f
    PROVE  Forgotten(f)'
<1>1. \A d \in Conn : \A i \in DOMAIN chan'[d] :
         (i \in DOMAIN chan[d] /\ chan'[d][i] = chan[d][i]) \/ chan'[d][i] = mod
  BY SentOn
<1>2. \A d \in Conn : \A i \in DOMAIN chan'[d] :
         chan'[d][i].cmd = "add" => chan'[d][i].entry.flow # f
  BY <1>1 DEF Forgotten
<1> QED
  BY <1>2 DEF Forgotten

\* Less on the way, and no new event or task of the flow.
LEMMA NothingNew ==
    ASSUME NEW f, Forgotten(f),
           \A s \in Switch : table'[s] \subseteq table[s],
           \A c \in Conn : chan'[c] = chan[c] \/ chan'[c] = <<>>,
           \A i \in DOMAIN events' : \A e :
              e = events'[i] /\ e.type = "packet_in" => e.flow # f,
           task' # NoTask => task'.pc = "defaults" \/ task'.flow # f
    PROVE  Forgotten(f)'
<1>1. \A i \in DOMAIN events' :
         events'[i].type = "packet_in" => events'[i].flow # f
  OBVIOUS
<1> QED
  BY <1>1 DEF Forgotten

\* An event of another kind or of another flow is put on the queue.
LEMMA EventForgets ==
    ASSUME TypeOK, NEW f, Forgotten(f), NEW e, events' = Append(events, e),
           e.type = "packet_in" => e.flow # f
    PROVE  \A i \in DOMAIN events' : \A x :
              x = events'[i] /\ x.type = "packet_in" => x.flow # f
<1>1. \A i \in DOMAIN events' :
         \/ i \in DOMAIN events /\ events'[i] = events[i]
         \/ events'[i] = e
  BY EndStays
<1> QED
  BY <1>1 DEF Forgotten

\* A switch that processes what it was sent leaves a forgotten flow forgotten.
LEMMA ApplyForgets ==
    ASSUME TypeOK, NEW f, Forgotten(f), NEW c \in Conn, ApplyMod(c)
    PROVE  Forgotten(f)'
<1>1. PICK mod \in FlowMod, tbl \in SUBSET Entry :
         /\ mod = chan[c][1] /\ tbl = table[Dpid(c)]
         /\ table'[Dpid(c)] = Apply(tbl, mod)
         /\ mod.cmd = "add" \/ mod.cmd = "delete"
         /\ \A e \in Apply(tbl, mod) :
               e \in tbl \/ (mod.cmd = "add" /\ e = mod.entry)
         /\ \A s \in Switch : s # Dpid(c) => table'[s] = table[s]
  BY AppliedOn
<1>2. /\ 1 \in DOMAIN chan[c]
      /\ \A i \in DOMAIN chan'[c] :
            i + 1 \in DOMAIN chan[c] /\ chan'[c][i] = chan[c][i + 1]
      /\ \A d \in Conn : d # c => chan'[d] = chan[d]
  BY TakenOn
<1>3. Dpid(c) \in Switch /\ UNCHANGED <<events, task>>
  BY ConnParts DEF ApplyMod
<1>4. \A e \in Apply(tbl, mod) : e.table = 0 => e.flow # f
  BY <1>1, <1>2, <1>3 DEF Forgotten
<1>5. \A s \in Switch : \A e \in table'[s] : e.table = 0 => e.flow # f
  BY <1>1, <1>4 DEF Forgotten
<1>6. \A d \in Conn : \A i \in DOMAIN chan'[d] :
         chan'[d][i].cmd = "add" => chan'[d][i].entry.flow # f
  BY <1>2 DEF Forgotten
<1> QED
  BY <1>3, <1>5, <1>6 DEF Forgotten

\* The steps of connections and switches.
LEMMA NetworkForgets ==
    ASSUME TypeInv, MarksInv, NEW f \in Flow, Forgotten(f),
           \/ \E c \in Conn : LinkStep(c)
           \/ \E c \in Conn, t \in Traffic : DetectPacket(c, t)
           \/ \E c \in Conn, d \in Datagram : RegisterPacket(c, d)
    PROVE  Forgotten(f)'
<1>1. TypeOK
  BY DEF TypeInv
<1>2. ASSUME UNCHANGED <<table, chan, task>>, NEW e, Enqueue(e),
             e.type = "packet_in" => e.flow # f
      PROVE  Forgotten(f)'
  <2>1. \A i \in DOMAIN events' : \A x :
           x = events'[i] /\ x.type = "packet_in" => x.flow # f
    BY <1>1, <1>2, EventForgets DEF Enqueue
  <2>2. task # NoTask => task.pc = "defaults" \/ task.flow # f
    BY DEF Forgotten
  <2> QED
    BY <1>2, <2>1, <2>2, NothingNew
<1>3. ASSUME NEW c \in Conn, LinkStep(c) PROVE Forgotten(f)'
  <2>1. CASE Connect(c)
    BY <1>2, <2>1 DEF Connect
  <2>2. CASE EnterMain(c)
    BY <1>2, <2>2 DEF EnterMain
  <2>3. CASE ReportDead(c)
    BY <1>2, <2>3 DEF ReportDead
  <2>4. CASE Drop(c) \/ Notice(c)
    <3>1. /\ \A s \in Switch : table'[s] \subseteq table[s]
          /\ \A d \in Conn : chan'[d] = chan[d] \/ chan'[d] = <<>>
          /\ UNCHANGED <<events, task>>
      BY <1>1, <2>4 DEF Drop, Notice, TypeOK
    <3> QED
      BY <3>1 DEF Forgotten
  <2> QED
    BY <1>1, <1>3, <2>1, <2>2, <2>3, <2>4, ApplyForgets DEF LinkStep
<1>4. ASSUME NEW c \in Conn, NEW t \in Traffic, DetectPacket(c, t)
      PROVE  Forgotten(f)'
  <2>1. t.switch \in Switch
    BY TrafficAssumption
  <2>2. PICK e \in ToController(t.switch, t.packet \cup {<<"in_port", t.port>>}) :
           /\ e.meta # NoMeta
           /\ Enqueue([type |-> "packet_in", conn |-> c, port |-> t.port,
                       flow |-> e.meta])
    BY <1>4 DEF DetectPacket
  <2>3. e \in table[t.switch] /\ e.table = 0
    BY <2>2 DEF ToController, Best, Matching
  <2>4. e.meta # f
    BY <2>1, <2>2, <2>3 DEF MarksInv, MarksOwn, Forgotten
  <2>5. UNCHANGED <<table, chan, task>>
    BY <1>4 DEF DetectPacket, network
  <2> DEFINE x == [type |-> "packet_in", conn |-> c, port |-> t.port, flow |-> e.meta]
  <2>6. Enqueue(x) /\ x.flow # f
    BY <2>2, <2>4
  <2> HIDE DEF x
  <2> QED
    BY <1>2, <2>5, <2>6
<1>5. ASSUME NEW c \in Conn, NEW d \in Datagram, RegisterPacket(c, d)
      PROVE  Forgotten(f)'
  BY <1>2, <1>5 DEF RegisterPacket, network
<1> QED
  BY <1>3, <1>4, <1>5

\* The steps of the event loop.
LEMMA LoopForgets ==
    ASSUME TypeInv, NEW f \in Flow, Forgotten(f), Loop
    PROVE  Forgotten(f)'
<1>1. TypeOK /\ (task # NoTask => task.pc = "defaults" \/ task.flow # f)
  BY DEF TypeInv, Forgotten
<1>2. ASSUME UNCHANGED <<table, chan>>, events # <<>>, events' = Tail(events),
             task' # NoTask => task'.pc = "defaults" \/ task'.flow # f
      PROVE  Forgotten(f)'
  <2>1. \A i \in DOMAIN events' :
           i + 1 \in DOMAIN events /\ events'[i] = events[i + 1]
    BY <1>1, <1>2, EndMoves
  <2> QED
    BY <1>2, <2>1 DEF Forgotten
<1>3. CASE RegisterDatapath \/ UnregisterDatapath \/ RegisterVnf
  BY <1>1, <1>2, <1>3 DEF RegisterDatapath, UnregisterDatapath, RegisterVnf, NextEvent,
                          HandledAtOnce, network
<1>4. CASE StartDefaults
  BY <1>2, <1>4, SetUpStep
<1>5. CASE StartDetection
  <2>1. 1 \in DOMAIN events /\ events[1] = Head(events)
    BY <1>1, <1>5, DetectionStep, EndMoves
  <2>2. Head(events).flow # f
    BY <1>5, <2>1, DetectionStep DEF Forgotten
  <2> QED
    BY <1>2, <1>5, <2>2, DetectionStep
<1>6. CASE LoopBlocks
  BY <1>6 DEF LoopBlocks, network, Forgotten
<1>7. CASE SendDefault
  <2>1. \A i \in 1..6 : DefaultMods[i].entry.flow # f
    BY DefaultFacts, FlowAssumption DEF DefaultEntries
  <2> QED
    BY <1>1, <1>7, <2>1, DefaultStep, SendForgets
<1>8. CASE DeleteCatching
  <2>1. DeleteFlowMod(task.flow).cmd = "delete"
    BY DEF DeleteFlowMod, DelMod
  <2>2. task' # NoTask => task'.flow # f
    BY <1>1, <1>8, DeleteStep
  <2> QED
    BY <1>1, <1>8, <2>1, <2>2, DeleteStep, SendForgets
<1>9. CASE SendSource
  <2>1. task.flow # f /\ task'.flow # f
    BY <1>1, <1>9, SourceStep
  <2>2. PICK mod : /\ mod.entry.flow = task.flow /\ Send(task.conn, mod)
                   /\ mod = SourceMod(task.flow, task.port, VnfAt(task.flow, 1))
    <3>1. \A port, row : SourceMod(task.flow, port, row).entry.flow = task.flow
      BY DEF SourceMod, AddMod
    <3>2. Send(task.conn, SourceMod(task.flow, task.port, VnfAt(task.flow, 1)))
      BY <1>9, SourceStep
    <3> QED
      BY <3>1, <3>2
  <2>3. task.conn \in Conn /\ UNCHANGED <<table, events>>
    BY <1>9, SourceStep
  <2> QED
    BY <1>1, <2>1, <2>2, <2>3, SendForgets
<1>10. CASE AbandonChain \/ SkipVnf \/ SendHop \/ SendEnd
  <2>1. /\ task.flow # f /\ UNCHANGED <<table, events>>
        /\ task' # NoTask => task'.pc = "defaults" \/ task'.flow # f
        /\ \/ chan' = chan
           \/ \E d \in Conn : \E mod :
                 /\ Send(d, mod)
                 /\ mod.cmd = "add" => mod.entry.flow # f
    BY <1>1, <1>10, ChainStep DEF ChainEntry
  <2> QED
    BY <1>1, <2>1, SendForgets DEF Forgotten
<1> QED
  BY <1>3, <1>4, <1>5, <1>6, <1>7, <1>8, <1>9, <1>10
     DEF Loop, HandleEvent, RunTask

\* A request that adds the flow sends its entry, and no other step does.
LEMMA ServeForgets ==
    ASSUME TypeInv, NEW f \in Flow, Forgotten(f), NEW r \in Request, Serve(r),
           ~ (Op[r] = "add" /\ Subject[r] = f /\ rest[r].pc = "send")
    PROVE  Forgotten(f)'
<1>1. TypeOK /\ (task # NoTask => task.pc = "defaults" \/ task.flow # f)
  BY DEF TypeInv, Forgotten
<1>2. CASE SendRequest(r)
  <2>1. /\ Send(Last(rest[r].seen), RequestMod(r)) /\ Last(rest[r].seen) \in Conn
        /\ UNCHANGED <<table, events, task>> /\ rest[r].pc = "send"
    BY <1>2, RequestStep
  <2>2. RequestMod(r).cmd = "add" => RequestMod(r).entry.flow # f
    BY <2>1 DEF RequestMod, CatchMod, AddMod, DeleteFlowMod, DeleteSpiMod, DelMod
  <2> QED
    BY <1>1, <2>1, <2>2, SendForgets
<1>3. CASE ~ SendRequest(r)
  BY <1>3 DEF Serve, StartRequest, NextDatapath, RequestBlocks, SetRest, network,
              Forgotten
<1> QED
  BY <1>2, <1>3

\* A flow nothing of which is left or coming stays so unless a request adds it.
LEMMA NextForgets ==
    ASSUME TypeInv, MarksInv, [Next]_vars, NEW f \in Flow, Forgotten(f)
    PROVE  \/ Forgotten(f)'
           \/ \E r \in Request : Op[r] = "add" /\ Subject[r] = f
                                 /\ rest[r].pc = "send"
<1> SUFFICES ASSUME \A r \in Request :
                       ~ (Op[r] = "add" /\ Subject[r] = f /\ rest[r].pc = "send")
             PROVE  Forgotten(f)'
  OBVIOUS
<1>1. CASE UNCHANGED vars
  BY <1>1 DEF vars, Forgotten
<1> QED
  BY <1>1, NetworkForgets, LoopForgets, ServeForgets DEF Next

\* A flow nothing of which is left or coming comes back only while a request to
\* add it is sending (sfc_nfv.py:29-68, 276-395).
THEOREM GoneForGood == Spec => NoResurrection
<1>1. TypeInv /\ MarksInv /\ [Next]_vars =>
         \A f \in Flow : Forgotten(f) =>
            \/ Forgotten(f)'
            \/ \E r \in Request : Op[r] = "add" /\ Subject[r] = f
                                  /\ rest[r].pc = "send"
  BY NextForgets
<1> QED
  BY <1>1, InitType, NextType, InitMarks, NextMarks, PTL DEF Spec, NoResurrection
=============================================================================
