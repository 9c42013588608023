--------------------------- MODULE SfcController ---------------------------
(***************************************************************************)
(* The controller application (sfc_nfv.py) and the switches it programs.   *)
(*                                                                         *)
(* Control connections carry FlowMods to a switch and packet-ins back.     *)
(* The application keeps a registry of connections, an event loop that     *)
(* runs its handlers one at a time, and a REST server whose requests run   *)
(* in greenlets of their own.  A greenlet keeps the interpreter until it   *)
(* ends or until it sends to a connection whose send queue is full; then   *)
(* the others run, and it resumes in the middle of its handler.            *)
(*                                                                         *)
(* The connections, the queues and the switches are Ryu's and Open         *)
(* vSwitch's: external to the repository.                                  *)
(***************************************************************************)
EXTENDS SfcRules, SequencesExt, FiniteSets

CONSTANTS
    NoTask,         \* the event loop between two events
    Request,        \* the REST requests of a behaviour, each made once
    Op, Subject,    \* Op[r] is "add" or "delete", Subject[r] a flow id
    InitialSwitch,  \* the switches set up at the start, in registry order
    InitialVnf,     \* the vnf table at the start: the rows of every VNF
    Traffic,        \* what hosts put on the wire: [switch, port, packet]
    Datagram,       \* registrations VNFs send: [switch, port, vnf, row]
    QueueCap,       \* slots of a connection's send queue (16 in Ryu)
    EventCap,       \* slots of the application's event queue (128 in Ryu)
    MaxConn,        \* bound: connections a switch ever makes
    MaxDrop,        \* bound: connections that are ever lost
    MaxBehind       \* bound: FlowMods pending when a packet is detected

ASSUME BoundAssumption ==
    /\ QueueCap \in Nat \ {0} /\ EventCap \in Nat \ {0}
    /\ MaxConn \in Nat \ {0} /\ MaxDrop \in Nat /\ MaxBehind \in Nat
ASSUME RequestAssumption ==
    /\ Op \in [Request -> {"add", "delete"}]
    /\ Subject \in [Request -> Flow \cup {NoFlow}]
    /\ "loop" \notin Request /\ "none" \notin Request
ASSUME SwitchAssumption ==
    InitialSwitch \in Seq(Switch) /\ IsInjective(InitialSwitch)
ASSUME TrafficAssumption ==
    \A t \in Traffic : t.switch \in Switch /\ t.port \in Port
ASSUME DatagramAssumption ==
    \A d \in Datagram :
        /\ d.switch \in Switch /\ d.vnf \in Vnf /\ d.row \in VnfRow
ASSUME VnfAssumption ==
    /\ InitialVnf \in [Vnf -> SUBSET VnfRow]
    /\ \A v \in Vnf : \A x, y \in InitialVnf[v] : x.iftype = y.iftype => x = y

Conn == Switch \X (1..MaxConn)
Dpid(c) == c[1]

\* An entry of the application's event queue.
Event ==
    [type : {"features", "main", "dead"}, conn : Conn]
    \cup [type : {"packet_in"}, conn : Conn, port : Port, flow : Flow]
    \cup [type : {"register"}, conn : Conn, vnf : Vnf, row : VnfRow]

\* Where the event loop is in a handler that sends.  todo: connections still
\* to be sent the deletion.  pos: position of vnf_id in the service, cur: of
\* the VNF that dpid, in_port, last_loc and last_si belong to.
Task ==
    [pc : {"defaults"}, conn : Conn, step : 1..6]
    \cup [pc : {"delete", "source", "chain"}, conn : Conn, port : Port,
          flow : Flow, todo : Seq(Conn), cur : Nat, pos : Nat, step : 1..3]

ASSUME TaskAssumption == NoTask \notin Task

\* A REST request: size and seen are its iteration over the registry.
RestState ==
    [pc : {"new", "next", "send", "ok", "not_found", "error"}, size : Nat,
     seen : Seq(Conn), step : 1..2]

VARIABLES
    link,       \* state of every connection
    chan,       \* FlowMods sent on a connection and not yet processed
    table,      \* the flow tables of every switch
    datapaths,  \* registry: connections in the order they were registered
    events,     \* the application's event queue
    task,       \* what the event loop is doing
    rest,       \* the REST requests
    running,    \* the greenlet that has the interpreter, or "none"
    vnf         \* the vnf table: the rows of every VNF

network == <<link, chan, table>>
vars == <<link, chan, table, datapaths, events, task, rest, running, vnf>>

\* none: not made yet; stale: lost, unnoticed by the controller; closed: its
\* greenlets have ended; dead: the application has been told.
LinkState == {"none", "config", "main", "stale", "closed", "dead"}

TypeOK ==
    /\ link \in [Conn -> LinkState]
    /\ chan \in [Conn -> Seq(FlowMod)]
    /\ table \in [Switch -> SUBSET Entry]
    /\ datapaths \in Seq(Conn)
    /\ events \in Seq(Event)
    /\ task \in Task \cup {NoTask}
    /\ rest \in [Request -> RestState]
    /\ running \in Request \cup {"loop", "none"}
    /\ vnf \in [Vnf -> SUBSET VnfRow]

Init ==
    /\ link = [c \in Conn |-> IF c[2] = 1 /\ Dpid(c) \in ToSet(InitialSwitch)
                              THEN "main" ELSE "none"]
    /\ chan = [c \in Conn |-> <<>>]
    /\ table = [s \in Switch |-> IF s \in ToSet(InitialSwitch)
                                 THEN DefaultEntries ELSE {}]
    /\ datapaths = [i \in 1..Len(InitialSwitch) |-> <<InitialSwitch[i], 1>>]
    /\ events = <<>>
    /\ task = NoTask
    /\ rest = [r \in Request |->
                 [pc |-> "new", size |-> 0, seen |-> <<>>, step |-> 1]]
    /\ running = "none"
    /\ vnf = InitialVnf

(***************************************************************************)
(* Greenlets and queues.                                                   *)
(***************************************************************************)

MayRun(g) == running \in {"none", g}

\* A full queue blocks the sender; a closed connection discards what it is
\* sent and blocks nobody.
Ended(c) == link[c] \in {"closed", "dead"}
CanSend(c) == Ended(c) \/ Len(chan[c]) < QueueCap

Send(c, mod) ==
    /\ CanSend(c)
    /\ chan' = IF Ended(c) THEN chan
               ELSE [chan EXCEPT ![c] = Append(@, mod)]

\* Connections put events on the queue only while no greenlet of the
\* application runs, and wait while the queue is full.
Enqueue(e) ==
    /\ running = "none"
    /\ Len(events) < EventCap
    /\ events' = Append(events, e)

(***************************************************************************)
(* Switches and connections (external).                                    *)
(***************************************************************************)

Gone == {c \in Conn : link[c] = "stale" \/ Ended(c)}

\* A switch connects, again once it has lost the connection before.
Connect(c) ==
    /\ link[c] = "none"
    /\ c[2] = 1 \/ <<Dpid(c), c[2] - 1>> \in Gone
    /\ link' = [link EXCEPT ![c] = "config"]
    /\ Enqueue([type |-> "features", conn |-> c])
    /\ UNCHANGED <<chan, table, datapaths, task, rest, running, vnf>>

EnterMain(c) ==
    /\ link[c] = "config"
    /\ link' = [link EXCEPT ![c] = "main"]
    /\ Enqueue([type |-> "main", conn |-> c])
    /\ UNCHANGED <<chan, table, datapaths, task, rest, running, vnf>>

\* The switch loses the connection.  It keeps its tables, unless it restarts.
Drop(c) ==
    /\ link[c] \in {"config", "main"}
    /\ Cardinality(Gone) < MaxDrop
    /\ link' = [link EXCEPT ![c] = "stale"]
    /\ \/ UNCHANGED table
       \/ table' = [table EXCEPT ![Dpid(c)] = {}]
    /\ UNCHANGED <<chan, datapaths, events, task, rest, running, vnf>>

\* The controller notices: what was still to be sent is lost, and then the
\* application is told.
Notice(c) ==
    /\ running = "none"
    /\ link[c] = "stale"
    /\ link' = [link EXCEPT ![c] = "closed"]
    /\ chan' = [chan EXCEPT ![c] = <<>>]
    /\ UNCHANGED <<table, datapaths, events, task, rest, running, vnf>>

ReportDead(c) ==
    /\ link[c] = "closed"
    /\ link' = [link EXCEPT ![c] = "dead"]
    /\ Enqueue([type |-> "dead", conn |-> c])
    /\ UNCHANGED <<chan, table, datapaths, task, rest, running, vnf>>

\* A switch processes the next FlowMod of its connection.  What is queued goes
\* out from a greenlet too, while no greenlet of the application runs.
ApplyMod(c) ==
    /\ running = "none"
    /\ link[c] \in {"config", "main"}
    /\ chan[c] # <<>>
    /\ table' = [table EXCEPT ![Dpid(c)] = Apply(@, Head(chan[c]))]
    /\ chan' = [chan EXCEPT ![c] = Tail(@)]
    /\ UNCHANGED <<link, datapaths, events, task, rest, running, vnf>>

\* The entries that send a packet on to table 2 and from there to the
\* controller.
ToController(s, packet) ==
    {e \in Best(table[s], 0, packet) :
        /\ e.goto = 2
        /\ \E x \in Best(table[s], 2, packet) :
                x.actions = <<<<"controller", NoArg>>>>}

\* A packet of a flow is detected: the metadata tells the controller which.
\* Bound: while no switch is more than MaxBehind FlowMods behind.
DetectPacket(c, t) ==
    /\ \A d \in Conn : Len(chan[d]) <= MaxBehind
    /\ link[c] = "main" /\ t.switch = Dpid(c)
    /\ \E e \in ToController(t.switch,
                             t.packet \cup {<<"in_port", t.port>>}) :
          /\ e.meta # NoMeta
          /\ Enqueue([type |-> "packet_in", conn |-> c, port |-> t.port,
                      flow |-> e.meta])
    /\ UNCHANGED <<network, datapaths, task, rest, running, vnf>>

\* A VNF's datagram reaches the controller, any number of times or never.
RegisterPacket(c, d) ==
    /\ link[c] = "main" /\ d.switch = Dpid(c)
    /\ \E e \in ToController(d.switch, RegistrationMatch) : e.meta = NoMeta
    /\ Enqueue([type |-> "register", conn |-> c, vnf |-> d.vnf,
                row |-> d.row])
    /\ UNCHANGED <<network, datapaths, task, rest, running, vnf>>

(***************************************************************************)
(* The event loop.                                                         *)
(***************************************************************************)

\* The connection registered under a dpid, if there is one.
Registered(s) == {c \in ToSet(datapaths) : Dpid(c) = s}

NextEvent(type) ==
    /\ task = NoTask
    /\ MayRun("loop")
    /\ events # <<>>
    /\ Head(events).type = type
    /\ events' = Tail(events)

\* A handler that does not send is over at once.
HandledAtOnce == UNCHANGED <<network, task, rest, running>>

\* _state_change_handler, MAIN_DISPATCHER.
RegisterDatapath ==
    /\ NextEvent("main")
    /\ LET c == Head(events).conn IN
       datapaths' = IF Registered(Dpid(c)) = {} THEN Append(datapaths, c)
                    ELSE datapaths
    /\ HandledAtOnce /\ UNCHANGED vnf

\* _state_change_handler, DEAD_DISPATCHER: deletes by dpid, whichever
\* connection is registered under it.
UnregisterTheFirst ==               \* mutant
    /\ NextEvent("dead")
    /\ datapaths' = IF Registered(Dpid(Head(events).conn)) = {} THEN datapaths
                    ELSE Tail(datapaths)
    /\ HandledAtOnce /\ UNCHANGED vnf
UnregisterDatapath ==
    /\ NextEvent("dead")
    /\ LET s == Dpid(Head(events).conn) IN
       IF Registered(s) = {} THEN UNCHANGED datapaths
       ELSE \E i \in DOMAIN datapaths :
               /\ Dpid(datapaths[i]) = s
               /\ datapaths' = RemoveAt(datapaths, i)
    /\ HandledAtOnce /\ UNCHANGED vnf

\* _packet_in_handler, registration: INSERT OR IGNORE.  The packet carries no
\* metadata, so that the rest of the handler ends in its except clause.
RegisterVnfAgain ==                 \* mutant: INSERT OR REPLACE
    /\ NextEvent("register")
    /\ LET e == Head(events) IN
       vnf' = [vnf EXCEPT ![e.vnf] =
                 {x \in @ : x.iftype # e.row.iftype} \cup {e.row}]
    /\ HandledAtOnce /\ UNCHANGED datapaths
RegisterVnf ==
    /\ NextEvent("register")
    /\ LET e == Head(events) IN
       vnf' = IF \E x \in vnf[e.vnf] : x.iftype = e.row.iftype THEN vnf
              ELSE [vnf EXCEPT ![e.vnf] = @ \cup {e.row}]
    /\ HandledAtOnce /\ UNCHANGED datapaths

Begin(t) ==
    /\ task' = t
    /\ running' = IF t = NoTask THEN "none" ELSE "loop"
    /\ UNCHANGED <<network, datapaths, rest, vnf>>

\* switch_features_handler.
StartDefaults ==
    /\ NextEvent("features")
    /\ Begin([pc |-> "defaults", conn |-> Head(events).conn, step |-> 1])

Path1(f) == Path[ServiceOf[f]]
Rows(f, i) == vnf[Path1(f)[i][1]]

\* The handler reads the first row of the VNF, in the order of the primary key,
\* and goes on with the one of iftype 3 if that is bidirectional.
Bidirectional(f, i) == Rows(f, i) # {} /\ \A x \in Rows(f, i) : x.iftype = 3
VnfAt(f, i) == CHOOSE x \in Rows(f, i) : x.iftype = 3

\* What the handler does once every deletion is sent: it raises when the first
\* VNF is not registered (None is not subscriptable) or is not bidirectional
\* (locator_addr is unbound).
AfterDeletionsInverted(t) ==        \* mutant
    IF Bidirectional(t.flow, 1) THEN NoTask ELSE [t EXCEPT !.pc = "source"]
AfterDeletions(t) ==
    IF Bidirectional(t.flow, 1) THEN [t EXCEPT !.pc = "source"] ELSE NoTask

\* `for dp in self.datapaths.values()`: nothing changes the registry before
\* the handler is over.
OnlyTheDetecting(e) == <<e.conn>>   \* mutant
DeletionTargets(e) == datapaths

\* _packet_in_handler, detection.  A row that cannot be translated raises
\* before anything is sent.
StartDetection ==
    /\ NextEvent("packet_in")
    /\ LET e == Head(events)
           t == [pc |-> "delete", conn |-> e.conn, port |-> e.port,
                 flow |-> e.flow, todo |-> DeletionTargets(e),
                 cur |-> 1, pos |-> 1, step |-> 1]
       IN IF ~ Translatable(e.flow)
          THEN HandledAtOnce /\ UNCHANGED <<datapaths, vnf>>
          ELSE Begin(IF t.todo = <<>> THEN AfterDeletions(t) ELSE t)

InTask(pc) == task # NoTask /\ task.pc = pc /\ MayRun("loop")

\* The handler goes on with t, or is over.
Continue(t) ==
    /\ task' = t
    /\ running' = IF t = NoTask THEN "none" ELSE "loop"
    /\ UNCHANGED <<link, table, datapaths, events, rest, vnf>>

SendDefaultButTheLast ==            \* mutant
    /\ InTask("defaults")
    /\ Send(task.conn, DefaultMods[task.step])
    /\ Continue(IF task.step = 5 THEN NoTask
                ELSE [task EXCEPT !.step = @ + 1])
SendDefault ==
    /\ InTask("defaults")
    /\ Send(task.conn, DefaultMods[task.step])
    /\ Continue(IF task.step = 6 THEN NoTask
                ELSE [task EXCEPT !.step = @ + 1])

\* Delete the detection entry, and whatever else the match covers.
DeleteCatching ==
    /\ InTask("delete")
    /\ Send(Head(task.todo), DeleteFlowMod(task.flow))
    /\ LET t == [task EXCEPT !.todo = Tail(@)]
       IN Continue(IF t.todo = <<>> THEN AfterDeletions(t) ELSE t)

\* The source entry goes to the connection the packet came in on.
SendSource ==
    /\ InTask("source")
    /\ Send(task.conn,
            SourceMod(task.flow, task.port, VnfAt(task.flow, 1)))
    /\ Continue([task EXCEPT !.pc = "chain"])

\* One turn of the loop over the service's VNFs.
CurVnf == VnfAt(task.flow, task.cur)
NextVnf == VnfAt(task.flow, task.pos + 1)
NextRows == Rows(task.flow, task.pos + 1)
NextBidirectional == Bidirectional(task.flow, task.pos + 1)
Index(i) == Path1(task.flow)[i][2]
LastSi == IF task.cur = 1 THEN Len(Path1(task.flow)) ELSE Index(task.cur)
AtEnd == task.pos = Len(Path1(task.flow))

\* The turn raises: KeyError when the switch of the VNF is not registered
\* (swallowed), TypeError when the next VNF is not (logged by the event loop).
AbandonChain ==
    /\ InTask("chain")
    /\ \/ Registered(CurVnf.dpid) = {}
       \/ ~ AtEnd /\ NextRows = {}
    /\ Continue(NoTask)
    /\ UNCHANGED chan

InTurn == InTask("chain") /\ Registered(CurVnf.dpid) # {}

\* A VNF that is not bidirectional is passed over.
SkipVnf ==
    /\ InTurn /\ ~ AtEnd
    /\ NextRows # {} /\ ~ NextBidirectional
    /\ Continue([task EXCEPT !.pos = @ + 1])
    /\ UNCHANGED chan

SendHopWithoutDecap ==              \* mutant
    /\ InTurn /\ ~ AtEnd /\ NextBidirectional
    /\ \E d \in Registered(CurVnf.dpid) :
          Send(d, HopMod(task.step, task.flow, LastSi, Index(task.pos + 1),
                         CurVnf, NextVnf))
    /\ Continue(IF task.step < 2 THEN [task EXCEPT !.step = @ + 1]
                ELSE [task EXCEPT !.step = 1, !.pos = @ + 1,
                                  !.cur = task.pos + 1])
SendHop ==
    /\ InTurn /\ ~ AtEnd /\ NextBidirectional
    /\ \E d \in Registered(CurVnf.dpid) :
          Send(d, HopMod(task.step, task.flow, LastSi, Index(task.pos + 1),
                         CurVnf, NextVnf))
    /\ Continue(IF task.step < 3 THEN [task EXCEPT !.step = @ + 1]
                ELSE [task EXCEPT !.step = 1, !.pos = @ + 1,
                                  !.cur = task.pos + 1])

SendEnd ==
    /\ InTurn /\ AtEnd
    /\ \E d \in Registered(CurVnf.dpid) :
          Send(d, EndMod(task.step, task.flow, CurVnf))
    /\ Continue(IF task.step < 2 THEN [task EXCEPT !.step = @ + 1] ELSE NoTask)

\* The connection the event loop sends to next.
Targets ==
    CASE task.pc \in {"defaults", "source"} -> {task.conn}
      [] task.pc = "delete" -> {Head(task.todo)}
      [] task.pc = "chain" ->
            IF AtEnd \/ NextBidirectional
            THEN Registered(CurVnf.dpid) ELSE {}

\* The send queue is full: other greenlets run until it has room.
LoopBlocks ==
    /\ running = "loop"
    /\ task # NoTask
    /\ \E c \in Targets : ~ CanSend(c)
    /\ running' = "none"
    /\ UNCHANGED <<network, datapaths, events, task, rest, vnf>>

HandleEvent ==
    \/ RegisterDatapath \/ UnregisterDatapath \/ RegisterVnf
    \/ StartDefaults \/ StartDetection

RunTask ==
    \/ SendDefault \/ DeleteCatching \/ SendSource
    \/ AbandonChain \/ SkipVnf \/ SendHop \/ SendEnd

(***************************************************************************)
(* The REST server: api_add_flow and api_delete_flow.                      *)
(***************************************************************************)

SetRest(r, state) ==
    /\ rest' = [rest EXCEPT ![r] = state]
    /\ running' = IF state.pc \in {"next", "send"} THEN r ELSE "none"
    /\ UNCHANGED <<link, table, datapaths, events, task, vnf>>

\* 404 when the flows table has no such row.
StartRequest(r) ==
    /\ running = "none"
    /\ rest[r].pc = "new"
    /\ SetRest(r, IF Subject[r] = NoFlow
                  THEN [rest[r] EXCEPT !.pc = "not_found"]
                  ELSE [rest[r] EXCEPT !.pc = "next", !.size = Len(datapaths)])
    /\ UNCHANGED chan

UnseenButTheLast(r) ==              \* mutant
    {i \in 1..(Len(datapaths) - 1) : datapaths[i] \notin ToSet(rest[r].seen)}
\* Where the iteration has still to go.
Unseen(r) == {i \in DOMAIN datapaths : datapaths[i] \notin ToSet(rest[r].seen)}

\* The next turn of `for dp in sfc_app.datapaths.values()`: an error if the
\* registry has changed size, or if the row cannot be translated.
NextDatapath(r) ==
    /\ MayRun(r)
    /\ rest[r].pc = "next"
    /\ IF Len(datapaths) # rest[r].size
       THEN SetRest(r, [rest[r] EXCEPT !.pc = "error"])
       ELSE IF Unseen(r) = {}
       THEN SetRest(r, [rest[r] EXCEPT !.pc = "ok"])
       ELSE IF ~ Translatable(Subject[r])
       THEN SetRest(r, [rest[r] EXCEPT !.pc = "error"])
       ELSE \E i \in Unseen(r) :
               /\ \A j \in Unseen(r) : i <= j
               /\ SetRest(r, [rest[r] EXCEPT !.pc = "send",
                                             !.seen = Append(@, datapaths[i])])
    /\ UNCHANGED chan

\* add: one detection entry.  delete: the flow's match, then its path id.
RequestModAddAgain(r) ==            \* mutant
    IF Op[r] = "delete" /\ rest[r].step = 1 THEN DeleteFlowMod(Subject[r])
    ELSE CatchMod(Subject[r])
RequestMod(r) ==
    IF Op[r] = "add" THEN CatchMod(Subject[r])
    ELSE IF rest[r].step = 1 THEN DeleteFlowMod(Subject[r])
    ELSE DeleteSpiMod(Subject[r])

SendRequest(r) ==
    /\ MayRun(r)
    /\ rest[r].pc = "send"
    /\ Send(Last(rest[r].seen), RequestMod(r))
    /\ SetRest(r, IF Op[r] = "delete" /\ rest[r].step = 1
                  THEN [rest[r] EXCEPT !.step = 2]
                  ELSE [rest[r] EXCEPT !.pc = "next", !.step = 1])

RequestBusyWaits(r) ==              \* mutant: a send that never yields
    /\ running = r
    /\ rest[r].pc = "send"
    /\ ~ CanSend(Last(rest[r].seen))
    /\ UNCHANGED vars
RequestBlocks(r) ==
    /\ running = r
    /\ rest[r].pc = "send"
    /\ ~ CanSend(Last(rest[r].seen))
    /\ running' = "none"
    /\ UNCHANGED <<network, datapaths, events, task, rest, vnf>>

Serve(r) ==
    \/ StartRequest(r) \/ NextDatapath(r) \/ SendRequest(r)
    \/ RequestBlocks(r)

(***************************************************************************)
(* The specification.                                                      *)
(***************************************************************************)

LinkStep(c) ==
    \/ Connect(c) \/ EnterMain(c) \/ Drop(c) \/ Notice(c) \/ ReportDead(c)
    \/ ApplyMod(c)

Loop == HandleEvent \/ RunTask \/ LoopBlocks

Next ==
    \/ \E c \in Conn : LinkStep(c)
    \/ \E c \in Conn, t \in Traffic : DetectPacket(c, t)
    \/ \E c \in Conn, d \in Datagram : RegisterPacket(c, d)
    \/ Loop
    \/ \E r \in Request : Serve(r)

Spec == Init /\ [][Next]_vars
=============================================================================
