# Verification of the NSH service function chaining controller

This directory holds TLA+ models of the controller in `src/sfc_nfv.py`, of the
switches and packets it controls, of the way functions are placed and
registered (`src/test_sfc.py`, `src/listen.py`) and of the codecs in `src/ext`;
the TLC runs that check them on small instances; and TLAPS proofs of what holds
for any number of switches, flows, services, functions, messages and actions.

## 1. The system

The system routes the packets of a flow through a chain of virtual network
functions (VNFs). A database (`nfv.sqlite`) has the flows (which packets), the
services (a linked list of VNFs with a service index each) and the VNFs (where
they are). Hosts and functions hang off OpenFlow switches; the controller
programs them.

| Component | State | Operations | Talks to |
|---|---|---|---|
| REST API, `SFCController` | the position of each request in its loop | `api_add_flow`, `api_delete_flow` | reads `datapaths`, sends FlowMods |
| Registry, `_state_change_handler` | `datapaths`: datapath id to connection | register in the main state, remove when dead | events of connections |
| Default entries, `switch_features_handler` | none | six FlowMods for a new connection | the switch |
| Registration, first half of `_packet_in_handler` | `vnf` table | `INSERT OR IGNORE` | datagrams of VNFs through the switches |
| Detection, second half of `_packet_in_handler` | a position in its loops | delete everywhere, source entry, hops, end | reads the database and `datapaths`, sends to many switches |
| Builders: `add_flow`, `del_flow`, `create_match`, `ipv4_to_int` | none | from a row to a FlowMod | `send_msg` |
| Switches (Open vSwitch, external) | four flow tables | modify, look up, encapsulate, send to controller | the controller, each other |
| Allocation, `test_sfc.py` | an integer program, the list of nodes still to be told | solve, tell every node | UDP to the agents |
| Node agents, `listen.py`, `listen2.py`, `send*.py` | sockets | turn a command into a registration | UDP both ways |
| NSH parser, `ext/nsh.py` | header fields | `parser` | called by nothing |
| Nicira codecs, `ext/nx_actions.py`, `ext/nicira_ext.py` | action fields | serialise, parse | the OpenFlow library |
| Topology, `topology.py` | none | builds an emulated network | Mininet |

### What is hard

* The controller runs greenlets: one event loop that runs handlers one at a
  time, one greenlet per REST request, two per connection. A greenlet keeps the
  interpreter until it ends or has to wait. The one place where a handler or a
  request waits is `datapath.send_msg` with a full send queue (16 messages):
  then the others run on its half-finished work, above all between the turns of
  `for dp in self.datapaths.values()`.
* FlowMods to different switches travel on different connections, in no order,
  and packets are under way through the tables while these change.
* Packets of a flow are detected at several switches and several times before
  the deletion of the detection entries arrives.
* Deletions are not strict; an entry replaces one with the same match; flows of
  one service share the entries of table 1.
* Switches connect, lose connections, restart and connect again; the end of an
  old connection is reported after the new one is there.
* Handlers fail in the middle: an unregistered VNF, an unregistered switch.
* Commands and registrations are UDP datagrams: lost, repeated, overtaken; an
  agent ends at the first one it does not understand.
* Service indices of three origins have to meet: the length of the service,
  the column `service_index`, and literal 1 and 0 at the end.
* Forty classes of actions write and read bytes by hand, with optional parts,
  counts, filling and nesting, and a dispatch on subtypes that classes share.

`PROJECT.json` lists each of these at the line where it bites.

### What makes each component correct

* Detection: one place of entry per flow, detection entries replaced
  everywhere, the chain complete, no flow lost, no other flow or default entry
  harmed; a detected flow that is not deleted keeps its place of entry for good
  from some moment on.
* REST: every request ends; what is deleted is gone and stays gone.
* Registry: what has ended leaves it; what is up is in it.
* Default entries: a quiet switch has all six.
* Registration: entries lead to registered functions only, and those that take
  packets from or for a function are on its switch.
* Data plane: a packet visits its functions in order, once, and arrives as sent;
  while tables change it visits no other functions and none out of order.
* Allocation and agents: the table holds the allocation and nothing else,
  functions of a request stand apart, and all of it is stored unless lost.
* Codecs: what is written is found again, action by action and attribute by
  attribute, or is one of the exceptions that are named.

## 2. The modules

| Module | Models |
|---|---|
| `OpenFlow` | matches, entries, FlowMods; how a switch applies and looks up |
| `SfcRules` | from the database to entries: matches of a flow, defaults, source, hop and end entries, deletions |
| `SfcController` | the application, its requests, connections and switches |
| `SfcControllerProps` | what it should guarantee, and the first inductive invariants |
| `SfcInvariants` | conditions on behaviours, and the inductive invariants of the later theorems |
| `MCSfcController` | instances of it for TLC |
| `DataPlane` | the walk of one packet over tables: lookup, encapsulation, NORMAL, functions |
| `ServiceChain` | the abstract promise of a chain to a packet |
| `SfcForwarding`, `MCSfcForwarding` | `DataPlane` over the tables of complete chains, the networks its theorems are about, and the invariants of packets; implements `ServiceChain` |
| `SfcNetwork`, `MCSfcNetwork` | `SfcController` and `DataPlane` together: packets while tables change; the inductive invariant of both |
| `Allocation` | `test_sfc.py`: the integer program and the telling of the nodes |
| `Deployment`, `MCDeployment` | `Allocation`, datagrams, agents and the vnf table; implements `FunctionRegistry` |
| `FunctionRegistry` | the abstract promise: places given once, and apart |
| `Bytes` | byte strings, big-endian numbers, `msg_pack_into` |
| `NxFields` | `nicira_ext.py`: fields, headers, ranges of bits, subtypes, sizes |
| `NxFraming` | `NXAction.serialize`: header and length |
| `NxActions` | every action class: what it writes and what it reads |
| `NxStream` | a list of actions written into an instruction and read back |
| `NxCodec`, `MCNxCodec` | the classes of `NxActions` in `NxStream`, and what survives |
| `NshHeader` | `nsh.py`: the header as drawn, the parser as written |

`*_proofs` modules hold the theorems of section 4.

### OpenFlow and SfcRules

A header is a field and a value. A match and a packet are sets of headers, so
"accepts" is the subset relation, and so is "at least as specific as". An entry
carries one history field, `flow`: the row it was made for; no switch reads it.
`AddMod` and `DelMod` are `add_flow` and `del_flow`, with the default table 0 of
a deletion and the metadata that is written only with a table to go to.

A flows row is the set of its columns that are not NULL. `FlowMatch` keeps what
`create_match` keeps: it drops 0 as well as NULL. A VNF has at most one row per
`iftype` (the primary key of the table); only `iftype` 3 is bidirectional, as
`listen.py` registers it. The controller reads "the first row" without an
order; SQLite gives it by the primary key, so a VNF is used only when all its
rows have `iftype` 3 (`Bidirectional`).

### SfcController

| Variable | Stands for |
|---|---|
| `link`, `chan`, `table` | state of a connection, its unprocessed FlowMods, the tables of a switch |
| `datapaths` | the registry, in insertion order |
| `events` | the application's event queue |
| `task` | the handler of the event loop that sends, and where it is |
| `rest` | every request: where it is, the size of the registry when its loop began, what it has seen |
| `running` | the greenlet that has the interpreter |
| `vnf` | the vnf table |

Handlers that do not send (`RegisterDatapath`, `UnregisterDatapath`,
`RegisterVnf`) are one action. The others are one action per message, with
`running` kept until the handler ends; when the queue is full `LoopBlocks` (or
`RequestBlocks`) gives the interpreter away, and the same message is sent later.
A closed connection discards what it is sent. What the code raises is an action
too: `AfterDeletions` and `AbandonChain` end the task where the handler raises,
`NextDatapath` ends a request with an error when the registry has changed size.
`Notice` and `ReportDead` are two steps because a connection's greenlets end
before the application is told.

Most properties are about `Final(s)`: the table a switch will have once what is
under way has arrived, additions that a later deletion does not cover.

### DataPlane, SfcForwarding, SfcNetwork

A frame is the sequence of the headers of its layers; `Output` applies an
entry's actions to it. A function that knows nothing of NSH takes plain frames
and returns them on its port. NORMAL forwards along the line of switches to
where an address has been learnt.

`SfcForwarding` gives it the tables the handler installs when every flow has
been detected at its entrance and every function is registered. `WellBuilt` says
of networks of any size what `topology.py` and the agents make of the
demonstration's, `WalkInv` where a packet can be in one. `SfcNetwork`
gives it the variable `table` of `SfcController`: `ControlStep` is a step of the
controller, a connection or a switch, `MovePacket` one of the packet, and
`DetectLive` is both: the packet meets a detection entry, and the controller
hears of it with the port it came in by. A switch takes a packet through its
tables before it changes them (the guard of `ControlStep`). `TablesAsAssumed`
closes the gap: the controller arrives at the tables `SfcForwarding` assumes.
Functions are at the place `Home` gives them, so `Plane`, the instance of
`SfcForwarding`, has that as its only placement, and `WellHome` says that they
are registered there (TLC evaluates it on the instance of `Network`). `Traffic`
has the packets that `DetectLive` can be about (`Heard`), so that a step of the
network is one of the controller, or none.

### Allocation and Deployment

The solver is external: `Solve` takes any optimal solution of the constraints
of the program or, when there is none, any values at all, as the program does
not look at the status. The number of a request is a string, which
`LpVariable.dicts` takes for the list of its characters: from the tenth request
on there are no variables under it, and the program raises (`KeyMissing`,
`RaiseSolving`). `RaiseSending` is the missing socket or the value that is no
number, in the middle of the loop.

`Deployment` adds sets of datagrams in both directions (`Lose`, `Arrives`: with
a copy still to come), the agent of every node (`Register`; `NoSocket` when it
has none to register with and exits; `EndAgent` for an empty or malformed
command; `Unheard` when nobody listens) and `INSERT OR
IGNORE` on function and interface. `Type` is what an operator sends to an agent
with `send.py`. A place is the node: what stands for the switch, port and
address under which a datagram comes in.

### Bytes to NxCodec, NshHeader

An action is a record of its class and attributes. A class that packs one format
string is a list of items, by which the same bytes are written (`Pack`) and read
(`Unpack`); the others (note, learn, bundle, NAT, connection tracking,
`Controller2`, `DecTtlCntIds`, `RegLoad2`, `RegMove`) have a body and a reader of
their own. What raises while it is read is `NotRead`. `NxStream` has the loop of
the writer, one action per step, and that of the reader: positions, lengths,
filling. `Survives` lists exactly which actions a reader gets back.

`NshHeader` writes the header as the drawing in `nsh.py` has it (`Drawn`) and
reads it by the masks and shifts of `parser`.

## 3. Runs

`tlc -workers 2 -config <run>.cfg <module>`; all finish in less than five
minutes.

| Run | Instance | Shows |
|---|---|---|
| `Detection` | 3 switches, 2 flows and services, both added and detected repeatedly | `SingleSource`, `DetectionReplaced`, `ChainComplete`, `AddedFlowKept`, `EntriesFromRows`; no step takes another flow's entry (`OwnEntriesOnly`) or a default (`DefaultsStay`) |
| `Lifecycle` | 2 switches, add, delete and an unknown flow; functions register from two places, one of them also as one of a pair | `FollowsRegistrations`, `DeletedIsGone`, `NoResurrection` |
| `Blocking` | send queues of 1 message, event queue of 1 event, with fairness | `SingleSource` when every loop is suspended, `RequestsEnd`; from some moment on a detected flow has a source entry, or its deletion has been requested (`DetectionConverges`) |
| `Reconnect` | 2 connections per switch, 1 loss, restarts | `DeadWillLeave`, `QuietIsSetUp` |
| `Forwarding` | 4 switches in a line, 3 functions, 2 services, all placements on one port | `IndexIsRemaining`, `RightFunction`, `ImplementsService` |
| `Network` | 3 switches, 2 functions, 2 flows of one service, 3 packets, 2 detections | `InOrder`, `StaysInChain`, `DetectionEverywhere`, `TablesAsAssumed`, `ChainWorks` |
| `Deployment` | seven problems, four with and two without a solution and one of ten requests, 1 datagram lost and 1 repeated, two commands typed by hand | `FollowsAllocation`, `Apart`, `EvenShare`, `Stored`; implements `FunctionRegistry` (`KeepsPlaces`) |
| `Codec` | every class, every field in every class that takes one, lengths across the filling, pairs of different lengths, up to two nested actions | `Aligned`, `Framed`, `ReadsBack`, `DeclaredSizes`, `HeadersAgree`, `RangeKept` |

Four runs find what the code does against what a comment or the documentation
says of it; each is a finding of `PROJECT.json`:

| Run | Violates | What happens |
|---|---|---|
| `LostSession` | `UpIsRegistered` | a reconnected switch ends up outside the registry |
| `DeletedPath` | `DeletedPathIsGone` | "delete spi match" deletes nothing: wrong table |
| `MidPath` | `SourceAtEntrance` | a flow detected in the middle of its way gets its source entry there |
| `EncapNsh` | `SentIsRead` | the NSH encapsulation is read back as the Ethernet one |

### Preconditions that the runs and theorems have

What the code does outside of these is known and in no run; each was found with
TLC on an instance without the precondition, or is the line of a hazard.

* No row has the address 0.0.0.0: `create_match` drops it, and the deletion of
  the flow then covers a default entry. (`SourcesGiven`)
* Functions are registered before their flow is detected: otherwise the handler
  raises after the detection entry has been deleted, and the flow is lost.
  (`FirstReady`, of the first function, for `AddedFlowKept`; `Ready`, of all of
  them, for `ChainComplete`)
* Rows differ in more than their Ethernet columns, none being a part of another
  (`RowsApart`), and switches accept their matches (`RowsAccepted`): a flow's
  entries are otherwise replaced or deleted by another's, or refused.
* No row has an Ethernet address: the middle entries leave those columns out, so
  the deletion of such a row does not cover them. (`NoEthernet`)
* No two requests add one flow: the second puts detection entries next to the
  source entry. (`AddedOnce`)
* No connection is lost (`NoneLost`) where the tables of all switches are
  compared: one that is away when a source entry is deleted keeps it.
* Switches that a chain needs stay registered (`Ready`) and are there
  when the flow is added (`DetectionEverywhere`).
* Send queues do not fill while a flow is added (`DetectionReplaced`): a
  suspended request leaves detection entries behind. `Blocking` has full queues
  and checks what holds with them. (`Smooth`: no connection lost, no queue full,
  for `DetectionReplaced`, `DeletedIsGone`, `ChainComplete`, `StaysInChain`)
* The column `service_index` counts down to 1 (`CountingDown`), and no two
  functions of a service stand on one port of one switch (`Ready`): the entries
  of two hops otherwise match the same. (`ChainComplete`)
* Functions of a service stand on ports with one number: the entry that hands a
  packet over takes the port of the next function (line 371). They stand on
  switches of their own, none on the entrance. (`WellPlaced`; `Forwarding`,
  `Network`)
* A trunk leads to a trunk and hosts and functions are on other ports
  (`WellLinked`); a row that has an Ethernet destination has that of the host at
  the exit, and its packets are no registrations (`WellAddressed`). These,
  `WellPlaced`, `CountingDown`, `RowsApart` and `RowsAccepted` are `WellBuilt`,
  which TLC evaluates on the instance of `Forwarding`.
* All functions of a service are bidirectional there: one that is passed over
  leaves a gap in the indices.
* Before a source entry is in place packets bypass the chain; a packet that
  enters early may leave it. `InOrder` holds all the time, `ChainWorks` from when
  nothing made for the flow is under way. `StaysInChain` is for the flow of a
  service detected first, and its first detection, until its deletion is
  requested: a second detection, or the deletion, deletes the middle entries, and
  another flow of the service replaces those of table 1. The last function is on
  the switch of the exit (`EndAtExit`): on another one between them the detection
  entry may still be there.
* A flow has its detection entries until a packet of it is detected or its
  deletion is requested (`DetectionEverywhere`).
* A row with `udp_dst` has `udp_src` too, or no detection entry is installed.
* Operators register interfaces, not bidirectional functions, by hand
  (`OnlyInterfaces`).
* Ranges of at most 64 bits (`RangeKept`); numbers below 2^31, TLC's integers.
  What does not come back from the wire is written down in `Survives`: a field
  of 8 header bytes where the format has 4, a number or `None` for the field of a
  zone, a learn specification of 1024 bits or more, or that matches 0 bits of a
  subfield, or whose number its bits cannot hold, `pause = False`, empty user data, the end of an unknown action's data, an
  action nested behind one that does not fill its length, and the NSH
  encapsulation.

### Bounds, and why they are enough

* Three switches are the least with an entrance and two functions apart; two
  flows the least that can harm each other. `Detection` and `Network` have both.
* `QueueCap` is 16 where suspension is not the question (no queue fills: at
  most 7 messages of one handler go to a connection and detection waits for
  `MaxBehind`), and 1 in `Blocking`, where every second send suspends.
* `EventCap` is 1 to 3: the properties need one packet handled, one waiting,
  and one event of another kind. Full event queues stop the connections, as in
  the code.
* `MaxBehind`: a packet is detected while no connection has more than this many
  FlowMods pending. With 1, detections overlap with the deletions of the last
  one. It bounds how far a switch lags, not how often packets are detected.
* `MaxConn` 2 and `MaxDrop` 1: an old and a new connection of one switch.
* `MaxPacket` 3, `MaxDetect` 2, `MaxVisit` 3: a packet before, between and after
  the detections of both flows; `MaxVisit` is one more than a chain is long, so
  that a function visited twice would be seen.
* `MaxLoss` and `MaxRepeat` 1: the one datagram that matters; a repeated one
  stays under way and may arrive after any other.
* `MCProblems`: one for every way to have a solution or none, and the first number
  of requests with which the program raises.
* `Codec`: an action's filling depends on its length modulo 8, so lengths run
  over more than 8 values; a reader's position depends only on what stands
  before, so pairs are enough; every field and class is there. `TooLong` is one
  byte more than a length holds.
* Requests are made once each; a repeated request is another one.

`CHECK_DEADLOCK FALSE` is set because the systems may stop: no switch has to
connect, no host to send, a program and a reader of bytes end.

### Fairness

`Fairness` is weak fairness of the event loop, of each request and of each
switch's processing: the hub runs every greenlet that is ready, and a connected
switch reads its connection. Connecting, losing a connection, sending packets
and registering are not fair: nothing makes them happen. `SfcForwarding` and
`FairNet` have weak fairness of the packet's steps: a switch, a link or a
function does not keep a packet for ever; `ChainWorks` needs none of the
controller, since it speaks of a flow whose entries have arrived. `Deployment`
has weak fairness of the program, the agents and the controller: they run, and
a datagram that is not lost arrives. The codecs are sequential: no fairness.

## 4. Proofs

`tlapm <module>.tla`. The proofs assume of the constants only the named
assumptions of the modules (types; the length of a service is a field value; a
queue has a slot), which TLC evaluates in every run.

**`SfcRules_proofs`** has the lemmas on entries and FlowMods that the modules
about the controller and about packets share: their types, the headers of a row,
the six defaults one by one, what takes an entry out of a table.

**`SfcController_proofs`**

* `Positions`: `Spec => []TypeInv`. `TypeOK` is not inductive: that what a hop
  sends is a FlowMod needs the task to stand inside the service and the
  functions it reads to be registered as bidirectional. `TaskInv` says so for
  each position of the handler; it survives because registrations are handled
  between tasks only. `RequestInv` says that a request that sends has a flow and
  somebody to send to.
* `TypeCorrect`: `Spec => []TypeOK` follows.
* `OnlyOwnEntries`: `Spec => []EntriesFromRows`. With `TypeInv` it is inductive:
  everything sent is one of the defaults, an entry made for a row, or a deletion
  of a row with both addresses, and a switch ends up with nothing else. It holds
  for every interleaving, abandoned handler and lost connection.
* `DefaultsKept`: under `SourcesGiven`, `Spec => DefaultsStay`. An own deletion
  then matches on `ipv4_src` or `nsh_spi`, and no default does; an own entry has
  another priority than the defaults.
* `GoneForGood`: `Spec => NoResurrection`, for every step: a flow that is
  `Forgotten` stays so unless a request to add it sends. What makes it more than
  the guard of one action is the packet-in event: its flow is read from an
  entry's metadata, so entries must carry the metadata of the flow they were
  made for (`MarksInv`).
* `OnlyOwnLost`: if moreover no row is part of another (`RowsApart`),
  `Spec => OwnEntriesOnly`: an entry of table 0 has all the fields of its row but
  the Ethernet ones, so a deletion that covers it would make its row part of
  that one's. `Detection` has such rows.

**`SfcRegistry_proofs`**

* `DeadLeaves`: `Spec => []DeadWillLeave`, from `RegistryInv`. The event of the
  end alone is not inductive: the registration of a connection that has ended
  meanwhile may still be in the queue, and the handler deletes by datapath id.
  So a switch is registered once (the handler of line 127 looks first), and the
  end of a connection stands behind its registration (`EndFollows`).
* `PlacesFollowed`: `Spec => []FollowsRegistrations`, from `ReachInv`: the same
  of every entry installed or sent, whether it will stay or not. What takes
  packets from a function by its port (table 0), or for one by its address (table
  1), is on the switch of *that* function (`TakenAt`); the other entries of table
  1 match on path and index only, and are on the switch of some function. It survives a
  registration because rows are only ever added (`ReachStays`), and a hop
  because the functions it reads are usable where the task stands (`TaskInv`).
* `QuietSwitchesSetUp`: under `SourcesGiven`, `Spec => []QuietIsSetUp`, with
  losses and restarts. `SetUpInv`: of a connection whose first event has been
  taken, each default is in the table, on its way, or still to be sent by the
  handler of that event. Three more invariants carry it: nothing is queued for
  or known of a connection that was never made (`MetInv`); a switch connects
  again only when its last connection is gone (`OneAtATime`); and own FlowMods
  take no default away (`EntriesFromRows`, as in `DefaultsKept`).

The module also proves two invariants of well-behaved networks, for the theorems
below. `UpInv`: while no connection is lost the registry only grows, and a
packet-in event stands behind the registration of its connection. `AtomicInv`:
while no queue is full, a handler, and a turn of a request, ends before anything
else runs.

**`SfcFinal_proofs`** is about `Final`, where no connection is lost. Each
theorem has the form `Spec /\ []Condition => []Property`: the condition says
which behaviours it is about, and the runs that check the property consist of
such behaviours only.

The lemmas `FinalSent`, `FinalApplied` and `FinalShrinks` say once what every
kind of step does to `Final`: a FlowMod sent adds its entry and takes away what
it covers; a switch that applies one adds nothing and loses only what that entry
replaces, or an entry it refuses; nothing else changes it while connections
stay. They rest on `AfterSent` and `AfterApplied`, for any table and queue.

* `OneEntrance`: `Spec /\ []NoneLost => []SingleSource`, with queues of any size
  and handlers suspended anywhere, as in `Blocking`. `SourceInv`: a source entry
  is only where the handler that is deleting has still to come, and nowhere when
  it is about to send the new one. The registry must not grow meanwhile (only
  the event loop changes it) and must hold every switch with a source entry
  (`UpInv`).
* `EntryChanged`: under `AddedOnce`, `Spec /\ []Smooth => []DetectionReplaced`,
  where `Smooth` is `NoneLost` and no full queue. `CatchInv` says of detection
  entries what `SourceInv` says of the source, and that a flow has no source entry
  while it is being added: before the only request that adds it, it is
  `Forgotten`.
* `AddedStays`: if the rows are apart and accepted and some switch is up at the
  start, `Spec /\ []NoneLost /\ []FirstReady => []AddedFlowKept`. `KeptInv`:
  an entry of the flow will be in some table 0, or the handler of its packet
  stands before its source entry. Another row's entry or deletion takes none
  away. The handler's own end without a source entry is what `FirstReady`
  excludes.
* `DeletionAnswered`: under `NoEthernet`, `Spec /\ []Smooth => DeletedIsGone`.
  `GoneInv`: the switches that a deletion has been through have nothing of the
  flow left in table 0, on the last one from the first of its two messages on.
  It compares what the request has seen with the registry at its end, which has
  the size it had when the loop began.
* `ChainsComplete`: if service indices count down, the rows are apart and
  accepted, `Spec /\ []Smooth /\ []Ready => []ChainComplete`, for services of any
  length. `Ready` keeps the functions of every service registered, as
  bidirectional, on registered switches and on (switch, port) pairs of their own
  within the service; `Detection` satisfies all of it.

  What is difficult is that flows share entries: those of table 1 belong to a
  service. So the theorem speaks of effects. `CatalogInv` lists what a flow's
  entries can be, `ChainShape` that each position and step of a service has a
  match of its own, and `EffectByKey` follows: two entries of the catalogue with
  one table, priority and match do the same. An entry in place (`InPlace`) is
  therefore replaced only by one of its effect; what deletes it is a deletion of
  its own row (`ChainDeleted`). `ChainInv` says that, of a flow that has a source
  entry and is not being deleted, all is in place that the handler has come to,
  which at its end is everything. Two more parts carry it: one handler at a time
  (`AtomicInv`), and `EmptiedInv`: a deletion leaves no source entry where it has
  been, so when it is done the flow has none anywhere.

**`Deployment_proofs`** (under `OnlyInterfaces`, where it matters)

* `TableFollowsAllocation` (of rows of interface type 3, the ones chains use, and
  of one run of the program), `RequestsApart`: `Placed` says of each place, from
  the solution over commands and registrations under way to the table, that it
  is the one chosen, and that with a solution the choices for one request are
  different. Loss and repetition only shrink or keep the sets of datagrams.
* `RegistryKept`: `Spec => KeepsPlaces`, the refinement of `FunctionRegistry`:
  each step gives one function its place, or none.
* `DeploymentTypeOK`.

**`Codec_proofs`** (for actions with any bodies, and lists of any length)

* `StreamAligned` (beginnings of actions, and where the reader stands),
  `StreamFramed`, `StreamTypeOK`: by one invariant. Its core,
  `Placed(k)`, says where the k-th action is in the buffer, that its header and
  body are there, and that what follows up to its length is zeros *as far as the
  buffer goes*, since `serialize` counts filling that it does not write. The next
  header writes the filling of the last; the instruction that of the last
  action. That works because the buffer is never longer than the offset.
* `RangePacked`: every range of at most 64 bits within the first 1024 comes back
  from the 16 bits it is packed into; no longer or later one does.
* `ParserReads`: the NSH parser finds the header that was drawn, all values of
  all fields. `NothingDropped`: conversely, of 8 bytes it drops the unassigned
  bits only. `PayloadFound`: `4 * length` bytes on, the payload begins.

**`SfcForwarding_proofs`** (for networks that are `WellBuilt`)

* `Walk`: `Spec => []WalkInv`, for services of any length, any number of flows
  that share them, and any network of switches. `WalkInv` says that a packet is
  entering, or carried to the function whose turn it is, or in it, or back from
  it, or leaving, or delivered, and in which form. It is inductive because the
  form tells a switch what to do: `PlainNext` finds the one entry of table 0 that
  takes a plain packet at an entrance or on a function's port, whatever else is
  in the table (`SameRow`: other rows' entries do not take it), and `NshInTable1`
  those of table 1 that take an encapsulated one: on the switch of the function
  the entry that unpacks it, on any other one that changes nothing. When two
  entries of one priority match, both do the same (`Met`). NORMAL then leads to a
  trunk, the function or the exit (`NormalPortsAre`, `Places`).
* `IndexCountsDown`, `FunctionsInTurn`, `PlainFrames` (none is handed to a
  function with its headers) and `ForwardingTypeOK` follow: types, one layer or
  three, and no packet is lost.
* `ServiceKept`: the safety part of `ImplementsService`. A step out of a function
  is `Visit`, the step to the exit is `Deliver` (the packet has then been through
  all its functions, and is as it was sent), any other a stutter.

**`SfcNetwork_proofs`** (for networks that are `WellHome`)

* `NetInvariant`: `NetSpec => []NetInv`; the types of `NetTypeCorrect` follow. Of
  the controller it says that what is on a switch, or on its way to it, is one of the entries that
  the handlers send to *that* switch when functions are at home (`HomeInv`); of
  the packet, that its frame is plain, or built for one function of its service,
  and in a table where it can be (`FrameInv`). The first half is inductive
  because the handler passes over no function, so that the position it sends for
  is the one it reads (`task.cur = task.pos`).
* `FunctionsInOrder`: `NetSpec /\ []SourceAtEntrance => []IsPrefix(visited,
  Chain)`, for any number of detections, and `ChainInOrder`, the same for
  `InOrder`. Any part of the entries may be missing, on any switch, so a packet
  may fall through to NORMAL with its headers or without: `OnCourse` is weaker
  than `WalkInv` where it may be and as strong where it matters. A plain packet is
  encapsulated only at its entrance or on the port of the function it has just
  left, and for the next one (`PlainMeets`); one with headers is unpacked only on
  the switch of the function it is for (`NshMeets`). The hypothesis is needed, and
  not about the present alone: `MidPath` shows a source entry in the middle of a
  way, and the packets it has misled may outlive it. `DetectedOnce` says of one
  state what the hypothesis says of all; in the run, where nothing takes source
  entries away, that is enough.
* `ControllerInNetwork`: under `Heard`, `NetSpec => Spec`. A packet that a
  detection entry takes is plain (`DetectedIsPlain`) and of the flow it was made
  for (`SameRow`), and hosts can send such a packet there. So every theorem of
  `SfcController_proofs`, `SfcRegistry_proofs` and `SfcFinal_proofs` holds in the
  network.
* `TablesArrived`: under `AddedOnce` and `SourcesGiven`, `NetSpec /\ []Smooth /\
  []Ready => [](Joined /\ NoneDeleting => TablesAsAssumed)`: every switch is up,
  and no deletion under way. It joins the two halves of the project: the
  controller arrives at the tables that `SfcForwarding` starts from. Nothing is
  missing by `QuietIsSetUp` and `ChainInv`; nothing is too much because all that
  is there was sent from home (`HomeInv`), a flow with its source entry has no
  detection entry (`DetectionReplaced`) and no other source (`SingleSource`), and
  what is left of it was sent for the same place (`ChainModsAre`).
* `DetectionSpread`: if all switches are up from the start, `NetSpec /\ []NoneLost
  => []DetectionEverywhere`, with queues of any size. `CatchesThere`: of a flow
  not yet detected or to be deleted, the entry will be on each switch that the
  request to add it has sent to, and when it is answered it has been to all of
  them. Only the handler of a packet of the flow deletes it, and that the handler
  runs for detected flows only is `HeardOnly`, which does not hold of the
  controller alone. On the switch it is replaced by itself only (`CatchReplaced`).
* `ChainKeepsPacket`: under `Heard`, `AddedOnce` and `EndAtExit`, `NetSpec /\
  []Smooth /\ []Ready /\ []SourceAtEntrance => []StaysInChain`. The flows it is
  about are `First`, which no step becomes (`FirstBefore`). Three invariants lead
  to the packet:

  1. `StageInv`, of the controller. Such a flow is `Unheard`, `Waiting` in the
     queue before every other packet, `Entering` (the handler has not come to its
     chain) or `Linked` (it has its source entry, and while its own handler runs
     all entries of table 1 are its own, sent up to where that handler is). In the
     first three nothing at all is handed to a function (`NoneTaking`). So what
     hands packets to a function of the flow arrives after the entry that takes
     them back and the deletion of the detection entry (`FinalGuarded`, from
     `ChainInv` and `DetectionReplaced`); another flow's handler, whose table 1
     entries replace these, runs only later.
  2. `GuardedInv`, of the tables. That is about when everything sent has arrived;
     a connection keeps its order, so it holds after every part of what is under
     way, the table as it is included (`GuardedApplied`).
  3. `PacketInv`. What is handed to a function without headers was handed to it by
     an entry that stays or is replaced by its like (`TakenStays`); so the switch
     has that entry when the packet comes back, and by 2 the next one
     (`NextStaying` of `SfcForwarding_proofs`, step by step).

The invariants were checked with TLC on the instances of `Detection`,
`Lifecycle`, `Blocking`, `Reconnect`, `Forwarding` and `Network` that satisfy
their conditions, before they were proved (`NetInv` with two packets).

Only model-checked: that packets arrive at all (the fairness of
`ImplementsService`), and `EvenShare`, an optimum. What single classes of actions
write and read (`NxCodec`) is too: bodies are recursive there, since connection
tracking nests actions; of `RangeKept`, `RangePacked` proves the packing itself.
Liveness under fairness and refinements that include it are out of the prover's
reach.

## 5. Not modelled

* The outer Ethernet source (copied from the detected packet): no entry matches
  on it. Logging, JSON (`to_jsondict`), HTTP texts.
* The flows and service tables change in no operation of the code: constants.
  Cyclic services are excluded by the type of `Path`; on one the code loops for
  ever. A name is taken to stand for a VNF's id, so that the second unique index
  of the vnf table, name and iftype, says nothing more.
* Functions that understand NSH, return traffic, address learning by flooding:
  no code in the repository does them.
* `listen2.py` prints what it receives (its call of `dealWithMsg` is commented
  out) and `send2.py` is `send.py` with its port: they keep nothing. What nodes
  do to install a function is a print statement in `listen.py`.
* The solver of `test_sfc.py`; the files it writes are logs.
* In the codecs: numbers from 2^31 on (TLC's integers), and constants of
  `nicira_ext.py` that no code reads.
* `topology.py` builds a network and ends: its line of switches is the instance
  of `MCSfcForwarding` and `MCSfcNetwork`. The database file and the captured
  packets have no behaviour.

## 6. Plan

Done: the controller with its rules, requests and connections; packets over
complete and over changing tables; allocation, agents and registration; the
codecs and the NSH parser; the proofs of section 4.

Left:

1. The two runs of the allocation program that mix their places, as a second
   run in `Deployment`.
2. `StaysInChain` and `InOrder` from `DetectedOnce` alone: the proofs assume
   `SourceAtEntrance` of every state before.
