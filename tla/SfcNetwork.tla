----------------------------- MODULE SfcNetwork -----------------------------
(***************************************************************************)
(* The whole system: the controller writes the tables of the switches      *)
(* while hosts send packets through them.                                  *)
(*                                                                         *)
(* SfcController is taken as it is but for what hosts put on the wire:     *)
(* here the controller hears of a flow when a packet of the data plane     *)
(* meets a detection entry.  One packet is under way at a time.            *)
(***************************************************************************)
EXTENDS SfcControllerProps

CONSTANTS
    NoMac, Entrance, Exit, ExitMac, Toward, Peer,   \* as in DataPlane
    Home,           \* Home[v]: where function v is, as a row of the vnf table
    MaxPacket,      \* bound: packets that hosts send
    MaxDetect,      \* bound: packets that are detected
    MaxVisit        \* bound: functions a packet goes through

ASSUME HomeAssumption ==
    /\ Home \in [Vnf -> VnfRow] /\ Entrance \in [Flow -> Switch \X Port]
    /\ MaxPacket \in Nat /\ MaxDetect \in Nat /\ MaxVisit \in Nat

VARIABLES
    sent, frame, at, tbl, phase, visited,   \* the packet, as in DataPlane
    packets,        \* how many packets there have been
    detected        \* the flows of the packets that have been detected

packet == <<sent, frame, at, tbl, phase, visited>>
history == <<packets, detected>>
allVars == <<vars, packet, history>>

\* The data plane, without the fixed tables that SfcForwarding starts from.
Plane == INSTANCE SfcForwarding WITH place <- Home, Placement <- {Home}

NetTypeOK ==
    /\ TypeOK
    /\ Plane!PacketOK
    /\ packets \in 0..MaxPacket /\ detected \in Seq(Flow)

NetInit ==
    /\ Init
    /\ sent \in Flow
    /\ frame = <<Plane!Plain(sent)>> /\ at = Entrance[sent] /\ tbl = 0
    /\ phase = "lost" /\ visited = <<>>
    /\ packets = 0 /\ detected = <<>>

(***************************************************************************)
(* Packets.                                                                *)
(***************************************************************************)

SendPacket(f) ==
    /\ phase \in {"delivered", "lost"} /\ packets < MaxPacket
    /\ Plane!Emit(f)
    /\ packets' = packets + 1
    /\ UNCHANGED <<vars, detected>>

\* Table 2 is left to DetectLive.
MovePacket ==
    /\ Plane!Move \/ Plane!Discard
    /\ tbl' # 2 /\ Len(visited') <= MaxVisit
    /\ UNCHANGED <<vars, history>>

\* The packet itself goes no further: the controller never sends it back.
Wire == [switch |-> at[1], port |-> at[2], packet |-> Plane!Visible]
DetectLive(c) ==
    /\ phase = "switch" /\ tbl = 0
    /\ Len(detected) < MaxDetect
    /\ DetectPacket(c, Wire)
    /\ phase' = "lost" /\ detected' = Append(detected, sent)
    /\ UNCHANGED <<sent, frame, at, tbl, visited, packets>>

(***************************************************************************)
(* The specification.                                                      *)
(***************************************************************************)

\* A switch takes a packet through all its tables before it changes them.
ControlStep ==
    /\ \/ \E c \in Conn : (tbl = 0 \/ Dpid(c) # at[1]) /\ LinkStep(c)
       \/ \E c \in Conn, d \in Datagram : RegisterPacket(c, d)
       \/ Loop
       \/ \E r \in Request : Serve(r)
    /\ UNCHANGED <<packet, history>>

NetNext ==
    \/ ControlStep
    \/ \E f \in Flow : SendPacket(f)
    \/ MovePacket
    \/ \E c \in Conn : DetectLive(c)

NetSpec == NetInit /\ [][NetNext]_allVars
\* Switches, links and functions do not keep a packet for ever.
FairNet == NetSpec /\ WF_allVars(MovePacket)

(***************************************************************************)
(* Properties.                                                             *)
(***************************************************************************)

Chain == Plane!Functions(sent)

Detections == {i \in DOMAIN detected : detected[i] = sent}

\* "Source entry: located in the entrance of service flow" (README.md:48).
AtEntrance(f, s, e) == s = Entrance[f][1] /\ <<"in_port", Entrance[f][2]>> \in e.match
SourceAtEntrance ==
    \A f \in Flow, s \in Switch : \A e \in table[s] :
        IsSource(e, f) => AtEntrance(f, s, e)

Entered(f) ==
    \E s \in Switch : \E e \in table[s] : IsSource(e, f) /\ AtEntrance(f, s, e)

\* Whatever of the chain is installed yet, on whichever switches, a packet
\* visits functions of its service only, in their order and none twice: also
\* when another flow of the service is being installed (sfc_nfv.py:334-395), but
\* not when its own flow is detected again or within the network.
DetectedOnce ==
    /\ Cardinality({i \in DOMAIN detected : detected[i] = sent}) <= 1
    /\ \A s \in Switch : \A e \in table[s] : IsSource(e, sent) => AtEntrance(sent, s, e)
InOrder == DetectedOnce => IsPrefix(visited, Chain)

\* "routes the decapsulated packet to the connected SF, encapsulates the Type 1
\* NSH header" (README.md:51): a packet that a function has returned stays in
\* the chain up to its end.  The entry that hands packets to a function is sent
\* after the one that takes them back and after the deletion of the detection
\* entry, all on one connection (sfc_nfv.py:293, 334-372).  That protects only
\* the flow of the service that is detected first, only its first detection, and
\* until its deletion is requested: the entries of table 1 are not deleted, and
\* those of the flow in table 0 are, when it is deleted or detected again, and
\* when another flow shares them.  And the last function of the service has to
\* be on the switch of the exit (EndAtExit): on a switch between them the
\* detection entry may still take the packet out of its way.
StaysInChain ==
    /\ visited # <<>> /\ DetectedOnce /\ detected[1] = sent
    /\ \A r \in Asked(sent, "delete") : rest[r].pc = "new"
    =>
        /\ phase = "delivered" => visited = Chain /\ frame = <<Plane!Plain(sent)>>
        /\ phase = "switch" => \A e \in Plane!Lookup : e.goto # 2

\* Nothing is on its way.
Quiet == events = <<>> /\ task = NoTask /\ \A c \in Conn : chan[c] = <<>>

\* "When a new flow is added, only one entry in flow table is added in each
\* switch for detection" (README.md:47): until a packet of it is detected or its
\* deletion is requested, every switch there is has the entry.
DetectionEverywhere ==
    \A f \in Flow :
        /\ Quiet /\ f \notin ToSet(detected)
        /\ \E r \in Asked(f, "add") : rest[r].pc = "ok"
        /\ \A r \in Asked(f, "delete") : rest[r].pc = "new"
        => \A c \in Conn : link[c] = "main" => \E e \in table[Dpid(c)] : IsCatch(e, f)

\* The tables that SfcForwarding starts from are those that the controller
\* arrives at, however often and wherever the flows were detected, once each
\* has a source entry at its entrance.
TablesAsAssumed ==
    Quiet /\ (\A f \in Flow : Entered(f)) =>
        \A s \in Switch :
            /\ \A e \in Plane!Table(Home, s) : \E x \in table[s] : SameEffect(e, x)
            /\ \A x \in table[s] : \E e \in Plane!Table(Home, s) : SameEffect(e, x)

\* Nothing that was made for flow f is on its way, and its entrance is set up.
Settled(f) ==
    /\ Entered(f)
    /\ \A i \in DOMAIN events : events[i].type = "packet_in" => events[i].flow # f
    /\ task = NoTask \/ task.pc = "defaults" \/ task.flow # f
    /\ \A c \in Conn : \A i \in DOMAIN chan[c] : chan[c][i].entry.flow # f

\* "this entry on all switched are deleted and changed to the other entries"
\* (README.md:47): from then on a packet that is sent goes through its chain and
\* arrives as it was, also while another flow of the service is detected, and
\* its entries are deleted, replaced and installed.
JustSent == phase = "switch" /\ tbl = 0 /\ visited = <<>> /\ at = Entrance[sent]
Arrived == phase = "delivered" /\ visited = Chain /\ frame = <<Plane!Plain(sent)>>
ChainWorks == Settled(sent) /\ JustSent ~> Arrived

(***************************************************************************)
(* Networks in which the functions stand where they are registered, and    *)
(* what the controller holds and sends in them: what makes the properties  *)
(* inductive.                                                              *)
(***************************************************************************)

WellHome ==
    /\ Plane!WellBuilt /\ Plane!RowsMatch
    /\ \A v \in Vnf : Home[v].iftype = 3 /\ InitialVnf[v] \subseteq {Home[v]}
    /\ \A d \in Datagram : d.row = Home[d.vnf]

\* Traffic, which the packets of this module take the place of, has what they
\* look like wherever they are.
Heard ==
    \A s \in Switch, p \in Port, f \in Flow :
        [switch |-> s, port |-> p, packet |-> Plane!Plain(f)] \in Traffic

\* The last function of a service stands on the switch of the exit.
EndAtExit == \A f \in Flow : Home[Last(Path1(f))[1]].dpid = Exit[1]

ModFromHome(s, mod) == mod.cmd = "add" => Plane!FromController(s, mod.entry)

\* Every VNF is bidirectional, so that the handler passes over none.
AllAtHome ==
    /\ \A v \in Vnf : vnf[v] \subseteq {Home[v]}
    /\ \A i \in DOMAIN events :
          events[i].type = "register" => events[i].row = Home[events[i].vnf]
    /\ task # NoTask /\ task.pc # "defaults" => task.cur = task.pos

SentFromHome ==
    /\ Plane!OnlyFromController
    /\ \A c \in Conn : \A i \in DOMAIN chan[c] : ModFromHome(Dpid(c), chan[c][i])

HomeInv == AllAtHome /\ SentFromHome

NetInv ==
    /\ TypeInv /\ HomeInv /\ Plane!FrameInv
    /\ packets \in 0..MaxPacket /\ detected \in Seq(Flow)
=============================================================================
