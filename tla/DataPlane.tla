------------------------------ MODULE DataPlane ------------------------------
(***************************************************************************)
(* One packet in a network of switches: their tables are a variable, so    *)
(* that they can be fixed (SfcForwarding) or those the controller is just  *)
(* writing (SfcNetwork).                                                   *)
(*                                                                         *)
(* What a switch does with an entry, how NORMAL forwards, and that a       *)
(* function returns the packet on the port it got it from, is external to  *)
(* the repository; the layers that the actions build and take off are      *)
(* those sfc_nfv.py asks for.                                              *)
(***************************************************************************)
EXTENDS SfcRules, SequencesExt

CONSTANTS
    NoMac,          \* destination of an Ethernet header just pushed
    Entrance,       \* Entrance[f]: <<switch, port>> of the host that sends f
    Exit, ExitMac,  \* <<switch, port>> and address of the host it is for
    Toward,         \* Toward[<<s, t>>]: port of switch s on the way to t
    Peer            \* Peer[<<s, p>>]: where the link on a trunk port leads

ASSUME EntranceAssumption == Entrance \in [Flow -> Switch \X Port]

VARIABLES
    table,      \* the flow tables of every switch
    place,      \* where the functions are
    sent,       \* the flow the packet belongs to
    frame,      \* the packet: the headers of its layers, outermost first
    at,         \* <<switch, port>>: where it came in, or where it went out
    tbl,        \* the table it is in, while it is in a switch
    phase,      \* in a switch, in a function, delivered or lost
    visited     \* the functions it has been through

(***************************************************************************)
(* A packet in a switch.                                                   *)
(***************************************************************************)

Service(f) == Path[ServiceOf[f]]
Plain(f) == FlowMatch(f) \cup {<<"eth_dst", ExitMac>>}

Visible ==
    frame[1] \cup {<<"in_port", at[2]>>}
    \cup (IF <<"eth_type", NSH>> \in frame[1] THEN frame[2] ELSE {})

SetField(fr, field, v) ==
    <<{h \in fr[1] : h[1] # field} \cup {<<field, v>>}>> \o Tail(fr)

Act(fr, a) ==
    CASE a[1] = "encap_nsh" ->
            <<{<<"nsh_spi", 0>>, <<"nsh_si", NoArg>>}>> \o fr
      [] a[1] = "encap_ether" ->
            <<{<<"eth_type", NSH>>, <<"eth_dst", NoMac>>}>> \o fr
      [] a[1] = "set_spi" -> SetField(fr, "nsh_spi", a[2])
      [] a[1] = "set_si" -> SetField(fr, "nsh_si", a[2])
      [] a[1] = "set_eth_dst" -> SetField(fr, "eth_dst", a[2])
      [] a[1] = "decap" -> Tail(fr)
      [] OTHER -> fr

\* The actions of an entry, one after the other.
Acted(e) ==
    LET after[n \in 0..Len(e.actions)] ==
            IF n = 0 THEN frame ELSE Act(after[n - 1], e.actions[n])
    IN  after[Len(e.actions)]

\* Where NORMAL has learnt an address to be.
Located(mac) ==
    IF mac = ExitMac THEN {Exit}
    ELSE {<<place[v].dpid, place[v].in_port>> :
            v \in {v \in Vnf : place[v].locator_addr = mac}}

NormalPorts(s, fr) ==
    {IF l[1] = s THEN l[2] ELSE Toward[<<s, l[1]>>] :
        l \in UNION {Located(h[2]) : h \in {h \in fr[1] : h[1] = "eth_dst"}}}

OutPorts(s, e) ==
    {a[2] : a \in {a \in ToSet(e.actions) : a[1] = "output"}}
    \cup (IF <<"normal", NoArg>> \in ToSet(e.actions)
          THEN NormalPorts(s, Acted(e)) ELSE {})

VnfsAt(loc) == {v \in Vnf : <<place[v].dpid, place[v].in_port>> = loc}

\* A frame leaves switch s by port p.
Leave(s, p) ==
    IF <<s, p>> \in DOMAIN Peer
    THEN at' = Peer[<<s, p>>] /\ phase' = "switch"
    ELSE /\ at' = <<s, p>>
         /\ phase' = IF VnfsAt(<<s, p>>) # {} THEN "function"
                     ELSE IF <<s, p>> = Exit THEN "delivered" ELSE "lost"

\* The entries that may take the packet.
Lookup == Best(table[at[1]], tbl, Visible)

GotoTable ==
    /\ phase = "switch"
    /\ \E e \in Lookup : /\ e.goto # 0
                         /\ frame' = Acted(e)
                         /\ tbl' = e.goto
    /\ UNCHANGED <<sent, at, phase, visited>>

Output ==
    /\ phase = "switch"
    /\ \E e \in Lookup : /\ e.goto = 0
                         /\ frame' = Acted(e)
                         /\ \E p \in OutPorts(at[1], e) : Leave(at[1], p)
    /\ tbl' = 0
    /\ UNCHANGED <<sent, visited>>

\* A function that knows nothing of NSH takes plain frames only.
Serve ==
    /\ phase = "function"
    /\ IF Len(frame) = 1
       THEN /\ \E v \in VnfsAt(at) : visited' = Append(visited, v)
            /\ phase' = "switch"
       ELSE phase' = "lost" /\ UNCHANGED visited
    /\ UNCHANGED <<sent, frame, at, tbl>>

\* A host sends a packet of flow f.
Emit(f) ==
    /\ sent' = f
    /\ frame' = <<Plain(f)>>
    /\ at' = Entrance[f]
    /\ tbl' = 0
    /\ phase' = "switch"
    /\ visited' = <<>>

\* Where the packet goes next; the tables and the functions stay.
Move == (GotoTable \/ Output \/ Serve) /\ UNCHANGED <<table, place>>

\* No entry takes the packet, or none sends it anywhere.
Discard ==
    /\ phase = "switch"
    /\ \A e \in Lookup : e.goto = 0 /\ OutPorts(at[1], e) = {}
    /\ phase' = "lost" /\ tbl' = 0
    /\ UNCHANGED <<table, place, sent, frame, at, visited>>

(***************************************************************************)
(* What every packet may expect of its entries.                            *)
(***************************************************************************)

PacketOK ==
    /\ sent \in Flow
    /\ frame \in Seq(SUBSET Header) /\ Len(frame) \in 1..3
    /\ at \in Switch \X Port
    /\ tbl \in 0..3
    /\ phase \in {"switch", "function", "delivered", "lost"}
    /\ visited \in Seq(Vnf)

Functions(f) == [i \in 1..Len(Service(f)) |-> Service(f)[i][1]]

\* "decapsulates NSH header and Transport Encapsulation of the packet from the
\* last hop , routes the decapsulated packet to the connected SF" (README.md:51):
\* a function, which knows nothing of NSH, is handed plain frames.
PlainAtFunction == phase = "function" => Len(frame) = 1
=============================================================================
