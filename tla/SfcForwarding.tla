--------------------------- MODULE SfcForwarding ---------------------------
(***************************************************************************)
(* The data plane once the controller has detected every flow: one packet  *)
(* among tables that no longer change.                                     *)
(*                                                                         *)
(* The entries are those of SfcRules, on the switches _packet_in_handler   *)
(* sends them to.                                                          *)
(***************************************************************************)
EXTENDS DataPlane

CONSTANT Placement  \* the placements of the functions: [Vnf -> VnfRow]

ASSUME PlacementAssumption == Placement \subseteq [Vnf -> VnfRow]

vars == <<table, place, sent, frame, at, tbl, phase, visited>>

(***************************************************************************)
(* The tables, once every flow has been detected at its entrance.          *)
(***************************************************************************)

\* What the handler sends, and to which switch, when all functions of the
\* service are registered and bidirectional.
ChainMods(pl, f) ==
    LET n == Len(Service(f))
        row(i) == pl[Service(f)[i][1]]
        index(i) == IF i = 1 THEN n ELSE Service(f)[i][2]
    IN {<<row(i).dpid,
          HopMod(step, f, index(i), Service(f)[i + 1][2], row(i), row(i + 1))>> :
            i \in 1..(n - 1), step \in 1..3}
       \cup {<<row(n).dpid, EndMod(step, f, row(n))>> : step \in 1..2}
       \cup {<<Entrance[f][1], SourceMod(f, Entrance[f][2], row(1))>>}

Table(pl, s) ==
    DefaultEntries
    \cup {m[2].entry : m \in {x \in UNION {ChainMods(pl, f) : f \in Flow} :
                                 x[1] = s /\ PrereqOK(x[2].entry.match)}}

Next == Move

Init ==
    /\ sent \in Flow
    /\ place \in Placement
    /\ table = [s \in Switch |-> Table(place, s)]
    /\ frame = <<Plain(sent)>>
    /\ at = Entrance[sent]
    /\ tbl = 0
    /\ phase = "switch"
    /\ visited = <<>>

Spec == Init /\ [][Next]_vars /\ WF_vars(Next)

(***************************************************************************)
(* Properties.                                                             *)
(***************************************************************************)

TypeOK ==
    /\ PacketOK
    /\ place \in Placement
    /\ table \in [Switch -> SUBSET Entry]

\* A frame between two functions carries the path of its service, the number
\* of functions it has still to visit, and the address of the next of them
\* (README.md:98: "set si as the remaining length of the SFC").
IndexIsRemaining ==
    Len(frame) = 3 /\ phase = "switch" =>
        LET left == Len(Service(sent)) - Len(visited) IN
        /\ left > 0
        /\ frame[2] = {<<"nsh_spi", ServiceOf[sent]>>, <<"nsh_si", left>>}
        /\ <<"eth_dst", place[Service(sent)[Len(visited) + 1][1]].locator_addr>>
                \in frame[1]

\* "routes the decapsulated packet to the connected SF" (README.md:51): until
\* it has been through all of them, a packet leaves the switches only for the
\* function whose turn it is.
RightFunction ==
    phase # "switch" /\ Len(visited) < Len(Service(sent)) =>
        phase = "function" /\ Service(sent)[Len(visited) + 1][1] \in VnfsAt(at)

\* The network gives the packet what its service promises.
Promise ==
    INSTANCE ServiceChain
        WITH Chains <- {Functions(f) : f \in Flow},
             chain <- Functions(sent),
             delivered <- phase = "delivered" /\ frame = <<Plain(sent)>>

ImplementsService == Promise!Spec

(***************************************************************************)
(* Networks as the repository's demonstration builds them, and where a     *)
(* packet can be in one: what makes the properties inductive.              *)
(***************************************************************************)

Stands(f, i) == place[Service(f)[i][1]]
Location(row) == <<row.dpid, row.in_port>>

\* Functions have places and addresses of their own.  Those of a service stand
\* on different switches, on ports of one number, the first one not where the
\* flow enters.
WellPlaced(pl) ==
    /\ \A v \in Vnf :
          /\ pl[v].locator_addr # ExitMac
          /\ Location(pl[v]) \notin {Exit} \cup DOMAIN Peer
                                  \cup {Entrance[f] : f \in Flow}
          /\ \A w \in Vnf : v # w => /\ pl[v].locator_addr # pl[w].locator_addr
                                   /\ Location(pl[v]) # Location(pl[w])
    /\ \A f \in Flow : \A i, j \in DOMAIN Service(f) :
          LET a == pl[Service(f)[i][1]]
              b == pl[Service(f)[j][1]]
          IN  /\ a.in_port = b.in_port
              /\ i # j => a.dpid # b.dpid
              /\ i = 1 => a.dpid # Entrance[f][1]

\* A trunk leads to a trunk, hosts are on other ports, and every switch sends
\* over a trunk what is for another one.
WellLinked ==
    /\ Peer \in [DOMAIN Peer -> DOMAIN Peer] /\ DOMAIN Peer \subseteq Switch \X Port
    /\ Exit \in (Switch \X Port) \ DOMAIN Peer
    /\ \A f \in Flow : Entrance[f] \notin DOMAIN Peer
    /\ \A s, t \in Switch : s # t => <<s, Toward[<<s, t>>]>> \in DOMAIN Peer

\* The packets of a flow are for the host at the exit, and are neither NSH nor
\* registrations.
WellAddressed ==
    /\ {NoMac, ExitMac} \subseteq FieldValue
    /\ IPv4 # NSH
    /\ \A f \in Flow :
          /\ <<"eth_type", NSH>> \notin FlowMatch(f)
          /\ \A h \in FlowMatch(f) : h[1] = "eth_dst" => h[2] = ExitMac
          /\ ~ (RegistrationMatch \subseteq Plain(f))

WellBuilt ==
    /\ CountingDown /\ RowsApart /\ RowsAccepted
    /\ WellLinked /\ WellAddressed
    /\ \A pl \in Placement : WellPlaced(pl)

\* The packet as its host sent it, and on the way to the i-th function.
IsPlain == frame = <<Plain(sent)>>
IsFor(i) ==
    frame = <<{<<"eth_type", NSH>>, <<"eth_dst", Stands(sent, i).locator_addr>>},
              {<<"nsh_spi", ServiceOf[sent]>>,
               <<"nsh_si", Len(Service(sent)) + 1 - i>>},
              Plain(sent)>>

\* A packet enters; is carried to the function whose turn it is; is in it; has
\* come back from a function, the last of which it leaves for the exit; or has
\* been delivered.
Turn == Len(visited) + 1
Entering == phase = "switch" /\ tbl = 0 /\ IsPlain /\ visited = <<>> /\ at = Entrance[sent]
Carried ==
    /\ phase = "switch" /\ Turn <= Len(Service(sent)) /\ IsFor(Turn)
    /\ tbl \in {0, 1} \/ (tbl = 3 /\ at[1] # Stands(sent, Turn).dpid)
AtFunction ==
    /\ phase = "function" /\ tbl = 0 /\ IsPlain /\ Turn <= Len(Service(sent))
    /\ at = Location(Stands(sent, Turn))
Returned ==
    /\ phase = "switch" /\ tbl = 0 /\ IsPlain /\ visited # <<>>
    /\ at = Location(Stands(sent, Len(visited)))
Leaving ==
    /\ phase = "switch" /\ IsPlain /\ Len(visited) = Len(Service(sent))
    /\ tbl = 3 \/ (tbl = 0 /\ at \in DOMAIN Peer)
Delivered ==
    phase = "delivered" /\ tbl = 0 /\ IsPlain /\ Len(visited) = Len(Service(sent))

WalkInv ==
    /\ sent \in Flow /\ place \in Placement
    /\ table = [s \in Switch |-> Table(place, s)]
    /\ at \in Switch \X Port /\ visited \in Seq(Vnf)
    /\ Len(visited) <= Len(Service(sent))
    /\ \A i \in DOMAIN visited : visited[i] = Service(sent)[i][1]
    /\ Entering \/ Carried \/ AtFunction \/ Returned \/ Leaving \/ Delivered

(***************************************************************************)
(* The same for tables that the controller is still changing (SfcNetwork): *)
(* whatever part of the chains is installed, wherever flows were detected. *)
(***************************************************************************)

\* What the controller may have sent to switch s.
FromController(s, e) ==
    \/ e \in DefaultEntries
    \/ \E f \in Flow :
          \/ e = CatchMod(f).entry
          \/ \E p \in Port : e = SourceMod(f, p, Stands(f, 1)).entry
          \/ \E m \in ChainMods(place, f) : m[1] = s /\ e = m[2].entry
OnlyFromController == \A s \in Switch : \A e \in table[s] : FromController(s, e)

\* Every row has more columns than the Ethernet ones.
RowsMatch == \A f \in Flow : MiddleFields(f) # {}

\* A frame is as its host sent it, or is for a function of its service.
FrameInv ==
    /\ sent \in Flow /\ at \in Switch \X Port /\ visited \in Seq(Vnf)
    /\ phase \in {"switch", "function", "delivered", "lost"}
    /\ \/ IsPlain /\ tbl \in {0, 3}
       \/ tbl \in {0, 1, 3} /\ \E i \in 1..Len(Service(sent)) : IsFor(i)

\* Source entries are only where flows enter.
SourcesAtEntrance ==
    \A f \in Flow, s \in Switch, p \in Port :
        SourceMod(f, p, Stands(f, 1)).entry \in table[s] => <<s, p>> = Entrance[f]

\* Where a packet can be then.  It may pass switches whose entries are not
\* installed, or reach a function in its headers, and is then forwarded to the
\* exit or lost, but it is never out of turn.
OnCourse ==
    /\ Len(visited) <= Len(Service(sent))
    /\ \A i \in DOMAIN visited : visited[i] = Service(sent)[i][1]
    /\ \/ /\ phase = "switch" /\ IsPlain
          /\ tbl = 0 => Entering \/ Returned \/ at \in DOMAIN Peer
       \/ phase = "switch" /\ Turn <= Len(Service(sent)) /\ IsFor(Turn)
       \/ /\ phase = "function" /\ tbl = 0 /\ Turn <= Len(Service(sent))
          /\ at = Location(Stands(sent, Turn)) /\ (IsPlain \/ IsFor(Turn))
       \/ phase \in {"delivered", "lost"}
=============================================================================
