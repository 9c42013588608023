-------------------------- MODULE MCSfcForwarding --------------------------
(***************************************************************************)
(* Four switches in a line, as in topology.py: hosts on port 1, functions  *)
(* on port 2 (or 5), the links to the neighbours on ports 3 and 4.         *)
(***************************************************************************)
EXTENDS SfcForwarding

CONSTANTS
    v1, v2, v3, f1, f2, mac1, mac2, mac3, macB, ipA, ipB, ipC,
    ip4, ip6, nsh, tcp, udp, noArg, noMac, confMac, confIp, confPort

MCFieldValue ==
    0..9 \cup {mac1, mac2, mac3, macB, ipA, ipB, ipC, ip4, ip6, nsh, tcp, udp,
               noArg, noMac, confMac, confIp, confPort}

MCRow == f1 :> {<<"ipv4_src", ipA>>, <<"ipv4_dst", ipB>>}
      @@ f2 :> {<<"ipv4_src", ipC>>, <<"ipv4_dst", ipB>>, <<"tcp_dst", 9>>}

MCServiceOf == f1 :> 6 @@ f2 :> 7
MCPath == 6 :> <<<<v1, 3>>, <<v2, 2>>, <<v3, 1>>>>
       @@ 7 :> <<<<v3, 2>>, <<v1, 1>>>>

MCEntrance == f1 :> <<1, 1>> @@ f2 :> <<2, 1>>
MCExit == <<4, 1>>

MCToward == [st \in Switch \X Switch |-> IF st[2] < st[1] THEN 3 ELSE 4]
MCPeer == [sp \in {sp \in Switch \X {3, 4} :
                      IF sp[2] = 3 THEN sp[1] > 1 ELSE sp[1] < 4} |->
              IF sp[2] = 3 THEN <<sp[1] - 1, 4>> ELSE <<sp[1] + 1, 3>>]

Rows(mac, ports) ==
    {[iftype |-> 3, dpid |-> s, in_port |-> p, locator_addr |-> mac] :
        s \in Switch, p \in ports}

Placements(ports) ==
    {v1 :> a @@ v2 :> b @@ v3 :> c :
        a \in Rows(mac1, ports), b \in Rows(mac2, ports), c \in Rows(mac3, ports)}

\* At most one function of a service on a node: constraint (2) of do_lp.
At(pl, f, i) == pl[Service(f)[i][1]].dpid
OneEach(pl) ==
    \A f \in Flow : \A i, j \in 1..Len(Service(f)) : i # j => At(pl, f, i) # At(pl, f, j)

\* And the first one not on the switch the flow enters at.
Apart(pl) == OneEach(pl) /\ \A f \in Flow : At(pl, f, 1) # Entrance[f][1]

\* As in the demonstration: every function on the same port of its switch.
OnePort == {pl \in Placements({2}) : Apart(pl)}

\* The network and its placements are such as the theorems are about.
ASSUME WellBuiltHere == WellBuilt
=============================================================================
