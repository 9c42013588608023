---------------------------- MODULE MCSfcNetwork ----------------------------
(***************************************************************************)
(* Three switches in a line, as in topology.py: hosts on ports 1 and 5,    *)
(* functions on port 2, the links to the neighbours on ports 3 and 4.      *)
(***************************************************************************)
EXTENDS SfcNetwork

CONSTANTS
    v1, v2, f1, f2, add1, add2, mac1, mac2, macB, ipA, ipB, ipC,
    ip4, ip6, nsh, tcp, udp, noArg, noMac, confMac, confIp, confPort

MCFieldValue ==
    0..7 \cup {mac1, mac2, macB, ipA, ipB, ipC, ip4, ip6, nsh, tcp, udp,
               noArg, noMac, confMac, confIp, confPort}

\* f1 goes from A, f2 from C on another port of switch 1, to B on switch 3,
\* both over service 6.
From(src) == {<<"ipv4_src", src>>, <<"ipv4_dst", ipB>>}
MCRow == [f \in Flow |-> IF f = f1 THEN From(ipA) ELSE From(ipC)]
MCServiceOf == [f \in Flow |-> 6]
MCPath == 6 :> <<<<v1, 2>>, <<v2, 1>>>>
MCEntrance == [f \in Flow |-> IF f = f1 THEN <<1, 1>> ELSE <<1, 5>>]
MCExit == <<3, 1>>
MCToward == [st \in Switch \X Switch |-> IF st[2] < st[1] THEN 3 ELSE 4]
MCPeer == [sp \in {sp \in Switch \X {3, 4} :
                      IF sp[2] = 3 THEN sp[1] > 1 ELSE sp[1] < 3} |->
              IF sp[2] = 3 THEN <<sp[1] - 1, 4>> ELSE <<sp[1] + 1, 3>>]

RowAt(s, mac) == [iftype |-> 3, dpid |-> s, in_port |-> 2, locator_addr |-> mac]
MCHome == v1 :> RowAt(2, mac1) @@ v2 :> RowAt(3, mac2)
AllRegistered == [v \in Vnf |-> {Home[v]}]

MCOp == [r \in Request |-> "add"]
MCSubject == [r \in Request |-> IF r = add1 THEN f1 ELSE f2]
AllUp == <<1, 2, 3>>
MCTraffic ==
    [switch : Switch, port : Port, packet : {Plane!Plain(f) : f \in Flow}]
None == {}

\* The network is such as the theorems are about.
ASSUME WellHomeHere == WellHome /\ Heard /\ EndAtExit
=============================================================================
