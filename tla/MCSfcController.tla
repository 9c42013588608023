-------------------------- MODULE MCSfcController --------------------------
(***************************************************************************)
(* Instances of SfcController small enough to explore: up to three         *)
(* switches, two flows, two VNFs.                                          *)
(***************************************************************************)
EXTENDS SfcControllerProps

CONSTANTS
    s1, s2, s3, v1, v2, f1, f2, add1, again1, add2, del1, del2, addNone,
    mac1, mac2, ipA, ipB, ipC, ip4, ip6, nsh, tcp, udp,
    noArg, confMac, confIp, confPort

MCFieldValue ==
    {0, 1, 2, 3, 6, 7, mac1, mac2, ipA, ipB, ipC, ip4, ip6, nsh, tcp, udp,
     noArg, confMac, confIp, confPort}

\* f1 is A -> B over service 6, f2 is C -> B over service 7.
From(src) == {<<"ipv4_src", src>>, <<"ipv4_dst", ipB>>}
MCRow == [f \in Flow |-> IF f = f1 THEN From(ipA) ELSE From(ipC)]

MCServiceOf == [f \in Flow |-> IF f = f1 THEN 6 ELSE 7]
MCPath == 6 :> <<<<v1, 2>>, <<v2, 1>>>> @@ 7 :> <<<<v2, 1>>>>

VnfRowAt(s, port, mac) ==
    [iftype |-> 3, dpid |-> s, in_port |-> port, locator_addr |-> mac]
OneWay(s, port, mac) == [VnfRowAt(s, port, mac) EXCEPT !.iftype = 1]

\* v1 and v2 are away from where f1 enters; on two switches they are not.
VnfsOn3 == v1 :> {VnfRowAt(s2, 2, mac1)} @@ v2 :> {VnfRowAt(s3, 2, mac2)}
VnfsOn2 == v1 :> {VnfRowAt(s2, 2, mac1)} @@ v2 :> {VnfRowAt(s1, 2, mac2)}
NoVnf   == [v \in Vnf |-> {}]

Packet(src, dst) ==
    {<<"eth_type", ip4>>, <<"ipv4_src", src>>, <<"ipv4_dst", dst>>}
Arrives(s, src) ==
    [switch |-> s, port |-> 1, packet |-> Packet(src, ipB)]

\* f1 enters at s1 and is seen on its way, too; f2 enters at s2.
F1Traffic == {Arrives(s, ipA) : s \in Switch}
MCTraffic == F1Traffic \cup {Arrives(s2, ipC)}

\* v1 registers from s2 and, moved, from s1; v2 registers one
\* interface of a pair and, from elsewhere, as bidirectional.
Registers(s, v, row) == [switch |-> s, vnf |-> v, row |-> row]
Datagrams ==
    {Registers(s2, v1, VnfRowAt(s2, 2, mac1)),
     Registers(s1, v1, VnfRowAt(s1, 1, mac1)),
     Registers(s1, v2, OneWay(s1, 2, mac2)),
     Registers(s2, v2, VnfRowAt(s2, 1, mac2))}
NoDatagram == {}

MCOp == [r \in Request |-> IF r \in {del1, del2} THEN "delete" ELSE "add"]
MCSubject == [r \in Request |-> CASE r \in {add1, again1, del1} -> f1
                                  [] r \in {add2, del2} -> f2
                                  [] OTHER -> NoFlow]
All3Up == <<s1, s2, s3>>
All2Up == <<s1, s2>>
Only1Up == <<s1>>
=============================================================================
