SPECIFICATION Spec
CONSTANTS
    v1 = v1  v2 = v2  v3 = v3  f1 = f1  f2 = f2
    mac1 = mac1  mac2 = mac2  mac3 = mac3  macB = macB
    ipA = ipA  ipB = ipB  ipC = ipC  ip4 = ip4  ip6 = ip6
    nsh = nsh  tcp = tcp  udp = udp  noArg = noArg  noMac = noMac
    confMac = confMac  confIp = confIp  confPort = confPort
    IPv4 = ip4  IPv6 = ip6  NSH = nsh  TCP = tcp  UDP = udp
    NoArg = noArg  NoMac = noMac
    ConfMac = confMac  ConfIp = confIp  ConfPort = confPort
    NoFlow = NoFlow  NoMeta = NoMeta
    Switch = {1, 2, 3, 4}  Port = {1, 2, 3, 4, 5}
    Vnf = {v1, v2, v3}  Mac = {mac1, mac2, mac3, macB}
    ServiceId = {6, 7}  Flow = {f1, f2}
    FieldValue <- MCFieldValue  Row <- MCRow  ServiceOf <- MCServiceOf
    Path <- MCPath  Entrance <- MCEntrance  Exit <- MCExit  ExitMac = macB
    Toward <- MCToward  Peer <- MCPeer
    Placement <- OnePort
INVARIANTS TypeOK
    IndexIsRemaining
    RightFunction
PROPERTIES ImplementsService
CHECK_DEADLOCK FALSE
