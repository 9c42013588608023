SPECIFICATION FairNet
CONSTANTS
    v1 = v1  v2 = v2  f1 = f1  f2 = f2  add1 = add1  add2 = add2
    mac1 = mac1  mac2 = mac2  macB = macB  ipA = ipA  ipB = ipB  ipC = ipC
    ip4 = ip4  ip6 = ip6  nsh = nsh  tcp = tcp  udp = udp
    noArg = noArg  noMac = noMac
    confMac = confMac  confIp = confIp  confPort = confPort
    IPv4 = ip4  IPv6 = ip6  NSH = nsh  TCP = tcp  UDP = udp
    NoArg = noArg  NoMac = noMac
    ConfMac = confMac  ConfIp = confIp  ConfPort = confPort
    NoFlow = NoFlow  NoMeta = NoMeta  NoTask = NoTask
    Switch = {1, 2, 3}  Port = {1, 2, 3, 4, 5}
    Vnf = {v1, v2}  Mac = {mac1, mac2, macB}
    ServiceId = {6}  Flow = {f1, f2}
    FieldValue <- MCFieldValue  Row <- MCRow  ServiceOf <- MCServiceOf
    Path <- MCPath  Entrance <- MCEntrance  Exit <- MCExit  ExitMac = macB
    Toward <- MCToward  Peer <- MCPeer  Home <- MCHome
    Request = {add1, add2}  Op <- MCOp  Subject <- MCSubject
    InitialSwitch <- AllUp  InitialVnf <- AllRegistered
    Traffic <- MCTraffic  Datagram <- None
    QueueCap = 16  EventCap = 1  MaxConn = 1  MaxDrop = 0
    MaxBehind = 1  MaxPacket = 3  MaxDetect = 2  MaxVisit = 3
INVARIANTS NetTypeOK InOrder StaysInChain DetectionEverywhere TablesAsAssumed
PROPERTIES ChainWorks
CHECK_DEADLOCK FALSE
