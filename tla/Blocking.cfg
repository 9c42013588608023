SPECIFICATION FairSpec
CONSTANTS
    s1 = s1  s2 = s2  s3 = s3  v1 = v1  v2 = v2  f1 = f1  f2 = f2
    add1 = add1  again1 = again1  add2 = add2  del1 = del1  del2 = del2
    addNone = addNone
    mac1 = mac1  mac2 = mac2  ipA = ipA  ipB = ipB  ipC = ipC
    ip4 = ip4  ip6 = ip6  nsh = nsh  tcp = tcp  udp = udp
    noArg = noArg  confMac = confMac  confIp = confIp  confPort = confPort
    IPv4 = ip4  IPv6 = ip6  NSH = nsh  TCP = tcp  UDP = udp
    NoArg = noArg  ConfMac = confMac  ConfIp = confIp  ConfPort = confPort
    NoFlow = NoFlow  NoMeta = NoMeta  NoTask = NoTask
    Switch = {s1, s2}  Port = {1, 2}  Vnf = {v1, v2}  Mac = {mac1, mac2}
    ServiceId = {6, 7}
    FieldValue <- MCFieldValue  Row <- MCRow  ServiceOf <- MCServiceOf
    Path <- MCPath  Op <- MCOp  Subject <- MCSubject
    Flow = {f1}
    Request = {add1, again1, del1}
    InitialSwitch <- All2Up
    InitialVnf <- VnfsOn2
    Traffic <- F1Traffic
    Datagram <- NoDatagram
    QueueCap = 1
    EventCap = 1
    MaxConn = 1
    MaxDrop = 0
    MaxBehind = 0
INVARIANTS SingleSource
PROPERTIES RequestsEnd
    DetectionConverges
CHECK_DEADLOCK FALSE
