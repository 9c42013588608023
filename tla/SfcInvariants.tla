--------------------------- MODULE SfcInvariants ----------------------------
(***************************************************************************)
(* The inductive invariants behind the theorems about the controller: what *)
(* holds at every step in the middle of its handlers, and from which what  *)
(* it guarantees follows.                                                  *)
(***************************************************************************)
EXTENDS SfcControllerProps

(***************************************************************************)
(* Conditions on the behaviours that some theorems are about.              *)
(***************************************************************************)

\* No connection is ever lost.
NoneLost == Gone = {}

\* No send queue is ever full: no greenlet is suspended in its handler.
Room == \A c \in Conn : Len(chan[c]) < QueueCap
Smooth == NoneLost /\ Room

\* The first function of every service is registered, as bidirectional.
FirstReady == \A f \in Flow : Bidirectional(f, 1)

(***************************************************************************)
(* Connections.                                                            *)
(***************************************************************************)

Met(c) == link[c] # "none"

\* Whatever the application holds or sends to is a connection that was made,
MetTask(t) ==
    Met(t.conn) /\ (t.pc = "delete" => \A c \in ToSet(t.todo) : Met(c))
MetInv ==
    /\ \A c \in Conn : ~ Met(c) => chan[c] = <<>>
    /\ \A c \in ToSet(datapaths) : Met(c)
    /\ \A i \in DOMAIN events : Met(events[i].conn)
    /\ task # NoTask => MetTask(task)
    /\ \A r \in Request : \A c \in ToSet(rest[r].seen) : Met(c)

\* and a switch makes one only when it has lost those before.
OneAtATime ==
    \A c, d \in Conn :
        Dpid(c) = Dpid(d) /\ d[2] < c[2] /\ Met(c) => d \in Gone

\* The entries a switch is set up with are installed, on their way, or still to
\* be sent by the handler of the switch's first event.
Placed(c, k) ==
    \/ DefaultMods[k].entry \in table[Dpid(c)]
    \/ \E i \in DOMAIN chan[c] : chan[c][i] = DefaultMods[k]
SettingUp(c, k) ==
    task # NoTask /\ task.pc = "defaults" /\ task.conn = c /\ task.step <= k
Announced(c) ==
    \E i \in DOMAIN events : events[i].type = "features" /\ events[i].conn = c

SetUpInv ==
    \A c \in Conn : link[c] \in {"config", "main"} /\ ~ Announced(c) =>
        \A k \in 1..6 : Placed(c, k) \/ SettingUp(c, k)

(***************************************************************************)
(* Metadata.                                                               *)
(***************************************************************************)

\* An entry that marks packets marks them with the flow it was made for.
MarksOwn(e) == e.meta # NoMeta => e.flow = e.meta
MarksInv ==
    /\ \A s \in Switch : \A e \in table[s] : MarksOwn(e)
    /\ \A c \in Conn : \A i \in DOMAIN chan[c] :
          chan[c][i].cmd = "add" => MarksOwn(chan[c][i].entry)

\* An entry of a hop or of the end of flow f's chain.
ChainEntry(e, f) ==
    /\ e.flow = f /\ e.meta \in {NoMeta, f}
    /\ e.table = 0 => e.priority = 6 /\ e.goto = 3

(***************************************************************************)
(* The entries a table ends up with, from the table and what is on its way *)
(* to it: what Final is, of the one connection a switch has.               *)
(***************************************************************************)

Survives(q, i, e) ==
    \A j \in (i + 1)..Len(q) :
        q[j].cmd = "delete" => ~ Covers(q[j].entry, e)

After(tbl, q) ==
    {e \in tbl : Survives(q, 0, e)}
    \cup {q[i].entry : i \in {i \in DOMAIN q : /\ q[i].cmd = "add"
                                              /\ Survives(q, i, q[i].entry)}}

(***************************************************************************)
(* Behaviours in which no connection is lost: the registry only grows, and *)
(* everything is sent to registered connections.                           *)
(***************************************************************************)

\* Connection c is registered by the time the event at position k is handled.
RegisteredBy(c, k) ==
    \/ c \in ToSet(datapaths)
    \/ \E j \in DOMAIN events :
          j < k /\ events[j].type = "main" /\ events[j].conn = c

UpInv ==
    /\ \A i \in DOMAIN events : events[i].type # "dead"
    /\ \A c \in Conn : link[c] = "main" => \E k \in Nat : RegisteredBy(c, k)
    /\ \A c \in Conn, i \in DOMAIN events :
          events[i].type = "packet_in" /\ events[i].conn = c => RegisteredBy(c, i)
    /\ task # NoTask /\ task.pc # "defaults" => task.conn \in ToSet(datapaths)
    /\ task # NoTask /\ task.pc = "delete"
          => ToSet(task.todo) \subseteq ToSet(datapaths)
    /\ \A r \in Request : ToSet(rest[r].seen) \subseteq ToSet(datapaths)

\* While the handler of a detected packet deletes, the flow has source entries
\* only where it still deletes, and none once it is about to send the new one.
SourceAt(s, e, f) == s \in Switch /\ e \in Final(s) /\ IsSource(e, f)

SourceInv ==
    /\ \A f \in Flow : \A s, e : SourceAt(s, e, f) =>
          Registered(s) # {} /\ FlowMatch(f) \subseteq e.match
    /\ \A f \in Flow : \A s, e, t, x :
          SourceAt(s, e, f) /\ SourceAt(t, x, f) => s = t /\ e = x
    /\ \A f \in Flow : task # NoTask /\ task.pc = "delete" /\ task.flow = f =>
          \A s, e : SourceAt(s, e, f) =>
             \E c \in ToSet(task.todo) : Dpid(c) = s
    /\ \A f \in Flow : task # NoTask /\ task.pc = "source" /\ task.flow = f =>
          \A s, e : ~ SourceAt(s, e, f)

(***************************************************************************)
(* Behaviours in which, moreover, no send queue is full: a handler is over *)
(* before anything else runs.                                              *)
(***************************************************************************)

AtomicInv ==
    /\ task # NoTask => running = "loop"
    /\ \A r \in Request : rest[r].pc \in {"next", "send"} => running = r

\* No two requests add the same flow.
AddedOnce ==
    \A f \in Flow : \A q, r \in Asked(f, "add") : q = r

\* What SourceInv says of the source entry holds of the detection entries while
\* the handler deletes them; and a flow that is being added has no source entry.
CatchAt(s, e, f) == s \in Switch /\ e \in Final(s) /\ IsCatch(e, f)

CatchInv ==
    /\ \A f \in Flow : \A s, e : CatchAt(s, e, f) =>
          Registered(s) # {} /\ FlowMatch(f) \subseteq e.match
    /\ \A f \in Flow : task # NoTask /\ task.pc = "delete" /\ task.flow = f =>
          \A s, e : CatchAt(s, e, f) =>
             \E c \in ToSet(task.todo) : Dpid(c) = s
    /\ \A f \in Flow : task # NoTask /\ task.pc = "source" /\ task.flow = f =>
          \A s, e : ~ CatchAt(s, e, f)
    /\ \A f \in Flow : \A s, e, t, x : ~ (SourceAt(s, e, f) /\ CatchAt(t, x, f))
    /\ \A f \in Flow : Forgotten(f) \/ \E r \in Asked(f, "add") : rest[r].pc # "new"
    /\ \A f \in Flow : \A r \in Asked(f, "add") :
          rest[r].pc \in {"next", "send"} => \A s, e : ~ SourceAt(s, e, f)

\* A request that has not begun has seen nothing, and a deletion sends its two
\* FlowMods in one turn of its loop.
TurnInv ==
    \A r \in Request :
        /\ rest[r].pc = "new" => rest[r].seen = <<>>
        /\ rest[r].pc \in {"new", "next"} => rest[r].step = 1

\* A flow that has been added on a switch, and is not being deleted, is in a
\* table, coming, or just between its detection and its source entry.
FlowIn(f) == \E s \in Switch : \E e \in Final(s) : e.table = 0 /\ e.flow = f
KeptHere(f) ==
    \/ FlowIn(f)
    \/ task # NoTask /\ task.pc \in {"delete", "source"} /\ task.flow = f

KeptInv ==
    /\ datapaths # <<>>
    /\ \A f \in Flow : \A r \in Asked(f, "add") :
          /\ \/ rest[r].pc = "next" /\ rest[r].seen # <<>>
             \/ rest[r].pc = "ok"
          /\ \A q \in Asked(f, "delete") : rest[q].pc = "new"
          => KeptHere(f)

\* While a request deletes, nothing of its flow is left in table 0 of the
\* switches it has been through: on the one it is at, once it has sent the
\* first of its two deletions.
GoneInv ==
    \A r \in Request : Op[r] = "delete" /\ rest[r].pc \in {"next", "send"} =>
        \A c \in ToSet(rest[r].seen) :
            rest[r].pc = "next" \/ rest[r].step = 2 \/ c # Last(rest[r].seen)
                => ~ FinalIn(c, {0}, Subject[r])

(***************************************************************************)
(* Complete chains.                                                        *)
(***************************************************************************)

\* Every function of a service is registered, as bidirectional, on a registered
\* switch and on a port that no other function of the service has.
Ready ==
    \A f \in Flow :
        /\ \A i \in DOMAIN Path1(f) :
              Bidirectional(f, i) /\ Registered(VnfAt(f, i).dpid) # {}
        /\ \A i, j \in DOMAIN Path1(f) :
              /\ VnfAt(f, i).dpid = VnfAt(f, j).dpid
              /\ VnfAt(f, i).in_port = VnfAt(f, j).in_port
              => i = j

\* The k-th FlowMod for the function at position i of a flow's service.
Turns(f, i) == IF i = Len(Path1(f)) THEN 1..2 ELSE 1..3
ChainMod(f, i, k) ==
    IF i = Len(Path1(f)) THEN EndMod(k, f, VnfAt(f, i))
    ELSE HopMod(k, f, IF i = 1 THEN Len(Path1(f)) ELSE Path1(f)[i][2],
                Path1(f)[i + 1][2], VnfAt(f, i), VnfAt(f, i + 1))

\* The three kinds of entries of a chain.
IsProxy(e, f, i, k) ==
    /\ k = 1 /\ e.table = 1 /\ e.priority = 8
    /\ e.match = NshMatch(ServiceOf[f], Len(Path1(f)) - i)
IsMiddle(e, f, i, k) ==
    /\ k = 2 /\ i # Len(Path1(f)) /\ e.table = 0 /\ e.priority = 6
    /\ e.match = MiddleFields(f) \cup {<<"in_port", VnfAt(f, i).in_port>>}
IsDecap(e, f, i, k) ==
    /\ k = (IF i = Len(Path1(f)) THEN 2 ELSE 3)
    /\ e.table = 1 /\ e.priority = 6
    /\ e.match = NshMatch(ServiceOf[f], Len(Path1(f)) + 1 - i)
                    \cup {<<"eth_dst", VnfAt(f, i).locator_addr>>}

\* Every entry of a flow is a detection entry, a source entry or one of its chain.
InCatalog(s, e) ==
    \/ e.table = 0 /\ e.priority = 8
    \/ \E i \in DOMAIN Path1(e.flow) : \E k \in Turns(e.flow, i) :
          s = VnfAt(e.flow, i).dpid /\ e = ChainMod(e.flow, i, k).entry
CatalogInv ==
    \A s \in Switch : \A e \in Final(s) : e.flow \in Flow => InCatalog(s, e)

\* The registry stays as it is while a request iterates over it, and a deletion
\* leaves no source entry of its flow where it has been.
EmptiedInv ==
    \A r \in Request : rest[r].pc \in {"next", "send"} =>
        /\ rest[r].size = Len(datapaths)
        /\ rest[r].seen # <<>> => Translatable(Subject[r])
        /\ Op[r] = "delete" =>
              \A c \in ToSet(rest[r].seen) :
                 rest[r].pc = "next" \/ rest[r].step = 2 \/ c # Last(rest[r].seen)
                    => \A e \in Final(Dpid(c)) : ~ IsSource(e, Subject[r])

\* Once a flow has its source entry, it has all of its chain that the handler has
\* come to, unless it is being deleted.
Deleting(f) ==
    \/ task # NoTask /\ task.pc = "delete" /\ task.flow = f
    \/ \E r \in Asked(f, "delete") :
          rest[r].pc \in {"next", "send"} /\ rest[r].seen # <<>>
Sent(f, i, k) ==
    task # NoTask /\ task.pc = "chain" /\ task.flow = f =>
        i < task.pos \/ (i = task.pos /\ k < task.step)
InPlace(f, i, k) ==
    \E x \in Final(VnfAt(f, i).dpid) : SameEffect(ChainMod(f, i, k).entry, x)

ChainInv ==
    /\ task # NoTask /\ task.pc = "chain" => task.cur = task.pos
    /\ \A f \in Flow : Sources(f) # {} /\ ~ Deleting(f) =>
          \A i \in DOMAIN Path1(f) : \A k \in Turns(f, i) :
             Sent(f, i, k) => InPlace(f, i, k)

\* All of it: the invariant behind the theorem on complete chains.
ControlInv ==
    /\ TypeInv /\ MetInv /\ OneAtATime /\ UpInv /\ EntriesFromRows
    /\ SourceInv /\ AtomicInv /\ TurnInv /\ CatalogInv /\ EmptiedInv /\ ChainInv

\* What the application sends while all functions are ready: defaults, a
\* detection or source entry, an entry of the chain, or a deletion.
SentTo(c, mod) ==
    \/ mod.cmd = "add" /\ mod.entry \in DefaultEntries
    \/ /\ mod.cmd = "add" /\ mod.entry.table = 0 /\ mod.entry.priority = 8
       /\ \A f : IsSource(mod.entry, f) => SendSource /\ f = task.flow
    \/ /\ AbandonChain \/ SkipVnf \/ SendHop \/ SendEnd
       /\ Dpid(c) = VnfAt(task.flow, task.pos).dpid
       /\ mod = ChainMod(task.flow, task.pos, task.step) /\ mod.cmd = "add"
    \/ /\ mod.cmd = "delete" /\ OwnDeletion(mod.entry)
       /\ \/ DeleteCatching /\ mod.entry.flow = task.flow
          \/ \E r \in Request : /\ SendRequest(r) /\ Op[r] = "delete"
                                /\ mod.entry.flow = Subject[r]
=============================================================================
