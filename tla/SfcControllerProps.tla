------------------------ MODULE SfcControllerProps -------------------------
(***************************************************************************)
(* What the controller application should guarantee, whatever the order in *)
(* which its greenlets, connections and switches take their steps.         *)
(***************************************************************************)
EXTENDS SfcController

(***************************************************************************)
(* The tables the switches will have once everything sent has arrived.     *)
(***************************************************************************)

Covers(del, e) == del.table = e.table /\ del.match \subseteq e.match

\* No deletion behind position i of the connection removes the entry.
Outlives(c, i, e) ==
    \A j \in (i + 1)..Len(chan[c]) :
        chan[c][j].cmd = "delete" => ~ Covers(chan[c][j].entry, e)

LiveConn(s) == {c \in Conn : Dpid(c) = s /\ link[c] \in {"config", "main"}}

Coming(c) ==
    {chan[c][i].entry : i \in {i \in DOMAIN chan[c] :
                                  /\ chan[c][i].cmd = "add"
                                  /\ Outlives(c, i, chan[c][i].entry)}}

Final(s) ==
    {e \in table[s] : \A c \in LiveConn(s) : Outlives(c, 0, e)}
    \cup UNION {Coming(c) : c \in LiveConn(s)}

IsSource(e, f) == e.flow = f /\ e.table = 0 /\ e.goto = 3 /\ e.priority = 8
IsCatch(e, f)  == e.flow = f /\ e.table = 0 /\ e.goto = 2

Sources(f) == {x \in UNION {{s} \X Final(s) : s \in Switch} : IsSource(x[2], f)}

(***************************************************************************)
(* Where the event loop and the requests are, beyond the types: what makes *)
(* TypeOK inductive.                                                       *)
(***************************************************************************)

TaskOK(t) ==
    LET n == Len(Path1(t.flow)) IN
    /\ t.pos \in 1..n /\ t.cur \in 1..t.pos
    /\ t.pc = "delete" => t.todo # <<>>
    /\ t.pc \in {"delete", "source"} => t.pos = 1
    /\ t.pc \in {"source", "chain"} => Bidirectional(t.flow, t.cur)
    /\ \/ t.step = 1
       \/ t.pc = "chain" /\ t.pos = n /\ t.step = 2
       \/ /\ t.pc = "chain" /\ t.pos < n
          /\ Bidirectional(t.flow, t.pos + 1)

TaskInv == task # NoTask /\ task.pc # "defaults" => TaskOK(task)

RequestInv ==
    \A r \in Request :
        /\ rest[r].pc \in {"next", "send"} => Subject[r] \in Flow
        /\ rest[r].pc = "send" => rest[r].seen # <<>>

TypeInv == TypeOK /\ TaskInv /\ RequestInv

(***************************************************************************)
(* Whose entries there are, on the switches and on the way to them.        *)
(***************************************************************************)

OwnEntry(e) ==
    \/ e \in DefaultEntries
    \/ /\ e.flow \in Flow /\ e.priority \in {6, 8}
       /\ e.table = 0 =>
             /\ MiddleFields(e.flow) \subseteq e.match
             /\ \A h \in e.match : h \in FlowMatch(e.flow) \/ h[1] = "in_port"

OwnDeletion(d) ==
    /\ d.table = 0 /\ d.flow \in Flow /\ Translatable(d.flow)
    /\ d.match = FlowMatch(d.flow) \/ "nsh_spi" \in Fields(d.match)

OwnMod(m) ==
    IF m.cmd = "add" THEN OwnEntry(m.entry) ELSE OwnDeletion(m.entry)

TablesOwn == \A s \in Switch : \A e \in table[s] : OwnEntry(e)
SentOwn == \A c \in Conn : \A i \in DOMAIN chan[c] : OwnMod(chan[c][i])
Translated ==
    /\ task # NoTask /\ task.pc = "delete" => Translatable(task.flow)
    /\ \A r \in Request : rest[r].pc = "send" => Translatable(Subject[r])

\* An entry is one of the six defaults, or one made for a row of the flows
\* table, which in table 0 takes that row's packets only; a deletion is of a
\* row that has both addresses.  Nothing ever sent or installed is anything
\* else, whichever handlers were abandoned halfway (sfc_nfv.py:29-110, 136-430).
EntriesFromRows == TablesOwn /\ SentOwn /\ Translated

(***************************************************************************)
(* Safety.                                                                 *)
(***************************************************************************)

\* A flow enters its chain at one place.  However many packets of it are
\* detected, on however many switches and ports, and however the handlers'
\* messages travel, the tables the switches end up with hold at most one
\* source entry of the flow (sfc_nfv.py:291-313).
SingleSource ==
    \A f \in Flow : \A x, y \in Sources(f) : x = y

\* "If the packet is detected, this entry on all switched are deleted and
\* changed to the other entries" (README.md:47): when a flow has a source
\* entry coming or in place, no switch keeps or gets its detection entry.
DetectionReplaced ==
    \A f \in Flow :
        Sources(f) # {} =>
            \A s \in Switch : \A e \in Final(s) : ~ IsCatch(e, f)

\* When the loop is between two events, a flow that has a source entry has
\* the entries of every hop and of the end of its service too, on the
\* switches of its VNFs (sfc_nfv.py:316-395).
HopsAt(f, i) ==
    {HopMod(step, f, IF i = 1 THEN Len(Path1(f)) ELSE Path1(f)[i][2],
            Path1(f)[i + 1][2], VnfAt(f, i), VnfAt(f, i + 1)).entry :
        step \in 1..3}

\* Two flows of one service share the entries of table 1: what matters of an
\* entry is what it does, not the flow it was made for.
SameEffect(e, x) ==
    /\ e.table = x.table /\ e.priority = x.priority /\ e.match = x.match
    /\ e.actions = x.actions /\ e.goto = x.goto

ChainComplete ==
    task = NoTask /\ running = "none" =>
        \A f \in Flow : Sources(f) # {} =>
            LET n == Len(Path1(f)) IN
            /\ \A i \in 1..(n - 1) : \A e \in HopsAt(f, i) :
                  \E x \in Final(VnfAt(f, i).dpid) : SameEffect(e, x)
            /\ \A step \in 1..2 :
                  \E x \in Final(VnfAt(f, n).dpid) :
                     SameEffect(EndMod(step, f, VnfAt(f, n)).entry, x)

\* Entry e of switch s goes to bidirectional functions of its flow, and is on the
\* switch of the one that it takes packets from, by its port, or for, by its
\* address.  The others of table 1 are on the switch of some function.
Usable(f) == {x \in UNION {Rows(f, i) : i \in DOMAIN Path1(f)} : x.iftype = 3}
TakenAt(x, t) == IF t = 0 THEN <<"in_port", x.in_port>> ELSE <<"eth_dst", x.locator_addr>>
Reaches(s, e) ==
    /\ \A a \in ToSet(e.actions) : a[1] = "set_eth_dst" =>
          \E x \in Usable(e.flow) : x.locator_addr = a[2]
    /\ e.priority = 6 =>
          \E x \in Usable(e.flow) : x.dpid = s /\ TakenAt(x, e.table) \in e.match
    /\ e.table = 1 => \E x \in Usable(e.flow) : x.dpid = s

\* Entries follow the registrations: whatever was registered when and where, an
\* entry made for a flow sends packets to addresses of registered functions of
\* its service only, and what takes the packets that leave a function by its port,
\* or that are sent to its address, is on the switch where the vnf table has that
\* function (sfc_nfv.py:236-242, 304-313, 325-395).
FollowsRegistrations ==
    \A f \in Flow, s \in Switch : \A e \in Final(s) : e.flow = f => Reaches(s, e)

\* The same of every entry, installed or on its way, that will stay or not: what
\* makes it inductive.
EntryReaches(s, e) == e.flow \in Flow => Reaches(s, e)
ModReaches(s, mod) == mod.cmd = "add" => EntryReaches(s, mod.entry)
ReachInv ==
    /\ \A s \in Switch : \A e \in table[s] : EntryReaches(s, e)
    /\ \A c \in Conn : \A i \in DOMAIN chan[c] : ModReaches(Dpid(c), chan[c][i])

\* A connection that has ended leaves the registry: as long as it is still
\* there, its DEAD event is on its way (sfc_nfv.py:121-133).
DeadWillLeave ==
    \A c \in ToSet(datapaths) :
        link[c] = "dead" =>
            \E i \in DOMAIN events :
                events[i].type = "dead" /\ events[i].conn = c

\* What makes it inductive: a switch is registered once at a time, and the end
\* of a connection stands behind its registration in the queue.
EndFollows(c, k) ==
    \E j \in DOMAIN events : j > k /\ events[j].type = "dead" /\ events[j].conn = c
RegistryInv ==
    /\ \A i, j \in DOMAIN datapaths : Dpid(datapaths[i]) = Dpid(datapaths[j]) => i = j
    /\ \A i \in DOMAIN events :
          events[i].type = "main" /\ link[events[i].conn] = "dead"
              => EndFollows(events[i].conn, i)
    /\ \A c \in ToSet(datapaths) : link[c] = "dead" => EndFollows(c, 0)

\* "Register/Unregister DataPathes in datapth dictionary" (sfc_nfv.py:121):
\* when every loss of a connection is noticed and all events are handled, each
\* connection that reached the main state and is up is in the registry.
UpIsRegistered ==
    /\ events = <<>> /\ task = NoTask
    /\ \A c \in Conn : link[c] \notin {"stale", "closed"}
    => \A c \in Conn : link[c] = "main" => c \in ToSet(datapaths)

\* A switch whose connection is up and quiet has all the entries it should be
\* set up with, also when it came back with empty tables, or with what an
\* earlier connection left (sfc_nfv.py:136-175).
QuietIsSetUp ==
    events = <<>> /\ task = NoTask =>
        \A c \in Conn : link[c] = "main" /\ chan[c] = <<>>
                          => DefaultEntries \subseteq table[Dpid(c)]

\* Nothing of a flow is left or coming anywhere in table 0, nor in what the
\* application still has to do.
Forgotten(f) ==
    /\ \A s \in Switch : \A e \in table[s] : e.table = 0 => e.flow # f
    /\ \A c \in Conn : \A i \in DOMAIN chan[c] :
          chan[c][i].cmd = "add" => chan[c][i].entry.flow # f
    /\ \A i \in DOMAIN events :
          events[i].type = "packet_in" => events[i].flow # f
    /\ task # NoTask => task.pc = "defaults" \/ task.flow # f

\* "this entry on all switched are deleted and changed to the other entries"
\* (README.md:47): between two events, a flow that was added and that nobody
\* has asked to delete is somewhere, as detection entries or as its chain.
Asked(f, op) == {r \in Request : Op[r] = op /\ Subject[r] = f}

AddedFlowKept ==
    \A f \in Flow :
        /\ \E r \in Asked(f, "add") : rest[r].pc = "ok"
        /\ \A r \in Asked(f, "delete") : rest[r].pc = "new"
        => ~ Forgotten(f)

(***************************************************************************)
(* Action properties.                                                      *)
(***************************************************************************)

Lost(s) == table[s] \ table'[s]
Restarted(s) == table'[s] = {}

\* Deletions are not strict, yet handling one flow never takes from table 0
\* an entry of another flow (sfc_nfv.py:276-293, 104-109).
OwnEntriesOnly ==
    [][\A s \in Switch : Restarted(s) \/
         \A e \in Lost(s) : e.table = 0 =>
            \E c \in Conn : /\ Dpid(c) = s /\ chan[c] # <<>>
                            /\ Head(chan[c]).entry.flow = e.flow]_vars

\* No flow's deletion takes away an entry the switch was set up with
\* (sfc_nfv.py:136-175): "DELETE PREINSTALLED CATCHING FLOWS"
\* (sfc_nfv.py:276) deletes no more than it says.
DefaultsStay ==
    [][\A s \in Switch : Restarted(s) \/
         \A e \in Lost(s) : e.flow # NoFlow]_vars

\* A deletion is answered: unless a packet of the flow is still to be handled,
\* or the flow is being added, nothing of it is left or coming in table 0 of a
\* registered switch (sfc_nfv.py:70-110).
Pending(f) ==
    \/ \E i \in DOMAIN events : events[i].type = "packet_in" /\ events[i].flow = f
    \/ task # NoTask /\ task.pc # "defaults" /\ task.flow = f
    \/ \E r \in Asked(f, "add") : rest[r].pc \in {"next", "send"}

FinalIn(c, tables, f) ==
    \E e \in Final(Dpid(c)) : e.table \in tables /\ e.flow = f

Answered(r) == rest[r].pc = "next" /\ rest'[r].pc = "ok"

DeletedIsGone ==
    [][\A r \in Request :
         Op[r] = "delete" /\ Answered(r) /\ ~ Pending(Subject[r]) =>
            \A c \in ToSet(datapaths) : ~ FinalIn(c, {0}, Subject[r])]_vars

\* "delete spi match" (sfc_nfv.py:107): and nothing of its path is left.
DeletedPathIsGone ==
    [][\A r \in Request :
         Op[r] = "delete" /\ Answered(r) /\ ~ Pending(Subject[r]) =>
            \A c \in ToSet(datapaths) : ~ FinalIn(c, {1}, Subject[r])]_vars

\* A flow that is gone comes back only by another add_flow request.
NoResurrection ==
    [][\A f \in Flow : Forgotten(f) =>
         \/ Forgotten(f)'
         \/ \E r \in Request : Op[r] = "add" /\ Subject[r] = f
                               /\ rest[r].pc = "send"]_vars

(***************************************************************************)
(* Liveness.                                                               *)
(***************************************************************************)

\* The hub runs every greenlet that is ready, and switches process what they
\* are sent.  Nothing makes a switch connect or a connection fail, and no host
\* has to send.
Fairness ==
    /\ WF_vars(Loop)
    /\ \A r \in Request : WF_vars(Serve(r))
    /\ \A c \in Conn : WF_vars(ApplyMod(c))

FairSpec == Spec /\ Fairness

\* No circular wait: every request is answered, although it waits for send
\* queues in the middle of its loop while the event loop waits for others.
RequestsEnd ==
    \A r \in Request : <>(rest[r].pc \in {"ok", "not_found", "error"})

\* A flow that is detected ends up with a source entry on a switch for good,
\* whatever is detected or added again: every further detection deletes the
\* source entry there is (sfc_nfv.py:291-313), but there is a last one.  Only a
\* request to delete the flow that is under way, then or later, excuses it.
Detected(f) == \E i \in DOMAIN events : /\ events[i].type = "packet_in"
                                        /\ events[i].flow = f
HasSource(f) == \E s \in Switch : \E e \in table[s] : IsSource(e, f)
DeletionRuns(f) == \E r \in Asked(f, "delete") : rest[r].pc \in {"next", "send"}
DetectionConverges ==
    \A f \in Flow :
        Detected(f) /\ ~DeletionRuns(f) ~> DeletionRuns(f) \/ []HasSource(f)
=============================================================================
