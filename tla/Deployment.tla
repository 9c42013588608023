----------------------------- MODULE Deployment -----------------------------
(***************************************************************************)
(* From the allocation to the vnf table: the allocation program tells the  *)
(* nodes, the agent on every node (listen.py) registers what it was told   *)
(* with the controller, and the controller keeps what it hears first.      *)
(*                                                                         *)
(* Both ways are UDP: datagrams are lost, repeated and overtaken.  The     *)
(* network, the host of a node and its switch port are external.           *)
(***************************************************************************)
EXTENDS Allocation

CONSTANTS
    Typed,          \* what operators send to nodes with send.py
    MaxLoss,        \* bound: datagrams that are lost
    MaxRepeat       \* bound: datagrams that arrive once more

\* A command that an agent can use.  A function has up to three interfaces.
Command == [vnf : Function, iftype : 1..3]
Unusable == [text : {"empty", "malformed"}]

Datagram == [node : Node, command : Command \cup Unusable]

ASSUME TypedAssumption == Typed \subseteq Datagram
ASSUME LimitAssumption == MaxLoss \in Nat /\ MaxRepeat \in Nat

VARIABLES
    commands,       \* on their way to nodes: [node, command]
    agent,          \* the agent of every node
    registrations,  \* on their way to the controller: [node, command]
    vnf,            \* the vnf table: where each interface was registered first
    lost,           \* how many datagrams have been lost
    repeated,       \* how many have arrived once more
    typed           \* what operators have sent

network == <<commands, registrations, lost, repeated>>
vars == <<allocation, commands, agent, registrations, vnf, lost, repeated, typed>>

TypeOK ==
    /\ AllocationTypeOK
    /\ commands \subseteq Datagram
    /\ agent \in [Node -> {"listening", "ended"}]
    /\ registrations \subseteq [node : Node, command : Command]
    /\ vnf \in [Function -> [1..3 -> Node \cup {NoPlace}]]
    /\ lost \in Nat /\ repeated \in Nat /\ typed \subseteq Typed

Init ==
    /\ AllocationInit
    /\ commands = {} /\ registrations = {}
    /\ agent = [n \in Node |-> "listening"]
    /\ vnf = [f \in Function |-> [t \in 1..3 |-> NoPlace]]
    /\ lost = 0 /\ repeated = 0 /\ typed = {}

(***************************************************************************)
(* The allocation program and operators.                                   *)
(***************************************************************************)

Allocate ==
    /\ Solve \/ RaiseSolving \/ \E f \in Function : RaiseSending(f)
    /\ UNCHANGED <<network, agent, vnf, typed>>

\* '$$name,VNFid,type_id,group_id,iftype$$', with iftype '3'.
send_com(f) ==
    /\ Told(f)
    /\ commands' = commands \cup
           {[node |-> Address(x_res[f]), command |-> [vnf |-> f, iftype |-> 3]]}
    /\ UNCHANGED <<agent, registrations, vnf, lost, repeated, typed>>

Type(d) ==
    /\ d \notin typed
    /\ commands' = commands \cup {d} /\ typed' = typed \cup {d}
    /\ UNCHANGED <<allocation, agent, registrations, vnf, lost, repeated>>

(***************************************************************************)
(* The network.                                                            *)
(***************************************************************************)

\* d is taken out of a set of datagrams, or arrives and is still to come.
Arrives(set, set2, d) ==
    /\ d \in set
    /\ \/ set2 = set \ {d} /\ UNCHANGED repeated
       \/ set2 = set /\ repeated < MaxRepeat /\ repeated' = repeated + 1

Lose ==
    /\ lost < MaxLoss /\ lost' = lost + 1
    /\ \/ \E d \in commands : commands' = commands \ {d} /\ UNCHANGED registrations
       \/ \E d \in registrations :
              registrations' = registrations \ {d} /\ UNCHANGED commands
    /\ UNCHANGED <<allocation, agent, vnf, repeated, typed>>

(***************************************************************************)
(* The agents and the controller.                                          *)
(***************************************************************************)

\* dealWithMsg: one registration for every command.
Register(d) ==
    /\ d.command \in Command /\ agent[d.node] = "listening"
    /\ Arrives(commands, commands', d)
    /\ registrations' = registrations \cup {d}
    /\ UNCHANGED <<allocation, agent, vnf, lost, typed>>

\* No socket to register with: the agent exits.
NoSocket(d) ==
    /\ d.command \in Command /\ agent[d.node] = "listening"
    /\ Arrives(commands, commands', d)
    /\ agent' = [agent EXCEPT ![d.node] = "ended"]
    /\ UNCHANGED <<allocation, registrations, vnf, lost, typed>>

\* An empty datagram leaves the loop; one without its five fields, or with a
\* type of interface other than 1, 2 and 3, raises.  Nobody starts it again.
EndAgent(d) ==
    /\ d.command \notin Command /\ agent[d.node] = "listening"
    /\ Arrives(commands, commands', d)
    /\ agent' = [agent EXCEPT ![d.node] = "ended"]
    /\ UNCHANGED <<allocation, registrations, vnf, lost, typed>>

\* Nobody listens on the port.
Unheard(d) ==
    /\ agent[d.node] = "ended"
    /\ Arrives(commands, commands', d)
    /\ UNCHANGED <<allocation, agent, registrations, vnf, lost, typed>>

InsertByFunction(d) ==              \* mutant: the key is the function alone
    /\ Arrives(registrations, registrations', d)
    /\ vnf' = IF vnf[d.command.vnf][3] # NoPlace THEN vnf
              ELSE [vnf EXCEPT ![d.command.vnf][3] = d.node]
    /\ UNCHANGED <<allocation, commands, agent, lost, typed>>

\* INSERT OR IGNORE: the key of the table is the function and the interface.
Insert(d) ==
    /\ Arrives(registrations, registrations', d)
    /\ vnf' = IF vnf[d.command.vnf][d.command.iftype] # NoPlace THEN vnf
              ELSE [vnf EXCEPT ![d.command.vnf][d.command.iftype] = d.node]
    /\ UNCHANGED <<allocation, commands, agent, lost, typed>>

(***************************************************************************)
(* The specification.                                                      *)
(***************************************************************************)

RunProgram == Allocate \/ \E f \in Function : send_com(f)
RunAgent ==
    \E d \in commands : Register(d) \/ NoSocket(d) \/ EndAgent(d) \/ Unheard(d)
RunController == \E d \in registrations : Insert(d)

Next ==
    \/ RunProgram \/ RunAgent \/ RunController
    \/ \E d \in Typed : Type(d)
    \/ Lose

Spec == Init /\ [][Next]_vars

\* Programs run, and a datagram that is not lost arrives.
FairSpec ==
    Spec /\ WF_vars(RunProgram) /\ WF_vars(RunAgent) /\ WF_vars(RunController)

(***************************************************************************)
(* Properties.                                                             *)
(***************************************************************************)

\* Where the functions are that chains can use: bidirectional ones.
Place(f) == vnf[f][3]

\* Operators register single interfaces only.
OnlyInterfaces ==
    \A d \in Typed : d.command \in Command => d.command.iftype # 3

\* Whatever is lost, repeated or overtaken, and whichever interfaces operators
\* register, a function that the vnf table has as a bidirectional one is where
\* the program has put it
\* (test_sfc.py:101-104, listen.py:67-93, sfc_nfv.py:236).
FollowsAllocation ==
    \A f \in Function : Place(f) # NoPlace =>
        f \in Functions(problem) /\ x_res[f] # NoPlace /\ Place(f) = x_res[f] + 1

\* "(2)" of do_lp, at the far end (test_sfc.py:52-54): functions of one request
\* register from different nodes.  The entries of sfc_nfv.py rely on that.
Apart ==
    Feasible(problem) =>
        \A f, g \in Function :
            f # g /\ f[1] = g[1] /\ Place(f) # NoPlace => Place(f) # Place(g)

Promise ==
    INSTANCE FunctionRegistry
        WITH where <- [f \in Function |-> Place(f)], Nowhere <- NoPlace, Request <- [f \in Function |-> f[1]],
             satisfiable <- Feasible(problem)
KeepsPlaces == Promise!Spec

\* The total number of functions, shared out evenly and rounded up.
Share(p) == (Cardinality(Functions(p)) + p.nodes - 1) \div p.nodes

\* What the program can solve: no request with more functions than there are
\* nodes, a share of no more than the longest request (test_sfc.py:42), and no
\* number of a request of two digits (test_sfc.py:41, 50).
Solvable(p) ==
    /\ maxKr(p) <= p.nodes /\ Share(p) <= maxKr(p)
    /\ Len(p.Kr) < 10

\* "Allocation model calculates the allocation" (README.md:36): it finds one for
\* these problems, in which no node has more than its share (test_sfc.py:42-58).
EvenShare ==
    /\ stage = "solving" => (Feasible(problem) <=> Solvable(problem))
    /\ Solvable(problem) =>
           LET share == Share(problem) IN
           \A n \in Nodes(problem) : Cardinality({f \in Function : Place(f) = n}) <= share

\* "and sends the result to deployed nodes.  The nodes install corresponding VNF
\* and register the allocations to controller.  The controller store the
\* allocations to database" (README.md:36-38): all of it is stored in the end,
\* unless a datagram is lost, a socket is missing, or an agent has been ended.
Stored ==
    Solvable(problem) ~>
        \/ \A f \in Functions(problem) : Place(f) # NoPlace
        \/ lost > 0 \/ stage = "failed" \/ \E n \in Node : agent[n] = "ended"
=============================================================================
