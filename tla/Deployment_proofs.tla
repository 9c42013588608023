------------------------- MODULE Deployment_proofs -------------------------
(***************************************************************************)
(* The vnf table holds the allocation: for any allocation problems, any    *)
(* number of nodes, functions and operators, and any number of datagrams   *)
(* that are lost or repeated.                                              *)
(***************************************************************************)
EXTENDS Deployment, FiniteSetTheorems, TLAPS

(***************************************************************************)
(* What the integer program guarantees.                                    *)
(***************************************************************************)

\* A set of at most one element has no two of them.
LEMMA AtMostOne ==
    ASSUME NEW S, IsFiniteSet(S), Cardinality(S) <= 1, NEW a \in S, NEW b \in S
    PROVE  a = b
<1>1. SUFFICES ASSUME a # b PROVE FALSE
    OBVIOUS
<1>2. /\ IsFiniteSet(S \ {a})
      /\ Cardinality(S \ {a}) = Cardinality(S) - 1
    BY FS_RemoveElement
<1>3. Cardinality(S) \in Nat /\ Cardinality(S \ {a}) \in Nat
    BY <1>2, FS_CardinalityType
<1>4. Cardinality(S \ {a}) = 0
    BY <1>2, <1>3
<1>5. S \ {a} = {}
    BY <1>2, <1>4, FS_EmptySet
<1> QED BY <1>1, <1>5

LEMMA ProblemType ==
    ASSUME NEW p \in Problems
    PROVE  /\ p.nodes \in Nat \ {0} /\ p.Kr \in Seq(Nat \ {0})
           /\ \A f \in Functions(p) : f[1] \in DOMAIN p.Kr /\ f \in Function
           /\ \A n \in Nodes(p) : n \in Node
<1>1. p \in [nodes : Nat \ {0}, Kr : Seq(Nat \ {0})]
    BY ProblemAssumption
<1>2. \A f \in Functions(p) : f[1] \in DOMAIN p.Kr
    BY DEF Functions
<1> QED BY <1>1, <1>2 DEF Function, Node

\* In a solution, functions of one request are on different nodes.
LEMMA SolutionApart ==
    ASSUME NEW p \in Problems, NEW x \in Optimal(p),
           NEW f \in Functions(p), NEW g \in Functions(p), f # g, f[1] = g[1],
           NEW n \in Nodes(p), <<f, n>> \in x
    PROVE  <<g, n>> \notin x
<1> DEFINE r == f[1]
           S == {fn \in x : fn[2] = n /\ fn[1][1] = r}
           Whole == ({r} \X (1..p.Kr[r])) \X {n}
<1>1. x \subseteq Functions(p) \X Nodes(p) /\ OneOfEach(p, x)
    BY DEF Optimal, Solutions
<1>2. r \in DOMAIN p.Kr /\ p.Kr[r] \in Nat
    BY ProblemType
<1>3. \A h \in Functions(p) : h[1] = r => h \in {r} \X (1..p.Kr[r])
    BY DEF Functions
<1>4. S \subseteq Whole
    BY <1>1, <1>3
<1>5. IsFiniteSet(Whole)
    <2>1. IsFiniteSet(1..p.Kr[r])
        BY <1>2, FS_Interval
    <2>2. IsFiniteSet({r}) /\ IsFiniteSet({n})
        BY FS_Singleton
    <2>3. IsFiniteSet({r} \X (1..p.Kr[r]))
        BY <2>1, <2>2, FS_Product
    <2> QED BY <2>2, <2>3, FS_Product
<1>6. IsFiniteSet(S)
    BY <1>4, <1>5, FS_Subset
<1>7. Cardinality(S) <= 1
    BY <1>1, <1>2 DEF OneOfEach
<1>8. SUFFICES ASSUME <<g, n>> \in x PROVE FALSE
    OBVIOUS
<1>9. <<f, n>> \in S /\ <<g, n>> \in S
    BY <1>8
<1>10. <<f, n>> = <<g, n>>
    BY <1>6, <1>7, <1>9, AtMostOne
<1> QED BY <1>10

(***************************************************************************)
(* The inductive invariant.                                                *)
(***************************************************************************)

\* A place that is on its way or stored for a bidirectional interface is that
\* of the allocation.
Chosen(f, n) ==
    /\ stage # "solving"
    /\ f \in Functions(problem)
    /\ x_res[f] # NoPlace
    /\ n = x_res[f] + 1

ResOK ==
    \A f \in Functions(problem) :
        x_res[f] # NoPlace => x_res[f] \in Nat /\ x_res[f] + 1 \in Node

ResApart ==
    stage # "solving" /\ Feasible(problem) =>
        \A f, g \in Functions(problem) :
            f # g /\ f[1] = g[1] /\ x_res[f] # NoPlace => x_res[f] # x_res[g]

Bidirectional(d) == d.command \in Command /\ d.command.iftype = 3

CommandsOK ==
    \A d \in commands : Bidirectional(d) => Chosen(d.command.vnf, d.node)
RegistrationsOK ==
    \A d \in registrations : d.command.iftype = 3 => Chosen(d.command.vnf, d.node)
TableOK == \A f \in Function : Place(f) # NoPlace => Chosen(f, Place(f))

Inv == TypeOK /\ ResOK
Placed == Inv /\ ResApart /\ CommandsOK /\ RegistrationsOK /\ TableOK

(***************************************************************************)
(* Types.                                                                  *)
(***************************************************************************)

LEMMA InitInv == Init => Placed
<1> SUFFICES ASSUME Init PROVE Placed
    OBVIOUS
<1>1. problem \in Problems
    BY DEF Init, AllocationInit
<1>2. AllocationTypeOK /\ ResOK
    BY <1>1 DEF Init, AllocationInit, AllocationTypeOK, ResOK
<1>3. TypeOK
    BY <1>2 DEF Init, TypeOK
<1>4. \A f \in Function : Place(f) = NoPlace
    BY DEF Init, Place
<1>5. ResApart
    BY DEF Init, AllocationInit, ResApart
<1>6. CommandsOK /\ RegistrationsOK /\ TableOK
    BY <1>4 DEF Init, CommandsOK, RegistrationsOK, TableOK
<1> QED BY <1>2, <1>3, <1>5, <1>6 DEF Placed, Inv

\* The solver gives every function a node, or no place at all.
LEMMA SolveType ==
    ASSUME AllocationTypeOK, Solve
    PROVE  /\ x_res' \in [Functions(problem) -> 0..(problem.nodes - 1) \cup {NoPlace}]
           /\ stage' = "sending" /\ problem' = problem /\ todo' = todo
<1>1. CASE Feasible(problem)
    BY <1>1 DEF Solve, Indices
<1>2. CASE ~Feasible(problem)
    BY <1>2 DEF Solve
<1> QED BY <1>1, <1>2 DEF Solve

LEMMA IndexIsNode ==
    ASSUME NEW p \in Problems, NEW i \in 0..(p.nodes - 1)
    PROVE  i \in Nat /\ i # NoPlace /\ i + 1 \in Nodes(p) /\ i + 1 \in Node
<1>1. p.nodes \in Nat \ {0}
    BY ProblemType
<1>2. i \in Nat /\ i + 1 \in 1..p.nodes
    BY <1>1
<1>3. i + 1 \in Nodes(p)
    BY <1>2 DEF Nodes
<1> QED BY <1>2, <1>3, ProblemType, PlaceAssumption

\* The steps of the allocation program.
LEMMA AllocationStep ==
    ASSUME AllocationTypeOK, ResOK,
           Solve \/ RaiseSolving \/ (\E f \in Function : RaiseSending(f) \/ Told(f))
    PROVE  AllocationTypeOK' /\ ResOK' /\ problem' = problem
<1>0. problem \in Problems
    BY DEF AllocationTypeOK
<1>1. CASE Solve
    <2>1. /\ x_res' \in [Functions(problem) -> 0..(problem.nodes - 1) \cup {NoPlace}]
          /\ stage' = "sending" /\ problem' = problem /\ todo' = todo
        BY <1>1, SolveType
    <2>2. \A f \in Functions(problem) :
              \/ x_res'[f] = NoPlace
              \/ x_res'[f] \in Nat /\ x_res'[f] + 1 \in Node
        BY <2>1, <1>0, IndexIsNode
    <2>3. x_res' \in [Functions(problem) -> Nat \cup {NoPlace}]
        BY <2>1, <2>2
    <2> QED BY <2>1, <2>2, <2>3 DEF AllocationTypeOK, ResOK
<1>2. CASE RaiseSolving
    BY <1>2 DEF RaiseSolving, AllocationTypeOK, ResOK
<1>3. ASSUME NEW f \in Function, RaiseSending(f)
      PROVE  AllocationTypeOK' /\ ResOK' /\ problem' = problem
    BY <1>3 DEF RaiseSending, AllocationTypeOK, ResOK
<1>4. ASSUME NEW f \in Function, Told(f)
      PROVE  AllocationTypeOK' /\ ResOK' /\ problem' = problem
    <2>1. todo' \subseteq todo /\ stage' \in {"sending", "done"} /\ UNCHANGED <<problem, x_res>>
        BY <1>4 DEF Told
    <2> QED BY <2>1 DEF AllocationTypeOK, ResOK
<1> QED BY <1>1, <1>2, <1>3, <1>4

LEMMA ArrivalsShrink ==
    ASSUME NEW set, NEW set2, NEW d, Arrives(set, set2, d), repeated \in Nat
    PROVE  d \in set /\ set2 \subseteq set /\ repeated' \in Nat
BY DEF Arrives

LEMMA TypeStep == Inv /\ [Next]_vars => Inv' /\ problem' = problem
<1> SUFFICES ASSUME Inv, [Next]_vars PROVE Inv' /\ problem' = problem
    OBVIOUS
<1> USE DEF Inv
<1>0. repeated \in Nat /\ lost \in Nat
    BY DEF TypeOK
<1>1. CASE Allocate
    <2>1. AllocationTypeOK' /\ ResOK' /\ problem' = problem
        BY <1>1, AllocationStep DEF Allocate, TypeOK
    <2>2. UNCHANGED <<network, agent, vnf, typed>>
        BY <1>1 DEF Allocate
    <2> QED BY <2>1, <2>2 DEF TypeOK, network
<1>2. ASSUME NEW f \in Function, send_com(f)
      PROVE  Inv' /\ problem' = problem
    <2>1. AllocationTypeOK' /\ ResOK' /\ problem' = problem
        BY <1>2, AllocationStep DEF send_com, TypeOK
    <2>2. f \in Functions(problem) /\ x_res[f] # NoPlace
        BY <1>2 DEF send_com, Told, IsNext, TypeOK, AllocationTypeOK
    <2>3. x_res[f] + 1 \in Node
        BY <2>2 DEF ResOK
    <2>4. [node |-> Address(x_res[f]), command |-> [vnf |-> f, iftype |-> 3]] \in Datagram
        BY <2>3 DEF Address, Datagram, Command
    <2>5. commands' \subseteq Datagram
        BY <1>2, <2>4 DEF send_com, TypeOK
    <2> QED BY <1>2, <2>1, <2>5 DEF send_com, TypeOK
<1>3. ASSUME NEW d \in Typed, Type(d)
      PROVE  Inv' /\ problem' = problem
    <2>1. UNCHANGED allocation /\ commands' = commands \cup {d} /\ typed' = typed \cup {d}
          /\ UNCHANGED <<agent, registrations, vnf, lost, repeated>>
        BY <1>3 DEF Type
    <2>2. AllocationTypeOK' /\ ResOK' /\ problem' = problem
        BY <2>1 DEF allocation, AllocationTypeOK, ResOK, TypeOK
    <2> QED BY <2>1, <2>2, TypedAssumption DEF TypeOK
<1>4. CASE Lose
    <2>1. UNCHANGED allocation /\ UNCHANGED <<agent, vnf, repeated, typed>>
          /\ lost' \in Nat /\ commands' \subseteq commands /\ registrations' \subseteq registrations
        BY <1>4, <1>0 DEF Lose
    <2>2. AllocationTypeOK' /\ ResOK' /\ problem' = problem
        BY <2>1 DEF allocation, AllocationTypeOK, ResOK, TypeOK
    <2> QED BY <2>1, <2>2 DEF TypeOK
<1>5. ASSUME NEW d \in commands, Register(d) \/ NoSocket(d) \/ EndAgent(d) \/ Unheard(d)
      PROVE  Inv' /\ problem' = problem
    <2>1. d \in Datagram /\ commands' \subseteq commands /\ repeated' \in Nat
        BY <1>5, <1>0, ArrivalsShrink DEF Register, NoSocket, EndAgent, Unheard, TypeOK
    <2>2. registrations' \subseteq [node : Node, command : Command]
        <3>1. CASE Register(d)
            BY <2>1, <3>1 DEF Register, TypeOK, Datagram
        <3>2. CASE ~Register(d)
            BY <1>5, <3>2 DEF NoSocket, EndAgent, Unheard, TypeOK
        <3> QED BY <3>1, <3>2
    <2>3. agent' \in [Node -> {"listening", "ended"}]
        BY <1>5 DEF Register, NoSocket, EndAgent, Unheard, TypeOK
    <2>4. UNCHANGED allocation /\ UNCHANGED <<vnf, lost, typed>>
        BY <1>5 DEF Register, NoSocket, EndAgent, Unheard
    <2>5. AllocationTypeOK' /\ ResOK' /\ problem' = problem
        BY <2>4 DEF allocation, AllocationTypeOK, ResOK, TypeOK
    <2> QED BY <2>1, <2>2, <2>3, <2>4, <2>5 DEF TypeOK
<1>6. ASSUME NEW d \in registrations, Insert(d)
      PROVE  Inv' /\ problem' = problem
    <2>1. d \in [node : Node, command : Command] /\ registrations' \subseteq registrations
          /\ repeated' \in Nat
        BY <1>6, <1>0, ArrivalsShrink DEF Insert, TypeOK
    <2>2. d.node \in Node /\ d.command.vnf \in Function /\ d.command.iftype \in 1..3
        BY <2>1 DEF Command
    <2>3. vnf' \in [Function -> [1..3 -> Node \cup {NoPlace}]]
        BY <1>6, <2>2 DEF Insert, TypeOK
    <2>4. UNCHANGED allocation /\ UNCHANGED <<commands, agent, lost, typed>>
        BY <1>6 DEF Insert
    <2>5. AllocationTypeOK' /\ ResOK' /\ problem' = problem
        BY <2>4 DEF allocation, AllocationTypeOK, ResOK, TypeOK
    <2> QED BY <2>1, <2>3, <2>4, <2>5 DEF TypeOK
<1>7. CASE UNCHANGED vars
    BY <1>7 DEF vars, allocation, TypeOK, AllocationTypeOK, ResOK
<1> QED BY <1>1, <1>2, <1>3, <1>4, <1>5, <1>6, <1>7
        DEF Next, RunProgram, RunAgent, RunController

\* Type correctness, for any problems, nodes and datagrams.
THEOREM DeploymentTypeOK == Spec => []TypeOK
<1>1. Init => Inv
    BY InitInv DEF Placed
<1>2. Inv /\ [Next]_vars => Inv'
    BY TypeStep
<1>3. Inv => TypeOK
    BY DEF Inv
<1> QED BY <1>1, <1>2, <1>3, PTL DEF Spec

(***************************************************************************)
(* The table follows the allocation.                                       *)
(***************************************************************************)

\* The solver keeps functions of one request apart, when it can.
LEMMA SolveApart ==
    ASSUME AllocationTypeOK, Solve
    PROVE  ResApart'
<1>1. problem \in Problems /\ problem' = problem
    BY SolveType DEF AllocationTypeOK
<1>2. SUFFICES
        ASSUME Feasible(problem),
               NEW f \in Functions(problem), NEW g \in Functions(problem),
               f # g, f[1] = g[1], x_res'[f] = x_res'[g]
        PROVE  FALSE
    BY <1>1 DEF ResApart
<1>3. PICK x \in Solved[problem] : x_res' \in Indices(x)
    BY <1>2 DEF Solve
<1>4. x \in Optimal(problem)
    BY <1>2, <1>3 DEF Feasible, Solved
<1>5. x_res'[f] \in 0..(problem.nodes - 1)
      /\ <<f, x_res'[f] + 1>> \in x /\ <<g, x_res'[g] + 1>> \in x
    BY <1>3 DEF Indices
<1>6. x_res'[f] + 1 \in Nodes(problem)
    BY <1>1, <1>5, IndexIsNode
<1> QED BY <1>1, <1>2, <1>4, <1>5, <1>6, SolutionApart

\* What has been chosen stays so: before it, nothing has.
LEMMA ChosenStays ==
    ASSUME NEW f, NEW n, Chosen(f, n), problem' = problem,
           \/ stage' # "solving" /\ x_res' = x_res
           \/ stage = "solving"
    PROVE  Chosen(f, n)'
BY DEF Chosen

\* Steps of the program: the result is written once, before anybody is told.
LEMMA ProgramKeeps ==
    ASSUME AllocationTypeOK, ResApart,
           Solve \/ RaiseSolving \/ (\E f \in Function : RaiseSending(f) \/ Told(f))
    PROVE  /\ ResApart' /\ stage' # "solving"
           /\ stage # "solving" => x_res' = x_res
<1>1. CASE Solve
    BY <1>1, SolveApart, SolveType DEF Solve
<1>2. CASE RaiseSolving
    BY <1>2 DEF RaiseSolving, ResApart
<1>3. ASSUME NEW f \in Function, RaiseSending(f) \/ Told(f)
      PROVE  /\ ResApart' /\ stage' # "solving"
             /\ stage # "solving" => x_res' = x_res
    BY <1>3 DEF RaiseSending, Told, IsNext, ResApart
<1> QED BY <1>1, <1>2, <1>3

LEMMA PlacedStep == OnlyInterfaces /\ Placed /\ [Next]_vars => Placed'
<1> SUFFICES ASSUME OnlyInterfaces, Placed, [Next]_vars PROVE Placed'
    OBVIOUS
<1>1. Inv' /\ problem' = problem
    BY TypeStep DEF Placed
<1>2. AllocationTypeOK /\ TypeOK
    BY DEF Placed, Inv, TypeOK
\* All steps but those of the program leave the allocation alone.
<1>3. ASSUME UNCHANGED allocation
      PROVE  ResApart' /\ \A f, n : Chosen(f, n) => Chosen(f, n)'
    BY <1>3 DEF allocation, Chosen, ResApart, Placed
<1>4. ASSUME Solve \/ RaiseSolving \/ (\E f \in Function : RaiseSending(f) \/ Told(f))
      PROVE  ResApart' /\ \A f, n : Chosen(f, n) => Chosen(f, n)'
    BY <1>1, <1>2, <1>4, ProgramKeeps DEF Chosen, Placed
<1>5. CASE Allocate
    <2>1. ResApart' /\ \A f, n : Chosen(f, n) => Chosen(f, n)'
        BY <1>4, <1>5 DEF Allocate
    <2>2. UNCHANGED <<commands, registrations, vnf>>
        BY <1>5 DEF Allocate, network
    <2> QED BY <1>1, <2>1, <2>2
            DEF Placed, CommandsOK, RegistrationsOK, TableOK, Place
<1>6. ASSUME NEW f \in Function, send_com(f)
      PROVE  Placed'
    <2>1. ResApart' /\ \A g, n : Chosen(g, n) => Chosen(g, n)'
        BY <1>4, <1>6 DEF send_com
    <2>2. Chosen(f, Address(x_res[f]))
        BY <1>2, <1>6 DEF send_com, Told, IsNext, Chosen, Address, AllocationTypeOK
    <2>3. CommandsOK'
        BY <1>6, <2>1, <2>2 DEF send_com, Placed, CommandsOK, Bidirectional
    <2>4. UNCHANGED <<registrations, vnf>>
        BY <1>6 DEF send_com
    <2> QED BY <1>1, <2>1, <2>3, <2>4
            DEF Placed, RegistrationsOK, TableOK, Place
<1>7. ASSUME NEW d \in Typed, Type(d)
      PROVE  Placed'
    <2>1. ResApart' /\ \A g, n : Chosen(g, n) => Chosen(g, n)'
        BY <1>3, <1>7 DEF Type
    <2>2. ~Bidirectional(d)
        BY DEF OnlyInterfaces, Bidirectional
    <2>3. CommandsOK'
        BY <1>7, <2>1, <2>2 DEF Type, Placed, CommandsOK, Bidirectional
    <2>4. UNCHANGED <<registrations, vnf>>
        BY <1>7 DEF Type
    <2> QED BY <1>1, <2>1, <2>3, <2>4
            DEF Placed, RegistrationsOK, TableOK, Place
<1>8. CASE Lose
    <2>1. ResApart' /\ \A g, n : Chosen(g, n) => Chosen(g, n)'
        BY <1>3, <1>8 DEF Lose
    <2>2. commands' \subseteq commands /\ registrations' \subseteq registrations /\ vnf' = vnf
        BY <1>8 DEF Lose
    <2> QED BY <1>1, <2>1, <2>2
            DEF Placed, CommandsOK, RegistrationsOK, TableOK, Place, Bidirectional
<1>9. ASSUME NEW d \in commands, Register(d) \/ NoSocket(d) \/ EndAgent(d) \/ Unheard(d)
      PROVE  Placed'
    <2>1. ResApart' /\ \A g, n : Chosen(g, n) => Chosen(g, n)'
        BY <1>3, <1>9 DEF Register, NoSocket, EndAgent, Unheard
    <2>2. commands' \subseteq commands
        BY <1>9 DEF Register, NoSocket, EndAgent, Unheard, Arrives
    <2>3. CommandsOK' /\ vnf' = vnf
        BY <1>9, <2>1, <2>2
           DEF Register, NoSocket, EndAgent, Unheard, Placed, CommandsOK, Bidirectional
    <2>4. d.command \in Command /\ d.command.iftype = 3 =>
              Chosen(d.command.vnf, d.node)
        BY DEF Placed, CommandsOK, Bidirectional
    <2>5. \A r \in registrations' : r \in registrations \/ (r = d /\ d.command \in Command)
        BY <1>9 DEF Register, NoSocket, EndAgent, Unheard
    <2>6. RegistrationsOK'
        BY <2>1, <2>4, <2>5 DEF Placed, RegistrationsOK
    <2> QED BY <1>1, <2>1, <2>3, <2>6 DEF Placed, TableOK, Place
<1>10. ASSUME NEW d \in registrations, Insert(d)
      PROVE  Placed'
    <2>1. ResApart' /\ \A g, n : Chosen(g, n) => Chosen(g, n)'
        BY <1>3, <1>10 DEF Insert
    <2>2. registrations' \subseteq registrations /\ commands' = commands
        BY <1>10 DEF Insert, Arrives
    <2>3. d.command.iftype = 3 => Chosen(d.command.vnf, d.node)
        BY DEF Placed, RegistrationsOK
    <2>4. d.command \in Command
        BY <1>2 DEF TypeOK
    <2>5. ASSUME NEW f \in Function, Place(f)' # NoPlace
          PROVE  Chosen(f, Place(f)')
        <3>1. \/ Place(f)' = Place(f)
              \/ f = d.command.vnf /\ d.command.iftype = 3 /\ Place(f)' = d.node
            BY <1>2, <1>10, <2>4 DEF Insert, Place, TypeOK, Command
        <3> QED BY <2>3, <2>5, <3>1 DEF Placed, TableOK
    <2>6. TableOK'
        BY <2>1, <2>5 DEF TableOK, Chosen
    <2>7. CommandsOK' /\ RegistrationsOK'
        BY <2>1, <2>2 DEF Placed, CommandsOK, RegistrationsOK, Bidirectional
    <2> QED BY <1>1, <2>1, <2>6, <2>7 DEF Placed
<1>11. CASE UNCHANGED vars
    <2>1. ResApart' /\ \A g, n : Chosen(g, n) => Chosen(g, n)'
        BY <1>3, <1>11 DEF vars
    <2> QED BY <1>1, <1>11, <2>1
            DEF vars, Placed, CommandsOK, RegistrationsOK, TableOK, Place, Bidirectional
<1> QED BY <1>5, <1>6, <1>7, <1>8, <1>9, <1>10, <1>11
        DEF Next, RunProgram, RunAgent, RunController

LEMMA PlacedAlways == ASSUME OnlyInterfaces PROVE Spec => []Placed
<1>1. Init => Placed
    BY InitInv
<1>2. Placed /\ [Next]_vars => Placed'
    BY PlacedStep
<1> QED BY <1>1, <1>2, PTL DEF Spec

\* Where the vnf table has a function as a bidirectional one, it is where the one
\* run of the program has put it, whatever becomes of datagrams and agents
\* (test_sfc.py:101-104, listen.py:67-93).
THEOREM TableFollowsAllocation == ASSUME OnlyInterfaces PROVE Spec => []FollowsAllocation
<1>1. Placed => FollowsAllocation
    BY DEF Placed, TableOK, Chosen, FollowsAllocation
<1> QED BY <1>1, PlacedAlways, PTL

LEMMA PlacedApart == Placed => Apart
<1> SUFFICES ASSUME Placed, Feasible(problem),
                    NEW f \in Function, NEW g \in Function,
                    f # g, f[1] = g[1], Place(f) # NoPlace, Place(f) = Place(g)
             PROVE  FALSE
    BY DEF Apart
<1>1. Chosen(f, Place(f)) /\ Chosen(g, Place(g))
    BY DEF Placed, TableOK
<1>2. x_res[f] \in Nat /\ x_res[g] \in Nat /\ x_res[f] + 1 = x_res[g] + 1
    BY <1>1 DEF Chosen, Placed, Inv, ResOK
<1>3. x_res[f] = x_res[g]
    BY <1>2
<1>4. x_res[f] # x_res[g]
    BY <1>1 DEF Chosen, Placed, ResApart
<1> QED BY <1>3, <1>4

\* Functions of one request register from different nodes (test_sfc.py:52-54).
THEOREM RequestsApart == ASSUME OnlyInterfaces PROVE Spec => []Apart
<1>1. Placed => Apart
    BY PlacedApart
<1> QED BY <1>1, PlacedAlways, PTL

(***************************************************************************)
(* The vnf table implements the registry of functions.                     *)
(***************************************************************************)

\* Where the registry has function f.
Where == [f \in Function |-> Place(f)]

LEMMA PromisedInit == Init => Promise!Init
<1> SUFFICES ASSUME Init
             PROVE  Promise!Init
    OBVIOUS
<1>1. \A f \in Function : Place(f) = NoPlace
    BY DEF Init, Place
<1>2. Feasible(problem) \in BOOLEAN
    BY DEF Feasible
<1> QED BY <1>1, <1>2 DEF Promise!Init

\* Only a registration changes a place, and only one that is not taken.
LEMMA PlacesStay ==
    ASSUME Inv, [Next]_vars
    PROVE  \/ \A f \in Function : Place(f)' = Place(f)
           \/ \E f \in Function, n \in Node :
                /\ Place(f) = NoPlace /\ Place(f)' = n
                /\ \A g \in Function \ {f} : Place(g)' = Place(g)
<1>1. CASE UNCHANGED vnf
    BY <1>1 DEF Place
<1>2. CASE \E d \in registrations : Insert(d)
    <2>1. PICK d \in registrations : Insert(d)
        BY <1>2
    <2>2. d.node \in Node /\ d.command \in Command
        BY DEF Inv, TypeOK
    <2>3. d.command.vnf \in Function /\ d.command.iftype \in 1..3
        BY <2>2 DEF Command
    <2>4. vnf \in [Function -> [1..3 -> Node \cup {NoPlace}]]
        BY DEF Inv, TypeOK
    <2>5. CASE vnf' = vnf
        BY <2>5 DEF Place
    <2>6. CASE vnf' # vnf
        <3>1. /\ vnf[d.command.vnf][d.command.iftype] = NoPlace
              /\ vnf' = [vnf EXCEPT ![d.command.vnf][d.command.iftype] = d.node]
            BY <2>1, <2>6 DEF Insert
        <3>2. \A g \in Function \ {d.command.vnf} : Place(g)' = Place(g)
            BY <2>3, <2>4, <3>1 DEF Place
        <3>3. CASE d.command.iftype = 3
            <4>1. Place(d.command.vnf) = NoPlace /\ Place(d.command.vnf)' = d.node
                BY <2>3, <2>4, <3>1, <3>3 DEF Place
            <4> QED BY <2>2, <2>3, <3>2, <4>1
        <3>4. CASE d.command.iftype # 3
            <4>1. Place(d.command.vnf)' = Place(d.command.vnf)
                BY <2>3, <2>4, <3>1, <3>4 DEF Place
            <4> QED BY <3>2, <4>1
        <3> QED BY <3>3, <3>4
    <2> QED BY <2>5, <2>6
<1> QED BY <1>1, <1>2
        DEF Next, RunProgram, RunAgent, RunController, Allocate, send_com, Type, Lose,
            Register, NoSocket, EndAgent, Unheard, vars

LEMMA PromisedStep ==
    ASSUME Inv, Apart', [Next]_vars, problem' = problem
    PROVE  [Promise!Next]_(Promise!vars)
<1>1. Feasible(problem)' = Feasible(problem)
    OBVIOUS
<1>2. CASE \A f \in Function : Place(f)' = Place(f)
    <2>1. Where' = Where
        BY <1>2 DEF Where
    <2> QED BY <1>1, <2>1 DEF Promise!vars, Where
<1>3. CASE \E f \in Function, n \in Node :
                /\ Place(f) = NoPlace /\ Place(f)' = n
                /\ \A g \in Function \ {f} : Place(g)' = Place(g)
    <2>1. PICK f \in Function, n \in Node :
                /\ Place(f) = NoPlace /\ Place(f)' = n
                /\ \A g \in Function \ {f} : Place(g)' = Place(g)
        BY <1>3
    <2>2. n # NoPlace
        BY PlaceAssumption, ProblemAssumption DEF Node, Nodes
    <2>3. ASSUME Feasible(problem), NEW g \in Function, g[1] = f[1]
          PROVE  Place(g) # n
        <3>1. CASE g = f
            BY <2>1, <2>2, <3>1
        <3>2. CASE g # f
            <4>1. Place(f)' # NoPlace => Place(f)' # Place(g)'
                BY <1>1, <2>3, <3>2 DEF Apart
            <4> QED BY <2>1, <2>2, <3>2, <4>1
        <3> QED BY <3>1, <3>2
    <2>4. Where' = [Where EXCEPT ![f] = n]
        BY <2>1 DEF Where
    <2>5. Promise!Place(f, n)
        BY <1>1, <2>1, <2>3, <2>4 DEF Promise!Place, Where
    <2> QED BY <2>5 DEF Promise!Next
<1> QED BY <1>2, <1>3, PlacesStay

\* Together, program, agents, network and controller keep what FunctionRegistry
\* promises: a function is given a place once, for good, and apart from the
\* others of its request (test_sfc.py:52-58, sfc_nfv.py:236).
THEOREM RegistryKept == ASSUME OnlyInterfaces PROVE Spec => KeepsPlaces
<1>1. Init => Promise!Init
    BY PromisedInit
<1>2. Placed /\ Placed' /\ [Next]_vars => [Promise!Next]_(Promise!vars)
    <2>1. Placed' => Apart'
        BY PlacedApart, PTL
    <2> QED BY <2>1, PromisedStep, TypeStep DEF Placed
<1> QED BY <1>1, <1>2, PlacedAlways, PTL DEF Spec, KeepsPlaces, Promise!Spec
=============================================================================
