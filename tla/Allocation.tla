----------------------------- MODULE Allocation -----------------------------
(***************************************************************************)
(* test_sfc.py: place the functions of several requests on nodes by an     *)
(* integer program, and tell every node what it is to install.             *)
(*                                                                         *)
(* Function k of request r is <<r, k>>, nodes are 1, 2, ...  The solver is *)
(* external: any of the optimal solutions, or, when there is none, any     *)
(* values at all, because the program does not look at the status.         *)
(***************************************************************************)
EXTENDS Naturals, FiniteSets, Sequences

CONSTANTS
    Problems,       \* what a user writes at the head of the file
    NoPlace         \* a place of x_res that no variable has filled

ASSUME ProblemAssumption ==
    Problems \subseteq [nodes : Nat \ {0}, Kr : Seq(Nat \ {0})]
ASSUME PlaceAssumption == NoPlace \notin Nat

Nodes(p) == 1..p.nodes
Functions(p) == UNION {{r} \X (1..p.Kr[r]) : r \in DOMAIN p.Kr}
maxKr(p) == CHOOSE m \in {p.Kr[r] : r \in DOMAIN p.Kr} :
                \A r \in DOMAIN p.Kr : p.Kr[r] <= m

Node == UNION {Nodes(p) : p \in Problems}
Function == UNION {Functions(p) : p \in Problems}

(***************************************************************************)
(* The integer program.  x is the set of <<f, n>> whose variable is 1.     *)
(***************************************************************************)

Load(x, n) == Cardinality({fn \in x : fn[2] = n})

\* (1), (2) and (3), as they are named in the program.
LoadAnywhere(p, x, alpha) == TRUE   \* mutant: constraint (1) forgotten
LoadWithin(p, x, alpha) == \A n \in Nodes(p) : Load(x, n) <= alpha
OneOfEachOrMore(p, x) == TRUE        \* mutant: constraint (2) forgotten
OneOfEach(p, x) ==
    \A n \in Nodes(p), r \in DOMAIN p.Kr :
        Cardinality({fn \in x : fn[2] = n /\ fn[1][1] = r}) <= 1
PlacedOnce(p, x) ==
    \A f \in Functions(p) : Cardinality({fn \in x : fn[1] = f}) = 1

Solutions(p, alpha) ==
    {x \in SUBSET (Functions(p) \X Nodes(p)) :
        PlacedOnce(p, x) /\ OneOfEach(p, x) /\ LoadWithin(p, x, alpha)}

\* alpha is bounded by max(Kr), and minimal.
Optimal(p) ==
    {x \in SUBSET (Functions(p) \X Nodes(p)) :
        \E alpha \in 0..maxKr(p) :
            /\ x \in Solutions(p, alpha)
            /\ \A less \in 0..maxKr(p) : less < alpha => Solutions(p, less) = {}}

\* The variables of a request are indexed by its number, as a string, which is
\* taken for a list of its characters: from the tenth on there are none.
KeyMissing(p) == Len(p.Kr) > 9

Solved == [p \in {q \in Problems : ~KeyMissing(q)} |-> Optimal(p)]
Feasible(p) == p \in DOMAIN Solved /\ Solved[p] # {}

(***************************************************************************)
(* A run of the program.                                                   *)
(***************************************************************************)

VARIABLES
    problem,    \* what this run is about
    stage,      \* how far it is
    x_res,      \* the list index of the node of every function
    todo        \* the functions whose node has not been told

allocation == <<problem, stage, x_res, todo>>

AllocationTypeOK ==
    /\ problem \in Problems
    /\ stage \in {"solving", "sending", "done", "failed"}
    /\ x_res \in [Functions(problem) -> Nat \cup {NoPlace}]
    /\ todo \subseteq Functions(problem)

AllocationInit ==
    /\ problem \in Problems
    /\ stage = "solving"
    /\ x_res = [f \in Functions(problem) |-> NoPlace]
    /\ todo = Functions(problem)

\* Node n is at index n - 1 of the list of addresses.
Indices(x) ==
    {res \in [Functions(problem) -> 0..(problem.nodes - 1)] :
        \A f \in Functions(problem) : <<f, res[f] + 1>> \in x}

Solve ==
    /\ stage = "solving" /\ ~KeyMissing(problem)
    /\ IF Feasible(problem)
       THEN \E x \in Solved[problem] : x_res' \in Indices(x)
       ELSE x_res' \in [Functions(problem) -> 0..(problem.nodes - 1) \cup {NoPlace}]
    /\ stage' = "sending"
    /\ UNCHANGED <<problem, todo>>

\* KeyError, or int(None) for a variable without a value.
RaiseSolving ==
    /\ stage = "solving" /\ ~Feasible(problem)
    /\ stage' = "failed"
    /\ UNCHANGED <<problem, x_res, todo>>

\* Requests in order, and the functions of each in order.
IsNext(f) ==
    /\ stage = "sending" /\ f \in todo
    /\ \A g \in todo : f[1] < g[1] \/ (f[1] = g[1] /\ f[2] <= g[2])

\* ip[loc]
AddressBefore(loc) == loc           \* mutant: the list begins with node 0
Address(loc) == loc + 1

ToldTheRequest(f) ==                \* mutant: one command for every request
    /\ IsNext(f) /\ x_res[f] # NoPlace
    /\ todo' = {g \in todo : g[1] # f[1]}
    /\ stage' = IF todo' = {} THEN "done" ELSE "sending"
    /\ UNCHANGED <<problem, x_res>>
Told(f) ==
    /\ IsNext(f) /\ x_res[f] # NoPlace
    /\ todo' = todo \ {f}
    /\ stage' = IF todo' = {} THEN "done" ELSE "sending"
    /\ UNCHANGED <<problem, x_res>>

\* int([]), or no socket: the nodes that have been told stay told.
RaiseSending(f) ==
    /\ IsNext(f)
    /\ stage' = "failed"
    /\ UNCHANGED <<problem, x_res, todo>>
=============================================================================
