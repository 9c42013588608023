-------------------------- MODULE FunctionRegistry --------------------------
(***************************************************************************)
(* What the allocation and the registration of functions promise: a        *)
(* function is given a place once and keeps it, and, when the requests can *)
(* be satisfied, no two functions of a request are in one place.           *)
(***************************************************************************)
CONSTANTS
    Function, Node, Nowhere,
    Request         \* Request[f]: what function f is part of

VARIABLES
    satisfiable,    \* there is a place for all functions
    where           \* the places they have been given

vars == <<satisfiable, where>>

Init ==
    /\ satisfiable \in BOOLEAN
    /\ where = [f \in Function |-> Nowhere]

Place(f, n) ==
    /\ where[f] = Nowhere
    /\ where' = [where EXCEPT ![f] = n]
    /\ satisfiable =>
           \A g \in Function : Request[g] = Request[f] => where[g] # n
    /\ UNCHANGED satisfiable

Next == \E f \in Function, n \in Node : Place(f, n)

Spec == Init /\ [][Next]_vars
=============================================================================
