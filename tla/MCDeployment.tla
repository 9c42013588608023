---------------------------- MODULE MCDeployment ----------------------------
(***************************************************************************)
(* Small allocations: those that fit, and those that do not, by each of    *)
(* the ways not to.                                                        *)
(***************************************************************************)
EXTENDS Deployment

Problem(n, Kr) == [nodes |-> n, Kr |-> Kr]
Ones(m) == [r \in 1..m |-> 1]

MCProblems ==
    {Problem(2, <<2>>), Problem(2, <<2, 1>>), Problem(3, <<2, 1>>), Problem(1, <<1>>),
     Problem(1, <<2>>),             \* a request longer than the nodes are many
     Problem(1, <<1, 1>>),          \* a share of more than the longest request
     Problem(1, Ones(10))}          \* a tenth request

\* Told by hand: an interface of a function to node 2, an empty line to node 1.
MCTyped ==
    {[node |-> 2, command |-> [vnf |-> <<1, 1>>, iftype |-> 1]],
     [node |-> 1, command |-> [text |-> "empty"]]}
=============================================================================
