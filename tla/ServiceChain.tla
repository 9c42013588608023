---------------------------- MODULE ServiceChain ----------------------------
(***************************************************************************)
(* What a service function chain promises to a packet of its flow: it      *)
(* visits the functions of the service, each once and in their order, and  *)
(* is delivered after the last one, in the form in which it was sent.      *)
(***************************************************************************)
EXTENDS Naturals, Sequences

CONSTANT Chains     \* the services: sequences of functions

VARIABLES
    chain,          \* the service of the packet's flow
    visited,        \* the functions the packet has been through
    delivered       \* it has reached its destination

vars == <<chain, visited, delivered>>

Init == chain \in Chains /\ visited = <<>> /\ delivered = FALSE

Visit ==
    /\ ~ delivered
    /\ Len(visited) < Len(chain)
    /\ visited' = Append(visited, chain[Len(visited) + 1])
    /\ UNCHANGED <<chain, delivered>>

Deliver ==
    /\ ~ delivered
    /\ visited = chain
    /\ delivered' = TRUE
    /\ UNCHANGED <<chain, visited>>

Next == Visit \/ Deliver

Spec == Init /\ [][Next]_vars /\ WF_vars(Next)
=============================================================================
