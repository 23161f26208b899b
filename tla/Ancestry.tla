------------------------------ MODULE Ancestry ------------------------------
(***************************************************************************)
(* What the two walks over Synapse's event graphs are measured against.  A *)
(* graph is a function from an event to the events it refers to directly.  *)
(***************************************************************************)

Parents(graph, events) == UNION {graph[e] : e \in events}

Closed(graph, events) == Parents(graph, events) \subseteq events

(* What is reached from `events' in one step or more: the least closed set *)
(* that holds their parents.                                               *)
Ancestors(graph, events) ==
  {a \in DOMAIN graph :
     \A c \in SUBSET DOMAIN graph :
       Parents(graph, events) \subseteq c /\ Closed(graph, c) => a \in c}

Acyclic(graph) == \A e \in DOMAIN graph : e \notin Ancestors(graph, {e})
=============================================================================
