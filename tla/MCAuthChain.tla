---------------------------- MODULE MCAuthChain ----------------------------
(* A small instance of AuthChain for TLC: all acyclic graphs of four       *)
(* events, each referring to smaller ones (every acyclic graph is one of   *)
(* these, renamed), and all graphs of three events, cyclic ones included,  *)
(* beside a fourth that refers to nothing.                                 *)
EXTENDS AuthChain

Events   == 1 .. 4
Acyclics == {g \in [Events -> SUBSET Events] : \A e \in Events : g[e] \subseteq 1 .. (e - 1)}
Cyclics  == {g \in [Events -> SUBSET (1 .. 3)] : g[4] = {}}
Graphs   == Acyclics \cup Cyclics
=============================================================================
