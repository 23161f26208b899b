----------------------------- MODULE MCRateLimit -----------------------------
(* A small instance of RateLimit for TLC; its configuration gives the      *)
(* values.  Requests are not declared symmetric: a liveness property is    *)
(* among those checked.                                                    *)
EXTENDS RateLimit
=============================================================================
