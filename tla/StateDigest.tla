---------------------------- MODULE StateDigest ----------------------------
(***************************************************************************)
(* How two /state answers are compared without either being held: the      *)
(* digestAccumulator, ScanStateResponse and Agrees of                      *)
(* internal/matrixstate/state.go.                                          *)
(*                                                                         *)
(* An answer has two arrays of PDUs.  SHA-256 is a small number per PDU,   *)
(* chosen so that sums pass the modulus and that different small bags have *)
(* different sums.                                                         *)
(*                                                                         *)
(* A definition named X_Y is X with a fault, for showing that a property   *)
(* notices it; nothing uses it.                                            *)
(***************************************************************************)
EXTENDS Integers, Sequences, SequencesExt

(* Answers that differ from the first in nothing that counts, in the array *)
(* that holds an event, in how often it is there, in one event.            *)
StateBody ==
  [a         |-> [pdus |-> <<"p", "q">>,      auth_chain |-> <<"r">>],
   reordered |-> [pdus |-> <<"q", "p">>,      auth_chain |-> <<"r">>],
   moved     |-> [pdus |-> <<"p">>,           auth_chain |-> <<"q", "r">>],
   twice     |-> [pdus |-> <<"p", "q">>,      auth_chain |-> <<"r", "r">>],
   thrice    |-> [pdus |-> <<"p", "q", "q", "q">>, auth_chain |-> <<"r">>],
   b         |-> [pdus |-> <<"p", "s">>,      auth_chain |-> <<"r">>]]

Hash == [p |-> 97, q |-> 60, r |-> 31, s |-> 85]
Modulus == 128

Add(sum, pdu) == sum + Hash[pdu]

(* Equal contributions cancel, as under exclusive or.                      *)
Digest_Cancels(pdus) ==
  FoldLeft(Add, 0, SelectSeq(SetToSeq(ToSet(pdus)),
                     LAMBDA x : Len(SelectSeq(pdus, LAMBDA y : y = x)) % 2 = 1)) % Modulus

Digest(pdus) == FoldLeft(Add, 0, pdus) % Modulus

DigestStateResponse(body) ==
  [PDUDigest |-> Digest(body.pdus), AuthChainDigest |-> Digest(body.auth_chain)]

DigestsAgree(x, y) == x.PDUDigest = y.PDUDigest /\ x.AuthChainDigest = y.AuthChainDigest

(* What agreement means: the same events as often, in the same array.      *)
Occurrences(pdus, x) == Len(SelectSeq(pdus, LAMBDA y : y = x))
SameEvents(x, y) ==
  \A field \in {"pdus", "auth_chain"}, p \in DOMAIN Hash :
    Occurrences(x[field], p) = Occurrences(y[field], p)
=============================================================================
