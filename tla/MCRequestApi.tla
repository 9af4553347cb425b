---------------------------- MODULE MCRequestApi ----------------------------
(***************************************************************************)
(* RequestApi for TLC: more ids than answers are kept, and a limiter that  *)
(* refuses the second request of a client at one instant.                  *)
(***************************************************************************)
EXTENDS RequestApi, TLC

Symmetry ==
  Permutations(RequestIds) \cup Permutations(Clients) \cup Permutations(Pins)
=============================================================================
