---------------------------- MODULE MCHttpServer ----------------------------
(***************************************************************************)
(* HttpServer for TLC: one connection more than there are places.          *)
(***************************************************************************)
EXTENDS HttpServer, TLC

Symmetry == Permutations(Connections)
=============================================================================
