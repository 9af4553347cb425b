------------------------------- MODULE Shutter -------------------------------
(***************************************************************************)
(* What the shutter logic promises to its callers, without times, command  *)
(* ids and flags: the phases that a user of the remote can tell apart and  *)
(* the calls that lead from one to another.  RemoteControl implements it;  *)
(* RequestApi is built on it.                                              *)
(***************************************************************************)

VARIABLE phase

Phase ==
  {"off",       \* no session
   "unready",   \* camera or network are missing
   "armed",     \* free for the next job
   "pending",   \* a shot is due: countdown, or the autofocus before it
   "held",      \* the focus is held
   "shooting",  \* from the shot to the end of its cooldown
   "error"}     \* a command failed

PhaseInit == phase = "off"

\* The moves from one phase to a set of others.
Moves(from, to) == phase \in from /\ phase' \in to

Begin == Moves({"off"}, {"unready"})
End   == Moves(Phase \ {"off"}, {"off"})

\* Readiness ends an error too, and nothing else does but the end of the
\* session.
Unready == Moves(Phase \ {"off"}, {"unready"})
Ready   == Moves({"unready"}, {"armed"})

\* Requests and keys.  Each may fail, when the command queue refuses.
\* Mutant: a request replaces a countdown.
RequestMutant == Moves({"armed", "pending"}, {"pending", "shooting", "error"})
Request == Moves({"armed"}, {"pending", "shooting", "error"})
Cancel  == Moves({"pending", "held"}, {"armed"})
Hold    == Moves({"armed"}, {"held", "error"})
Unhold  == Moves({"held"}, {"armed"})
Press   == Moves({"armed", "pending", "held"}, {"shooting", "error"})

\* Time: a shot falls due, is released and is over.
Elapse ==
  \/ Moves({"pending", "held"}, {"shooting", "error"})
  \/ Moves({"shooting"}, {"armed", "error"})

\* Results: a failed autofocus drops the shot, a failed shot is an error.
Fails ==
  \/ Moves({"pending"}, {"armed"})
  \/ Moves({"shooting"}, {"error"})

PhaseNext ==
  \/ Begin \/ End
  \/ Unready \/ Ready
  \/ Request \/ Cancel \/ Hold \/ Unhold \/ Press
  \/ Elapse \/ Fails

PhaseSpec == PhaseInit /\ [][PhaseNext]_phase
=============================================================================
