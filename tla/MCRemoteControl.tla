--------------------------- MODULE MCRemoteControl ---------------------------
(***************************************************************************)
(* RemoteControl for TLC.  The configuration files scale the durations of  *)
(* NativeConfig down and keep their order, so far as ties allow:           *)
(* WebShutterHold <= ImmediateAutofocusLead < PhysicalShutterFailsafe <    *)
(* AutofocusLead <= Cooldown < MaxDelay.  The delays lie on both sides of  *)
(* every boundary of requestCapture().                                     *)
(***************************************************************************)
EXTENDS RemoteControl

MCDelays == {-1, 0, 1, 4, 5}
=============================================================================
