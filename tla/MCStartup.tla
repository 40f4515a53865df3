----------------------------- MODULE MCStartup -----------------------------
(***************************************************************************)
(* Startup with two bound and two jump registers, which the kernel leaves  *)
(* in any state.                                                           *)
(***************************************************************************)
EXTENDS Startup

MCTargets == {1, 2}

=============================================================================
