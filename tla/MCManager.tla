------------------------------- MODULE MCManager -------------------------------
(***************************************************************************)
(* Model checking of the settings.                                         *)
(***************************************************************************)
EXTENDS Manager

=============================================================================
