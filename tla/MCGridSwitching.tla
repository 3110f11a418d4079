-------------------------- MODULE MCGridSwitching --------------------------
(* Constants of GridSwitching for TLC.                                     *)
EXTENDS GridSwitching

\* In band, two ways of failing, and a reading that fails in two parameters.
AllReadings == {{}, {"voltage"}, {"frequency", "phase"}, {"phase"}}

=============================================================================
