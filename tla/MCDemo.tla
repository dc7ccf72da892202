------------------------------- MODULE MCDemo -------------------------------
(* Demo for TLC; it has no constants.                                      *)
EXTENDS Demo

=============================================================================
