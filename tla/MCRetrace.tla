------------------------------ MODULE MCRetrace ------------------------------
(* Retrace for TLC.                                                          *)
EXTENDS Retrace

=============================================================================
