------------------------------ MODULE MCStation ------------------------------
(* A station service with three request threads, for TLC: two that race and *)
(* one that changes the list between them.                                  *)
EXTENDS Station

MCId == 1 .. 3
=============================================================================
