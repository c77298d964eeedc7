----------------------------- MODULE MCManager ------------------------------
(***************************************************************************)
(* Small instances of Manager for TLC.                                     *)
(***************************************************************************)
EXTENDS Manager

CONSTANTS c1, pvA, pvB, m1, m2, u1, u2
=============================================================================
