-------------------------- MODULE MCInputAdmission --------------------------
(* InputAdmission with limits a few units apart: every size and duration lies *)
(* below, at, between or above them.                                          *)
EXTENDS InputAdmission

MCSizes == 1..5
MCDurations == 1..4
=============================================================================
