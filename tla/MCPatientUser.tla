--------------------------- MODULE MCPatientUser ---------------------------
(* PatientUser for TLC.  The sets of requests are large enough for her never
   to run out of them: with MaxFaults faults she sends at most the numbers
   below. *)
EXTENDS PatientUser
=============================================================================
