----------------------------- MODULE MCSignup -----------------------------
(* Signup for TLC.  The refinement UsesOtp is checked without symmetry. *)
EXTENDS Signup, TLC

ResendSymmetry == Permutations(Resends)
=============================================================================
