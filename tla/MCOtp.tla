------------------------------ MODULE MCOtp ------------------------------
(* Otp for TLC: interchangeable verification requests. *)
EXTENDS Otp, TLC

RequestSymmetry == Permutations(Requests)
=============================================================================
