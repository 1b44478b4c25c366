------------------------------- MODULE MCOtp -------------------------------
(* One phone for TLC, with the proportions of the real policy. *)
EXTENDS Otp
=============================================================================
