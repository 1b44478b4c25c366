------------------------------ MODULE MCDevice ------------------------------
(* The instances of Device for TLC; the .cfg files give all the constants. *)
EXTENDS Device
=============================================================================
