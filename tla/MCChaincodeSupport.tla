------------------------ MODULE MCChaincodeSupport ------------------------
(***************************************************************************)
(* ChaincodeSupport for TLC; the constants are given in the configuration. *)
(***************************************************************************)
EXTENDS ChaincodeSupport

=============================================================================
