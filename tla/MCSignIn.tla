------------------------------ MODULE MCSignIn ------------------------------
(* The instance of SignIn for TLC; its sets are given in the .cfg. *)
EXTENDS SignIn
=============================================================================
