----------------------------- MODULE MCAuthGate -----------------------------
(* The instance of AuthGate for TLC.                                       *)
EXTENDS AuthGate
=============================================================================
