----------------------------- MODULE MCListener -----------------------------
(* A small instance of Listener.                                           *)
EXTENDS Listener
=============================================================================
