----------------------------- MODULE MCCheckout -----------------------------
(* The instance of Checkout for TLC: MCCheckout.cfg gives the values. *)
EXTENDS Checkout
=============================================================================
