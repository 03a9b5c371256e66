------------------------------ MODULE MCCheckout ------------------------------
(* Small instances of Checkout for TLC. *)
EXTENDS CheckoutProperties, TLC

Symmetry == Permutations(Orders \ LegacyOrders) \cup Permutations(Handlers)
              \cup Permutations(Cleaners)
==============================================================================
