----------------------------- MODULE MCMerchant -----------------------------
(* Merchant on small instances. *)
EXTENDS Merchant

CONSTANTS A, B

\* The settings of the store A, entered and then sent back with a masked key.
StaysWithA == {[mode |-> "", store |-> A, key |-> A],
               [mode |-> "keep", store |-> A, key |-> Masked]}
=============================================================================
