--------------------------- MODULE StripeTheorems ---------------------------
(* All that is proved of FakeStripe, for the modules that build on it.     *)
EXTENDS FlatFeeProofs, InvoiceRefinement
=============================================================================
