---------------------------- MODULE MCInvoicing ----------------------------
(* Small instances of Invoicing for TLC.                                   *)
EXTENDS Invoicing

CONSTANTS pat, key, r1

OnlyPat == {pat}
NoFailing == {}
OneKey == {key}
NoKeys == {}
OneRequest == {r1}
OneMicro == {1}
LinkIds == 1 .. MaxLinks

(* Which webhooks Stripe's latest step fired is in network already.        *)
State == <<now, created, subs, byCustomer, subIdem, drafts, invoice, open,
           listed, linkVars, requestVars, hookVars, history>>
=============================================================================
