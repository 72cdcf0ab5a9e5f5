---------------------------- MODULE MCFakeStripe ----------------------------
(* Small instances of FakeStripe for TLC.                                  *)
EXTENDS FakeStripe

CONSTANT pat

OnlyPat == {pat}
NoFailing == {}
NoKeys == {}
NoMetas == {}
OneMicro == {1}
NoUsage == {}

(* Which webhooks the latest step fired decides nothing later.             *)
ServerState == <<now, created, subs, byCustomer, subIdem, drafts, invoice,
                 open, listed>>

(* Nor does a bill's usage, at prices where a micro more makes no cent's   *)
(* difference: finalizing reads it for the amount due, and nothing else    *)
(* does.                                                                   *)
Unmetered(b) == [b EXCEPT !.usage = 0]
ServerStateButUsage ==
    <<now, created, subs, byCustomer, subIdem,
      [i \in DOMAIN drafts |-> Unmetered(drafts[i])],
      [i \in DOMAIN invoice |-> [invoice[i] EXCEPT !.bill = Unmetered(@)]],
      open, listed>>
=============================================================================
