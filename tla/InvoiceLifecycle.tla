-------------------------- MODULE InvoiceLifecycle --------------------------
(***************************************************************************)
(* What the Stripe stand-in promises of its invoices, whatever containers, *)
(* periods and webhooks lie behind them: an invoice is opened as a draft,  *)
(* finalized once with an amount that never changes again, possibly        *)
(* collected, and shown to its customer exactly when the amount due is     *)
(* positive.  FakeStripe implements this specification.                    *)
(***************************************************************************)
EXTENDS Integers

CONSTANTS
    InvoiceIds      \* every invoice id that may ever be issued

VARIABLES
    status,     \* issued invoice -> "draft", "open" or "paid"
    amount,     \* finalized invoice -> its amount due, in cents
    statement   \* the invoices customers are shown

lifecycle == <<status, amount, statement>>

Issued == DOMAIN status
InStatus(st) == {i \in Issued : status[i] = st}

LifecycleTypeOK ==
    /\ Issued \subseteq InvoiceIds
    /\ status \in [Issued -> {"draft", "open", "paid"}]
    /\ DOMAIN amount = InStatus("open") \cup InStatus("paid")
    /\ amount \in [DOMAIN amount -> Nat]
    /\ statement \subseteq DOMAIN amount

Init ==
    /\ status = [i \in {} |-> "draft"]
    /\ amount = [i \in {} |-> 0]
    /\ statement = {}

(* One call, or one tick of the scheduler, may open several drafts.        *)
OpenDrafts ==
    LET fresh == DOMAIN status' \ Issued
    IN  /\ fresh # {}
        /\ fresh \subseteq InvoiceIds
        /\ status' = [i \in Issued \cup fresh |->
                        IF i \in fresh THEN "draft" ELSE status[i]]
        /\ UNCHANGED <<amount, statement>>

(* The amount due is chosen here and never again.                          *)
Finalize(i) ==
    /\ status[i] = "draft"
    /\ status' = [status EXCEPT ![i] = "open"]
    /\ DOMAIN amount' = DOMAIN amount \cup {i}
    /\ amount'[i] \in Nat
    /\ amount' = [j \in DOMAIN amount \cup {i} |->
                    IF j = i THEN amount'[i] ELSE amount[j]]
    /\ statement' = IF amount'[i] > 0 THEN statement \cup {i} ELSE statement

Collect(i) ==
    /\ status[i] = "open"
    /\ status' = [status EXCEPT ![i] = "paid"]
    /\ UNCHANGED <<amount, statement>>

Next == OpenDrafts \/ \E i \in Issued : Finalize(i) \/ Collect(i)

Spec == Init /\ [][Next]_lifecycle
=============================================================================
