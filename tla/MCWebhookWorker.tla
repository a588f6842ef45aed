-------------------------- MODULE MCWebhookWorker --------------------------
(* Instances of WebhookWorker for TLC. *)
EXTENDS WebhookWorker

CONSTANTS e1, e2, s1

\* Both subscriptions match the first event, or one of them both events.
Tables == {[e \in Events |-> IF e = e1 THEN Subs ELSE {}],
           [e \in Events |-> {s1}]}

\* The consumer fetches both events, in log order.
InOrder == {<<e1, e2>>}

\* One event at a time.
Single == {<<e>> : e \in Events}
=============================================================================
