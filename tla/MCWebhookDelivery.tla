-------------------------- MODULE MCWebhookDelivery --------------------------
(* A small instance of WebhookDelivery: one push of two commits, one ping.   *)
EXTENDS WebhookDelivery, TLC

CONSTANTS push, ping, retry, j1, j2, r1, r2

MCPayloadJobs == [d \in {push, ping} |-> IF d = push THEN {j1, j2} ELSE {}]

\* Request slots and jobs are interchangeable.
Symmetric == Permutations({r1, r2}) \cup Permutations({j1, j2})
=============================================================================
