-------------------------- MODULE MCDeliveryOutbox --------------------------
(* Small instances of DeliveryOutbox: a webhook, a discussion, two workers. *)
EXTENDS DeliveryOutbox, TLC

CONSTANTS e1, e2, hook, thread, org, w1, w2

OneTenant == [k \in {hook, thread} |-> org]
Symmetric == {p @@ q : p \in Permutations({e1, e2}), q \in Permutations({w1, w2})}
=============================================================================
