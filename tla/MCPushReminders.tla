-------------------------- MODULE MCPushReminders --------------------------
(* A small instance of PushReminders: an organization-wide reminder and one *)
(* of a viewer, two devices and two viewers.                               *)
EXTENDS PushReminders

CONSTANTS shared, own, v1, v2, d1, d2, acme, admin

MCOwner == [k \in Keys |-> IF k = own THEN v1 ELSE Everyone]
MCRegistered == [e \in Endpoints |->
  IF e = d1 THEN [id |-> 1, viewer |-> v1, org |-> acme]
  ELSE [id |-> 2, viewer |-> v2, org |-> acme]]
=============================================================================
