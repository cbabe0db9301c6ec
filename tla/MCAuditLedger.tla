---------------------------- MODULE MCAuditLedger ----------------------------
(* A small instance of AuditLedger for TLC, with collision-free digests. *)
EXTENDS AuditLedger, TLC

CONSTANTS t1, i1, i2

MCTenantOf == [i \in Intents |-> t1]
Symmetry == Permutations(Intents)
MCHash(sequence, previous, content) == <<sequence, previous, content>>
MCRootHash(pending) == <<"root", pending>>
MCHeadMac(sequence, hash, root) == <<sequence, hash, root>>
MCCheckpointMac(first, last, bridge, previous) == <<first, last, bridge, previous>>
=============================================================================
