-------------------------- MODULE MCDiscordInbound --------------------------
(* Two messages, the second one a reply to the first. *)
EXTENDS DiscordInbound

CONSTANTS m1, m2

ReplyChain == [m \in {m1, m2} |-> IF m = m2 THEN m1 ELSE NoMessage]

=============================================================================
