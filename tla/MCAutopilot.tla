----------------------------- MODULE MCAutopilot -----------------------------
(* Autopilot for TLC: one position, one browser run at a time. *)
EXTENDS Autopilot, TLC

CONSTANTS a1, r1

Off   == [on |-> FALSE, auto |-> FALSE, steps |-> {}]
\* Everything without asking; and nothing but research
Auto  == [on |-> TRUE, auto |-> TRUE,
          steps |-> {"discover", "research", "documents", "fill"}]
Hands == [on |-> TRUE, auto |-> FALSE, steps |-> {"discover"}]
MCPolicies == {Off, Auto, Hands}
=============================================================================
