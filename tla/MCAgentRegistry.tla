-------------------------- MODULE MCAgentRegistry --------------------------
(***************************************************************************)
(* An instance of AgentRegistry for TLC.                                   *)
(***************************************************************************)
EXTENDS AgentRegistry, TLC

CONSTANTS m1, c1, c2, c3

\* Three successive connections of one machine's agent.
OneMachine == (c1 :> m1) @@ (c2 :> m1) @@ (c3 :> m1)

=============================================================================
