-------------------------- MODULE MCAgentLifecycle --------------------------
(* Instances of AgentLifecycle for TLC.                                    *)
EXTENDS AgentLifecycle
=============================================================================
