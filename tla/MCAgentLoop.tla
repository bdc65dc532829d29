------------------------------ MODULE MCAgentLoop ------------------------------
(* Instances of AgentLoop for TLC: the routes speak three protocols.        *)
EXTENDS AgentLoop

MCKinds == <<[protocol |-> "chat", cache |-> FALSE, effort |-> "above"],
             [protocol |-> "gemini", cache |-> FALSE, effort |-> "none"],
             [protocol |-> "anthropic", cache |-> TRUE, effort |-> "some"]>>
===============================================================================
