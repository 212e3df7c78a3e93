----------------------------- MODULE MCBridges -----------------------------
(* TLC instances of Bridges. *)
EXTENDS Bridges

CONSTANTS r1, r2, c1

\* handleSendTask puts the text of the call into a message.
MCMessage == [c \in Calls |-> [role |-> "USER", parts |-> <<[type |-> "text", body |-> "q"]>>]]

MCAgentMessage ==
    [role  |-> "agent",
     parts |-> <<[type |-> "text", body |-> "a"], [type |-> "url", body |-> "u"]>>]
=============================================================================
