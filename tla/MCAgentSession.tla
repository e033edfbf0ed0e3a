---------------------------- MODULE MCAgentSession --------------------------
(* Instances of AgentSession for TLC. *)
EXTENDS AgentSession

MCScripts == { <<"overflow", "overflow", "overflow", "overflow">>,
               <<"silent", "retryable", "retryable">>,
               <<"large", "retryable", "overflow">>,
               <<"toolUse", "large">> }
MCOneError == { <<"toolUse", "retryable">> }
=============================================================================
