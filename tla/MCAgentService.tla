--------------------------- MODULE MCAgentService ---------------------------
(***************************************************************************)
(* Small instances of AgentService: the commands given in each run.        *)
(***************************************************************************)
EXTENDS AgentService

MCWithoutStop == {"start", "delete", "revoke", "deadline"}
MCStops == {"stop", "start"}

=============================================================================
