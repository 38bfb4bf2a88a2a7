---------------------------- MODULE MCMcpServer -----------------------------
(***************************************************************************)
(* Small sessions of McpServer: two requests of the agent, one tool that   *)
(* checks its arguments and asks the daemon once, one that asks it twice   *)
(* (host_status), one or two agents, at most one daemon crash.             *)
(***************************************************************************)
EXTENDS McpServer, TLC

CONSTANTS r1, r2, publish, status, claude, cursor

MCReqs     == {r1, r2}
MCTools    == {publish, status}
MCGated    == {publish}
MCTwoTrips == {status}
MCClients  == {claude, cursor}
OneClient  == {claude}

TwoSymmetry == Permutations(MCReqs) \cup Permutations(MCClients)
=============================================================================
