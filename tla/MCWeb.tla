-------------------------------- MODULE MCWeb --------------------------------
(* The page with two Agents and two Runs, for TLC. *)
EXTENDS Web, TLC

AgentSymmetry == Permutations(Agents)

=============================================================================
