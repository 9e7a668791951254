----------------------------- MODULE MCTunnels -----------------------------
(* Tunnels for TLC: commands of the file beside two tunnels, one of them   *)
(* made and taken down more than once.  One process has DARKUBE_TOKEN set  *)
(* and empty, as the README advises, and the other DARKUBE_ORG and         *)
(* DARKUBE_REFRESH_TOKEN.                                                  *)
EXTENDS Tunnels, TLC

CONSTANTS p1, p2, n1, n2, v0, v1, v2

MCMinted == [p \in Procs |-> IF p = p1 THEN v1 ELSE v2]
MCEnv == [p \in Procs |-> IF p = p1 THEN [token |-> None] ELSE [tenant |-> v1, refresh |-> v2]]
Run(verb, arg) == [verb |-> verb, arg |-> arg]
MCCommands == {Run("set-token", v1), Run("use-tenant", v2), Run("add-tenant", v2), Run("login", v1),
               Run("up", n1), Run("down", n1), Run("up", n2)}
=============================================================================
