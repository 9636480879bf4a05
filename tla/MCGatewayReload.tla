-------------------------- MODULE MCGatewayReload --------------------------
(***************************************************************************)
(* Two reloads among three configurations that differ in the MCP servers   *)
(* and in the channels; in the last one nothing is on.  A configuration    *)
(* may be saved while the one before is still being taken over.            *)
(***************************************************************************)
EXTENDS GatewayReload
CONSTANTS s1, s2, c1, c2

Cfg(a, b, c, d) == [mcp |-> s1 :> a @@ s2 :> b, channels |-> c1 :> c @@ c2 :> d]
MCConfigs == {Cfg(1, 0, 1, 0), Cfg(0, 2, 0, 1), Cfg(0, 0, 0, 0)}
=============================================================================
