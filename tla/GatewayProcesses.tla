-------------------------- MODULE GatewayProcesses --------------------------
(* The processes of a machine that serve models: the gateway (cloudiy        *)
(* gateway) and the provider (cloudiy share), over one Docker and one        *)
(* config directory (gateway.rs).                                            *)
CONSTANTS Gateway, Provider

Procs == {Gateway, Provider}
==============================================================================
