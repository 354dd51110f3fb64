-------------------------- MODULE MCTunnelRollout --------------------------
(* TunnelRollout for TLC, with the plane tunnel Deployment as the only object *)
(* after the client kubeconfig.                                               *)
EXTENDS TunnelRollout

MCRest == <<"tunnelDeployment">>
MCTolerant == {}
=============================================================================
