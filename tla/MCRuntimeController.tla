------------------------ MODULE MCRuntimeController ------------------------
(* RuntimeController for TLC: of the objects after the client kubeconfig,  *)
(* one.  Its step refuses AlreadyExists, the kubeconfig's accepts it.      *)
EXTENDS RuntimeController

MCRest == <<"tunnelDeployment">>
MCTolerant == {}
=============================================================================
