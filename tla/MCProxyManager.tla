--------------------------- MODULE MCProxyManager ---------------------------
(* Model-checking instance of ProxyManager. *)
EXTENDS ProxyManager

\* Two endpoints to try in turn.
MCEndpointLists == Endpoints \X Endpoints
=============================================================================
