--------------------------- MODULE TunnelRollout ---------------------------
(***************************************************************************)
(* The Runtime controller together with the pods of the plane tunnel       *)
(* Deployment.  The controller writes the hash of the SANs into the pod    *)
(* template, so that new SANs start new pods; the plane tunnel server      *)
(* loads its certificate once, when it starts.                             *)
(***************************************************************************)
EXTENDS RuntimeController

VARIABLES
    pods,    \* SANs of the certificate the newest pods loaded
    rolling  \* the pods of the latest pod template are still to start

RolloutInit == Init /\ pods = None /\ rolling = FALSE

\* A step of the controller and its world.  A changed pod template starts new pods.
ControllerStep ==
    /\ Next
    /\ rolling' = (rolling \/ store'["tunnelDeployment"] \notin {store["tunnelDeployment"], Nothing})
    /\ UNCHANGED pods

PodsStart ==
    /\ rolling /\ store["tunnelDeployment"] # Nothing /\ store["pki"] # Nothing
    /\ pods' = store["pki"].spec /\ rolling' = FALSE
    /\ UNCHANGED vars

RolloutSpec == RolloutInit /\ [][ControllerStep \/ PodsStart]_<<vars, pods, rolling>>

\* The test of the SAN change: "verifying the deployment is rolled to pick up the
\* new certificate".  At rest the pods have the certificate that is stored.
PodsUseStoredCertificate ==
    Quiescent /\ rt.gen # 0 /\ ~rolling => pods = store["pki"].spec
=============================================================================
