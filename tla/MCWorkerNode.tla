---------------------------- MODULE MCWorkerNode ----------------------------
(***************************************************************************)
(* The worker: how a machine becomes a node and starts, and how the        *)
(* components are supervised and torn down once it runs.  The two share no *)
(* state, so that the steps of one are stuttering steps for the other:     *)
(* each behaviour has steps of one part.                                   *)
(***************************************************************************)
EXTENDS Bootstrap, Worker

VARIABLE part

MCOrder     == <<"containerd", "kubelet">>
MCReporting == {"kubelet"}

\* The supervision is over: a state without further steps.
SupervisionOver ==
    /\ component = {} /\ cancel = {} /\ ctxDone = {} /\ stopping = {}
    /\ loop = [r \in Runners |-> "returned"]
    /\ tries = [r \in Runners |-> 0] /\ proc = [r \in Runners |-> 0]
    /\ alive = {} /\ errCh = {}
    /\ forwarding = "blocked"
    /\ main = [pc |-> "returned", i |-> 1, proc |-> 0]

MCInit ==
    /\ part \in {"node", "supervision"}
    /\ NodeInit /\ serving = CHOOSE h \in Hosts : TRUE
    /\ IF part = "supervision" THEN WorkerInit ELSE SupervisionOver

MCNext ==
    /\ UNCHANGED part
    /\ \/ part = "node" /\ NodeNext /\ UNCHANGED workerVars
       \/ part = "supervision" /\ WorkerNext /\ UNCHANGED nodeVars

MCSpec ==
    /\ MCInit /\ [][MCNext]_<<nodeVars, workerVars, part>>
    /\ NodeFairness /\ WorkerFairness
=============================================================================
