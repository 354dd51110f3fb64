---------------------------- MODULE ClusterAgent ----------------------------
(***************************************************************************)
(* The cluster agent as a process (cmd/clusteragent/app.go,                *)
(* pkg/clusteragent/crds.go).  The Deployment has one replica, but a       *)
(* change of the Runtime rolls it, and the pod of the new generation       *)
(* starts before that of the old one ends; the container of either may     *)
(* crash and start again.  Every pod installs its CRDs, then starts the    *)
(* manager, whose controllers work in the elected pod only.                *)
(***************************************************************************)
EXTENDS Naturals

CONSTANTS MaxGen,    \* bound: generations of the Runtime
          CRDs,      \* the CRDs in the image
          MaxFaults  \* bound: crashes and failed calls

Gens == 1 .. MaxGen

ASSUME ClusterAgentAssumption == MaxGen \in Nat \ {0} /\ MaxFaults \in Nat

VARIABLES
    latest,   \* the generation of the Runtime
    pod,      \* generation -> where the pod rolled out for it stands
    applied,  \* generation -> CRDs its pod has applied since it started
    crds,     \* CRD -> the generation it was installed from, 0 if it is not
    leader,   \* the generation of the elected pod, 0 if there is none
    faults    \* faults so far

agentVars == <<latest, pod, applied, crds, leader, faults>>

AgentTypeOK ==
    /\ latest \in Gens
    /\ pod \in [Gens -> {"absent", "crds", "started", "gone"}]
    /\ applied \in [Gens -> SUBSET CRDs]
    /\ crds \in [CRDs -> 0 .. MaxGen]
    /\ leader \in 0 .. MaxGen
    /\ faults \in 0 .. MaxFaults

AgentInit ==
    /\ latest = 1
    /\ pod = [g \in Gens |-> "absent"]
    /\ applied = [g \in Gens |-> {}]
    /\ crds = [c \in CRDs |-> 0]
    /\ leader = 0 /\ faults = 0
-----------------------------------------------------------------------------
\* The Runtime is edited; the operator puts its hash in the pod template.
Edit ==
    /\ latest < MaxGen
    /\ latest' = latest + 1
    /\ UNCHANGED <<pod, applied, crds, leader, faults>>

StartPod ==
    /\ pod[latest] = "absent"
    /\ pod' = [pod EXCEPT ![latest] = "crds"]
    /\ UNCHANGED <<latest, applied, crds, leader, faults>>

\* The pod of an older generation is deleted once the new one runs; it has no
\* readiness probe.
StopPod(g) ==
    /\ g < latest /\ pod[latest] # "absent" /\ pod[g] \in {"crds", "started"}
    /\ pod' = [pod EXCEPT ![g] = "gone"]
    /\ leader' = IF leader = g THEN 0 ELSE leader
    /\ UNCHANGED <<latest, applied, crds, faults>>

\* ApplyCRDs: the CRDs of the image that are left to apply.
Pending(g) == CRDs \ applied[g]

\* applyCRD: create the CRD, or update it if its spec differs.  An update of an
\* old version fails and is tried again.
ApplyCRD(g, c) ==
    /\ pod[g] = "crds" /\ c \in Pending(g)
    /\ crds' = [crds EXCEPT ![c] = g]
    /\ applied' = [applied EXCEPT ![g] = @ \cup {c}]
    /\ UNCHANGED <<latest, pod, leader, faults>>

\* Run goes on when ApplyCRDs is done: set up the controllers, start the endpoint
\* synchronisation and the manager.
StartManager(g) ==
    /\ pod[g] = "crds" /\ Pending(g) = {}
    /\ pod' = [pod EXCEPT ![g] = "started"]
    /\ UNCHANGED <<latest, applied, crds, leader, faults>>

Elect(g) ==
    /\ pod[g] = "started" /\ leader = 0
    /\ leader' = g
    /\ UNCHANGED <<latest, pod, applied, crds, faults>>

\* An error ends the process, as does the loss of the lease: the container is
\* started again.
Crash(g) ==
    /\ faults < MaxFaults /\ pod[g] \in {"crds", "started"}
    /\ faults' = faults + 1
    /\ pod' = [pod EXCEPT ![g] = "crds"]
    /\ applied' = [applied EXCEPT ![g] = {}]
    /\ leader' = IF leader = g THEN 0 ELSE leader
    /\ UNCHANGED <<latest, crds>>

Starting ==
    \/ StartPod
    \/ \E g \in Gens : StartManager(g) \/ Elect(g) \/ \E c \in CRDs : ApplyCRD(g, c)
Stopping == \E g \in Gens : StopPod(g)

AgentNext == Edit \/ Starting \/ Stopping \/ \E g \in Gens : Crash(g)
=============================================================================
