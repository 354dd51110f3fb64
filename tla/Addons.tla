------------------------------- MODULE Addons -------------------------------
(***************************************************************************)
(* The addons of the tenant cluster                                        *)
(* (internal/controller/clusteragent/addons.go,                            *)
(* pkg/runtime/component/addons.go): once per election the cluster agent   *)
(* creates the HelmCharts its Runtime asks for and deletes the others.  A  *)
(* chart that exists is left as it is.  A deleted chart stays until the    *)
(* chart controller has removed its finalizer.                             *)
(***************************************************************************)
EXTENDS ClusterAgent

CONSTANTS Charts, BuiltIn,  \* names of charts, and of those Heir brings
          Declared          \* generation -> chart -> what the Runtime declares of it

ASSUME AddonsAssumption ==
    /\ BuiltIn \subseteq Charts
    /\ Declared \in [Gens -> [Charts -> SUBSET {"install", "disabled", "override"}]]

VARIABLES
    charts,     \* chart -> absent, present, or deleting
    cache,      \* generation -> the charts its pod's informer knows
    pass,       \* generation -> where AddonsReconciler.Start stands, and what it still has to do
    overlooked  \* charts the last pass could not see, or saw while they were being deleted

addonVars == <<charts, cache, pass, overlooked>>

NotBegun == [at |-> "wait", todo |-> {}]

AddonsTypeOK ==
    /\ charts \in [Charts -> {"absent", "present", "deleting"}]
    /\ cache \in [Gens -> SUBSET Charts]
    /\ pass \in [Gens -> [at : {"wait", "create", "delete", "done"}, todo : SUBSET Charts]]
    /\ overlooked \in SUBSET Charts

AddonsInit ==
    /\ charts = [c \in Charts |-> "absent"]
    /\ cache = [g \in Gens |-> {}]
    /\ pass = [g \in Gens |-> NotBegun]
    /\ overlooked = {}
-----------------------------------------------------------------------------
\* ConsolidateAddons: the charts of a generation.  A full install spec replaces a
\* built-in chart, also one that is disabled; an override only changes its values.
Wanted(g) ==
    {c \in Charts : \/ "install" \in Declared[g][c]
                    \/ c \in BuiltIn /\ "disabled" \notin Declared[g][c]}

Existing == {c \in Charts : charts[c] # "absent"}

\* Faulty variant: Start does not wait for the election.
BeginUnelected(g) ==
    /\ pod[g] = "started" /\ pass[g].at = "wait"
    /\ pass' = [pass EXCEPT ![g] = [at |-> "create", todo |-> Wanted(g)]]
    /\ UNCHANGED <<charts, cache, overlooked>>

Begin(g) ==
    /\ pod[g] = "started" /\ leader = g /\ pass[g].at = "wait"
    /\ pass' = [pass EXCEPT ![g] = [at |-> "create", todo |-> Wanted(g)]]
    /\ UNCHANGED <<charts, cache, overlooked>>

\* AlreadyExists is no error, also when the chart is on its way out.
Create(g, c) ==
    /\ pass[g].at = "create" /\ c \in pass[g].todo
    /\ charts' = [charts EXCEPT ![c] = IF @ = "absent" THEN "present" ELSE @]
    /\ overlooked' = IF charts[c] = "deleting" THEN overlooked \cup {c} ELSE overlooked \ {c}
    /\ pass' = [pass EXCEPT ![g].todo = @ \ {c}]
    /\ UNCHANGED cache

\* The charts to delete, as far as the cache knows them.
ListStale(g) ==
    /\ pass[g].at = "create" /\ pass[g].todo = {}
    /\ pass' = [pass EXCEPT ![g] = [at |-> "delete", todo |-> cache[g] \ Wanted(g)]]
    /\ overlooked' = overlooked \cup (Existing \ (cache[g] \cup Wanted(g)))
    /\ UNCHANGED <<charts, cache>>

\* A chart that has no finalizer yet is gone at once.
Delete(g, c) ==
    /\ pass[g].at = "delete" /\ c \in pass[g].todo
    /\ \/ charts[c] # "absent" /\ charts' = [charts EXCEPT ![c] = "deleting"]
       \/ charts[c] # "deleting" /\ charts' = [charts EXCEPT ![c] = "absent"]
    /\ pass' = [pass EXCEPT ![g].todo = @ \ {c}]
    /\ overlooked' = overlooked \ {c}
    /\ UNCHANGED cache
Finish(g) ==
    /\ pass[g].at = "delete" /\ pass[g].todo = {}
    /\ pass' = [pass EXCEPT ![g].at = "done"]
    /\ UNCHANGED <<charts, cache, overlooked>>

\* The chart controller has uninstalled the release and removes the finalizer.
Uninstalled(c) ==
    /\ charts[c] = "deleting"
    /\ charts' = [charts EXCEPT ![c] = "absent"]
    /\ UNCHANGED <<cache, pass, overlooked>>

SyncCharts(g) ==
    /\ pod[g] = "started" /\ cache[g] # Existing
    /\ cache' = [cache EXCEPT ![g] = Existing]
    /\ UNCHANGED <<charts, pass, overlooked>>

\* The informer of a new manager starts with a list; a pass ends with its process.
AddonsFollowPods ==
    /\ cache' = [g \in Gens |-> IF pod'[g] # "started" THEN {}
                                ELSE IF pod[g] # "started" THEN Existing ELSE cache[g]]
    /\ pass' = [g \in Gens |-> IF pod'[g] = "started" THEN pass[g] ELSE NotBegun]
    /\ UNCHANGED <<charts, overlooked>>

AddonsStep ==
    \/ \E g \in Gens : \/ Begin(g) \/ ListStale(g) \/ Finish(g) \/ SyncCharts(g)
                       \/ \E c \in Charts : Create(g, c) \/ Delete(g, c)
    \/ \E c \in Charts : Uninstalled(c)

\* The pods and their addons.
AddonsNext == \/ AgentNext /\ AddonsFollowPods
              \/ AddonsStep /\ UNCHANGED agentVars
AddonsSpec == AgentInit /\ AddonsInit /\ [][AddonsNext]_<<agentVars, addonVars>>
-----------------------------------------------------------------------------
\* "reconciles the tenant cluster's addon HelmCharts once": when the pod of the
\* latest generation has done so, the charts are those of that generation, although
\* pods of older generations were elected before, or in between, with other charts.
\* The exceptions are charts it met while they were being deleted, which then go,
\* and stale charts its cache had not yet heard of, which stay.
AddonsSettle ==
    pass[latest].at = "done" =>
        \A c \in Charts \ overlooked : charts[c] = "present" <=> c \in Wanted(latest)
=============================================================================
