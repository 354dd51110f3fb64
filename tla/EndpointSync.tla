---------------------------- MODULE EndpointSync ----------------------------
(***************************************************************************)
(* The endpoint synchronisation of the cluster agent                       *)
(* (pkg/clusteragent/k8s_endpoint.go): every pod, elected or not, resolves *)
(* the API server's external host of its Runtime every 15 seconds and      *)
(* writes the addresses to the EndpointSlice of the kubernetes service.    *)
(***************************************************************************)
EXTENDS ClusterAgent

CONSTANTS Answers,     \* sets of IPv4 addresses a lookup may yield; {} also when it fails
          MaxChanges   \* bound: changes of the DNS records, deletions of the slice

ASSUME EndpointAssumption == {} \in Answers /\ MaxChanges \in Nat

VARIABLES
    dns,     \* generation -> what the host of that generation resolves to
    slice,   \* the EndpointSlice: set of at most one set of addresses
    sync,    \* generation -> where the synchronisation of its pod stands
    changes

endpointVars == <<dns, slice, sync, changes>>

\* "latest" says that no write has happened since the slices were listed.
SyncIdle  == [at |-> "idle", ips |-> {}, found |-> FALSE, latest |-> FALSE]
SyncState == [at : {"idle", "list", "write"}, ips : Answers, found : BOOLEAN, latest : BOOLEAN]

EndpointTypeOK ==
    /\ dns \in [Gens -> Answers]
    /\ slice \in SUBSET Answers
    /\ sync \in [Gens -> SyncState]
    /\ changes \in 0 .. MaxChanges

EndpointInit ==
    /\ dns \in [Gens -> Answers]
    /\ slice = {}
    /\ sync = [g \in Gens |-> SyncIdle]
    /\ changes = 0
-----------------------------------------------------------------------------
\* The ticker fires: resolveIPv4Endpoints.  No address, or an error, and nothing is done.
Resolve(g) ==
    /\ pod[g] = "started" /\ sync[g].at = "idle"
    /\ dns[g] # {}
    /\ sync' = [sync EXCEPT ![g].at = "list", ![g].ips = dns[g]]
    /\ UNCHANGED <<dns, slice, changes>>

List(g) ==
    /\ sync[g].at = "list"
    /\ sync' = [sync EXCEPT ![g].at = "write", ![g].found = slice # {}, ![g].latest = TRUE]
    /\ UNCHANGED <<dns, slice, changes>>

\* Faulty variant: a slice that exists is never updated.
WriteOnce(g) ==
    /\ sync[g].at = "write"
    /\ \/ /\ ~sync[g].found /\ slice = {}
          /\ slice' = {sync[g].ips}
          /\ sync' = [h \in Gens |-> IF h = g THEN SyncIdle ELSE [sync[h] EXCEPT !.latest = FALSE]]
       \/ /\ sync[g].found \/ slice # {}
          /\ sync' = [sync EXCEPT ![g] = SyncIdle]
          /\ UNCHANGED slice
    /\ UNCHANGED <<dns, changes>>

\* applyEndpointSlice: Create if the list was empty, else Update of the slice found.
\* An error is logged, and the next tick tries again.
Write(g) ==
    /\ sync[g].at = "write"
    /\ \/ /\ IF sync[g].found THEN sync[g].latest ELSE slice = {}
          /\ slice' = {sync[g].ips}
          /\ sync' = [h \in Gens |-> IF h = g THEN SyncIdle ELSE [sync[h] EXCEPT !.latest = FALSE]]
       \/ /\ IF sync[g].found THEN ~sync[g].latest ELSE slice # {}
          /\ sync' = [sync EXCEPT ![g] = SyncIdle]
          /\ UNCHANGED slice
    /\ UNCHANGED <<dns, changes>>

SyncStep(g) == Resolve(g) \/ List(g) \/ Write(g)

\* The records change; somebody deletes the slice.
RecordsChange(g, a) ==
    /\ changes < MaxChanges /\ a # dns[g]
    /\ dns' = [dns EXCEPT ![g] = a] /\ changes' = changes + 1
    /\ UNCHANGED <<slice, sync>>
SliceDeleted ==
    /\ changes < MaxChanges /\ slice # {}
    /\ slice' = {} /\ changes' = changes + 1
    /\ sync' = [g \in Gens |-> [sync[g] EXCEPT !.latest = FALSE]]
    /\ UNCHANGED dns

\* The synchronisation ends with its process.
EndpointFollowsPods ==
    /\ sync' = [g \in Gens |-> IF pod'[g] = "started" THEN sync[g] ELSE SyncIdle]
    /\ UNCHANGED <<dns, slice, changes>>

EndpointStep ==
    \/ \E g \in Gens : SyncStep(g) \/ \E a \in Answers : RecordsChange(g, a)
    \/ SliceDeleted

\* The pods and their synchronisations.
EndpointNext == \/ AgentNext /\ EndpointFollowsPods
                \/ EndpointStep /\ UNCHANGED agentVars
EndpointSpec == AgentInit /\ EndpointInit /\ [][EndpointNext]_<<agentVars, endpointVars>>
-----------------------------------------------------------------------------
\* Once the Runtime and the records stay as they are, the kubernetes service ends
\* up with the addresses of the latest generation's host, whatever pods of older
\* generations wrote, or were still writing from an older answer; and as long as
\* nothing is resolved the last addresses stay: the slice is never emptied.
EndpointsConverge ==
    /\ \A g \in Gens, a \in Answers \ {{}} :
          <>[](latest = g /\ dns[g] = a) => <>[](slice = {a})
    /\ [](slice # {{}})
=============================================================================
