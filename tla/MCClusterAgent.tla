--------------------------- MODULE MCClusterAgent ---------------------------
(***************************************************************************)
(* The cluster agent with its activities.  They read the state of the pods *)
(* and share nothing else, so that the steps of one are stuttering steps   *)
(* for another: each behaviour has the pods and one activity.  The CSR     *)
(* controller works in the elected pod only, to which generations make no  *)
(* difference; it is checked with the pod of one.  The join token          *)
(* controller works there too; of its pod it sees only that the process    *)
(* ends and another one starts, which is a step of its own, Restart, so    *)
(* that its behaviours leave the pods out.                                 *)
(***************************************************************************)
EXTENDS Addons, EndpointSync, CSRApprover, JoinToken

VARIABLE activity

allVars == <<agentVars, addonVars, endpointVars, csrVars, vars, activity>>

MCAnswers == {{}, {"i1"}, {"i2"}}

MCDeclared == <<[c1 |-> {}, c2 |-> {"install"}, c3 |-> {"disabled"}],
                [c1 |-> {"disabled"}, c2 |-> {}, c3 |-> {"override"}]>>

MCTypeOK == AgentTypeOK /\ AddonsTypeOK /\ EndpointTypeOK /\ CSRTypeOK /\ TypeOK

MCInit ==
    /\ AgentInit /\ AddonsInit /\ EndpointInit /\ CSRInit /\ Init
    /\ activity \in {"addons", "endpoints", "csr", "tokens"}
    /\ activity # "endpoints" => dns = [g \in Gens |-> {}]
    /\ local = IF activity = "csr" THEN {"a1"} ELSE {}

MCNext ==
    /\ UNCHANGED activity
    /\ \/ /\ activity # "tokens" /\ AgentNext
          /\ activity = "csr" => latest' = 1
          /\ IF activity = "addons" THEN AddonsFollowPods ELSE UNCHANGED addonVars
          /\ IF activity = "endpoints" THEN EndpointFollowsPods ELSE UNCHANGED endpointVars
          /\ IF activity = "csr" THEN CSRFollowsPods ELSE UNCHANGED csrVars
          /\ UNCHANGED vars
       \/ activity = "addons" /\ AddonsStep /\ UNCHANGED <<agentVars, endpointVars, csrVars, vars>>
       \/ activity = "endpoints" /\ EndpointStep /\ UNCHANGED <<agentVars, addonVars, csrVars, vars>>
       \/ activity = "csr" /\ CSRStep /\ UNCHANGED <<agentVars, addonVars, endpointVars, vars>>
       \/ activity = "tokens" /\ Next /\ UNCHANGED <<agentVars, addonVars, endpointVars, csrVars>>

(***************************************************************************)
(* Fairness: the Deployment is rolled out, containers are restarted, and   *)
(* an election without a leader elects one; tickers fire and goroutines    *)
(* run; the kubelet reports its addresses and gives up waiting, and old    *)
(* requests are removed; a queued object is reconciled, calls return and   *)
(* the watch delivers.  The last is Fairness of JoinToken.                 *)
(***************************************************************************)
AgentFairness ==
    /\ WF_agentVars(activity # "tokens" /\ Starting)
    /\ WF_agentVars(activity # "tokens" /\ Stopping)
EndpointFairness == \A g \in Gens : WF_endpointVars(activity = "endpoints" /\ SyncStep(g))
CSRFairness ==
    /\ WF_csrVars(activity = "csr" /\ CSRReconcile)
    /\ WF_csrVars(activity = "csr" /\ Report)
    /\ \A r \in Requests : /\ WF_csrVars(activity = "csr" /\ Kubelet(r))
                          /\ WF_csrVars(activity = "csr" /\ Collect(r))
TokenFairness ==
    /\ WF_vars(activity = "tokens" /\ (Reconcile \/ Calls))
    /\ WF_vars(activity = "tokens" /\ CacheObject)

MCSpec ==
    /\ MCInit /\ [][MCNext]_allVars
    /\ AgentFairness /\ EndpointFairness /\ CSRFairness /\ TokenFairness
=============================================================================
