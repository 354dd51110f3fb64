------------------------- MODULE ClusterAgentProofs -------------------------
(***************************************************************************)
(* The addons, the approver and the endpoints of the cluster agent, for    *)
(* any number of generations, charts, addresses, requests and faults.      *)
(*                                                                         *)
(* The addons are safe because a pass only ever runs in the elected pod,   *)
(* although nothing checks the lease once it has begun (Alone); what a     *)
(* pass has done so far then stays (Progress).  The approver looks at the  *)
(* Node and approves in two steps; what it saw then stays true (Looked).   *)
(* The endpoints are written by every pod, elected or not, without a lock; *)
(* what keeps them right is that an update names the version it has read   *)
(* (SyncOK).                                                               *)
(***************************************************************************)
EXTENDS Addons, EndpointSync, CSRApprover, TLAPS

\* A pass that has begun is that of the elected pod.
Alone == \A g \in Gens : pass[g].at # "wait" => pod[g] = "started" /\ leader = g

\* A chart the pass need not look at again.
Right(g, c) == c \in overlooked \/ (charts[c] = "present" <=> c \in Wanted(g))

\* Creation settles the wanted charts, then deletion the others.
PassRight(g) ==
    /\ pass[g].at = "create" => \A c \in Wanted(g) \ pass[g].todo : Right(g, c)
    /\ pass[g].at \in {"delete", "done"} =>
          /\ \A c \in Charts \ pass[g].todo : Right(g, c)
          /\ pass[g].todo \cap Wanted(g) = {}
    /\ pass[g].at = "done" => pass[g].todo = {}

Progress == \A g \in Gens : PassRight(g)

AddonsInv == AgentTypeOK /\ AddonsTypeOK /\ Alone /\ Progress

\* The one request being worked on is in the cluster, and when its addresses have been
\* accepted the Node has had them.
Looked ==
    /\ \A r \in approver.csr : csr[r].state # "none"
    /\ \A q, r \in approver.csr : q = r
    /\ approver.at = "approve" => \A r \in approver.csr : csr[r].sans \subseteq known
    /\ node \subseteq known

CSRInv == AgentTypeOK /\ CSRTypeOK /\ Looked /\ ApprovedIsKnown
-----------------------------------------------------------------------------
(* The pods. *)

\* Types of the pods, which both share.
LEMMA AgentTypes == AgentTypeOK /\ AgentNext => AgentTypeOK'
<1> SUFFICES ASSUME AgentTypeOK, AgentNext PROVE AgentTypeOK'
  OBVIOUS
<1> USE ClusterAgentAssumption DEF AgentTypeOK, Gens
<1>1. CASE Edit
  BY <1>1 DEF Edit
<1>2. CASE StartPod
  BY <1>2 DEF StartPod
<1>3. ASSUME NEW g \in Gens, StartManager(g) PROVE AgentTypeOK'
  BY <1>3 DEF StartManager
<1>4. ASSUME NEW g \in Gens, Elect(g) PROVE AgentTypeOK'
  BY <1>4 DEF Elect
<1>5. ASSUME NEW g \in Gens, NEW c \in CRDs, ApplyCRD(g, c) PROVE AgentTypeOK'
  BY <1>5 DEF ApplyCRD, Pending
<1>6. ASSUME NEW g \in Gens, StopPod(g) PROVE AgentTypeOK'
  BY <1>6 DEF StopPod
<1>7. ASSUME NEW g \in Gens, Crash(g) PROVE AgentTypeOK'
  BY <1>7 DEF Crash
<1> QED
  BY <1>1, <1>2, <1>3, <1>4, <1>5, <1>6, <1>7 DEF AgentNext, Starting, Stopping

\* An elected pod stays elected for as long as its manager runs.
LEMMA StaysElected ==
  ASSUME AgentTypeOK, AgentNext, NEW g \in Gens, leader = g, pod'[g] = "started"
  PROVE  leader' = g
<1> USE ClusterAgentAssumption DEF AgentTypeOK, Gens
<1>1. CASE Edit \/ StartPod
  BY <1>1 DEF Edit, StartPod
<1>2. ASSUME NEW h \in Gens, StartManager(h) \/ Elect(h) \/ \E c \in CRDs : ApplyCRD(h, c)
      PROVE  leader' = g
  BY <1>2 DEF StartManager, Elect, ApplyCRD
<1>3. ASSUME NEW h \in Gens, StopPod(h) PROVE leader' = g
  BY <1>3 DEF StopPod
<1>4. ASSUME NEW h \in Gens, Crash(h) PROVE leader' = g
  BY <1>4 DEF Crash
<1> QED
  BY <1>1, <1>2, <1>3, <1>4 DEF AgentNext, Starting, Stopping
-----------------------------------------------------------------------------
(* The addons. *)

\* No pass has begun in the beginning.
LEMMA AddonsInitInv == AgentInit /\ AddonsInit => AddonsInv
  BY ClusterAgentAssumption, AddonsAssumption DEF AgentInit, AddonsInit, AddonsInv, AgentTypeOK,
     AddonsTypeOK, Alone, Progress, PassRight, NotBegun, Gens

\* A step of the pods ends the passes of those that stop, and no others.
LEMMA AddonsFollow ==
  ASSUME AddonsInv, AgentNext, AddonsFollowPods
  PROVE  AddonsInv'
<1>1. AgentTypeOK'
  BY AgentTypes DEF AddonsInv
<1>2. AddonsTypeOK'
  BY DEF AddonsInv, AddonsTypeOK, AddonsFollowPods, NotBegun, Existing
<1>3. \A g \in Gens : pass'[g] = IF pod'[g] = "started" THEN pass[g] ELSE NotBegun
  BY DEF AddonsFollowPods
<1>4. Alone'
  <2> SUFFICES ASSUME NEW g \in Gens, pass'[g].at # "wait"
               PROVE  pod'[g] = "started" /\ leader' = g
    BY DEF Alone
  <2>1. pod'[g] = "started" /\ pass'[g] = pass[g]
    BY <1>3 DEF NotBegun
  <2>2. leader = g
    BY <2>1 DEF AddonsInv, Alone
  <2> QED
    BY <2>1, <2>2, StaysElected DEF AddonsInv
<1>5. Progress'
  <2>1. UNCHANGED <<charts, overlooked>>
    BY DEF AddonsFollowPods
  <2>2. \A g \in Gens, c \in Charts : Right(g, c)' = Right(g, c) /\ Wanted(g)' = Wanted(g)
    BY <2>1 DEF Right, Wanted
  <2>3. \A g \in Gens : Wanted(g) \subseteq Charts
    BY DEF Wanted
  <2> SUFFICES ASSUME NEW g \in Gens PROVE PassRight(g)'
    BY DEF Progress
  <2>4. CASE pod'[g] # "started"
    BY <1>3, <2>4 DEF NotBegun, PassRight
  <2>5. CASE pod'[g] = "started"
    <3>1. pass'[g] = pass[g]
      BY <1>3, <2>5
    <3>2. Wanted(g)' = Wanted(g) /\ \A c \in Charts : Right(g, c)' = Right(g, c)
      BY <2>2, <2>1 DEF Wanted
    <3> QED
      BY <2>3, <3>1, <3>2 DEF AddonsInv, Progress, PassRight
  <2> QED
    BY <2>4, <2>5
<1> QED
  BY <1>1, <1>2, <1>4, <1>5 DEF AddonsInv

\* Types are preserved by the passes.
LEMMA AddonsTypes == AddonsInv /\ AddonsStep => AddonsTypeOK'
<1> SUFFICES ASSUME AddonsInv, AddonsStep PROVE AddonsTypeOK'
  OBVIOUS
<1> USE DEF AddonsInv, AddonsTypeOK
<1>1. ASSUME NEW g \in Gens, Begin(g) \/ ListStale(g) \/ Finish(g) PROVE AddonsTypeOK'
  BY <1>1 DEF Begin, ListStale, Finish, Wanted, Existing
<1>2. ASSUME NEW g \in Gens, SyncCharts(g) PROVE AddonsTypeOK'
  BY <1>2 DEF SyncCharts, Existing
<1>3. ASSUME NEW g \in Gens, NEW c \in Charts, Create(g, c) PROVE AddonsTypeOK'
  BY <1>3 DEF Create
<1>4. ASSUME NEW g \in Gens, NEW c \in Charts, Delete(g, c) PROVE AddonsTypeOK'
  <2>1. charts' \in [Charts -> {"absent", "present", "deleting"}]
    BY <1>4 DEF Delete
  <2>2. pass' \in [Gens -> [at : {"wait", "create", "delete", "done"}, todo : SUBSET Charts]]
    BY <1>4 DEF Delete
  <2> QED
    BY <1>4, <2>1, <2>2 DEF Delete
<1>5. ASSUME NEW c \in Charts, Uninstalled(c) PROVE AddonsTypeOK'
  BY <1>5 DEF Uninstalled
<1> QED
  BY <1>1, <1>2, <1>3, <1>4, <1>5 DEF AddonsStep

\* A step of the pass of g is right if it leaves the other passes alone: they have
\* not begun.
LEMMA OthersWait ==
  ASSUME AddonsInv, UNCHANGED agentVars, NEW g \in Gens, leader = g, pod[g] = "started",
         \A h \in Gens \ {g} : pass'[h] = pass[h], PassRight(g)'
  PROVE  (Alone /\ Progress)'
<1>1. \A h \in Gens \ {g} : pass'[h].at = "wait"
  BY DEF AddonsInv, Alone
<1>2. Progress'
  BY <1>1 DEF Progress, PassRight
<1>3. Alone'
  BY <1>1 DEF Alone, agentVars
<1> QED
  BY <1>2, <1>3

\* The passes preserve what they rely on.
LEMMA AddonsWork ==
  ASSUME AddonsInv, AddonsStep, UNCHANGED agentVars
  PROVE  (Alone /\ Progress)'
<1>0. \A g \in Gens : Wanted(g)' = Wanted(g) /\ Wanted(g) \subseteq Charts
  BY DEF Wanted
<1>1. ASSUME NEW g \in Gens, Begin(g) PROVE (Alone /\ Progress)'
  <2>1. pass'[g] = [at |-> "create", todo |-> Wanted(g)]
    BY <1>1 DEF Begin, AddonsInv, AddonsTypeOK
  <2>2. PassRight(g)'
    BY <1>0, <2>1 DEF PassRight
  <2> QED
    BY <1>1, <2>2, OthersWait DEF Begin, AddonsInv, AddonsTypeOK
<1>2. ASSUME NEW g \in Gens, NEW c \in Charts, Create(g, c) PROVE (Alone /\ Progress)'
  <2>1. leader = g /\ pod[g] = "started"
    BY <1>2 DEF Create, AddonsInv, Alone
  <2>2. /\ pass'[g].at = "create" /\ pass'[g].todo = pass[g].todo \ {c}
        /\ pass[g].at = "create"
    BY <1>2 DEF Create, AddonsInv, AddonsTypeOK
  <2>3. \A d \in Wanted(g) \ pass'[g].todo : Right(g, d)'
    <3> TAKE d \in Wanted(g) \ pass'[g].todo
    <3>1. d \in Charts
      BY <1>0
    <3>2. CASE d = c
      BY <1>2, <3>2, <1>0 DEF Create, Right, AddonsInv, AddonsTypeOK
    <3>3. CASE d # c
      <4>1. Right(g, d)
        BY <2>2, <3>3 DEF AddonsInv, Progress, PassRight
      <4> QED
        BY <1>0, <1>2, <3>1, <3>3, <4>1 DEF Create, Right, AddonsInv, AddonsTypeOK
    <3> QED
      BY <3>2, <3>3
  <2>4. PassRight(g)'
    BY <1>0, <2>2, <2>3 DEF PassRight
  <2> QED
    BY <1>2, <2>1, <2>4, OthersWait DEF Create, AddonsInv, AddonsTypeOK
<1>3. ASSUME NEW g \in Gens, ListStale(g) PROVE (Alone /\ Progress)'
  <2>1. leader = g /\ pod[g] = "started"
    BY <1>3 DEF ListStale, AddonsInv, Alone
  <2>2. /\ pass[g].at = "create" /\ pass[g].todo = {}
        /\ pass'[g] = [at |-> "delete", todo |-> cache[g] \ Wanted(g)]
    BY <1>3 DEF ListStale, AddonsInv, AddonsTypeOK
  <2>3. \A d \in Charts \ pass'[g].todo : Right(g, d)'
    <3> TAKE d \in Charts \ pass'[g].todo
    <3>1. CASE d \in Wanted(g)
      <4>1. Right(g, d)
        BY <2>2, <3>1 DEF AddonsInv, Progress, PassRight
      <4> QED
        BY <1>0, <1>3, <4>1 DEF ListStale, Right
    <3>2. CASE d \notin Wanted(g)
      <4>1. d \notin cache[g]
        BY <2>2, <3>2
      <4>2. charts[d] = "absent" \/ d \in overlooked'
        BY <1>3, <3>2, <4>1 DEF ListStale, Existing
      <4> QED
        BY <1>0, <1>3, <3>2, <4>2 DEF ListStale, Right
    <3> QED
      BY <3>1, <3>2
  <2>4. PassRight(g)'
    BY <1>0, <2>2, <2>3 DEF PassRight
  <2> QED
    BY <1>3, <2>1, <2>4, OthersWait DEF ListStale, AddonsInv, AddonsTypeOK
<1>4. ASSUME NEW g \in Gens, NEW c \in Charts, Delete(g, c) PROVE (Alone /\ Progress)'
  <2>1. leader = g /\ pod[g] = "started"
    BY <1>4 DEF Delete, AddonsInv, Alone
  <2>2. /\ pass[g].at = "delete" /\ c \in pass[g].todo
        /\ pass'[g].at = "delete" /\ pass'[g].todo = pass[g].todo \ {c}
    BY <1>4 DEF Delete, AddonsInv, AddonsTypeOK
  <2>3. c \notin Wanted(g)
    BY <2>2 DEF AddonsInv, Progress, PassRight
  <2>4. \A d \in Charts \ pass'[g].todo : Right(g, d)'
    <3> TAKE d \in Charts \ pass'[g].todo
    <3>1. CASE d = c
      BY <1>0, <1>4, <2>3, <3>1 DEF Delete, Right, AddonsInv, AddonsTypeOK
    <3>2. CASE d # c
      <4>1. Right(g, d)
        BY <2>2, <3>2 DEF AddonsInv, Progress, PassRight
      <4> QED
        BY <1>0, <1>4, <3>2, <4>1 DEF Delete, Right, AddonsInv, AddonsTypeOK
    <3> QED
      BY <3>1, <3>2
  <2>5. PassRight(g)'
    BY <1>0, <2>2, <2>4 DEF PassRight, AddonsInv, Progress
  <2> QED
    BY <1>4, <2>1, <2>5, OthersWait DEF Delete, AddonsInv, AddonsTypeOK
<1>5. ASSUME NEW g \in Gens, Finish(g) PROVE (Alone /\ Progress)'
  <2>1. leader = g /\ pod[g] = "started"
    BY <1>5 DEF Finish, AddonsInv, Alone
  <2>2. /\ pass[g].at = "delete" /\ pass[g].todo = {}
        /\ pass'[g].at = "done" /\ pass'[g].todo = {}
        /\ UNCHANGED <<charts, overlooked>>
    BY <1>5 DEF Finish, AddonsInv, AddonsTypeOK
  <2>3. PassRight(g)'
    BY <1>0, <2>2 DEF PassRight, Right, AddonsInv, Progress
  <2> QED
    BY <1>5, <2>1, <2>3, OthersWait DEF Finish, AddonsInv, AddonsTypeOK
<1>6. ASSUME NEW g \in Gens, SyncCharts(g) PROVE (Alone /\ Progress)'
  BY <1>0, <1>6 DEF SyncCharts, AddonsInv, Alone, Progress, PassRight, Right, agentVars
<1>7. ASSUME NEW c \in Charts, Uninstalled(c) PROVE (Alone /\ Progress)'
  <2>1. \A g \in Gens, d \in Charts : Right(g, d) => Right(g, d)'
    BY <1>0, <1>7 DEF Uninstalled, Right, AddonsInv, AddonsTypeOK
  <2>2. Progress'
    BY <1>0, <1>7, <2>1 DEF Uninstalled, AddonsInv, Progress, PassRight
  <2>3. Alone'
    BY <1>7 DEF Uninstalled, AddonsInv, Alone, agentVars
  <2> QED
    BY <2>2, <2>3
<1> QED
  BY <1>1, <1>2, <1>3, <1>4, <1>5, <1>6, <1>7 DEF AddonsStep

\* AddonsInv is inductive.
LEMMA AddonsInductive == AddonsInv /\ [AddonsNext]_<<agentVars, addonVars>> => AddonsInv'
<1> SUFFICES ASSUME AddonsInv, [AddonsNext]_<<agentVars, addonVars>> PROVE AddonsInv'
  OBVIOUS
<1>1. CASE AgentNext /\ AddonsFollowPods
  BY <1>1, AddonsFollow
<1>2. CASE AddonsStep /\ UNCHANGED agentVars
  <2>1. AgentTypeOK'
    BY <1>2 DEF AddonsInv, AgentTypeOK, agentVars
  <2> QED
    BY <1>2, <2>1, AddonsTypes, AddonsWork DEF AddonsInv
<1>3. CASE UNCHANGED <<agentVars, addonVars>>
  <2>1. (AgentTypeOK /\ AddonsTypeOK)'
    BY <1>3 DEF AddonsInv, AgentTypeOK, AddonsTypeOK, agentVars, addonVars
  <2>2. (Alone /\ Progress)'
    BY <1>3 DEF AddonsInv, Alone, Progress, PassRight, Right, Wanted, agentVars, addonVars
  <2> QED
    BY <2>1, <2>2 DEF AddonsInv
<1> QED
  BY <1>1, <1>2, <1>3 DEF AddonsNext

\* "reconciles the tenant cluster's addon HelmCharts once" (AddonsReconciler.Start):
\* when the pod of the latest generation has done so, the charts are its own, but for
\* those it could not see or met while they were being deleted.
THEOREM LatestAddons == AddonsSpec => []AddonsSettle
<1>1. AddonsInv => AddonsSettle
  <2> SUFFICES ASSUME AddonsInv, pass[latest].at = "done", NEW c \in Charts \ overlooked
               PROVE  charts[c] = "present" <=> c \in Wanted(latest)
    BY DEF AddonsSettle
  <2>1. latest \in Gens
    BY DEF AddonsInv, AgentTypeOK
  <2> QED
    BY <2>1 DEF AddonsInv, Progress, PassRight, Right
<1> QED
  BY <1>1, AddonsInitInv, AddonsInductive, PTL DEF AddonsSpec

\* Two pods of different generations never work on the charts at the same time: the
\* manager runs AddonsReconciler.Start in the elected pod only, and a pod that loses
\* the election ends.
THEOREM PassesAlone ==
    AddonsSpec => [](\A g, h \in Gens : pass[g].at # "wait" /\ pass[h].at # "wait" => g = h)
<1>1. AddonsInv => \A g, h \in Gens : pass[g].at # "wait" /\ pass[h].at # "wait" => g = h
  BY DEF AddonsInv, Alone
<1> QED
  BY <1>1, AddonsInitInv, AddonsInductive, PTL DEF AddonsSpec
-----------------------------------------------------------------------------
(* The approver. *)

\* No request exists in the beginning.
LEMMA CSRInitInv == AgentInit /\ CSRInit => CSRInv
  BY ClusterAgentAssumption, CSRAssumption DEF AgentInit, CSRInit, CSRInv, AgentTypeOK, CSRTypeOK, Looked,
     ApprovedIsKnown, NoRequest, CSRs, Reconciles, Waiting, Gens

\* A new election makes the approver start over.
LEMMA CSRFollow ==
  ASSUME CSRInv, AgentNext, CSRFollowsPods
  PROVE  CSRInv'
<1>1. AgentTypeOK'
  BY AgentTypes DEF CSRInv
<1>2. CSRTypeOK'
  BY DEF CSRFollowsPods, CSRInv, CSRTypeOK, Waiting, Reconciles
<1>3. (Looked /\ ApprovedIsKnown)'
  BY DEF CSRFollowsPods, CSRInv, Looked, ApprovedIsKnown, Waiting
<1> QED
  BY <1>1, <1>2, <1>3 DEF CSRInv

\* Neither the kubelet nor the approver invalidates what the approver has seen: a
\* Node that changes afterwards has still had the addresses.
LEMMA CSRWork == CSRInv /\ CSRStep => (CSRTypeOK /\ Looked /\ ApprovedIsKnown)'
<1> SUFFICES ASSUME CSRInv, CSRStep PROVE (CSRTypeOK /\ Looked /\ ApprovedIsKnown)'
  OBVIOUS
<1> USE DEF CSRInv
<1>1. ASSUME NEW a \in SUBSET Addresses, Readdress(a) PROVE (CSRTypeOK /\ Looked /\ ApprovedIsKnown)'
  <2>1. CSRTypeOK'
    BY <1>1, CSRAssumption DEF Readdress, CSRTypeOK
  <2>2. (Looked /\ ApprovedIsKnown)'
    BY <1>1 DEF Readdress, CSRTypeOK, Looked, ApprovedIsKnown
  <2> QED
    BY <2>1, <2>2
<1>2. ASSUME Report PROVE (CSRTypeOK /\ Looked /\ ApprovedIsKnown)'
  <2>1. CSRTypeOK'
    BY <1>2, CSRAssumption DEF Report, CSRTypeOK
  <2>2. (Looked /\ ApprovedIsKnown)'
    BY <1>2 DEF Report, CSRTypeOK, Looked, ApprovedIsKnown
  <2> QED
    BY <2>1, <2>2
<1>3. ASSUME NEW r \in Requests, Take(r) PROVE (CSRTypeOK /\ Looked /\ ApprovedIsKnown)'
  <2>1. CSRTypeOK'
    BY <1>3, CSRAssumption, Zenon DEF Take, CSRTypeOK, csrIsPending, Waiting, Reconciles
  <2>2. (Looked /\ ApprovedIsKnown)'
    BY <1>3 DEF Take, CSRTypeOK, Looked, ApprovedIsKnown, csrIsPending, Waiting, Reconciles
  <2> QED
    BY <2>1, <2>2
<1>4. ASSUME GetNode PROVE (CSRTypeOK /\ Looked /\ ApprovedIsKnown)'
  <2>1. CSRTypeOK'
    BY <1>4, CSRAssumption DEF GetNode, CSRTypeOK, Accepts, Waiting, Reconciles
  <2>2. (Looked /\ ApprovedIsKnown)'
    BY <1>4 DEF GetNode, CSRTypeOK, Looked, ApprovedIsKnown, Accepts, Waiting, Reconciles
  <2> QED
    BY <2>1, <2>2
<1>5. ASSUME Approve PROVE (CSRTypeOK /\ Looked /\ ApprovedIsKnown)'
  <2>1. CSRTypeOK'
    BY <1>5, CSRAssumption DEF Approve, CSRTypeOK, Waiting, Reconciles, CSRs
  <2>2. (Looked /\ ApprovedIsKnown)'
    BY <1>5 DEF Approve, CSRTypeOK, Looked, ApprovedIsKnown, Waiting, Reconciles, CSRs
  <2> QED
    BY <2>1, <2>2
<1>6. ASSUME CallFails PROVE (CSRTypeOK /\ Looked /\ ApprovedIsKnown)'
  <2>1. CSRTypeOK'
    BY <1>6, CSRAssumption DEF CallFails, CSRTypeOK, Waiting, Reconciles
  <2>2. (Looked /\ ApprovedIsKnown)'
    BY <1>6 DEF CallFails, CSRTypeOK, Looked, ApprovedIsKnown, Waiting, Reconciles
  <2> QED
    BY <2>1, <2>2
<1>7. ASSUME NEW r \in Requests, Request(r) PROVE (CSRTypeOK /\ Looked /\ ApprovedIsKnown)'
  <2>1. CSRTypeOK'
    BY <1>7, CSRAssumption DEF Request, CSRTypeOK, CSRs, Reconciles
  <2>2. (Looked /\ ApprovedIsKnown)'
    BY <1>7 DEF Request, CSRTypeOK, Looked, ApprovedIsKnown, CSRs, Reconciles
  <2> QED
    BY <2>1, <2>2
<1>8. ASSUME NEW r \in Requests, Answered(r) PROVE (CSRTypeOK /\ Looked /\ ApprovedIsKnown)'
  <2>1. CSRTypeOK'
    BY <1>8, CSRAssumption DEF Answered, CSRTypeOK, CSRs
  <2>2. (Looked /\ ApprovedIsKnown)'
    BY <1>8 DEF Answered, CSRTypeOK, Looked, ApprovedIsKnown, CSRs
  <2> QED
    BY <2>1, <2>2
<1>9. ASSUME NEW r \in Requests, GivesUp(r) PROVE (CSRTypeOK /\ Looked /\ ApprovedIsKnown)'
  <2>1. CSRTypeOK'
    BY <1>9, CSRAssumption DEF GivesUp, CSRTypeOK
  <2>2. (Looked /\ ApprovedIsKnown)'
    BY <1>9 DEF GivesUp, CSRTypeOK, Looked, ApprovedIsKnown
  <2> QED
    BY <2>1, <2>2
<1>10. ASSUME NEW r \in Requests, Collect(r) PROVE (CSRTypeOK /\ Looked /\ ApprovedIsKnown)'
  <2>1. CSRTypeOK'
    BY <1>10, CSRAssumption DEF Collect, CSRTypeOK, CSRs, NoRequest, Reconciles
  <2>2. (Looked /\ ApprovedIsKnown)'
    BY <1>10 DEF Collect, CSRTypeOK, Looked, ApprovedIsKnown, CSRs, NoRequest, Reconciles
  <2> QED
    BY <2>1, <2>2
<1> QED
  BY <1>1, <1>2, <1>3, <1>4, <1>5, <1>6, <1>7, <1>8, <1>9, <1>10 DEF CSRStep, CSRReconcile, Kubelet

\* CSRInv is inductive.
LEMMA CSRInductive == CSRInv /\ [CSRNext]_<<agentVars, csrVars>> => CSRInv'
<1> SUFFICES ASSUME CSRInv, [CSRNext]_<<agentVars, csrVars>> PROVE CSRInv'
  OBVIOUS
<1>1. CASE AgentNext /\ CSRFollowsPods
  BY <1>1, CSRFollow
<1>2. CASE CSRStep /\ UNCHANGED agentVars
  <2>1. AgentTypeOK'
    BY <1>2, ZenonT(40) DEF CSRInv, AgentTypeOK, agentVars
  <2> QED
    BY <1>2, <2>1, CSRWork DEF CSRInv
<1>3. CASE UNCHANGED <<agentVars, csrVars>>
  BY <1>3 DEF CSRInv, AgentTypeOK, CSRTypeOK, Looked, ApprovedIsKnown, agentVars, csrVars
<1> QED
  BY <1>1, <1>2, <1>3 DEF CSRNext

\* "approves those whose SANs are all already known addresses of the requesting Node"
\* (validateAndApprove): also when the Node changes between the look at it and the
\* approval.
THEOREM KnownAddresses == CSRSpec => []ApprovedIsKnown
<1>1. CSRInv => ApprovedIsKnown
  BY DEF CSRInv
<1> QED
  BY <1>1, CSRInitInv, CSRInductive, PTL DEF CSRSpec
-----------------------------------------------------------------------------
(* The endpoints. *)

\* A synchronisation under way is that of a pod that runs and has resolved an address.
\* As long as nobody has written, what it has listed is what there is.
SyncOK(g) ==
    /\ sync[g].at # "idle" => pod[g] = "started" /\ sync[g].ips # {}
    /\ sync[g].latest => sync[g].at = "write" /\ (sync[g].found <=> slice # {})

\* The slice, if there is one, has addresses, and only one set of them.
SliceOK == slice = {} \/ \E a \in Answers \ {{}} : slice = {a}

EndpointInv == EndpointTypeOK /\ (\A g \in Gens : SyncOK(g)) /\ SliceOK

\* Nothing is resolved and nothing written in the beginning.
LEMMA EndpointInitInv == EndpointInit => EndpointInv
<1> SUFFICES ASSUME EndpointInit PROVE EndpointInv
  OBVIOUS
<1>1. EndpointTypeOK
  BY EndpointAssumption DEF EndpointInit, EndpointTypeOK, SyncState, SyncIdle
<1>2. (\A g \in Gens : SyncOK(g)) /\ SliceOK
  BY DEF EndpointInit, SyncOK, SliceOK, SyncIdle
<1> QED
  BY <1>1, <1>2 DEF EndpointInv

\* What the pods do leaves a synchronisation as it is, or ends it.
LEMMA EndpointFollow == EndpointInv /\ EndpointFollowsPods => EndpointInv'
<1> SUFFICES ASSUME EndpointInv, EndpointFollowsPods PROVE EndpointInv'
  OBVIOUS
<1> USE DEF EndpointFollowsPods
<1>1. SyncIdle \in SyncState
  BY EndpointAssumption DEF SyncState, SyncIdle
<1>2. \A g \in Gens : sync[g] \in SyncState
  BY DEF EndpointInv, EndpointTypeOK
<1>3. EndpointTypeOK'
  BY <1>1, <1>2 DEF EndpointInv, EndpointTypeOK
<1>4. ASSUME NEW g \in Gens PROVE SyncOK(g)'
  <2>1. CASE pod'[g] = "started"
    <3>1. sync'[g] = sync[g] /\ slice' = slice
      BY <2>1
    <3> QED
      BY <2>1, <3>1 DEF EndpointInv, SyncOK
  <2>2. CASE pod'[g] # "started"
    <3>1. sync'[g] = SyncIdle
      BY <2>2
    <3> QED
      BY <3>1 DEF SyncOK, SyncIdle
  <2> QED
    BY <2>1, <2>2
<1>5. SliceOK'
  BY DEF EndpointInv, SliceOK
<1> QED
  BY <1>3, <1>4, <1>5 DEF EndpointInv

\* A look at the records or at the slices concerns the pod that looks.
LEMMA EndpointLooks ==
  ASSUME EndpointInv, NEW g \in Gens, Resolve(g) \/ List(g), UNCHANGED agentVars
  PROVE  EndpointInv'
<1>1. sync \in [Gens -> SyncState] /\ dns[g] \in Answers /\ UNCHANGED <<dns, slice, changes, pod>>
  BY ZenonT(40) DEF EndpointInv, EndpointTypeOK, Resolve, List, agentVars
<1>2. sync' \in [Gens -> SyncState]
  <2>1. \A a \in Answers : [sync[g] EXCEPT !.at = "list", !.ips = a] \in SyncState
    BY <1>1, ZenonT(40) DEF SyncState
  <2>2. \A b \in BOOLEAN : [sync[g] EXCEPT !.at = "write", !.found = b, !.latest = TRUE] \in SyncState
    BY <1>1, ZenonT(40) DEF SyncState
  <2>3. CASE Resolve(g)
    BY <1>1, <2>1, <2>3, ZenonT(40) DEF Resolve
  <2>4. CASE List(g)
    BY <1>1, <2>2, <2>4, ZenonT(40) DEF List
  <2> QED
    BY <2>3, <2>4
<1>3. ASSUME NEW h \in Gens \ {g} PROVE SyncOK(h)'
  <2>1. sync'[h] = sync[h]
    BY <1>1, ZenonT(40) DEF Resolve, List
  <2> QED
    BY <1>1, <2>1, ZenonT(40) DEF EndpointInv, SyncOK
<1>4. SyncOK(g) /\ sync[g] \in SyncState
  BY <1>1 DEF EndpointInv
<1> SUFFICES SyncOK(g)'
  BY <1>1, <1>2, <1>3 DEF EndpointInv, EndpointTypeOK, SliceOK
<1>5. CASE Resolve(g)
  <2>1. sync'[g] = [sync[g] EXCEPT !.at = "list", !.ips = dns[g]] /\ dns[g] # {} /\ pod[g] = "started"
    BY <1>1, <1>5 DEF Resolve
  <2>2. ~sync[g].latest
    BY <1>4, <1>5 DEF Resolve, SyncOK
  <2> QED
    BY <1>1, <1>4, <2>1, <2>2 DEF SyncOK, SyncState
<1>6. CASE List(g)
  <2>1. sync'[g] = [sync[g] EXCEPT !.at = "write", !.found = slice # {}, !.latest = TRUE]
    BY <1>1, <1>6, ZenonT(40) DEF List
  <2>2. sync[g].at # "idle"
    BY <1>6, ZenonT(40) DEF List
  <2> QED
    BY <1>1, <1>4, <2>1, <2>2, ZenonT(40) DEF SyncOK, SyncState
<1> QED
  BY <1>5, <1>6, ZenonT(40)

\* A write or a deletion leaves no one with a list that is still right.
LEMMA EndpointWrites ==
  ASSUME EndpointInv, UNCHANGED <<agentVars, dns>>, NEW F \in [Gens -> BOOLEAN],
         sync' = [h \in Gens |-> IF F[h] THEN SyncIdle ELSE [sync[h] EXCEPT !.latest = FALSE]],
         SliceOK', slice' \in SUBSET Answers, changes' \in 0 .. MaxChanges
  PROVE  EndpointInv'
<1>1. \A h \in Gens : sync[h] \in SyncState /\ SyncOK(h)
  BY DEF EndpointInv, EndpointTypeOK
<1>2. SyncIdle \in SyncState /\ \A s \in SyncState : [s EXCEPT !.latest = FALSE] \in SyncState
  BY EndpointAssumption, ZenonT(40) DEF SyncState, SyncIdle
<1>3. sync' \in [Gens -> SyncState]
  BY <1>1, <1>2
<1>4. ASSUME NEW h \in Gens PROVE SyncOK(h)'
  <2>1. UNCHANGED pod
    BY DEF agentVars
  <2>2. CASE sync'[h] = SyncIdle
    BY <2>2 DEF SyncOK, SyncIdle
  <2>3. CASE sync'[h] = [sync[h] EXCEPT !.latest = FALSE]
    BY <1>1, <2>1, <2>3 DEF SyncOK, SyncState
  <2> QED
    BY <2>2, <2>3
<1> QED
  BY <1>3, <1>4 DEF EndpointInv, EndpointTypeOK

\* Create or Update, or the error that ends the synchronisation until the next tick.
LEMMA EndpointWrite ==
  ASSUME EndpointInv, NEW g \in Gens, Write(g), UNCHANGED agentVars
  PROVE  EndpointInv'
<1>1. sync \in [Gens -> SyncState] /\ SyncOK(g) /\ changes \in 0 .. MaxChanges /\ slice \in SUBSET Answers
  BY DEF EndpointInv, EndpointTypeOK
<1>2. sync[g].at = "write" /\ UNCHANGED <<dns, changes>>
  BY DEF Write
<1>3. sync[g].ips \in Answers \ {{}}
  BY <1>1, <1>2 DEF SyncOK, SyncState
<1>4. CASE /\ slice' = {sync[g].ips}
           /\ sync' = [h \in Gens |-> IF h = g THEN SyncIdle ELSE [sync[h] EXCEPT !.latest = FALSE]]
  <2>1. SliceOK' /\ slice' \in SUBSET Answers
    BY <1>3, <1>4 DEF SliceOK
  <2> DEFINE F == [h \in Gens |-> h = g]
  <2>2. F \in [Gens -> BOOLEAN]
    OBVIOUS
  <2>3. sync' = [h \in Gens |-> IF F[h] THEN SyncIdle ELSE [sync[h] EXCEPT !.latest = FALSE]]
    BY <1>4, ZenonT(40)
  <2> QED
    BY <1>1, <1>2, <2>1, <2>2, <2>3, EndpointWrites, ZenonT(40)
<1>5. CASE sync' = [sync EXCEPT ![g] = SyncIdle] /\ UNCHANGED slice
  <2>1. SyncIdle \in SyncState
    BY EndpointAssumption DEF SyncState, SyncIdle
  <2>2. sync' \in [Gens -> SyncState]
    BY <1>1, <1>5, <2>1
  <2>3. ASSUME NEW h \in Gens PROVE SyncOK(h)'
    <3>1. sync'[h] = SyncIdle \/ sync'[h] = sync[h]
      BY <1>1, <1>5
    <3>2. UNCHANGED pod /\ SyncOK(h)
      BY DEF agentVars, EndpointInv
    <3> QED
      BY <1>5, <3>1, <3>2 DEF SyncOK, SyncIdle
  <2> QED
    BY <1>2, <1>5, <2>2, <2>3 DEF EndpointInv, EndpointTypeOK, SliceOK
<1> QED
  BY <1>4, <1>5 DEF Write

\* EndpointInv is inductive.
LEMMA EndpointInductive == EndpointInv /\ [EndpointNext]_<<agentVars, endpointVars>> => EndpointInv'
<1> SUFFICES ASSUME EndpointInv, [EndpointNext]_<<agentVars, endpointVars>> PROVE EndpointInv'
  OBVIOUS
<1>1. CASE AgentNext /\ EndpointFollowsPods
  BY <1>1, EndpointFollow
<1>2. ASSUME NEW g \in Gens, SyncStep(g), UNCHANGED agentVars PROVE EndpointInv'
  BY <1>2, EndpointLooks, EndpointWrite DEF SyncStep
<1>3. ASSUME NEW g \in Gens, NEW a \in Answers, RecordsChange(g, a), UNCHANGED agentVars PROVE EndpointInv'
  <2>1. UNCHANGED <<slice, sync, pod>>
    BY <1>3 DEF RecordsChange, agentVars
  <2>2. EndpointTypeOK'
    BY <1>3, <2>1, EndpointAssumption DEF EndpointInv, EndpointTypeOK, RecordsChange
  <2> QED
    BY <2>1, <2>2 DEF EndpointInv, SyncOK, SliceOK
<1>4. CASE SliceDeleted /\ UNCHANGED agentVars
  <2> DEFINE F == [h \in Gens |-> FALSE]
  <2>1. sync' = [h \in Gens |-> IF F[h] THEN SyncIdle ELSE [sync[h] EXCEPT !.latest = FALSE]]
    BY <1>4 DEF SliceDeleted
  <2>2. SliceOK' /\ slice' \in SUBSET Answers /\ changes' \in 0 .. MaxChanges
    BY <1>4, EndpointAssumption DEF SliceDeleted, SliceOK, EndpointInv, EndpointTypeOK
  <2>3. F \in [Gens -> BOOLEAN] /\ UNCHANGED <<agentVars, dns>>
    BY <1>4 DEF SliceDeleted
  <2> QED
    BY <2>1, <2>2, <2>3, EndpointWrites, ZenonT(40)
<1>5. CASE UNCHANGED <<agentVars, endpointVars>>
  <2>1. UNCHANGED <<pod, dns, slice, sync, changes>>
    BY <1>5 DEF agentVars, endpointVars
  <2> QED
    BY <2>1 DEF EndpointInv, EndpointTypeOK, SyncOK, SliceOK
<1> QED
  BY <1>1, <1>2, <1>3, <1>4, <1>5 DEF EndpointNext, EndpointStep

\* The invariant of the synchronisation.
LEMMA EndpointInvariance == EndpointSpec => []EndpointInv
  BY EndpointInitInv, EndpointInductive, PTL DEF EndpointSpec

\* The second half of EndpointsConverge: the kubernetes service is never left with a
\* slice of no addresses, whatever the records say and however many pods write.
THEOREM SliceKeepsAddresses == EndpointSpec => [](slice # {{}} /\ SliceOK)
<1>1. EndpointInv => slice # {{}} /\ SliceOK
  BY DEF EndpointInv, SliceOK
<1> QED
  BY <1>1, EndpointInvariance, PTL

\* An update never brings back a slice that was deleted since it was listed: it only
\* ever replaces the addresses of one that exists.
THEOREM UpdatesNeedSlice ==
  EndpointSpec => [][\A g \in Gens : Write(g) /\ sync[g].found /\ slice' # slice => slice # {}]_<<agentVars, endpointVars>>
<1>1. EndpointInv => \A g \in Gens : Write(g) /\ sync[g].found /\ slice' # slice => slice # {}
  BY DEF EndpointInv, SyncOK, Write
<1> QED
  BY <1>1, EndpointInvariance, PTL DEF EndpointSpec

\* The pod of the latest generation runs alone, the slice has the address of its host,
\* and it is not about to write another.
Settled(g, a) ==
    /\ latest = g /\ dns[g] = a /\ slice = {a}
    /\ \A h \in Gens \ {g} : pod[h] \in {"absent", "gone"}
    /\ sync[g].at # "idle" => sync[g].ips = a

\* No pod of another generation is started while g is the latest.
LEMMA PodsStayEnded ==
  ASSUME AgentTypeOK, AgentNext, NEW g \in Gens, latest = g, latest' = g,
         NEW h \in Gens \ {g}, pod[h] \in {"absent", "gone"}
  PROVE  pod'[h] \in {"absent", "gone"}
<1> USE DEF AgentTypeOK
<1>1. CASE Edit \/ StartPod
  BY <1>1 DEF Edit, StartPod
<1>2. ASSUME NEW q \in Gens, StartManager(q) \/ Elect(q) \/ \E c \in CRDs : ApplyCRD(q, c)
      PROVE  pod'[h] \in {"absent", "gone"}
  BY <1>2 DEF StartManager, Elect, ApplyCRD
<1>3. ASSUME NEW q \in Gens, StopPod(q) \/ Crash(q) PROVE pod'[h] \in {"absent", "gone"}
  BY <1>3 DEF StopPod, Crash
<1> QED
  BY <1>1, <1>2, <1>3 DEF AgentNext, Starting, Stopping

\* The safety half of EndpointsConverge: once the pods of older generations have ended
\* and the slice has the address of the latest, it keeps it while neither the Runtime
\* nor the records change and nobody deletes the slice, also when the pod crashes.
THEOREM SettledStays ==
  ASSUME NEW g \in Gens, NEW a \in Answers
  PROVE  EndpointSpec => [][Settled(g, a) /\ latest' = g /\ dns'[g] = a /\ slice' # {}
                              => Settled(g, a)']_<<agentVars, endpointVars>>
<1>1. ASSUME AgentTypeOK, EndpointInv, [EndpointNext]_<<agentVars, endpointVars>>,
             Settled(g, a), latest' = g, dns'[g] = a, slice' # {}
      PROVE  Settled(g, a)'
  <2>1. sync \in [Gens -> SyncState] /\ \A h \in Gens : SyncOK(h)
    BY <1>1 DEF EndpointInv, EndpointTypeOK
  <2>2. \A h \in Gens \ {g} : sync[h].at = "idle"
    BY <1>1, <2>1 DEF SyncOK, Settled
  <2>3. CASE AgentNext /\ EndpointFollowsPods
    <3>1. \A h \in Gens \ {g} : pod'[h] \in {"absent", "gone"}
      BY <1>1, <2>3, PodsStayEnded DEF Settled
    <3>2. UNCHANGED slice /\ (sync'[g] = sync[g] \/ sync'[g] = SyncIdle)
      BY <2>3 DEF EndpointFollowsPods
    <3> QED
      BY <1>1, <3>1, <3>2 DEF Settled, SyncIdle
  <2>4. ASSUME NEW h \in Gens, SyncStep(h), UNCHANGED agentVars PROVE Settled(g, a)'
    <3>1. UNCHANGED <<pod, latest, dns>>
      BY <2>4, ZenonT(40) DEF SyncStep, Resolve, List, Write, agentVars
    <3>2. SUFFICES slice' = {a} /\ (sync'[g].at # "idle" => sync'[g].ips = a)
      BY <1>1, <3>1 DEF Settled
    <3>3. CASE Resolve(h)
      BY <1>1, <2>1, <3>3 DEF Resolve, Settled, SyncState
    <3>4. CASE List(h)
      BY <1>1, <2>1, <3>4 DEF List, Settled, SyncState
    <3>5. CASE Write(h)
      <4>1. h = g /\ sync[g].ips = a
        BY <1>1, <2>2, <3>5 DEF Write, Settled
      <4>2. sync'[g] = SyncIdle /\ (slice' = {a} \/ slice' = slice)
        BY <2>1, <3>5, <4>1 DEF Write
      <4> QED
        BY <1>1, <4>2 DEF Settled, SyncIdle
    <3> QED
      BY <2>4, <3>3, <3>4, <3>5, ZenonT(40) DEF SyncStep
  <2>5. CASE (\E h \in Gens, b \in Answers : RecordsChange(h, b)) /\ UNCHANGED agentVars
    <3>1. UNCHANGED <<pod, sync, slice>>
      BY <2>5 DEF RecordsChange, agentVars
    <3> QED
      BY <1>1, <3>1 DEF Settled
  <2>6. CASE SliceDeleted
    BY <1>1, <2>6 DEF SliceDeleted
  <2>7. CASE UNCHANGED <<agentVars, endpointVars>>
    <3>1. UNCHANGED <<pod, sync, slice>>
      BY <2>7 DEF agentVars, endpointVars
    <3> QED
      BY <1>1, <3>1 DEF Settled
  <2> QED
    BY <1>1, <2>3, <2>4, <2>5, <2>6, <2>7 DEF EndpointNext, EndpointStep
<1>2. AgentTypeOK /\ [EndpointNext]_<<agentVars, endpointVars>> => AgentTypeOK'
  <2>1. AgentTypeOK /\ UNCHANGED agentVars => AgentTypeOK'
    BY SMTT(40) DEF AgentTypeOK, agentVars
  <2> QED
    BY <2>1, AgentTypes DEF EndpointNext
<1>3. AgentInit => AgentTypeOK
  BY ClusterAgentAssumption DEF AgentInit, AgentTypeOK, Gens
<1> QED
  BY <1>1, <1>2, <1>3, EndpointInvariance, PTL DEF EndpointSpec
=============================================================================
