----------------------------- MODULE HelmChart -----------------------------
(***************************************************************************)
(* The Helm chart controller of the cluster agent                          *)
(* (internal/controller/clusteragent/helmchart_controller.go), the Jobs it *)
(* creates (pkg/runtime/helmchart.go) and the Helm release they manage,    *)
(* for one HelmChart.                                                      *)
(*                                                                         *)
(* An install Job runs `helm upgrade --install' for the generation it was  *)
(* created from; when the spec has changed a finished Job is deleted and a *)
(* new one created.  When the chart is deleted a teardown Job uninstalls   *)
(* the release, after which the RBAC of the Jobs and the finalizer go.     *)
(* The controller reads chart and Jobs from caches that lag; it creates    *)
(* and deletes by name, and updates the chart with optimistic locking.     *)
(***************************************************************************)
EXTENDS Naturals

CONSTANTS MaxGen,    \* bound: generations of the spec
          MaxFaults  \* bound: failed calls, failed Jobs and crashes

ASSUME HelmChartAssumption == MaxGen \in Nat \ {0} /\ MaxFaults \in Nat

VARIABLES
    chart,       \* the HelmChart in the API server
    chartCache,  \* what the informer knows of it
    job,         \* the install and the teardown Job in the API server
    jobCache,    \* what the informer knows of them
    current,     \* which of "chart", "copy" and the Jobs are known in their latest version
    rbac,        \* the ServiceAccount and the ClusterRoleBinding that exist
    release,     \* the generation installed in the cluster; 0 for no release
    queued,      \* the chart is in the work queue
    at,          \* the call the pass has reached
    copy,        \* the chart the pass works with: helmChart
    logged,      \* a failure was reported in the log only, or by a failed teardown Job
    faults       \* faults so far

vars == <<chart, chartCache, job, jobCache, current, rbac, release, queued, at, copy, logged, faults>>

Operations == {"install", "teardown"}
RBAC       == {"serviceAccount", "clusterRoleBinding"}
Charts     == [gen : 0 .. MaxGen, deleting : BOOLEAN, finalizer : BOOLEAN,
               ready : {"Unset", "True", "False"}, readyGen : 0 .. MaxGen]
NoChart    == [gen |-> 0, deleting |-> FALSE, finalizer |-> FALSE, ready |-> "Unset", readyGen |-> 0]
Jobs       == [gen : 0 .. MaxGen, state : {"none", "running", "complete", "failed"}]
NoJob      == [gen |-> 0, state |-> "none"]

TypeOK ==
    /\ chart \in Charts /\ chartCache \in Charts /\ copy \in Charts
    /\ job \in [Operations -> Jobs] /\ jobCache \in [Operations -> Jobs]
    /\ current \subseteq Operations \cup {"chart", "copy"}
    /\ rbac \subseteq RBAC
    /\ release \in 0 .. MaxGen
    /\ queued \in BOOLEAN /\ logged \in BOOLEAN
    /\ at \in {"idle", "createRBAC", "installJob", "teardownJob", "deleteRBAC", "finalizer"}
    /\ faults \in 0 .. MaxFaults

Init ==
    /\ chart = [NoChart EXCEPT !.gen = 1] /\ chartCache = NoChart /\ copy = NoChart
    /\ job = [op \in Operations |-> NoJob] /\ jobCache = job
    /\ current = Operations
    /\ rbac = {} /\ release = 0
    /\ queued = FALSE /\ at = "idle" /\ logged = FALSE /\ faults = 0
-----------------------------------------------------------------------------
(* The API server and controller-runtime. *)

Update(o) ==
    /\ chart' = o
    /\ current' = current \ (IF o = chart THEN {"copy"} ELSE {"chart", "copy"})

PutJob(op, j) ==
    /\ job' = [job EXCEPT ![op] = j]
    /\ current' = IF j = job[op] THEN current ELSE current \ {op}

\* Reconcile goes on, returns nil, or returns an error and is queued again.
Goto(step) == at' = step /\ UNCHANGED <<copy, queued>>
Return == at' = "idle" /\ copy' = NoChart /\ UNCHANGED queued
Error == at' = "idle" /\ copy' = NoChart /\ queued' = TRUE

\* An update of the copy succeeds if the copy is the latest version.
UpdateCopy(o) ==
    \/ "copy" \in current /\ Update(o) /\ Return
    \/ "copy" \notin current /\ Error /\ UNCHANGED <<chart, current>>
-----------------------------------------------------------------------------
(* Reconcile. *)

Reconcile ==
    /\ at = "idle" /\ queued
    /\ queued' = FALSE
    /\ \/ /\ chartCache.gen = 0 \/ (chartCache.deleting /\ ~chartCache.finalizer)
          /\ UNCHANGED <<current, at, copy>>
       \/ /\ chartCache.gen # 0 /\ (chartCache.deleting => chartCache.finalizer)
          /\ copy' = chartCache
          /\ current' = IF "chart" \in current THEN current \cup {"copy"} ELSE current \ {"copy"}
          /\ at' = CASE chartCache.deleting -> "teardownJob"
                     [] ~chartCache.deleting /\ chartCache.finalizer -> "createRBAC"
                     [] OTHER -> "finalizer"
    /\ UNCHANGED <<chart, chartCache, job, jobCache, rbac, release, logged, faults>>

AddFinalizer ==
    /\ at = "finalizer" /\ ~copy.deleting
    /\ UpdateCopy([copy EXCEPT !.finalizer = TRUE])
    /\ UNCHANGED <<chartCache, job, jobCache, rbac, release, logged, faults>>

CreateRBAC ==
    /\ at = "createRBAC"
    /\ rbac' = RBAC
    /\ Goto("installJob")
    /\ UNCHANGED <<chart, chartCache, job, jobCache, current, release, logged, faults>>

\* The Job is not found: it is created; AlreadyExists is no error.
CreateJob(op) ==
    /\ \/ job[op] = NoJob /\ PutJob(op, [gen |-> copy.gen, state |-> "running"])
       \/ job[op] # NoJob /\ UNCHANGED <<job, current>>
    /\ Return /\ UNCHANGED chart

Finished(j) == j.state \in {"complete", "failed"}

\* Faulty variant: the Job of another generation is deleted whatever it does.
DeleteStaleJobNow == PutJob("install", NoJob) /\ Return /\ UNCHANGED chart

\* The Job of another generation: it is deleted once it has finished.
DeleteStaleJob ==
    /\ \/ Finished(jobCache["install"]) /\ PutJob("install", NoJob)
       \/ ~Finished(jobCache["install"]) /\ UNCHANGED <<job, current>>
    /\ Return /\ UNCHANGED chart

\* Faulty variant: a Job that has not failed has succeeded.
UpdateReadyConditionEarly ==
    LET o == [copy EXCEPT !.ready = IF jobCache["install"].state = "failed" THEN "False" ELSE "True",
                          !.readyGen = copy.gen]
    IN  /\ \/ o # copy /\ UpdateCopy(o)
           \/ o = copy /\ Return /\ UNCHANGED <<chart, current>>
        /\ UNCHANGED job

\* updateReadyCondition.
UpdateReadyCondition ==
    LET j == jobCache["install"]
        o == [copy EXCEPT !.ready = IF j.state = "complete" THEN "True" ELSE "False", !.readyGen = copy.gen]
    IN  /\ \/ Finished(j) /\ o # copy /\ UpdateCopy(o)
           \/ (~Finished(j) \/ o = copy) /\ Return /\ UNCHANGED <<chart, current>>
        /\ UNCHANGED job

\* Faulty variant: the Job that is there is taken to be the right one.
InstallJobOnce ==
    /\ at = "installJob"
    /\ \/ jobCache["install"] = NoJob /\ CreateJob("install")
       \/ jobCache["install"] # NoJob /\ UpdateReadyCondition
    /\ UNCHANGED <<chartCache, jobCache, rbac, release, logged, faults>>

InstallJob ==
    /\ at = "installJob"
    /\ \/ jobCache["install"] = NoJob /\ CreateJob("install")
       \/ jobCache["install"] # NoJob /\ jobCache["install"].gen # copy.gen /\ DeleteStaleJob
       \/ jobCache["install"] # NoJob /\ jobCache["install"].gen = copy.gen /\ UpdateReadyCondition
    /\ UNCHANGED <<chartCache, jobCache, rbac, release, logged, faults>>
-----------------------------------------------------------------------------
(* reconcileDelete. *)

\* Faulty variant: the teardown Job does not look at the install Job.
TeardownJobEager ==
    /\ at = "teardownJob"
    /\ \/ jobCache["teardown"] = NoJob /\ CreateJob("teardown")
       \/ Finished(jobCache["teardown"]) /\ Goto("deleteRBAC") /\ UNCHANGED <<chart, job, current>>
       \/ jobCache["teardown"].state = "running" /\ Return /\ UNCHANGED <<chart, job, current>>
    /\ UNCHANGED <<chartCache, jobCache, rbac, release, logged, faults>>

\* Faulty variant: only a teardown that succeeds lets the chart go.
TeardownJobStrict ==
    /\ at = "teardownJob"
    /\ \/ /\ jobCache["teardown"] = NoJob /\ jobCache["install"].state = "complete"
          /\ CreateJob("teardown")
       \/ /\ \/ jobCache["teardown"] = NoJob /\ jobCache["install"].state # "complete"
             \/ jobCache["teardown"].state = "complete"
          /\ Goto("deleteRBAC") /\ UNCHANGED <<chart, job, current>>
       \/ /\ jobCache["teardown"].state \in {"running", "failed"}
          /\ Return /\ UNCHANGED <<chart, job, current>>
    /\ UNCHANGED <<chartCache, jobCache, rbac, release, logged, faults>>

\* The teardown Job is created if the install Job succeeded, and awaited.
TeardownJob ==
    /\ at = "teardownJob"
    /\ \/ /\ jobCache["teardown"] = NoJob /\ jobCache["install"].state = "complete"
          /\ CreateJob("teardown")
       \/ /\ \/ jobCache["teardown"] = NoJob /\ jobCache["install"].state # "complete"
             \/ Finished(jobCache["teardown"])
          /\ Goto("deleteRBAC") /\ UNCHANGED <<chart, job, current>>
       \/ /\ jobCache["teardown"].state = "running"
          /\ Return /\ UNCHANGED <<chart, job, current>>
    /\ UNCHANGED <<chartCache, jobCache, rbac, release, logged, faults>>

DeleteRBAC ==
    /\ at = "deleteRBAC"
    /\ rbac' = {}
    /\ Goto("finalizer")
    /\ UNCHANGED <<chart, chartCache, job, jobCache, current, release, logged, faults>>

\* Without its last finalizer the deleted chart is gone.
RemoveFinalizer ==
    /\ at = "finalizer" /\ copy.deleting
    /\ UpdateCopy(NoChart)
    /\ UNCHANGED <<chartCache, job, jobCache, rbac, release, logged, faults>>
-----------------------------------------------------------------------------
(* Failures. *)

Fault == faults < MaxFaults /\ faults' = faults + 1

\* A call fails: most are returned as errors, those of the teardown are logged.
CallFails ==
    /\ Fault
    /\ \/ /\ at \in {"createRBAC", "installJob", "finalizer"} /\ Error
          /\ rbac' \in IF at = "createRBAC" THEN {rbac, rbac \cup {"serviceAccount"}} ELSE {rbac}
          /\ UNCHANGED logged
       \/ /\ at = "teardownJob" /\ jobCache["teardown"] = NoJob /\ jobCache["install"].state = "complete"
          /\ Goto("deleteRBAC") /\ logged' = TRUE /\ UNCHANGED rbac
       \/ /\ at = "deleteRBAC"
          /\ rbac' \in SUBSET rbac \ {{}}
          /\ Goto("finalizer") /\ logged' = TRUE
    /\ UNCHANGED <<chart, chartCache, job, jobCache, current, release>>

\* A new process starts from fresh caches and reconciles every chart.
Crash ==
    /\ Fault
    /\ Error
    /\ chartCache' = chart /\ jobCache' = job /\ current' = Operations \cup {"chart"}
    /\ UNCHANGED <<chart, job, rbac, release, logged>>
-----------------------------------------------------------------------------
(* The watches, the users, the pods of the Jobs and the garbage collector. *)

CacheChart ==
    /\ "chart" \notin current
    /\ chartCache' = chart /\ current' = current \cup {"chart"} /\ queued' = TRUE
    /\ UNCHANGED <<chart, job, jobCache, rbac, release, at, copy, logged, faults>>

CacheJob(op) ==
    /\ op \notin current
    /\ jobCache' = [jobCache EXCEPT ![op] = job[op]] /\ current' = current \cup {op} /\ queued' = TRUE
    /\ UNCHANGED <<chart, chartCache, job, rbac, release, at, copy, logged, faults>>

EditSpec ==
    /\ chart.gen \in 1 .. MaxGen - 1 /\ ~chart.deleting
    /\ Update([chart EXCEPT !.gen = @ + 1])
    /\ UNCHANGED <<chartCache, job, jobCache, rbac, release, queued, at, copy, logged, faults>>

Delete ==
    /\ chart.gen # 0 /\ ~chart.deleting
    /\ Update(IF chart.finalizer THEN [chart EXCEPT !.deleting = TRUE] ELSE NoChart)
    /\ UNCHANGED <<chartCache, job, jobCache, rbac, release, queued, at, copy, logged, faults>>

\* A helm process does its work, if it may; then its Job is complete.
Helm(op) ==
    /\ job[op].state = "running" /\ rbac = RBAC
    /\ release' = IF op = "install" THEN job[op].gen ELSE 0
    /\ \/ op = "install" /\ release # job[op].gen /\ UNCHANGED <<job, current>>
       \/ op = "install" /\ release = job[op].gen /\ PutJob(op, [job[op] EXCEPT !.state = "complete"])
       \/ op = "teardown" /\ PutJob(op, [job[op] EXCEPT !.state = "complete"])
    /\ UNCHANGED <<chart, chartCache, jobCache, rbac, queued, at, copy, logged, faults>>

\* The pods of a Job have failed as often as its backoff limit allows.
JobFails(op) ==
    /\ job[op].state = "running"
    /\ \/ rbac = RBAC /\ Fault
       \/ rbac # RBAC /\ UNCHANGED faults
    /\ PutJob(op, [job[op] EXCEPT !.state = "failed"])
    /\ logged' = (logged \/ op = "teardown")
    /\ UNCHANGED <<chart, chartCache, jobCache, rbac, release, queued, at, copy>>

\* What a chart that is gone owned.
Collect ==
    /\ chart.gen = 0
    /\ \/ \E op \in Operations : job[op] # NoJob /\ PutJob(op, NoJob) /\ UNCHANGED rbac
       \/ "serviceAccount" \in rbac /\ rbac' = rbac \ {"serviceAccount"} /\ UNCHANGED <<job, current>>
    /\ UNCHANGED <<chart, chartCache, jobCache, release, queued, at, copy, logged, faults>>
-----------------------------------------------------------------------------
Pass ==
    \/ Reconcile \/ AddFinalizer \/ CreateRBAC \/ InstallJob
    \/ TeardownJob \/ DeleteRBAC \/ RemoveFinalizer

Watches == \E op \in Operations : CacheJob(op)
Pods == \E op \in Operations : Helm(op) \/ JobFails(op)

Next == Pass \/ CallFails \/ Crash \/ CacheChart \/ Watches \/ Pods \/ Collect \/ EditSpec \/ Delete

Spec == Init /\ [][Next]_vars

\* A queued chart is reconciled, the watches deliver, and a Job finishes.
FairSpec == Spec /\ WF_vars(Pass) /\ WF_vars(CacheChart) /\ WF_vars(Watches) /\ WF_vars(Pods)
-----------------------------------------------------------------------------
\* No step, no trigger, no event and no running Job is left.
Quiescent ==
    /\ at = "idle" /\ ~queued /\ Operations \cup {"chart"} \subseteq current
    /\ \A op \in Operations : job[op].state # "running"

\* The controller comes to rest only over a chart whose latest generation has an
\* install Job that has finished, with the outcome in the status; of a chart that
\* is gone it leaves no ClusterRoleBinding unless a failure was logged.
SettlesInstalled ==
    Quiescent =>
        /\ ~chart.deleting
        /\ chart.gen # 0 =>
             /\ job["install"].gen = chart.gen
             /\ chart.readyGen = chart.gen
             /\ chart.ready = IF job["install"].state = "complete" THEN "True" ELSE "False"
        /\ chart.gen = 0 /\ ~logged => "clusterRoleBinding" \notin rbac

\* updateReadyCondition: a chart that is Ready in its latest generation is installed
\* in that generation, however stale the Job and the chart that were read.
ReadyMeansInstalled ==
    chart.ready = "True" /\ chart.readyGen = chart.gen /\ ~chart.deleting => release = chart.gen

\* Two helm processes would fight over the release's lock: the teardown Job never
\* runs beside an install Job.
OneHelmAtATime == ~\A op \in Operations : job[op].state = "running"

\* Reconcile must "never delete jobs in progress": Delete goes by name and decides
\* on a cached Job, but a running Job goes only with its chart.
RunningJobsStay ==
    [][\A op \in Operations : job[op].state = "running" /\ job'[op] = NoJob => chart.gen = 0]_vars

\* reconcileDelete "never blocks deletion indefinitely".
DeletionCompletes == chart.deleting ~> chart.gen = 0

\* reconcileDelete: "so deleting a HelmChart also removes the release from the
\* upstream cluster instead of orphaning it".
DeletionUninstalls == chart.gen = 0 /\ ~logged => release = 0
=============================================================================
