-------------------------- MODULE HelmChartProofs --------------------------
(***************************************************************************)
(* HelmChart: the safety properties hold for any number of generations and *)
(* faults.                                                                 *)
(*                                                                         *)
(* The controller decides on caches, so the strengthening says how far a   *)
(* cache can be behind: a Job is created only when none is cached, hence a *)
(* cached Job that has finished is still the Job of that name, or is gone; *)
(* and a chart is never undeleted, hence no pass that installs meets a     *)
(* teardown Job.                                                           *)
(***************************************************************************)
EXTENDS HelmChart, TLAPS

\* The chart is being deleted or is gone.
Ending(c) == c.deleting \/ c.gen = 0

\* A Job has a state and a generation, or it does not exist.
Formed(j) == j = NoJob \/ (j.state # "none" /\ j.gen # 0)

\* How far the cache of a Job can be behind.
KnownJob(op) ==
    /\ Formed(job[op]) /\ Formed(jobCache[op])
    /\ op \in current => jobCache[op] = job[op]
    /\ jobCache[op] # NoJob => \/ job[op] = NoJob
                               \/ /\ job[op].gen = jobCache[op].gen
                                  /\ Finished(jobCache[op]) => job[op] = jobCache[op]

\* What the caches and the copy of a pass know.
Known ==
    /\ "chart" \in current => chartCache = chart
    /\ at # "idle" /\ "copy" \in current => copy = chart /\ chartCache = chart
    /\ at # "idle" => queued \/ copy = chartCache
    /\ \A op \in Operations : KnownJob(op)

\* What the copy is like in each phase of a pass, and what that says of the chart.
Phases ==
    /\ chart.deleting => chart.finalizer
    /\ chart.finalizer => chart.gen # 0
    /\ chart.readyGen =< chart.gen
    /\ chart.ready = "True" => chart.gen # 0
    /\ ~Ending(chartCache) /\ chartCache.finalizer => chart.finalizer /\ chart.gen # 0
    /\ at # "idle" => copy.gen # 0
    /\ at \in {"createRBAC", "installJob"} => ~copy.deleting /\ chart.finalizer /\ chart.gen # 0
    /\ at \in {"teardownJob", "deleteRBAC"} => copy.deleting
    /\ at = "finalizer" /\ ~copy.deleting => ~copy.finalizer

\* Deletion is final: a chart that any pass, cache or teardown Job takes for deleted is.
Ends ==
    /\ chartCache.deleting => Ending(chart)
    /\ copy.deleting \/ job["teardown"] # NoJob => Ending(chart) /\ Ending(chartCache)
    /\ at \in {"createRBAC", "installJob"} => job["teardown"] = NoJob

\* A Job that is complete, be it in the cache only, has installed its generation.
Completed ==
    \A j \in {job["install"], jobCache["install"]} :
        j.state = "complete" => release = j.gen \/ Ending(chart)

\* Once a generation is Ready nothing is left that would install another one.
Installed ==
    chart.ready = "True" /\ chart.readyGen = chart.gen /\ ~Ending(chart) =>
        /\ release = chart.gen /\ chartCache.gen = chart.gen
        /\ job["install"] # NoJob => job["install"].gen = chart.gen
        /\ at \in {"createRBAC", "installJob"} => copy.gen = chart.gen

\* The ClusterRoleBinding goes before the finalizer does, or the log says why not.
Rights ==
    /\ "clusterRoleBinding" \in rbac /\ ~logged => chart.finalizer
    /\ at = "finalizer" /\ copy.deleting /\ ~logged => "clusterRoleBinding" \notin rbac

\* Where nothing will wake the controller, a Job will, or nothing is left to do.
Triggered ==
    at = "idle" /\ ~queued /\ Operations \cup {"chart"} \subseteq current =>
        \/ \E op \in Operations : job[op].state = "running"
        \/ /\ ~chart.deleting
           /\ chart.gen # 0 =>
                /\ job["install"].gen = chart.gen /\ chart.readyGen = chart.gen
                /\ chart.ready = IF job["install"].state = "complete" THEN "True" ELSE "False"

IInv == TypeOK /\ Known /\ Phases /\ Ends /\ OneHelmAtATime /\ Completed /\ Installed /\ Rights
        /\ Triggered

-----------------------------------------------------------------------------
\* What the code does to a chart gives a chart.
LEMMA ChartTypes ==
    /\ NoChart \in Charts /\ [NoChart EXCEPT !.gen = 1] \in Charts
    /\ \A c \in Charts :
        /\ c.gen \in 0 .. MaxGen /\ c.readyGen \in 0 .. MaxGen
        /\ c.deleting \in BOOLEAN /\ c.finalizer \in BOOLEAN
        /\ [c EXCEPT !.finalizer = TRUE] \in Charts
        /\ [c EXCEPT !.deleting = TRUE] \in Charts
        /\ c.gen \in 1 .. MaxGen - 1 => [c EXCEPT !.gen = @ + 1] \in Charts
        /\ \A r \in {"True", "False"} : [c EXCEPT !.ready = r, !.readyGen = c.gen] \in Charts
  <1> USE HelmChartAssumption DEF Charts
  <1>1. NoChart \in Charts /\ [NoChart EXCEPT !.gen = 1] \in Charts
    <2>1. 0 \in 0 .. MaxGen /\ 1 \in 0 .. MaxGen
      OBVIOUS
    <2>2. NoChart \in Charts
      BY <2>1 DEF NoChart
    <2>3. \A g \in 0 .. MaxGen : [NoChart EXCEPT !.gen = g] \in Charts
      BY <2>2
    <2> QED
      BY <2>1, <2>2, <2>3
  <1>2. ASSUME NEW c \in Charts
        PROVE  /\ c.gen \in 0 .. MaxGen /\ c.readyGen \in 0 .. MaxGen
               /\ c.deleting \in BOOLEAN /\ c.finalizer \in BOOLEAN
    OBVIOUS
  <1>3. ASSUME NEW c \in Charts
        PROVE  [c EXCEPT !.finalizer = TRUE] \in Charts /\ [c EXCEPT !.deleting = TRUE] \in Charts
    BY Zenon
  <1>4. ASSUME NEW c \in Charts, c.gen \in 1 .. MaxGen - 1
        PROVE  [c EXCEPT !.gen = @ + 1] \in Charts
    BY <1>4
  <1>5. ASSUME NEW c \in Charts, NEW r \in {"True", "False"}
        PROVE  [c EXCEPT !.ready = r, !.readyGen = c.gen] \in Charts
    BY Zenon
  <1> HIDE DEF Charts
  <1> QED
    BY <1>1, <1>2, <1>3, <1>4, <1>5, Zenon

\* What the code and the pods do to a Job gives a Job.
LEMMA JobTypes ==
    /\ NoJob \in Jobs /\ 0 \in 0 .. MaxGen
    /\ \A g \in 0 .. MaxGen : [gen |-> g, state |-> "running"] \in Jobs
    /\ \A j \in Jobs :
        /\ j.gen \in 0 .. MaxGen
        /\ [j EXCEPT !.state = "complete"] \in Jobs /\ [j EXCEPT !.state = "failed"] \in Jobs
  BY HelmChartAssumption DEF Jobs, NoJob

\* A counted fault.
LEMMA FaultTypes == faults \in 0 .. MaxFaults /\ Fault => faults' \in 0 .. MaxFaults
  BY HelmChartAssumption DEF Fault

\* Storing a Job.
LEMMA PutJobTypes ==
    ASSUME TypeOK, NEW op \in Operations, NEW j \in Jobs, PutJob(op, j)
    PROVE  job' \in [Operations -> Jobs] /\ current' \subseteq Operations \cup {"chart", "copy"}
  BY DEF TypeOK, PutJob

\* Storing a chart.
LEMMA UpdateTypes ==
    ASSUME TypeOK, NEW o \in Charts, Update(o)
    PROVE  chart' \in Charts /\ current' \subseteq Operations \cup {"chart", "copy"}
  BY DEF TypeOK, Update

\* An empty API server but for the chart satisfies the invariant.
LEMMA InitIInv == Init => IInv
  <1> SUFFICES ASSUME Init PROVE IInv
    OBVIOUS
  <1>1. TypeOK
    <2>1. job \in [Operations -> Jobs] /\ jobCache \in [Operations -> Jobs]
      BY JobTypes DEF Init
    <2>2. chart \in Charts /\ chartCache \in Charts /\ copy \in Charts
      BY ChartTypes, Zenon DEF Init
    <2>3. release \in 0 .. MaxGen /\ faults \in 0 .. MaxFaults
      BY HelmChartAssumption DEF Init
    <2> QED
      BY <2>1, <2>2, <2>3, Zenon DEF Init, TypeOK
  <1> USE HelmChartAssumption DEF Init, NoChart, NoJob, Operations
  <1>2. Known /\ Phases /\ Ends /\ OneHelmAtATime
    BY DEF Known, KnownJob, Phases, Ends, OneHelmAtATime, Formed, Ending
  <1>3. Completed /\ Installed /\ Rights /\ Triggered
    BY SMTT(40) DEF Completed, Installed, Rights, Triggered, Ending
  <1> QED
    BY <1>1, <1>2, <1>3 DEF IInv

\* The variables keep their types.
LEMMA TypeNext == TypeOK /\ [Next]_vars => TypeOK'
  <1> SUFFICES ASSUME TypeOK, [Next]_vars PROVE TypeOK'
    BY SMTT(40)
  <1> USE HelmChartAssumption, ChartTypes, JobTypes DEF TypeOK, Goto, Return, Error
  <1>1. CASE Reconcile
    BY <1>1, ZenonT(40) DEF Reconcile
  <1>2. ASSUME NEW o \in Charts, UpdateCopy(o)
        PROVE  /\ chart' \in Charts /\ copy' \in Charts /\ queued' \in BOOLEAN /\ at' = "idle"
               /\ current' \subseteq Operations \cup {"chart", "copy"}
    BY <1>2, UpdateTypes, ZenonT(40) DEF UpdateCopy
  <1>3. CASE AddFinalizer
    BY <1>2, <1>3, ZenonT(40) DEF AddFinalizer
  <1>4. CASE RemoveFinalizer
    BY <1>2, <1>4, ZenonT(40) DEF RemoveFinalizer
  <1>5. CASE CreateRBAC \/ DeleteRBAC
    BY <1>5, ZenonT(40) DEF CreateRBAC, DeleteRBAC
  <1>6. ASSUME NEW op \in Operations, CreateJob(op)
        PROVE  /\ job' \in [Operations -> Jobs] /\ current' \subseteq Operations \cup {"chart", "copy"}
               /\ UNCHANGED <<chart, queued>> /\ copy' \in Charts /\ at' = "idle"
    BY <1>6, PutJobTypes, ZenonT(40) DEF CreateJob
  <1>7. CASE InstallJob
    <2>1. CASE CreateJob("install")
      BY <1>6, <1>7, <2>1, ZenonT(40) DEF InstallJob, Operations
    <2>2. CASE DeleteStaleJob
      <3>1. job' \in [Operations -> Jobs] /\ current' \subseteq Operations \cup {"chart", "copy"}
        BY <2>2, PutJobTypes, ZenonT(40) DEF DeleteStaleJob, Operations
      <3> QED
        BY <1>7, <2>2, <3>1, ZenonT(40) DEF InstallJob, DeleteStaleJob
    <2>3. CASE UpdateReadyCondition
      <3>1. PICK r \in {"True", "False"} :
                \/ UpdateCopy([copy EXCEPT !.ready = r, !.readyGen = copy.gen])
                \/ Return /\ UNCHANGED <<chart, current>>
        BY <2>3, ZenonT(40) DEF UpdateReadyCondition
      <3>2. /\ chart' \in Charts /\ copy' \in Charts /\ queued' \in BOOLEAN /\ at' = "idle"
            /\ current' \subseteq Operations \cup {"chart", "copy"}
        BY <1>2, <3>1, ZenonT(40)
      <3> QED
        BY <1>7, <2>3, <3>2, ZenonT(40) DEF InstallJob, UpdateReadyCondition
    <2> QED
      BY <1>7, <2>1, <2>2, <2>3, ZenonT(40) DEF InstallJob
  <1>8. CASE TeardownJob
    <2>1. CASE CreateJob("teardown")
      BY <1>6, <1>8, <2>1, ZenonT(40) DEF TeardownJob, Operations
    <2>2. CASE (Goto("deleteRBAC") \/ Return) /\ UNCHANGED <<chart, job, current>>
      BY <1>8, <2>2, ZenonT(40) DEF TeardownJob
    <2> QED
      BY <1>8, <2>1, <2>2, ZenonT(40) DEF TeardownJob
  <1>9. CASE CallFails
    <2>1. rbac' \subseteq RBAC
      BY <1>9, ZenonT(40) DEF CallFails, RBAC
    <2> QED
      <3>1. faults' \in 0 .. MaxFaults
        BY <1>9, FaultTypes, ZenonT(40) DEF CallFails
      <3>2. /\ logged' \in BOOLEAN /\ queued' \in BOOLEAN /\ copy' \in Charts
            /\ at' \in {"idle", "deleteRBAC", "finalizer"}
        BY <1>9, ZenonT(40) DEF CallFails
      <3> QED
        BY <1>9, <2>1, <3>1, <3>2, ZenonT(40) DEF CallFails
  <1>10. CASE Crash
    <2>1. faults' \in 0 .. MaxFaults
      BY <1>10, FaultTypes, ZenonT(40) DEF Crash
    <2> QED
      BY <1>10, <2>1, ZenonT(40) DEF Crash
  <1>11. CASE CacheChart \/ Watches
    BY <1>11, ZenonT(40) DEF CacheChart, Watches, CacheJob
  <1>12. ASSUME NEW op \in Operations, Helm(op) PROVE TypeOK'
    <2>1. job' \in [Operations -> Jobs] /\ current' \subseteq Operations \cup {"chart", "copy"}
      BY <1>12, PutJobTypes, ZenonT(40) DEF Helm
    <2>2. job[op] \in Jobs
      BY ZenonT(40)
    <2>3. release' \in 0 .. MaxGen
      BY <1>12, <2>2, ZenonT(40) DEF Helm
    <2> QED
      BY <1>12, <2>1, <2>3, ZenonT(40) DEF Helm
  <1>13. ASSUME NEW op \in Operations, JobFails(op) PROVE TypeOK'
    <2>1. job' \in [Operations -> Jobs] /\ current' \subseteq Operations \cup {"chart", "copy"}
      BY <1>13, PutJobTypes, ZenonT(40) DEF JobFails
    <2> QED
      <3>1. faults' \in 0 .. MaxFaults
        BY <1>13, FaultTypes, ZenonT(40) DEF JobFails
      <3>2. logged' \in BOOLEAN
        BY <1>13, ZenonT(40) DEF JobFails
      <3> QED
        BY <1>13, <2>1, <3>1, <3>2, ZenonT(40) DEF JobFails
  <1>14. CASE Collect
    <2>1. job' \in [Operations -> Jobs] /\ current' \subseteq Operations \cup {"chart", "copy"}
      BY <1>14, PutJobTypes, ZenonT(40) DEF Collect
    <2> QED
      BY <1>14, <2>1, ZenonT(40) DEF Collect
  <1>15. CASE EditSpec \/ Delete
    <2>1. chart' \in Charts /\ current' \subseteq Operations \cup {"chart", "copy"}
      BY <1>15, UpdateTypes, ZenonT(40) DEF EditSpec, Delete
    <2> QED
      BY <1>15, <2>1, ZenonT(40) DEF EditSpec, Delete
  <1>16. CASE UNCHANGED vars
    BY <1>16, Zenon DEF vars
  <1> QED
    BY <1>1, <1>3, <1>4, <1>5, <1>7, <1>8, <1>9, <1>10, <1>11, <1>12, <1>13, <1>14, <1>15, <1>16, Zenon
       DEF Next, Pass, Pods

\* A Job is stored that the cache can be behind: a new one if none is cached, or
\* the outcome of a running one, or none.
LEMMA PutKnown ==
    ASSUME TypeOK, NEW op \in Operations, NEW j \in Jobs, PutJob(op, j), jobCache' = jobCache,
           \A k \in Operations : KnownJob(k),
           Formed(j),
           \/ j = NoJob
           \/ jobCache[op] = NoJob
           \/ j.gen = job[op].gen /\ job[op].state = "running"
    PROVE  \A k \in Operations : KnownJob(k)'
  <1> TAKE k \in Operations
  <1>1. CASE k # op
    BY <1>1 DEF TypeOK, PutJob, KnownJob
  <1>2. CASE k = op
    <2>1. job'[op] = j /\ jobCache'[op] = jobCache[op]
      BY DEF TypeOK, PutJob
    <2>2. op \in current' => jobCache[op] = j
      BY DEF TypeOK, PutJob, KnownJob
    <2>3. job[op].state = "running" /\ jobCache[op] # NoJob /\ j # NoJob
            => jobCache[op].gen = job[op].gen /\ ~Finished(jobCache[op])
      BY DEF KnownJob, NoJob, Finished
    <2> QED
      BY <1>2, <2>1, <2>2, <2>3 DEF KnownJob
  <1> QED
    BY <1>1, <1>2

\* Nothing of a Job changes, nor becomes known.
LEMMA SameKnown ==
    ASSUME UNCHANGED <<job, jobCache>>, current' \cap Operations \subseteq current,
           \A k \in Operations : KnownJob(k)
    PROVE  \A k \in Operations : KnownJob(k)'
  BY DEF KnownJob

\* CreateJob stores a Job that is not there yet, and only if none is cached.
LEMMA CreateJobKnown ==
    ASSUME TypeOK, Known, NEW op \in Operations, CreateJob(op), jobCache[op] = NoJob, copy.gen # 0,
           UNCHANGED jobCache
    PROVE  \A k \in Operations : KnownJob(k)'
  <1>1. [gen |-> copy.gen, state |-> "running"] \in Jobs
    BY ChartTypes, JobTypes, Zenon DEF TypeOK
  <1>2. Formed([gen |-> copy.gen, state |-> "running"])
    BY DEF Formed
  <1>3. CASE PutJob(op, [gen |-> copy.gen, state |-> "running"])
    BY <1>1, <1>2, <1>3, PutKnown DEF Known
  <1>4. CASE UNCHANGED <<job, current>>
    BY <1>4, SameKnown DEF Known
  <1> QED
    BY <1>3, <1>4, SMTT(40) DEF CreateJob

\* A pass that ends, or that updates its copy and ends, leaves the caches as they are.
LEMMA UpdateCopyKnown ==
    ASSUME Known, NEW o, UpdateCopy(o), UNCHANGED <<chartCache, job, jobCache>>
    PROVE  Known'
  <1>1. \A k \in Operations : KnownJob(k)'
    BY SameKnown DEF Known, UpdateCopy, Update, Return, Error
  <1> QED
    BY <1>1 DEF Known, UpdateCopy, Update, Return, Error

\* Every step keeps what the caches know.
LEMMA KnownNext == TypeOK /\ Known /\ Phases /\ [Next]_vars => Known'
  <1> SUFFICES ASSUME TypeOK, Known, Phases, [Next]_vars PROVE Known'
    OBVIOUS
  <1>1. CASE Reconcile
    <2>1. \A k \in Operations : KnownJob(k)'
      BY <1>1, SameKnown DEF Known, Reconcile, Operations
    <2> QED
      BY <1>1, <2>1 DEF Known, Reconcile
  <1>2. CASE AddFinalizer \/ RemoveFinalizer
    BY <1>2, UpdateCopyKnown DEF AddFinalizer, RemoveFinalizer
  <1>3. CASE CreateRBAC \/ DeleteRBAC
    <2>1. \A k \in Operations : KnownJob(k)'
      BY <1>3, SameKnown DEF Known, CreateRBAC, DeleteRBAC
    <2> QED
      BY <1>3, <2>1 DEF Known, CreateRBAC, DeleteRBAC, Goto
  <1>4. CASE InstallJob
    <2>1. CASE jobCache["install"] = NoJob /\ CreateJob("install")
      <3>1. \A k \in Operations : KnownJob(k)'
        BY <1>4, <2>1, CreateJobKnown DEF InstallJob, Phases, Operations
      <3> QED
        BY <1>4, <2>1, <3>1 DEF Known, InstallJob, CreateJob, PutJob, Return
    <2>2. CASE jobCache["install"] # NoJob /\ DeleteStaleJob
      <3>1. \A k \in Operations : KnownJob(k)'
        <4>1. CASE PutJob("install", NoJob)
          BY <1>4, <4>1, PutKnown, JobTypes DEF InstallJob, Known, Operations, Formed
        <4>2. CASE UNCHANGED <<job, current>>
          BY <1>4, <4>2, SameKnown DEF InstallJob, Known
        <4> QED
          BY <2>2, <4>1, <4>2 DEF DeleteStaleJob
      <3> QED
        BY <1>4, <2>2, <3>1 DEF Known, InstallJob, DeleteStaleJob, PutJob, Return
    <2>3. CASE UpdateReadyCondition
      <3>1. CASE \E o : UpdateCopy(o)
        BY <1>4, <2>3, <3>1, UpdateCopyKnown DEF InstallJob, UpdateReadyCondition
      <3>2. CASE Return /\ UNCHANGED <<chart, current>>
        <4>1. \A k \in Operations : KnownJob(k)'
          BY <1>4, <2>3, <3>2, SameKnown DEF InstallJob, UpdateReadyCondition, Known
        <4> QED
          BY <1>4, <2>3, <3>2, <4>1 DEF InstallJob, UpdateReadyCondition, Known, Return
      <3> QED
        BY <2>3, <3>1, <3>2 DEF UpdateReadyCondition
    <2> QED
      BY <1>4, <2>1, <2>2, <2>3 DEF InstallJob
  <1>5. CASE TeardownJob
    <2>1. CASE jobCache["teardown"] = NoJob /\ CreateJob("teardown")
      <3>1. \A k \in Operations : KnownJob(k)'
        BY <1>5, <2>1, CreateJobKnown DEF TeardownJob, Phases, Operations
      <3> QED
        BY <1>5, <2>1, <3>1 DEF Known, TeardownJob, CreateJob, PutJob, Return
    <2>2. CASE (Goto("deleteRBAC") \/ Return) /\ UNCHANGED <<chart, job, current>>
      <3>1. \A k \in Operations : KnownJob(k)'
        BY <1>5, <2>2, SameKnown DEF TeardownJob, Known
      <3> QED
        BY <1>5, <2>2, <3>1 DEF Known, TeardownJob, Goto, Return
    <2> QED
      BY <1>5, <2>1, <2>2 DEF TeardownJob
  <1>6. CASE CallFails
    <2>1. \A k \in Operations : KnownJob(k)'
      BY <1>6, SameKnown DEF CallFails, Known
    <2> QED
      BY <1>6, <2>1 DEF Known, CallFails, Goto, Error
  <1>7. CASE Crash
    <2>1. \A k \in Operations : KnownJob(k)'
      BY <1>7 DEF Crash, Known, KnownJob
    <2> QED
      BY <1>7, <2>1 DEF Known, Crash, Error
  <1>8. CASE CacheChart
    <2>1. \A k \in Operations : KnownJob(k)'
      BY <1>8, SameKnown DEF CacheChart, Known, Operations
    <2> QED
      BY <1>8, <2>1 DEF Known, CacheChart
  <1>9. ASSUME NEW op \in Operations, CacheJob(op) PROVE Known'
    <2>1. \A k \in Operations : KnownJob(k)'
      BY <1>9 DEF CacheJob, Known, KnownJob, TypeOK
    <2>2. op # "chart" /\ op # "copy"
      BY DEF Operations
    <2> QED
      BY <1>9, <2>1, <2>2 DEF Known, CacheJob
  <1>10. ASSUME NEW op \in Operations, Helm(op) \/ JobFails(op) PROVE Known'
    <2>1. \A k \in Operations : KnownJob(k)'
      <3>1. job[op] \in Jobs /\ job[op].state = "running" /\ Formed(job[op])
        BY <1>10 DEF Helm, JobFails, TypeOK, Known, KnownJob
      <3>2. ASSUME NEW st \in {"complete", "failed"}, PutJob(op, [job[op] EXCEPT !.state = st])
            PROVE  \A k \in Operations : KnownJob(k)'
        <4>1. /\ [job[op] EXCEPT !.state = st] \in Jobs
              /\ [job[op] EXCEPT !.state = st].gen = job[op].gen
              /\ Formed([job[op] EXCEPT !.state = st])
          BY <3>1 DEF Jobs, Formed, NoJob
        <4> QED
          BY <1>10, <3>1, <3>2, <4>1, PutKnown, Zenon DEF Helm, JobFails, Known
      <3>3. CASE UNCHANGED <<job, current>>
        BY <1>10, <3>3, SameKnown DEF Helm, JobFails, Known
      <3> QED
        BY <1>10, <3>2, <3>3 DEF Helm, JobFails
    <2> QED
      BY <1>10, <2>1 DEF Known, Helm, JobFails, PutJob
  <1>11. CASE Collect
    <2>1. \A k \in Operations : KnownJob(k)'
      <3>1. ASSUME NEW op \in Operations, PutJob(op, NoJob) PROVE \A k \in Operations : KnownJob(k)'
        BY <1>11, <3>1, PutKnown, JobTypes DEF Collect, Known, Formed
      <3>2. CASE UNCHANGED <<job, current>>
        BY <1>11, <3>2, SameKnown DEF Collect, Known
      <3> QED
        BY <1>11, <3>1, <3>2 DEF Collect
    <2> QED
      BY <1>11, <2>1 DEF Known, Collect, PutJob
  <1>12. CASE EditSpec \/ Delete
    <2>1. \A k \in Operations : KnownJob(k)'
      BY <1>12, SameKnown DEF EditSpec, Delete, Update, Known
    <2>2. PICK o : Update(o)
      BY <1>12 DEF EditSpec, Delete
    <2> QED
      BY <1>12, <2>1, <2>2 DEF Known, EditSpec, Delete, Update
  <1>13. CASE UNCHANGED vars
    BY <1>13 DEF vars, Known, KnownJob
  <1> QED
    BY <1>1, <1>2, <1>3, <1>4, <1>5, <1>6, <1>7, <1>8, <1>9, <1>10, <1>11, <1>12, <1>13
       DEF Next, Pass, Watches, Pods
-----------------------------------------------------------------------------
\* What an update of the chart leaves alone.
LEMMA Fields ==
    ASSUME NEW c \in Charts
    PROVE  /\ LET o == [c EXCEPT !.finalizer = TRUE] IN
                /\ o.finalizer /\ o.gen = c.gen /\ o.deleting = c.deleting
                /\ o.ready = c.ready /\ o.readyGen = c.readyGen
           /\ LET o == [c EXCEPT !.deleting = TRUE] IN
                /\ o.deleting /\ o.gen = c.gen /\ o.finalizer = c.finalizer
                /\ o.ready = c.ready /\ o.readyGen = c.readyGen
           /\ LET o == [c EXCEPT !.gen = @ + 1] IN
                /\ o.gen = c.gen + 1 /\ o.deleting = c.deleting /\ o.finalizer = c.finalizer
                /\ o.ready = c.ready /\ o.readyGen = c.readyGen
           /\ \A r : LET o == [c EXCEPT !.ready = r, !.readyGen = c.gen] IN
                /\ o.gen = c.gen /\ o.deleting = c.deleting /\ o.finalizer = c.finalizer
                /\ o.ready = r /\ o.readyGen = c.gen
  BY DEF Charts

\* A step of a pass that updates the chart: the copy is the chart, and the chart
\* becomes its update.
LEMMA UpdateCopyCases ==
    ASSUME Known, at # "idle", NEW o, UpdateCopy(o)
    PROVE  /\ at' = "idle" /\ copy' = NoChart
           /\ \/ copy = chart /\ chartCache = chart /\ chart' = o
              \/ chart' = chart /\ current' = current /\ queued' = TRUE
  BY DEF Known, UpdateCopy, Update, Return, Error

\* The outcomes of updateReadyCondition.
LEMMA ReadyCases ==
    ASSUME Known, at # "idle", UpdateReadyCondition
    PROVE  /\ at' = "idle" /\ copy' = NoChart
           /\ \/ chart' = chart
              \/ /\ copy = chart /\ chartCache = chart /\ Finished(jobCache["install"])
                 /\ \E r \in {"True", "False"} :
                      /\ chart' = [chart EXCEPT !.ready = r, !.readyGen = chart.gen]
                      /\ r = "True" => jobCache["install"].state = "complete"
  BY UpdateCopyCases, ZenonT(40) DEF UpdateReadyCondition, Return

\* Every step keeps the phases.
LEMMA PhasesNext == TypeOK /\ Known /\ Phases /\ [Next]_vars => Phases'
  <1> SUFFICES ASSUME TypeOK, Known, Phases, [Next]_vars PROVE Phases'
    OBVIOUS
  <1> USE DEF Phases, Ending
  <1>0. /\ NoChart.gen = 0 /\ ~NoChart.deleting /\ ~NoChart.finalizer
        /\ NoChart.ready = "Unset" /\ NoChart.readyGen = 0
    BY SMTT(40) DEF NoChart
  <1>a. /\ chart \in Charts /\ copy \in Charts /\ chartCache \in Charts
        /\ chart.gen \in 0 .. MaxGen /\ chart.readyGen \in 0 .. MaxGen
    BY ChartTypes, Zenon DEF TypeOK
  <1>1. CASE Reconcile
    BY <1>1 DEF Reconcile
  <1>2. CASE AddFinalizer
    <2>1. at' = "idle" /\ UNCHANGED chartCache
            /\ (chart' = chart \/ (copy = chart /\ chart' = [chart EXCEPT !.finalizer = TRUE]))
      BY <1>2, UpdateCopyCases, Zenon DEF AddFinalizer
    <2>2. /\ chart'.gen = chart.gen /\ chart'.deleting = chart.deleting
          /\ chart.finalizer => chart'.finalizer
          /\ chart'.readyGen = chart.readyGen /\ chart'.ready = chart.ready
      <3>1. CASE chart' = chart
        BY <3>1
      <3>2. CASE chart' = [chart EXCEPT !.finalizer = TRUE]
        BY <1>a, <3>2, Fields
      <3> QED
        BY <2>1, <3>1, <3>2
    <2> QED
      BY <1>2, <2>1, <2>2 DEF AddFinalizer
  <1>3. CASE RemoveFinalizer
    <2>1. at' = "idle" /\ UNCHANGED chartCache
            /\ (chart' = chart \/ (copy = chart /\ chartCache = chart /\ chart' = NoChart))
      BY <1>3, UpdateCopyCases, ZenonT(40) DEF RemoveFinalizer
    <2> QED
      BY <1>0, <1>3, <2>1 DEF RemoveFinalizer
  <1>4. CASE CreateRBAC \/ DeleteRBAC
    BY <1>4 DEF CreateRBAC, DeleteRBAC, Goto
  <1>5. CASE InstallJob
    <2>1. CASE UpdateReadyCondition
      <3>1. /\ at' = "idle" /\ UNCHANGED chartCache
            /\ \/ chart' = chart
               \/ /\ copy = chart
                  /\ \E r : chart' = [chart EXCEPT !.ready = r, !.readyGen = chart.gen]
        BY <1>5, <2>1, ReadyCases, ZenonT(40) DEF InstallJob
      <3>2. /\ chart'.gen = chart.gen /\ chart'.deleting = chart.deleting
            /\ chart'.finalizer = chart.finalizer
            /\ chart'.readyGen = chart.readyGen \/ chart'.readyGen = chart.gen
        <4>1. CASE chart' = chart
          BY <4>1
        <4>2. ASSUME NEW r, chart' = [chart EXCEPT !.ready = r, !.readyGen = chart.gen]
              PROVE  /\ chart'.gen = chart.gen /\ chart'.deleting = chart.deleting
                     /\ chart'.finalizer = chart.finalizer /\ chart'.readyGen = chart.gen
          BY <1>a, <4>2, Fields
        <4> QED
          BY <3>1, <4>1, <4>2, Zenon
      <3>3. chart'.readyGen =< chart'.gen
        BY <1>a, <3>2, SMTT(40)
      <3>4. chart' = chart \/ chart.gen # 0
        BY <1>5, <3>1, ZenonT(40) DEF InstallJob
      <3> QED
        BY <3>1, <3>2, <3>3, <3>4, ZenonT(40)
    <2>2. CASE CreateJob("install") \/ DeleteStaleJob
      BY <1>5, <2>2, SMTT(40), SMTT(60) DEF InstallJob, CreateJob, DeleteStaleJob, Return
    <2> QED
      BY <1>5, <2>1, <2>2 DEF InstallJob
  <1>6. CASE TeardownJob
    BY <1>6 DEF TeardownJob, CreateJob, Goto, Return
  <1>7. CASE CallFails
    BY <1>7 DEF CallFails, Goto, Error
  <1>8. CASE Crash
    BY <1>8 DEF Crash, Error
  <1>9. CASE CacheChart \/ Watches
    BY <1>9 DEF CacheChart, Watches, CacheJob
  <1>10. CASE Pods \/ Collect
    BY <1>10, ZenonT(40) DEF Pods, Helm, JobFails, Collect
  <1>11. CASE EditSpec
    <2>1. chart' = [chart EXCEPT !.gen = @ + 1] /\ UNCHANGED <<chartCache, at, copy>> /\ ~chart.deleting
      BY <1>11 DEF EditSpec, Update
    <2> QED
      BY <1>a, <2>1, Fields
  <1>12. CASE Delete
    <2>1. /\ UNCHANGED <<chartCache, at, copy>> /\ chart.gen # 0
          /\ chart' = IF chart.finalizer THEN [chart EXCEPT !.deleting = TRUE] ELSE NoChart
      BY <1>12 DEF Delete, Update
    <2> QED
      BY <1>0, <1>a, <2>1, Fields
  <1>13. CASE UNCHANGED vars
    BY <1>13 DEF vars
  <1> QED
    BY <1>1, <1>2, <1>3, <1>4, <1>5, <1>6, <1>7, <1>8, <1>9, <1>10, <1>11, <1>12, <1>13
       DEF Next, Pass
-----------------------------------------------------------------------------
\* A pass that updates the chart leaves its generation and its deletion alone,
\* unless it removes the finalizer of a deleted chart.
LEMMA PassKeepsChart ==
    ASSUME TypeOK, Known, AddFinalizer \/ UpdateReadyCondition, at # "idle"
    PROVE  /\ chart'.gen = chart.gen /\ chart'.deleting = chart.deleting
           /\ chart.finalizer => chart'.finalizer
           /\ at' = "idle" /\ copy' = NoChart
  <1>1. chart \in Charts
    BY DEF TypeOK
  <1>2. CASE AddFinalizer
    <2>1. /\ at' = "idle" /\ copy' = NoChart
          /\ chart' = chart \/ chart' = [chart EXCEPT !.finalizer = TRUE]
      BY <1>2, UpdateCopyCases, Zenon DEF AddFinalizer
    <2>2. CASE chart' = chart
      BY <2>1, <2>2
    <2>3. CASE chart' = [chart EXCEPT !.finalizer = TRUE]
      BY <1>1, <2>1, <2>3, Fields
    <2> QED
      BY <2>1, <2>2, <2>3
  <1>3. CASE UpdateReadyCondition
    <2>1. CASE chart' = chart
      BY <1>3, <2>1, ReadyCases
    <2>2. ASSUME NEW r, chart' = [chart EXCEPT !.ready = r, !.readyGen = chart.gen]
          PROVE  /\ chart'.gen = chart.gen /\ chart'.deleting = chart.deleting
                 /\ chart'.finalizer = chart.finalizer
      BY <1>1, <2>2, Fields, SMTT(40), SMTT(60)
    <2> QED
      BY <1>3, <2>1, <2>2, ReadyCases, Zenon
  <1> QED
    BY <1>2, <1>3

\* Every step keeps Ends, and no step lets an install and a teardown Job meet.
LEMMA EndsNext ==
    TypeOK /\ Known /\ Phases /\ Ends /\ OneHelmAtATime /\ [Next]_vars => Ends' /\ OneHelmAtATime'
  <1> SUFFICES ASSUME TypeOK, Known, Phases, Ends, OneHelmAtATime, [Next]_vars
               PROVE  Ends' /\ OneHelmAtATime'
    OBVIOUS
  <1> USE DEF Ends, OneHelmAtATime, Ending
  <1>0. NoChart.gen = 0 /\ ~NoChart.deleting /\ NoJob.state = "none"
    BY DEF NoChart, NoJob
  <1>a. chart \in Charts /\ job \in [Operations -> Jobs] /\ Operations = {"install", "teardown"}
    BY DEF TypeOK, Operations
  <1>1. CASE Reconcile
    BY <1>1 DEF Reconcile
  <1>2. CASE AddFinalizer
    BY <1>0, <1>2, PassKeepsChart DEF AddFinalizer
  <1>3. CASE RemoveFinalizer
    <2>1. at' = "idle" /\ copy' = NoChart /\ (chart' = chart \/ chart' = NoChart)
      BY <1>3, UpdateCopyCases, ZenonT(40) DEF RemoveFinalizer
    <2> QED
      BY <1>0, <1>3, <2>1 DEF RemoveFinalizer
  <1>4. CASE CreateRBAC \/ DeleteRBAC
    BY <1>4 DEF CreateRBAC, DeleteRBAC, Goto
  <1>5. CASE InstallJob
    <2>1. CASE UpdateReadyCondition
      BY <1>0, <1>5, <2>1, PassKeepsChart DEF InstallJob, UpdateReadyCondition
    <2>2. CASE CreateJob("install") \/ DeleteStaleJob
      <3>1. job["teardown"] = NoJob /\ job'["teardown"] = NoJob
        BY <1>a, <1>5, <2>2 DEF InstallJob, CreateJob, DeleteStaleJob, PutJob
      <3> QED
        BY <1>0, <1>a, <1>5, <2>2, <3>1 DEF InstallJob, CreateJob, DeleteStaleJob, Return
    <2> QED
      BY <1>5, <2>1, <2>2 DEF InstallJob
  <1>6. CASE TeardownJob
    <2>1. CASE jobCache["install"].state = "complete" /\ CreateJob("teardown")
      <3>1. copy.deleting
        BY <1>6 DEF TeardownJob, Phases
      <3>2. job["install"].state # "running" /\ job'["install"] = job["install"]
        <4>1. KnownJob("install")
          BY <1>a DEF Known
        <4>2. job["install"].state # "running"
          BY <1>0, <2>1, <4>1, SMTT(40) DEF KnownJob, Finished
        <4> QED
          BY <1>a, <2>1, <4>2 DEF CreateJob, PutJob
      <3> QED
        BY <1>0, <1>a, <1>6, <2>1, <3>1, <3>2, SMTT(40) DEF TeardownJob, CreateJob, Return
    <2>2. CASE (Goto("deleteRBAC") \/ Return) /\ UNCHANGED <<chart, job, current>>
      BY <1>0, <1>6, <2>2 DEF TeardownJob, Goto, Return
    <2> QED
      BY <1>6, <2>1, <2>2, SMTT(40) DEF TeardownJob
  <1>7. CASE CallFails
    BY <1>0, <1>7 DEF CallFails, Goto, Error
  <1>8. CASE Crash
    BY <1>0, <1>8 DEF Crash, Error
  <1>9. CASE CacheChart \/ Watches
    BY <1>9 DEF CacheChart, Watches, CacheJob
  <1>10. ASSUME NEW op \in Operations, Helm(op) \/ JobFails(op) PROVE Ends' /\ OneHelmAtATime'
    <2>1. /\ UNCHANGED <<chart, chartCache, copy, at>> /\ job[op].state = "running"
          /\ job'[op] = job[op] \/ job'[op].state # "running"
          /\ \A k \in Operations \ {op} : job'[k] = job[k]
      BY <1>a, <1>10 DEF Helm, JobFails, PutJob, Jobs
    <2>2. job["teardown"] = NoJob => job'["teardown"] = NoJob
      BY <1>0, <1>a, <2>1
    <2> QED
      BY <1>a, <2>1, <2>2
  <1>11. CASE Collect
    <2>1. /\ UNCHANGED <<chart, chartCache, copy, at>>
          /\ \A k \in Operations : job'[k] = job[k] \/ job'[k] = NoJob
      BY <1>a, <1>11 DEF Collect, PutJob
    <2> QED
      BY <1>0, <1>a, <2>1
  <1>12. CASE EditSpec
    BY <1>12 DEF EditSpec
  <1>13. CASE Delete
    <2>1. /\ UNCHANGED <<chartCache, copy, at, job>> /\ ~chart.deleting /\ chart.gen # 0
          /\ chart' = IF chart.finalizer THEN [chart EXCEPT !.deleting = TRUE] ELSE NoChart
      BY <1>13, SMTT(40) DEF Delete, Update
    <2> QED
      BY <1>0, <1>a, <2>1, Fields
  <1>14. CASE UNCHANGED vars
    BY <1>14 DEF vars
  <1> QED
    BY <1>1, <1>2, <1>3, <1>4, <1>5, <1>6, <1>7, <1>8, <1>9, <1>10, <1>11, <1>12, <1>13, <1>14
       DEF Next, Pass, Pods
-----------------------------------------------------------------------------
\* A chart is never undeleted.
LEMMA EndingStays == TypeOK /\ Known /\ Phases /\ [Next]_vars => (Ending(chart) => Ending(chart)')
  <1> SUFFICES ASSUME TypeOK, Known, Phases, [Next]_vars, Ending(chart) PROVE Ending(chart)'
    OBVIOUS
  <1> USE DEF Ending
  <1>1. CASE UNCHANGED chart
    BY <1>1
  <1>2. CASE AddFinalizer
    BY <1>2, PassKeepsChart DEF AddFinalizer
  <1>3. CASE RemoveFinalizer
    <2>1. chart' = chart \/ chart' = NoChart
      BY <1>3, UpdateCopyCases, Zenon DEF RemoveFinalizer
    <2>2. NoChart.gen = 0
      BY DEF NoChart
    <2> QED
      BY <1>1, <2>1, <2>2
  <1>4. CASE InstallJob
    BY <1>1, <1>4, PassKeepsChart DEF InstallJob, CreateJob, DeleteStaleJob
  <1>5. CASE EditSpec \/ Delete
    BY <1>5 DEF EditSpec, Delete
  <1>6. CASE Reconcile \/ CreateRBAC \/ TeardownJob \/ DeleteRBAC
    BY <1>1, <1>6 DEF Reconcile, CreateRBAC, TeardownJob, DeleteRBAC, CreateJob
  <1>7. CASE CallFails \/ Crash \/ CacheChart \/ Watches \/ Pods \/ Collect
    BY <1>1, <1>7, Zenon DEF CallFails, Crash, CacheChart, Watches, CacheJob, Pods, Helm, JobFails, Collect
  <1> QED
    BY <1>1, <1>2, <1>3, <1>4, <1>5, <1>6, <1>7 DEF Next, Pass, vars

\* The release follows the Job that completes last.
LEMMA CompletedNext == TypeOK /\ Known /\ Phases /\ Ends /\ Completed /\ [Next]_vars => Completed'
  <1> SUFFICES ASSUME TypeOK, Known, Phases, Ends, Completed, [Next]_vars PROVE Completed'
    OBVIOUS
  <1>0. Ending(chart) => Ending(chart)'
    BY EndingStays
  <1>a. /\ job \in [Operations -> Jobs] /\ jobCache \in [Operations -> Jobs]
        /\ Operations = {"install", "teardown"} /\ NoJob.state = "none"
    BY DEF TypeOK, Operations, NoJob
  \* Nothing but a helm process touches the release, and nothing but it completes a Job.
  <1>1. ASSUME UNCHANGED release, jobCache'["install"] \in {jobCache["install"], job["install"]},
               job'["install"] = job["install"] \/ job'["install"].state # "complete"
        PROVE  Completed'
    BY <1>0, <1>1 DEF Completed
  <1>2. CASE AddFinalizer \/ RemoveFinalizer \/ Reconcile \/ CreateRBAC \/ DeleteRBAC
    BY <1>1, <1>2 DEF AddFinalizer, RemoveFinalizer, Reconcile, CreateRBAC, DeleteRBAC
  <1>3. CASE InstallJob
    <2>1. job'["install"] = job["install"] \/ job'["install"].state # "complete"
      BY <1>a, <1>3 DEF InstallJob, CreateJob, DeleteStaleJob, UpdateReadyCondition, PutJob
    <2> QED
      BY <1>1, <1>3, <2>1 DEF InstallJob
  <1>4. CASE TeardownJob
    <2>1. job'["install"] = job["install"]
      BY <1>a, <1>4 DEF TeardownJob, CreateJob, PutJob
    <2> QED
      BY <1>1, <1>4, <2>1 DEF TeardownJob
  <1>5. CASE CallFails \/ CacheChart \/ EditSpec \/ Delete
    BY <1>1, <1>5 DEF CallFails, CacheChart, EditSpec, Delete
  <1>6. CASE Crash
    BY <1>1, <1>6 DEF Crash
  <1>7. ASSUME NEW op \in Operations, CacheJob(op) PROVE Completed'
    BY <1>1, <1>7, <1>a DEF CacheJob
  <1>8. CASE Helm("install")
    <2>1. /\ job["install"].state = "running" /\ release' = job["install"].gen
          /\ UNCHANGED jobCache /\ job'["install"].gen = job["install"].gen
      BY <1>8, <1>a DEF Helm, PutJob, Jobs
    <2>2. jobCache["install"].state # "complete"
      <3>1. KnownJob("install")
        BY <1>a DEF Known
      <3> QED
        BY <1>a, <2>1, <3>1 DEF KnownJob, Finished
    <2> QED
      BY <2>1, <2>2 DEF Completed
  <1>9. CASE Helm("teardown")
    <2>1. Ending(chart)'
      BY <1>0, <1>9, <1>a DEF Helm, Ends
    <2> QED
      BY <2>1 DEF Completed
  <1>10. ASSUME NEW op \in Operations, JobFails(op) PROVE Completed'
    <2>1. job'["install"] = job["install"] \/ job'["install"].state # "complete"
      BY <1>10, <1>a DEF JobFails, PutJob, Jobs
    <2> QED
      BY <1>1, <1>10, <2>1 DEF JobFails
  <1>11. CASE Collect
    <2>1. job'["install"] = job["install"] \/ job'["install"].state # "complete"
      BY <1>11, <1>a DEF Collect, PutJob
    <2> QED
      BY <1>1, <1>11, <2>1 DEF Collect
  <1>12. CASE UNCHANGED vars
    <2>1. UNCHANGED <<release, jobCache, job>>
      BY <1>12, ZenonT(40) DEF vars
    <2> QED
      BY <1>1, <2>1
  <1> QED
    BY <1>a, <1>2, <1>3, <1>4, <1>5, <1>6, <1>7, <1>8, <1>9, <1>10, <1>11, <1>12
       DEF Next, Pass, Pods, Watches

\* The status becomes Ready for a generation that is installed, and it is not
\* replaced by another one while the chart has that generation.
LEMMA InstalledNext ==
    TypeOK /\ Known /\ Phases /\ Ends /\ Completed /\ Installed /\ [Next]_vars => Installed'
  <1> SUFFICES ASSUME TypeOK, Known, Phases, Ends, Completed, Installed, [Next]_vars
               PROVE  Installed'
    BY SMTT(40)
  <1>0. /\ chart \in Charts /\ job \in [Operations -> Jobs] /\ jobCache \in [Operations -> Jobs]
        /\ Operations = {"install", "teardown"} /\ NoJob.state = "none" /\ KnownJob("install")
        /\ NoChart.gen = 0 /\ chart.gen \in 0 .. MaxGen /\ chart.readyGen \in 0 .. MaxGen
    BY ChartTypes, Zenon DEF TypeOK, Operations, NoJob, NoChart, Known
  <1> USE DEF Installed, Ending
  <1>1. CASE Reconcile
    BY <1>1 DEF Reconcile
  <1>2. CASE AddFinalizer
    <2>1. /\ at' = "idle" /\ UNCHANGED <<chartCache, job, release>>
          /\ chart' = chart \/ chart' = [chart EXCEPT !.finalizer = TRUE]
      BY <1>2, UpdateCopyCases, Zenon DEF AddFinalizer
    <2>2. /\ chart'.gen = chart.gen /\ chart'.deleting = chart.deleting
          /\ chart'.ready = chart.ready /\ chart'.readyGen = chart.readyGen
      <3>1. CASE chart' = chart
        BY <3>1
      <3>2. CASE chart' = [chart EXCEPT !.finalizer = TRUE]
        BY <1>0, <3>2, Fields
      <3> QED
        BY <2>1, <3>1, <3>2
    <2> QED
      BY <2>1, <2>2
  <1>3. CASE RemoveFinalizer
    <2>1. /\ at' = "idle" /\ UNCHANGED <<chartCache, job, release>>
          /\ chart' = chart \/ chart' = NoChart
      BY <1>3, UpdateCopyCases, ZenonT(40) DEF RemoveFinalizer
    <2> QED
      BY <1>0, <2>1
  <1>4. CASE CreateRBAC \/ DeleteRBAC
    BY <1>4 DEF CreateRBAC, DeleteRBAC, Goto
  <1>5. CASE InstallJob
    <2>1. CASE UpdateReadyCondition /\ jobCache["install"].gen = copy.gen
      <3>1. at' = "idle" /\ UNCHANGED <<chartCache, job, release>>
        BY <1>5, <2>1, ReadyCases DEF InstallJob, UpdateReadyCondition
      <3>2. CASE chart' = chart
        BY <3>1, <3>2
      <3>3. ASSUME copy = chart, chartCache = chart, Finished(jobCache["install"]),
                   NEW r, chart' = [chart EXCEPT !.ready = r, !.readyGen = chart.gen],
                   r = "True" => jobCache["install"].state = "complete"
            PROVE  Installed'
        <4>1. chart'.gen = chart.gen /\ chart'.deleting = chart.deleting /\ chart'.ready = r
          BY <1>0, <3>3, Fields
        <4>2. r = "True" => release = chart.gen \/ Ending(chart)
          BY <2>1, <3>3 DEF Completed
        <4>3. job["install"] # NoJob => job["install"].gen = chart.gen
          BY <1>0, <2>1, <3>3, SMTT(40) DEF KnownJob, Finished
        <4> QED
          BY <3>1, <3>3, <4>1, <4>2, <4>3
      <3> QED
        BY <1>5, <2>1, <3>2, <3>3, ReadyCases, Zenon DEF InstallJob
    <2>2. CASE CreateJob("install") \/ DeleteStaleJob
      <3>1. /\ at' = "idle" /\ UNCHANGED <<chart, chartCache, release>>
            /\ job'["install"] \in {job["install"], NoJob, [gen |-> copy.gen, state |-> "running"]}
        BY <1>0, <1>5, <2>2, SMTT(40) DEF InstallJob, CreateJob, DeleteStaleJob, PutJob, Return
      <3> QED
        BY <1>5, <3>1, SMTT(40) DEF InstallJob
    <2> QED
      BY <1>5, <2>1, <2>2 DEF InstallJob
  <1>6. CASE TeardownJob
    <2>1. job'["install"] = job["install"] /\ at' \in {"idle", "deleteRBAC"}
      BY <1>0, <1>6, SMTT(40) DEF TeardownJob, CreateJob, PutJob, Goto, Return
    <2> QED
      BY <1>6, <2>1, SMTT(40) DEF TeardownJob, CreateJob
  <1>7. CASE CallFails
    BY <1>7 DEF CallFails, Goto, Error
  <1>8. CASE Crash
    BY <1>8, SMTT(40) DEF Crash, Error
  <1>9. CASE CacheChart \/ Watches
    BY <1>9, SMTT(40) DEF CacheChart, Watches, CacheJob
  <1>10. CASE Helm("install")
    <2>1. /\ job["install"].state = "running" /\ release' = job["install"].gen
          /\ UNCHANGED <<chart, chartCache, at, copy>> /\ job'["install"].gen = job["install"].gen
      BY <1>10, <1>0 DEF Helm, PutJob, Jobs
    <2> QED
      BY <1>0, <2>1
  <1>11. CASE Helm("teardown")
    BY <1>11, <1>0 DEF Helm, Ends
  <1>12. ASSUME NEW op \in Operations, JobFails(op) PROVE Installed'
    <2>1. /\ UNCHANGED <<chart, chartCache, at, copy, release>>
          /\ job'["install"] = job["install"]
               \/ (job["install"] # NoJob /\ job'["install"].gen = job["install"].gen)
      BY <1>12, <1>0 DEF JobFails, PutJob, Jobs
    <2> QED
      BY <2>1
  <1>13. CASE Collect
    BY <1>13 DEF Collect
  <1>14. CASE EditSpec
    <2>1. chart' = [chart EXCEPT !.gen = @ + 1]
      BY <1>14 DEF EditSpec, Update
    <2>2. chart'.gen = chart.gen + 1 /\ chart'.readyGen = chart.readyGen
      BY <1>0, <2>1, Fields
    <2>3. chart'.readyGen # chart'.gen
      BY <1>0, <2>2 DEF Phases
    <2> QED
      BY <2>3
  <1>15. CASE Delete
    <2>1. chart' = IF chart.finalizer THEN [chart EXCEPT !.deleting = TRUE] ELSE NoChart
      BY <1>15 DEF Delete, Update
    <2> QED
      BY <1>0, <2>1, Fields
  <1>16. CASE UNCHANGED vars
    BY <1>16, ZenonT(40) DEF vars
  <1> QED
    BY <1>0, <1>1, <1>2, <1>3, <1>4, <1>5, <1>6, <1>7, <1>8, <1>9, <1>10, <1>11, <1>12, <1>13,
       <1>14, <1>15, <1>16, ZenonT(40) DEF Next, Pass, Pods
-----------------------------------------------------------------------------
\* Every step keeps Rights.
LEMMA RightsNext == TypeOK /\ Known /\ Phases /\ Rights /\ [Next]_vars => Rights'
  <1> SUFFICES ASSUME TypeOK, Known, Phases, Rights, [Next]_vars PROVE Rights'
    OBVIOUS
  <1> USE DEF Rights
  <1>0. chart \in Charts /\ ~NoChart.finalizer
    BY DEF TypeOK, NoChart
  <1>1. CASE Reconcile
    BY <1>1 DEF Reconcile
  <1>2. CASE AddFinalizer
    BY <1>2, PassKeepsChart DEF AddFinalizer
  <1>3. CASE RemoveFinalizer
    <2>1. at' = "idle" /\ (chart' = chart \/ chart' = NoChart)
      BY <1>3, UpdateCopyCases, ZenonT(40) DEF RemoveFinalizer
    <2> QED
      BY <1>3, <2>1 DEF RemoveFinalizer
  <1>4. CASE CreateRBAC \/ DeleteRBAC
    BY <1>4 DEF CreateRBAC, DeleteRBAC, Goto, Phases
  <1>5. CASE InstallJob
    <2>1. CASE UpdateReadyCondition
      BY <1>5, <2>1, PassKeepsChart DEF InstallJob
    <2>2. CASE CreateJob("install") \/ DeleteStaleJob
      BY <1>5, <2>2, SMTT(40), SMTT(60) DEF InstallJob, CreateJob, DeleteStaleJob, Return
    <2> QED
      BY <1>5, <2>1, <2>2 DEF InstallJob
  <1>6. CASE TeardownJob
    BY <1>6, SMTT(40) DEF TeardownJob, CreateJob, Goto, Return
  <1>7. CASE CallFails
    BY <1>7 DEF CallFails, Goto, Error
  <1>8. CASE Crash
    BY <1>8 DEF Crash, Error
  <1>9. CASE CacheChart \/ Watches
    BY <1>9 DEF CacheChart, Watches, CacheJob
  <1>10. CASE Pods
    <2>1. UNCHANGED <<chart, rbac, at, copy>> /\ (logged => logged')
      <3>1. ASSUME NEW op \in Operations, JobFails(op) PROVE logged => logged'
        BY <3>1, Zenon DEF JobFails
      <3>2. ASSUME NEW op \in Operations, Helm(op) PROVE logged' = logged
        BY <3>2 DEF Helm
      <3>3. logged => logged'
        BY <1>10, <3>1, <3>2, Zenon DEF Pods
      <3> QED
        BY <1>10, <3>3 DEF Pods, Helm, JobFails
    <2> QED
      BY <2>1
  <1>11. CASE Collect
    BY <1>11 DEF Collect
  <1>12. CASE EditSpec
    BY <1>0, <1>12, Fields DEF EditSpec, Update
  <1>13. CASE Delete
    <2>1. /\ UNCHANGED <<rbac, logged, at, copy>>
          /\ chart' = IF chart.finalizer THEN [chart EXCEPT !.deleting = TRUE] ELSE NoChart
      BY <1>13 DEF Delete, Update
    <2> QED
      BY <1>0, <2>1, Fields
  <1>14. CASE UNCHANGED vars
    BY <1>14 DEF vars
  <1> QED
    BY <1>1, <1>2, <1>3, <1>4, <1>5, <1>6, <1>7, <1>8, <1>9, <1>10, <1>11, <1>12, <1>13, <1>14
       DEF Next, Pass

\* An update of the copy that changes it is seen by the watch, or tried again.
LEMMA UpdateCopyTriggers ==
    ASSUME Known, at # "idle", NEW o, o # copy, UpdateCopy(o)
    PROVE  queued' = TRUE \/ "chart" \notin current'
  BY DEF Known, UpdateCopy, Update, Error

\* A Job that changes is seen by its watch.
LEMMA PutJobTriggers ==
    ASSUME NEW op \in Operations, NEW j, j # job[op], PutJob(op, j)
    PROVE  op \notin current'
  BY SMTT(40) DEF PutJob

\* The pass of CreateJob is followed by an event of the Job.
LEMMA CreateJobTriggers ==
    ASSUME NEW op \in Operations, KnownJob(op), jobCache[op] = NoJob, CreateJob(op)
    PROVE  op \notin current'
  <1>1. [gen |-> copy.gen, state |-> "running"] # NoJob
    BY DEF NoJob
  <1> QED
    BY <1>1, PutJobTriggers, SMTT(40) DEF CreateJob, KnownJob

\* No step leaves work that nothing will bring back.
LEMMA TriggeredNext == TypeOK /\ Known /\ Phases /\ Triggered /\ [Next]_vars => Triggered'
  <1> SUFFICES ASSUME TypeOK, Known, Phases, Triggered, [Next]_vars PROVE Triggered'
    OBVIOUS
  <1>0. /\ chart \in Charts /\ copy \in Charts
        /\ job \in [Operations -> Jobs] /\ jobCache \in [Operations -> Jobs]
        /\ Operations = {"install", "teardown"} /\ \A op \in Operations : KnownJob(op)
    BY DEF TypeOK, Operations, Known
  \* A step that does not go to rest, or that a trigger follows.
  <1>a. ASSUME \/ at' # "idle" \/ queued' = TRUE \/ "chart" \notin current'
               \/ "install" \notin current' \/ "teardown" \notin current'
        PROVE  Triggered'
    BY <1>0, <1>a DEF Triggered
  <1>1. CASE Reconcile
    <2>1. CASE chartCache.gen = 0 \/ (chartCache.deleting /\ ~chartCache.finalizer)
      <3>1. "chart" \in current => chart.gen = 0 /\ ~chart.deleting
        BY <2>1 DEF Known, Phases
      <3>2. UNCHANGED <<chart, job>> /\ (at' # "idle" \/ current' = current)
        BY <1>1 DEF Reconcile
      <3> QED
        BY <1>a, <3>1, <3>2 DEF Triggered
    <2>2. CASE chartCache.gen # 0 /\ (chartCache.deleting => chartCache.finalizer)
      BY <1>1, <1>a, <2>2, Zenon DEF Reconcile
    <2> QED
      BY <2>1, <2>2, SMTT(40)
  <1>2. CASE AddFinalizer
    <2>1. [copy EXCEPT !.finalizer = TRUE] # copy
      BY <1>0, <1>2, Fields, ZenonT(40) DEF AddFinalizer, Phases
    <2> QED
      BY <1>2, <1>a, <2>1, UpdateCopyTriggers, Zenon DEF AddFinalizer
  <1>3. CASE RemoveFinalizer
    <2>1. NoChart # copy
      BY <1>3 DEF RemoveFinalizer, Phases, NoChart
    <2> QED
      BY <1>3, <1>a, <2>1, UpdateCopyTriggers, Zenon DEF RemoveFinalizer
  <1>4. CASE CreateRBAC \/ DeleteRBAC
    BY <1>4, <1>a, Zenon DEF CreateRBAC, DeleteRBAC, Goto
  <1>5. CASE CallFails \/ Crash \/ CacheChart \/ Watches
    BY <1>5, <1>a, Zenon DEF CallFails, Crash, CacheChart, Watches, CacheJob, Goto, Error
  <1>6. CASE InstallJob
    <2>0. KnownJob("install")
      BY <1>0
    <2>1. CASE jobCache["install"] = NoJob /\ CreateJob("install")
      BY <1>0, <1>a, <2>0, <2>1, CreateJobTriggers
    <2>2. CASE jobCache["install"] # NoJob /\ DeleteStaleJob
      <3>1. CASE Finished(jobCache["install"]) /\ PutJob("install", NoJob)
        BY <1>0, <1>a, <2>0, <2>2, <3>1, PutJobTriggers, Zenon DEF KnownJob, PutJob
      <3>2. CASE ~Finished(jobCache["install"]) /\ UNCHANGED <<job, current>>
        <4>1. jobCache["install"].state = "running"
          BY <1>0, <2>0, <2>2, <3>2 DEF KnownJob, Formed, Finished, Jobs
        <4> QED
          BY <1>0, <2>0, <3>2, <4>1 DEF KnownJob, Triggered
      <3> QED
        BY <2>2, <3>1, <3>2 DEF DeleteStaleJob
    <2>3. CASE jobCache["install"] # NoJob /\ jobCache["install"].gen = copy.gen /\ UpdateReadyCondition
      <3> DEFINE r == IF jobCache["install"].state = "complete" THEN "True" ELSE "False"
                 o == [copy EXCEPT !.ready = r, !.readyGen = copy.gen]
      <3>1. CASE Finished(jobCache["install"]) /\ o # copy /\ UpdateCopy(o)
        BY <1>6, <1>a, <3>1, UpdateCopyTriggers, ZenonT(40) DEF InstallJob
      <3>2. CASE ~Finished(jobCache["install"]) /\ UNCHANGED <<chart, current, job>>
        <4>1. jobCache["install"].state = "running"
          BY <1>0, <2>0, <2>3, <3>2 DEF KnownJob, Formed, Finished, Jobs
        <4> QED
          BY <1>0, <2>0, <3>2, <4>1 DEF KnownJob, Triggered
      <3>3. CASE o = copy /\ UNCHANGED <<chart, current, job, queued>>
        <4>1. copy.ready = r /\ copy.readyGen = copy.gen /\ ~copy.deleting
          <5>1. o.ready = r /\ o.readyGen = copy.gen
            BY <1>0, Fields
          <5> HIDE DEF o
          <5> QED
            BY <1>6, <3>3, <5>1 DEF InstallJob, Phases
        <4>2. queued \/ copy = chartCache
          BY <1>6 DEF InstallJob, Known
        <4>3. CASE queued
          BY <1>a, <3>3, <4>3 DEF TypeOK
        <4>4. CASE "chart" \notin current \/ "install" \notin current
          BY <1>a, <3>3, <4>4, Zenon
        <4>5. CASE copy = chart /\ jobCache["install"] = job["install"]
          BY <2>3, <3>3, <4>1, <4>5 DEF Triggered
        <4> QED
          BY <2>0, <4>2, <4>3, <4>4, <4>5 DEF Known, KnownJob
      <3> QED
        BY <2>3, <3>1, <3>2, <3>3 DEF UpdateReadyCondition, Return
    <2> QED
      BY <1>6, <2>1, <2>2, <2>3 DEF InstallJob
  <1>7. CASE TeardownJob
    <2>0. KnownJob("teardown")
      BY <1>0
    <2>1. CASE jobCache["teardown"] = NoJob /\ CreateJob("teardown")
      BY <1>0, <1>a, <2>0, <2>1, CreateJobTriggers
    <2>2. CASE Goto("deleteRBAC")
      BY <1>a, <2>2 DEF Goto
    <2>3. CASE jobCache["teardown"].state = "running" /\ UNCHANGED <<chart, job, current>>
      BY <1>0, <2>0, <2>3 DEF KnownJob, Triggered
    <2> QED
      BY <1>7, <2>1, <2>2, <2>3 DEF TeardownJob
  <1>8. ASSUME NEW op \in Operations, Helm(op) \/ JobFails(op) PROVE Triggered'
    <2>1. CASE UNCHANGED job
      BY <1>8, <2>1 DEF Triggered, Helm, JobFails
    <2>2. ASSUME NEW st \in {"complete", "failed"}, PutJob(op, [job[op] EXCEPT !.state = st])
          PROVE  Triggered'
      <3>1. [job[op] EXCEPT !.state = st] # job[op]
        BY <1>0, <1>8 DEF Helm, JobFails, Jobs
      <3> QED
        BY <1>0, <1>a, <2>2, <3>1, PutJobTriggers, Zenon
    <2> QED
      BY <1>8, <2>1, <2>2 DEF Helm, JobFails
  <1>9. CASE Collect
    BY <1>9 DEF Collect, Triggered, Phases
  <1>10. CASE EditSpec
    <2>1. [chart EXCEPT !.gen = @ + 1] # chart
      <3>1. [chart EXCEPT !.gen = @ + 1].gen = chart.gen + 1 /\ chart.gen \in 0 .. MaxGen
        BY <1>0, ChartTypes, Fields, Zenon
      <3>2. chart.gen + 1 # chart.gen
        BY <3>1
      <3> QED
        BY <3>1, <3>2, Zenon
    <2> QED
      BY <1>10, <1>a, <2>1, Zenon DEF EditSpec, Update
  <1>11. CASE Delete
    <2>1. [chart EXCEPT !.deleting = TRUE] # chart /\ NoChart # chart
      <3>1. [chart EXCEPT !.deleting = TRUE] # chart
        <4>1. [chart EXCEPT !.deleting = TRUE].deleting /\ ~chart.deleting
          BY <1>0, <1>11, Fields DEF Delete
        <4> QED
          BY <4>1, Zenon
      <3>2. NoChart.gen = 0
        BY DEF NoChart
      <3> QED
        BY <1>11, <3>1, <3>2 DEF Delete
    <2> QED
      BY <1>11, <1>a, <2>1, Zenon DEF Delete, Update
  <1>12. CASE UNCHANGED vars
    BY <1>12 DEF vars, Triggered
  <1> QED
    BY <1>1, <1>2, <1>3, <1>4, <1>5, <1>6, <1>7, <1>8, <1>9, <1>10, <1>11, <1>12, SMTT(40)
       DEF Next, Pass, Pods
-----------------------------------------------------------------------------
\* The controller and its surroundings keep the invariant.
LEMMA Inductive == Spec => []IInv
  <1>1. IInv /\ [Next]_vars => IInv'
    BY TypeNext, KnownNext, PhasesNext, EndsNext, CompletedNext, InstalledNext, RightsNext,
       TriggeredNext DEF IInv
  <1> QED
    BY InitIInv, <1>1, PTL DEF Spec

\* The variables keep their types.
THEOREM TypeCorrect == Spec => []TypeOK
  BY Inductive, PTL DEF IInv

\* Reconcile comes to rest only where the latest generation of the chart has a
\* finished Job whose outcome is in the status, or the chart and its rights are gone.
THEOREM RestsInstalled == Spec => []SettlesInstalled
  <1>1. IInv => SettlesInstalled
    <2> SUFFICES ASSUME IInv, Quiescent
                 PROVE  /\ ~chart.deleting
                        /\ chart.gen # 0 =>
                             /\ job["install"].gen = chart.gen /\ chart.readyGen = chart.gen
                             /\ chart.ready = IF job["install"].state = "complete" THEN "True" ELSE "False"
                        /\ chart.gen = 0 /\ ~logged => "clusterRoleBinding" \notin rbac
      BY DEF SettlesInstalled
    <2>1. chart.gen = 0 => ~chart.finalizer
      BY DEF IInv, Phases
    <2> QED
      BY <2>1 DEF IInv, Quiescent, Triggered, Rights
  <1> QED
    BY <1>1, Inductive, PTL

\* A chart that is Ready in its latest generation has that generation installed.
THEOREM ReadyIsInstalled == Spec => []ReadyMeansInstalled
  <1>1. IInv => ReadyMeansInstalled
    BY DEF IInv, Phases, Installed, Ending, ReadyMeansInstalled
  <1> QED
    BY <1>1, Inductive, PTL

\* An install and a teardown Job never run at the same time.
THEOREM HelmAlone == Spec => []OneHelmAtATime
  BY Inductive, PTL DEF IInv

\* No pass deletes a Job that is running.
THEOREM RunningJobsKept == Spec => RunningJobsStay
  <1> DEFINE Stays == \A op \in Operations : job[op].state = "running" /\ job'[op] = NoJob => chart.gen = 0
  <1>1. IInv /\ [Next]_vars => [Stays]_vars
    <2> SUFFICES ASSUME IInv, Next, NEW op \in Operations, job[op].state = "running", job'[op] = NoJob
                 PROVE  chart.gen = 0
      OBVIOUS
    <2>0. /\ job \in [Operations -> Jobs] /\ Operations = {"install", "teardown"}
          /\ NoJob.state = "none" /\ KnownJob(op)
      BY DEF IInv, TypeOK, Operations, NoJob, Known
    <2>1. CASE UNCHANGED job
      BY <2>0, <2>1
    <2>2. CASE InstallJob
      <3>1. CASE CreateJob("install")
        BY <2>0, <2>1, <3>1, SMTT(40) DEF CreateJob, PutJob
      <3>2. CASE DeleteStaleJob
        BY <2>0, <2>1, <2>2, <3>2, SMTT(40) DEF InstallJob, DeleteStaleJob, PutJob, KnownJob, Finished
      <3> QED
        BY <2>1, <2>2, <3>1, <3>2, SMTT(40) DEF InstallJob, UpdateReadyCondition
    <2>3. CASE TeardownJob
      BY <2>0, <2>1, <2>3 DEF TeardownJob, CreateJob, PutJob
    <2>4. ASSUME NEW k \in Operations, Helm(k) \/ JobFails(k) PROVE job'[op] # NoJob
      <3>1. job'[k].state # "none" /\ (op # k => job'[op] = job[op])
        BY <2>0, <2>4 DEF Helm, JobFails, PutJob, Jobs
      <3> QED
        BY <2>0, <3>1
    <2>5. CASE Collect
      BY <2>5 DEF Collect
    <2>6. CASE Reconcile \/ AddFinalizer \/ CreateRBAC \/ DeleteRBAC \/ RemoveFinalizer
      BY <2>1, <2>6 DEF Reconcile, AddFinalizer, CreateRBAC, DeleteRBAC, RemoveFinalizer
    <2>7. CASE CallFails \/ Crash \/ CacheChart \/ Watches \/ EditSpec \/ Delete
      BY <2>1, <2>7 DEF CallFails, Crash, CacheChart, Watches, CacheJob, EditSpec, Delete
    <2> QED
      BY <2>2, <2>3, <2>4, <2>5, <2>6, <2>7 DEF Next, Pass, Pods
  <1> QED
    BY <1>1, Inductive, PTL DEF Spec, RunningJobsStay
-----------------------------------------------------------------------------
\* What a pass writes to the chart it writes to the latest version.
LEMMA ChartWrites ==
  ASSUME IInv, [Next]_vars
  PROVE  \/ chart' = chart
         \/ chart.gen # 0 /\ ~chart.deleting /\ chart' = [chart EXCEPT !.finalizer = TRUE]
         \/ chart.gen # 0 /\ \E r \in {"True", "False"} :
                chart' = [chart EXCEPT !.ready = r, !.readyGen = chart.gen]
         \/ chart.gen # 0 /\ ~chart.deleting /\ chart' = [chart EXCEPT !.gen = chart.gen + 1]
         \/ chart.gen # 0 /\ ~chart.deleting /\ chart' = [chart EXCEPT !.deleting = TRUE]
         \/ chart' = NoChart
  <1>1. ASSUME NEW o, UpdateCopy(o), at # "idle"
        PROVE  chart' = chart \/ (chart.gen # 0 /\ copy = chart /\ chart' = o)
    BY <1>1 DEF UpdateCopy, Update, IInv, Known, Phases
  <1>2. CASE AddFinalizer
    BY <1>1, <1>2 DEF AddFinalizer
  <1>3. CASE RemoveFinalizer
    BY <1>1, <1>3 DEF RemoveFinalizer
  <1>4. CASE InstallJob
    <2>1. CASE UNCHANGED chart
      BY <2>1
    <2>2. at # "idle" /\ (UpdateReadyCondition \/ UNCHANGED chart)
      BY <1>4 DEF InstallJob, CreateJob, DeleteStaleJob
    <2>3. ASSUME UpdateReadyCondition
          PROVE  \/ UNCHANGED chart
                 \/ \E r \in {"True", "False"} : UpdateCopy([copy EXCEPT !.ready = r, !.readyGen = copy.gen])
      BY <2>3, ZenonT(40) DEF UpdateReadyCondition
    <2>4. ASSUME NEW r \in {"True", "False"}, UpdateCopy([copy EXCEPT !.ready = r, !.readyGen = copy.gen])
          PROVE  \/ chart' = chart
                 \/ chart.gen # 0 /\ chart' = [chart EXCEPT !.ready = r, !.readyGen = chart.gen]
      BY <1>1, <2>2, <2>4, ZenonT(40)
    <2> QED
      BY <2>1, <2>2, <2>3, <2>4
  <1>5. CASE EditSpec
    <2>1. chart.gen # 0 /\ ~chart.deleting /\ chart' = [chart EXCEPT !.gen = chart.gen + 1]
      BY <1>5 DEF EditSpec, Update
    <2> QED
      BY <2>1
  <1>6. CASE Delete
    BY <1>6 DEF Delete, Update
  <1>7. \/ Reconcile \/ CreateRBAC \/ TeardownJob \/ DeleteRBAC \/ CallFails \/ Crash \/ CacheChart \/ Watches
        \/ Pods \/ Collect \/ UNCHANGED vars
        => UNCHANGED chart
    BY ZenonT(40) DEF Reconcile, CreateRBAC, TeardownJob, CreateJob, DeleteRBAC, CallFails, Crash, CacheChart,
       Watches, CacheJob, Pods, Helm, JobFails, Collect, vars
  <1> QED
    BY <1>2, <1>3, <1>4, <1>5, <1>6, <1>7, ZenonT(40) DEF Next, Pass

\* The safety half of DeletionCompletes: a chart only moves forward, however stale the
\* copies that are written back.  One that is gone does not return, one that is being
\* deleted is not undeleted, and neither the generation nor the one the status speaks
\* of ever goes back.
THEOREM ChartsMoveForward ==
  Spec => [][/\ chart.gen = 0 => chart'.gen = 0
             /\ chart.deleting => Ending(chart')
             /\ chart'.gen # 0 => /\ chart'.gen >= chart.gen /\ chart'.readyGen >= chart.readyGen
                                  /\ chart.finalizer => chart'.finalizer]_vars
  <1>1. ASSUME IInv, [Next]_vars
        PROVE  /\ chart.gen = 0 => chart'.gen = 0
               /\ chart.deleting => Ending(chart')
               /\ chart'.gen # 0 => /\ chart'.gen >= chart.gen /\ chart'.readyGen >= chart.readyGen
                                    /\ chart.finalizer => chart'.finalizer
    <2>1. /\ chart \in Charts /\ chart.gen \in Nat /\ chart.readyGen \in Nat /\ chart.readyGen =< chart.gen
      BY <1>1, HelmChartAssumption DEF IInv, TypeOK, Phases, Charts
    <2>2. CASE chart' = chart \/ chart' = NoChart
      BY <2>1, <2>2 DEF NoChart, Ending
    <2>3. CASE chart.gen # 0 /\ ~chart.deleting
                 /\ (chart' = [chart EXCEPT !.finalizer = TRUE] \/ chart' = [chart EXCEPT !.deleting = TRUE])
      BY <2>1, <2>3 DEF Charts
    <2>4. CASE chart.gen # 0 /\ \E r \in {"True", "False"} :
                 chart' = [chart EXCEPT !.ready = r, !.readyGen = chart.gen]
      BY <2>1, <2>4 DEF Charts, Ending
    <2>5. CASE chart.gen # 0 /\ ~chart.deleting /\ chart' = [chart EXCEPT !.gen = chart.gen + 1]
      BY <2>1, <2>5 DEF Charts
    <2> QED
      BY <1>1, <2>2, <2>3, <2>4, <2>5, ChartWrites
  <1> QED
    BY <1>1, Inductive, PTL DEF Spec

\* The latest generation has a finished Job, the status says how it went, and
\* everything is known, also to the pass that may be running.
Settled ==
    /\ chart.gen # 0 /\ ~chart.deleting /\ chart.finalizer
    /\ job["install"].gen = chart.gen /\ Finished(job["install"]) /\ job["teardown"] = NoJob
    /\ chart.readyGen = chart.gen
    /\ chart.ready = IF job["install"].state = "complete" THEN "True" ELSE "False"
    /\ Operations \cup {"chart"} \subseteq current
    /\ at # "idle" => copy = chart

\* What happens without a user or a failed call.
Unprompted == Pass \/ CacheChart \/ Watches \/ Pods \/ Collect \/ Crash

\* A pass over a settled chart finds nothing to do.
LEMMA SettledStep ==
  ASSUME IInv, Settled, Unprompted
  PROVE  Settled' /\ UNCHANGED <<chart, job, release>>
  <1>0. /\ chart \in Charts /\ job \in [Operations -> Jobs] /\ Operations = {"install", "teardown"}
        /\ chartCache = chart /\ jobCache["install"] = job["install"]
        /\ "install" \in current /\ "teardown" \in current /\ "chart" \in current
    BY DEF IInv, TypeOK, Known, KnownJob, Settled, Operations
  <1>1. ASSUME UNCHANGED <<chart, job, release>>, Operations \cup {"chart"} \subseteq current',
               at' # "idle" => copy' = chart
        PROVE  Settled' /\ UNCHANGED <<chart, job, release>>
    BY <1>1 DEF Settled, Finished
  <1>2. /\ ~ CacheChart /\ ~ Watches /\ ~ Collect
        /\ job["install"].state # "running" /\ job["teardown"].state # "running"
    BY <1>0 DEF CacheChart, Watches, CacheJob, Collect, Settled, Finished, NoJob
  <1>3. ~ Pods
    BY <1>0, <1>2 DEF Pods, Helm, JobFails
  <1>4. at \in {"idle", "createRBAC", "installJob"}
    BY DEF IInv, TypeOK, Phases, Settled
  <1>5. ~ AddFinalizer /\ ~ TeardownJob /\ ~ DeleteRBAC /\ ~ RemoveFinalizer
    BY <1>4 DEF AddFinalizer, TeardownJob, DeleteRBAC, RemoveFinalizer
  <1>6. CASE Reconcile
    <2>1. copy' = chartCache /\ UNCHANGED <<chart, job, release>>
          /\ current' = IF "chart" \in current THEN current \cup {"copy"} ELSE current \ {"copy"}
      BY <1>0, <1>6, ZenonT(40) DEF Reconcile, Settled
    <2> QED
      BY <1>0, <1>1, <2>1
  <1>7. CASE CreateRBAC
    <2>1. UNCHANGED <<chart, job, release, current, copy>> /\ at # "idle"
      BY <1>7 DEF CreateRBAC, Goto
    <2> QED
      BY <1>0, <1>1, <2>1 DEF Settled
  <1>8. CASE InstallJob
    <2>1. copy = chart /\ UNCHANGED release
      BY <1>8 DEF InstallJob, Settled
    <2>2. jobCache["install"] # NoJob /\ jobCache["install"].gen = copy.gen /\ Finished(jobCache["install"])
      BY <1>0, <2>1 DEF Settled, Finished, NoJob
    <2>3. UpdateReadyCondition
      BY <1>8, <2>2, ZenonT(40) DEF InstallJob
    <2>4. [copy EXCEPT !.ready = IF jobCache["install"].state = "complete" THEN "True" ELSE "False",
                       !.readyGen = copy.gen] = copy
      BY <1>0, <2>1, ZenonT(40) DEF Settled, Charts
    <2>5. Return /\ UNCHANGED <<chart, current, job>>
      BY <2>2, <2>3, <2>4, ZenonT(40) DEF UpdateReadyCondition
    <2> QED
      BY <1>0, <1>1, <2>1, <2>5 DEF Return
  <1>9. CASE Crash
    <2>1. UNCHANGED <<chart, job, release>> /\ current' = Operations \cup {"chart"} /\ at' = "idle"
      BY <1>9 DEF Crash, Error
    <2> QED
      BY <1>1, <2>1
  <1> QED
    BY <1>2, <1>3, <1>5, <1>6, <1>7, <1>8, <1>9, ZenonT(40) DEF Unprompted, Pass

\* A chart that is installed is left alone: a pass over it, whatever triggered it, and a
\* new start of the cluster agent write no status, replace no Job and run no helm, so
\* that the controller does not trigger itself.
THEOREM SettledStays == Spec => [][Settled /\ Unprompted => Settled' /\ UNCHANGED <<chart, job, release>>]_vars
  <1>1. IInv => (Settled /\ Unprompted => Settled' /\ UNCHANGED <<chart, job, release>>)
    BY SettledStep
  <1> QED
    BY <1>1, Inductive, PTL DEF Spec
=============================================================================
