------------------------- MODULE WorkerNodeProofs -------------------------
(***************************************************************************)
(* The files of a worker node prove consistent for any number of crashes,  *)
(* joins, moves and keys: a node never has two certificate requests, and   *)
(* its kubelet kubeconfig never lacks its certificate.                     *)
(*                                                                         *)
(* Neither invariant is inductive.  What they rest on is where a key may   *)
(* be found after a crash (Found), what the worker holds in memory while   *)
(* it is on its way to the certificate (Holding), and what has been issued *)
(* (Issued).                                                               *)
(*                                                                         *)
(* The supervision of the node's processes shares its fields with the      *)
(* teardown without a lock, and is right because of the order in which a   *)
(* goroutine stores them (RunnerOK): whoever sees a process sees how to    *)
(* cancel it, whatever the number of runners and of restarts.              *)
(***************************************************************************)
EXTENDS Bootstrap, Worker, FiniteSetTheorems, TLAPS

\* A key that was ever sent to the cluster is the one in the certificate store,
\* or the one a start without a certificate reads from the temporary file.
Found ==
    /\ \A k \in Keys : csrs[k] # "none" =>
          store = k \/ (store = 0 /\ disk["key"] = "whole" /\ keyFile = k)
    /\ disk["key"] = "whole" => keyFile # 0

\* The key the worker works with is the one the next start would find.
Holding ==
    /\ worker \in {"request", "await", "update"} =>
          key = IF store # 0 THEN store ELSE keyFile
    /\ worker \in {"request", "await", "update"} /\ store = 0 => disk["key"] = "whole"
    /\ worker = "write key" => store = 0 /\ disk["key"] = "torn"
    /\ worker \in {"remove", "kubeconfig", "write kubeconfig"} => store # 0

\* The certificate in the store, or on its way there, was issued.
Issued ==
    /\ store # 0 => csrs[store] = "issued"
    /\ worker = "update" => csrs[key] = "issued"
    /\ disk["kubeconfig"] # "absent" => store # 0

IInv == NodeTypeOK /\ Found /\ Holding /\ Issued
-----------------------------------------------------------------------------
\* NodeInit: a machine that has never joined.
LEMMA InitIInv == NodeInit => IInv
<1> SUFFICES ASSUME NodeInit PROVE IInv
  OBVIOUS
<1>1. NodeTypeOK
  <2>1. disk \in [Files -> {"absent", "torn", "whole"}] /\ csrs \in [Keys -> {"none", "pending", "issued"}]
    BY DEF NodeInit
  <2>2. enabled \in BOOLEAN /\ valid \in BOOLEAN
    BY Zenon DEF NodeInit
  <2> QED
    BY <2>1, <2>2, BootstrapAssumption DEF NodeInit, NodeTypeOK, JoinStates, WorkerStates
<1>2. Found /\ Holding /\ Issued
  BY DEF NodeInit, Found, Holding, Issued, Files
<1> QED
  BY <1>1, <1>2 DEF IInv

\* A failed attempt of a retry loop, the most frequent outcome, only moves the
\* worker: back to an earlier step, or out.
LEMMA FailedAttempt ==
  ASSUME IInv, NEW from \in WorkerStates, NEW to \in {"load", "profile"}, AttemptFails(from, to)
  PROVE  IInv'
<1>1. NodeTypeOK'
  <2>1. worker' \in {"load", "profile", "down"}
    BY DEF AttemptFails, Exit, Step
  <2>2. worker' \in WorkerStates
    BY <2>1, Zenon DEF WorkerStates
  <2>3. attempt' \in 0 .. Attempts
    BY BootstrapAssumption DEF AttemptFails, Exit, IInv, NodeTypeOK, local
  <2>4. UNCHANGED <<disk, cached, keyFile, store, csrs, key, proxied, enabled, join, valid,
                    serving, server, joins, faults, moves>>
    BY DEF AttemptFails, Exit, Step, budget, local
  <2> QED
    BY <2>2, <2>3, <2>4 DEF IInv, NodeTypeOK
<1>2. (Found /\ Holding /\ Issued)'
  BY Zenon DEF AttemptFails, Exit, Step, IInv, Found, Holding, Issued, budget, local
<1> QED
  BY <1>1, <1>2 DEF IInv

\* The join command touches neither the key nor what the worker wrote.
LEMMA JoinIInv == IInv /\ (JoinStart \/ JoinProgress) => IInv'
<1> SUFFICES ASSUME IInv, JoinStart \/ JoinProgress PROVE IInv'
  BY SMTT(40)
<1> USE DEF JoinStep, Torn, Whole, local
<1>1. NodeTypeOK'
  <2> USE BootstrapAssumption DEF IInv, NodeTypeOK, Files, JoinStates
  <2>1. CASE JoinStart    BY <2>1 DEF JoinStart
  <2>2. CASE SaveBootstrap    BY <2>2 DEF SaveBootstrap
  <2>3. CASE OpenCA    BY <2>3, Zenon DEF OpenCA
  <2>4. CASE WriteCA    BY <2>4, Zenon DEF WriteCA
  <2>5. CASE OpenSelf    BY <2>5, Zenon DEF OpenSelf
  <2>6. CASE WriteSelf    BY <2>6, Zenon DEF WriteSelf
  <2>7. CASE SkipSelf    BY <2>7 DEF SkipSelf
  <2>8. CASE StartUnit    BY <2>8, SMTT(40) DEF StartUnit
  <2> QED  BY <2>1, <2>2, <2>3, <2>4, <2>5, <2>6, <2>7, <2>8, ZenonT(40) DEF JoinProgress
<1>2. /\ disk'["key"] = disk["key"] /\ disk'["kubeconfig"] = disk["kubeconfig"]
      /\ UNCHANGED <<keyFile, store, csrs, worker, key>>
  BY ZenonT(40) DEF JoinStart, JoinProgress, SaveBootstrap, OpenCA, WriteCA, OpenSelf, WriteSelf, SkipSelf,
     StartUnit, IInv, NodeTypeOK, Files
<1>3. (Found /\ Holding /\ Issued)'
  BY <1>2, Zenon DEF IInv, Found, Holding, Issued
<1> QED
  BY <1>1, <1>3 DEF IInv
\* An attempt of one of the four steps that are tried again fails.
Retried ==
    \/ \E from \in {"load", "request", "await"} : AttemptFails(from, "load")
    \/ AttemptFails("profile", "profile")

\* Types are preserved by the worker.
LEMMA WorkerTypes == IInv /\ WorkerProgress => NodeTypeOK'
<1> SUFFICES ASSUME IInv, WorkerProgress PROVE NodeTypeOK'
  OBVIOUS
<1>0. 1 \in 0 .. Attempts
  BY BootstrapAssumption
<1> USE DEF Step, Exit, Torn, Whole, local, budget, IInv, NodeTypeOK, Files, WorkerStates
<1>1. CASE StartWorker
  BY <1>1 DEF StartWorker
<1>2. CASE Resolve
  BY <1>2 DEF Resolve
<1>3. CASE ResolveFails
  BY <1>3 DEF ResolveFails
<1>4. CASE BootstrapKubelet
  BY <1>0, <1>4, Zenon DEF BootstrapKubelet
<1>5. CASE WriteKey
  BY <1>5, Zenon DEF WriteKey
<1>6. CASE UpdateStore
  BY <1>6 DEF UpdateStore
<1>7. CASE RemoveKey
  BY <1>7 DEF RemoveKey
<1>8. CASE OpenKubeconfig
  BY <1>8, Zenon DEF OpenKubeconfig
<1>9. CASE WriteKubeconfig
  BY <1>0, <1>9, Zenon DEF WriteKubeconfig
<1>10. CASE SaveProfile
  BY <1>10, SMTT(40) DEF SaveProfile
<1>11. CASE NewAgent
  BY <1>11, ZenonT(40) DEF NewAgent
<1>12. CASE Extract
  BY <1>12, Zenon DEF Extract
<1>13. CASE CopyToFile
  BY <1>13, Zenon DEF CopyToFile
<1>14. CASE SkipBinaries
  BY <1>14 DEF SkipBinaries
<1>15. CASE RunTorn
  BY <1>15, ZenonT(40) DEF RunTorn
<1>16. CASE Load /\ ~Retried
  <2>1. CASE Step("load", "request") /\ key' = IF store # 0 THEN store ELSE keyFile
    BY <1>16, <2>1 DEF Load, StoredKey, Retried
  <2>2. CASE Step("load", "write key") /\ Torn("key")
    BY <1>16, <2>2, Zenon DEF Load, StoredKey, Retried
  <2> QED
    BY <1>16, <2>1, <2>2, Zenon DEF Load, StoredKey, Retried
<1>17. CASE RequestNodeCertificate /\ ~Retried
  BY <1>17, ZenonT(40) DEF RequestNodeCertificate, Retried
<1>18. CASE WaitForCertificate /\ ~Retried
  BY <1>18, ZenonT(40) DEF WaitForCertificate, Retried
<1>19. CASE ReadProfile /\ ~Retried
  <2>1. CASE Exit("profile")
    BY <2>1
  <2>2. CASE Step("profile", "save") /\ Torn("profile") /\ UNCHANGED <<cached, keyFile, store, csrs, local>>
    BY <2>2, SMTT(40)
  <2> QED
    BY <1>19, <2>1, <2>2, Zenon DEF ReadProfile, Retried
<1>20. CASE Retried
  BY <1>20, FailedAttempt, ZenonT(40) DEF Retried, WorkerStates, IInv
<1> QED
  BY <1>1, <1>2, <1>3, <1>4, <1>5, <1>6, <1>7, <1>8, <1>9, <1>10,
     <1>11, <1>12, <1>13, <1>14, <1>15, <1>16, <1>17, <1>18, <1>19, <1>20, ZenonT(40) DEF WorkerProgress

\* So are the places of the key and of the certificate.
LEMMA WorkerKeys == IInv /\ WorkerProgress => (Found /\ Holding /\ Issued)'
<1> SUFFICES ASSUME IInv, WorkerProgress PROVE (Found /\ Holding /\ Issued)'
  OBVIOUS
<1> USE DEF Step, Exit, Torn, Whole, local, IInv, NodeTypeOK, Files, Found, Holding, Issued
<1>1. CASE StartWorker
  BY <1>1 DEF StartWorker
<1>2. CASE Resolve
  BY <1>2 DEF Resolve
<1>3. CASE ResolveFails
  BY <1>3 DEF ResolveFails
<1>4. CASE BootstrapKubelet
  BY <1>4, Zenon DEF BootstrapKubelet
<1>5. CASE WriteKey
  <2>1. store = 0 /\ disk'["key"] = "whole" /\ keyFile' = keyFile + 1 /\ key' = keyFile'
    BY <1>5, Zenon DEF WriteKey
  <2>2. keyFile' # 0
    <3>1. keyFile' \in Keys /\ 0 \notin Keys
      BY <1>5, BootstrapAssumption, Zenon DEF WriteKey
    <3> QED
      BY <3>1, Zenon
  <2>3. \A k \in Keys : csrs'[k] = "none"
    BY <1>5, BootstrapAssumption, ZenonT(40) DEF WriteKey
  <2> QED
    BY <1>5, <2>1, <2>2, <2>3, Zenon DEF WriteKey
<1>6. CASE UpdateStore
  <2>1. key \in Keys /\ key # 0
    BY <1>6, BootstrapAssumption DEF UpdateStore
  <2>2. Found'
    <3>1. \A k \in Keys : csrs[k] # "none" => key = k
      <4>1. key = (IF store # 0 THEN store ELSE keyFile) /\ 0 \notin Keys
        BY <1>6, BootstrapAssumption DEF UpdateStore
      <4> QED
        BY <4>1, ZenonT(40)
    <3>2. store' = key /\ UNCHANGED <<disk, keyFile, csrs>>
      BY <1>6 DEF UpdateStore
    <3> QED
      BY <3>1, <3>2, Zenon
  <2>3. (Holding /\ Issued)'
    BY <1>6, <2>1 DEF UpdateStore
  <2> QED
    BY <2>2, <2>3, Zenon
<1>7. CASE RemoveKey
  BY <1>7 DEF RemoveKey
<1>8. CASE OpenKubeconfig
  BY <1>8, Zenon DEF OpenKubeconfig
<1>9. CASE WriteKubeconfig
  BY <1>9, Zenon DEF WriteKubeconfig
<1>10. CASE SaveProfile
  BY <1>10 DEF SaveProfile
<1>11. CASE NewAgent
  <2>1. worker' \in {"down", "setup"} /\ UNCHANGED <<disk, keyFile, store, csrs>>
    BY <1>11, Zenon DEF NewAgent
  <2> QED
    BY <2>1, Zenon
<1>12. CASE Extract
  BY <1>12, Zenon DEF Extract
<1>13. CASE CopyToFile
  BY <1>13, Zenon DEF CopyToFile
<1>14. CASE SkipBinaries
  BY <1>14 DEF SkipBinaries
<1>15. CASE RunTorn
  <2>1. worker' \in {"down", "running"} /\ UNCHANGED <<disk, keyFile, store, csrs>>
    BY <1>15, Zenon DEF RunTorn
  <2> QED
    BY <2>1, Zenon
<1>16. CASE Load /\ ~Retried
  BY <1>16, ZenonT(40) DEF Load, StoredKey, Retried
<1>17. CASE RequestNodeCertificate /\ ~Retried
  <2>1. key \in Keys /\ key # 0
    BY <1>17, BootstrapAssumption, Zenon DEF RequestNodeCertificate, Retried
  <2>2. worker = "request" /\ worker' = "await" /\ UNCHANGED <<disk, keyFile, store, key>>
    BY <1>17, Zenon DEF RequestNodeCertificate, Retried
  <2>3. csrs' = [csrs EXCEPT ![key] = IF @ = "none" THEN "pending" ELSE @]
    BY <1>17, Zenon DEF RequestNodeCertificate, Retried
  <2>4. Found'
    BY <2>1, <2>2, <2>3
  <2>5. (Holding /\ Issued)'
    BY <2>1, <2>2, <2>3
  <2> QED
    BY <2>4, <2>5, Zenon
<1>18. CASE WaitForCertificate /\ ~Retried
  BY <1>18, ZenonT(40) DEF WaitForCertificate, Retried
<1>19. CASE ReadProfile /\ ~Retried
  BY <1>19, ZenonT(40) DEF ReadProfile, Retried
<1>20. CASE Retried
  BY <1>20, FailedAttempt, ZenonT(40) DEF Retried, WorkerStates, IInv
<1> QED
  BY <1>1, <1>2, <1>3, <1>4, <1>5, <1>6, <1>7, <1>8, <1>9, <1>10,
     <1>11, <1>12, <1>13, <1>14, <1>15, <1>16, <1>17, <1>18, <1>19, <1>20, ZenonT(40) DEF WorkerProgress

\* The environment: an issued request stays issued, a crash loses what is in memory.
LEMMA EnvironmentIInv ==
  ASSUME IInv, (\E k \in Keys : Sign(k)) \/ Expire \/ (\E e \in Hosts : Move(e)) \/ Crash
  PROVE  IInv'
<1> USE DEF saved, cluster, local, budget
<1>1. ASSUME NEW k \in Keys, Sign(k) PROVE IInv'
  <2>1. NodeTypeOK'
    BY <1>1, SMTT(40) DEF Sign, IInv, NodeTypeOK
  <2>2. (Found /\ Holding /\ Issued)'
    BY <1>1, ZenonT(40) DEF Sign, IInv, NodeTypeOK, Found, Holding, Issued
  <2> QED
    BY <2>1, <2>2 DEF IInv
<1>2. CASE Expire
  <2>1. NodeTypeOK'
    BY <1>2, Zenon DEF Expire, IInv, NodeTypeOK
  <2>2. (Found /\ Holding /\ Issued)'
    BY <1>2, Zenon DEF Expire, IInv, Found, Holding, Issued
  <2> QED
    BY <2>1, <2>2 DEF IInv
<1>3. ASSUME NEW e \in Hosts, Move(e) PROVE IInv'
  <2>1. NodeTypeOK'
    BY <1>3, BootstrapAssumption DEF Move, IInv, NodeTypeOK
  <2>2. (Found /\ Holding /\ Issued)'
    BY <1>3, Zenon DEF Move, IInv, Found, Holding, Issued
  <2> QED
    BY <2>1, <2>2 DEF IInv
<1>4. CASE Crash
  <2>1. NodeTypeOK'
    <3>1. worker' \in WorkerStates
      BY <1>4, Zenon DEF Crash, IInv, NodeTypeOK, WorkerStates
    <3>2. join' \in JoinStates
      BY <1>4, Zenon DEF Crash, IInv, NodeTypeOK, JoinStates
    <3> QED
      BY <1>4, <3>1, <3>2, BootstrapAssumption DEF Crash, IInv, NodeTypeOK
  <2>2. (Found /\ Holding /\ Issued)'
    BY <1>4, Zenon DEF Crash, IInv, Found, Holding, Issued
  <2> QED
    BY <2>1, <2>2 DEF IInv
<1> QED
  BY <1>1, <1>2, <1>3, <1>4

\* IInv is inductive: every step of the join command, of the worker and of the
\* environment preserves it.
LEMMA Inductive == IInv /\ [NodeNext]_nodeVars => IInv'
<1> SUFFICES ASSUME IInv, [NodeNext]_nodeVars PROVE IInv'
  OBVIOUS
<1>1. CASE JoinStart \/ JoinProgress
  BY <1>1, JoinIInv
<1>2. CASE WorkerProgress
  BY <1>2, WorkerTypes, WorkerKeys DEF IInv
<1>3. CASE (\E k \in Keys : Sign(k)) \/ Expire \/ (\E e \in Hosts : Move(e)) \/ Crash
  BY <1>3, EnvironmentIInv
<1>4. CASE UNCHANGED nodeVars
  <2> USE <1>4 DEF nodeVars, saved, cluster, local, budget
  <2>1. NodeTypeOK'
    BY DEF IInv, NodeTypeOK
  <2>2. (Found /\ Holding /\ Issued)'
    BY Zenon DEF IInv, Found, Holding, Issued
  <2> QED
    BY <2>1, <2>2 DEF IInv
<1> QED
  BY <1>1, <1>2, <1>3, <1>4 DEF NodeNext
-----------------------------------------------------------------------------
\* Type correctness of the node's files, programs and requests.
THEOREM TypeCorrect == NodeSpec => []NodeTypeOK
<1>1. IInv => NodeTypeOK
  BY DEF IInv
<1> QED
  BY <1>1, InitIInv, Inductive, PTL DEF NodeSpec

\* "private key is reused on next startup if CSR request fails" (LoadClientCert):
\* however often the worker crashes, is restarted or joined again, the cluster
\* never holds two requests of the node.
THEOREM RequestedOnce == NodeSpec => []OneRequest
<1>1. IInv => OneRequest
  <2> SUFFICES ASSUME IInv PROVE OneRequest
    OBVIOUS
  <2> DEFINE R == {k \in Keys : csrs[k] # "none"}
  <2>1. \A k, l \in R : k = l
    BY BootstrapAssumption DEF IInv, Found
  <2>2. R = {} \/ \E k \in R : R = {k}
    BY <2>1
  <2>3. Cardinality(R) = 0 \/ Cardinality(R) = 1
    BY <2>2, FS_EmptySet, FS_Singleton, Zenon
  <2> QED
    BY <2>3 DEF OneRequest
<1> QED
  BY <1>1, InitIInv, Inductive, PTL DEF NodeSpec

\* A kubelet kubeconfig, which every start trusts once it exists, comes with an
\* issued certificate (BootstrapKubeletClientConfig writes it last).
THEOREM CertificateFirst == NodeSpec => []KubeconfigHasCertificate
<1>1. IInv => KubeconfigHasCertificate
  BY DEF IInv, Issued, KubeconfigHasCertificate
<1> QED
  BY <1>1, InitIInv, Inductive, PTL DEF NodeSpec
-----------------------------------------------------------------------------
(* Supervision and teardown. *)

\* Where the goroutine of runner r stands says what it has stored so far, how many
\* attempts it has made, and whether Run can still learn of its error.
RunnerOK(r) ==
    /\ loop[r] # "new" => r \in component
    /\ loop[r] \notin {"new", "made"} => r \in cancel
    /\ loop[r] \in {"new", "made"} => tries[r] = 0 /\ proc[r] = 0
    /\ loop[r] \in {"new", "made", "start", "backoff"} => tries[r] # MaxRetries + 1
    /\ loop[r] \in {"fork", "store", "wait", "exited"} => tries[r] # 0
    /\ r \in ctxDone => r \in cancel
    /\ r \in Reporting /\ loop[r] = "returned" => r \in errCh \/ main.pc \notin {"notify", "select"}

\* A process is that of the attempt its runner waits for, or is about to.
Supervised == \A p \in alive : loop[p[1]] \in {"store", "wait"} /\ p[2] = tries[p[1]]

\* Teardown is at a runner of the slice until it has been through all.
Tearing == main.pc # "returned" => main.i \in 1 .. Len(Order)

WorkerInv == WorkerTypeOK /\ (\A r \in Runners : RunnerOK(r)) /\ Supervised /\ Tearing

\* Nothing runs and nothing was stored before the goroutines start.
LEMMA WorkerInitInv == WorkerInit => WorkerInv
<1> SUFFICES ASSUME WorkerInit PROVE WorkerInv
  OBVIOUS
<1>1. Len(Order) \in Nat \ {0}
  BY WorkerAssumption
<1>2. WorkerTypeOK
  BY <1>1, WorkerAssumption DEF WorkerInit, WorkerTypeOK, LoopStates, MainStates
<1>3. \A r \in Runners : RunnerOK(r)
  BY WorkerAssumption DEF WorkerInit, RunnerOK
<1>4. Supervised /\ Tearing
  BY <1>1 DEF WorkerInit, Supervised, Tearing
<1> QED
  BY <1>2, <1>3, <1>4 DEF WorkerInv

\* What a step of the goroutine of r leaves alone.
LEMMA SuperviseFrame ==
  ASSUME NEW r \in Runners, Supervise(r)
  PROVE  UNCHANGED <<ctxDone, stopping, forwarding, main>>
  BY ZenonT(40) DEF Supervise, MakeComponent, StoreCancel, StartProcess, Fork, StoreProc, Wait,
     RunOnceReturns, BackOff

\* The variables of the goroutines keep their types.
SuperviseTypeOK ==
    /\ component \in SUBSET Runners /\ cancel \in SUBSET Runners
    /\ loop \in [Runners -> LoopStates]
    /\ tries \in [Runners -> 0 .. MaxRetries + 1]
    /\ proc \in [Runners -> 0 .. MaxRetries + 1]
    /\ alive \in SUBSET (Runners \X Tries)
    /\ errCh \in SUBSET Reporting

\* A failed attempt, or the end of the loop: where the goroutine goes, and that the
\* error of a reporting runner is in the channel before it is gone.
LEMMA FailsCases ==
  ASSUME NEW r \in Runners, Returns(r) \/ Fails(r)
  PROVE  \/ errCh' = errCh /\ loop' = [loop EXCEPT ![r] = "backoff"] /\ tries'[r] < MaxRetries + 1
         \/ errCh' = errCh \cup ({r} \cap Reporting) /\ loop' = [loop EXCEPT ![r] = "returned"]
  BY ZenonT(40) DEF Returns, Fails, Goto

\* The types are kept.
LEMMA SuperviseTypes ==
  ASSUME SuperviseTypeOK, NEW r \in Runners, RunnerOK(r), Supervise(r)
  PROVE  SuperviseTypeOK'
<1>0. MaxRetries \in Nat /\ Reporting \subseteq Runners
  BY WorkerAssumption
<1>f. ASSUME Returns(r) \/ Fails(r)
      PROVE  loop' \in [Runners -> LoopStates] /\ errCh' \in SUBSET Reporting
  BY <1>f, FailsCases DEF SuperviseTypeOK, LoopStates
<1>g. ASSUME NEW state \in LoopStates, Goto(r, state) PROVE loop' \in [Runners -> LoopStates]
  BY <1>g DEF SuperviseTypeOK, Goto
<1>1. CASE MakeComponent(r) \/ StoreCancel(r) \/ Wait(r)
  BY <1>1, <1>g DEF MakeComponent, StoreCancel, Wait, SuperviseTypeOK, LoopStates
<1>2. CASE StoreProc(r)
  BY <1>2, <1>g, ZenonT(40) DEF StoreProc, SuperviseTypeOK, LoopStates
<1>3. CASE StartProcess(r)
  <2>1. tries[r] \in 0 .. MaxRetries + 1 /\ tries[r] # MaxRetries + 1
    BY <1>3 DEF StartProcess, SuperviseTypeOK, RunnerOK
  <2>2. tries[r] + 1 \in 0 .. MaxRetries + 1
    BY <1>0, <2>1
  <2>3. tries' \in [Runners -> 0 .. MaxRetries + 1]
    BY <1>3, <2>2 DEF StartProcess, SuperviseTypeOK
  <2> QED
    BY <1>3, <1>f, <1>g, <2>3 DEF StartProcess, SuperviseTypeOK, LoopStates
<1>4. CASE Fork(r)
  <2>1. <<r, tries[r]>> \in Runners \X Tries
    BY <1>0, <1>4 DEF Fork, SuperviseTypeOK, RunnerOK, Tries
  <2> QED
    BY <1>4, <1>f, <1>g, <2>1 DEF Fork, SuperviseTypeOK, LoopStates
<1>5. CASE RunOnceReturns(r) \/ BackOff(r)
  BY <1>5, <1>f, <1>g DEF RunOnceReturns, BackOff, SuperviseTypeOK, LoopStates
<1> QED
  BY <1>1, <1>2, <1>3, <1>4, <1>5, ZenonT(40) DEF Supervise

\* The other runners are left alone; what is stored or sent stays.
LEMMA SuperviseOthers ==
  ASSUME SuperviseTypeOK, NEW r \in Runners, Supervise(r)
  PROVE  /\ component \subseteq component' /\ cancel \subseteq cancel' /\ errCh \subseteq errCh'
         /\ \A q \in Runners \ {r} : loop'[q] = loop[q] /\ tries'[q] = tries[q] /\ proc'[q] = proc[q]
<1>1. \A q \in Runners \ {r} : loop'[q] = loop[q]
  <2>1. \E state : loop' = [loop EXCEPT ![r] = state]
    BY FailsCases, ZenonT(40) DEF Supervise, MakeComponent, StoreCancel, StartProcess, Fork, StoreProc,
       Wait, RunOnceReturns, BackOff, Goto
  <2> QED
    BY <2>1 DEF SuperviseTypeOK
<1>2. errCh \subseteq errCh'
  <2>1. CASE Returns(r) \/ Fails(r)
    BY <2>1, FailsCases
  <2>2. CASE UNCHANGED errCh
    BY <2>2
  <2> QED
    BY <2>1, <2>2, ZenonT(40) DEF Supervise, MakeComponent, StoreCancel, StartProcess, Fork, StoreProc,
       Wait, RunOnceReturns, BackOff
<1>3. component \subseteq component' /\ cancel \subseteq cancel'
  BY DEF Supervise, MakeComponent, StoreCancel, StartProcess, Fork, StoreProc, Wait, RunOnceReturns, BackOff
<1>4. \A q \in Runners \ {r} : tries'[q] = tries[q] /\ proc'[q] = proc[q]
  <2>1. tries' = tries \/ tries' = [tries EXCEPT ![r] = @ + 1]
    BY ZenonT(40) DEF Supervise, MakeComponent, StoreCancel, StartProcess, Fork, StoreProc, Wait,
       RunOnceReturns, BackOff
  <2>2. proc' = proc \/ proc' = [proc EXCEPT ![r] = tries[r]]
    BY ZenonT(40) DEF Supervise, MakeComponent, StoreCancel, StartProcess, Fork, StoreProc, Wait,
       RunOnceReturns, BackOff
  <2> QED
    BY <2>1, <2>2 DEF SuperviseTypeOK
<1> QED
  BY <1>1, <1>2, <1>3, <1>4

\* The runner itself stays as its place in the loop says.
LEMMA SuperviseOwn ==
  ASSUME SuperviseTypeOK, NEW r \in Runners, RunnerOK(r), Supervise(r)
  PROVE  RunnerOK(r)'
<1>0. MaxRetries \in Nat /\ UNCHANGED <<ctxDone, main>>
  BY WorkerAssumption, SuperviseFrame
<1>t. /\ r \in DOMAIN loop /\ r \in DOMAIN tries /\ r \in DOMAIN proc
      /\ tries[r] \in Nat
  BY WorkerAssumption DEF SuperviseTypeOK
<1>g. \A state : Goto(r, state) => loop'[r] = state
  BY <1>t DEF Goto
<1>f. ASSUME Returns(r) \/ Fails(r)
      PROVE  \/ loop'[r] = "backoff" /\ tries'[r] < MaxRetries + 1
             \/ loop'[r] = "returned" /\ (r \in Reporting => r \in errCh')
  BY <1>f, <1>t, FailsCases
<1>r. ASSUME Returns(r) PROVE loop'[r] = "returned" /\ (r \in Reporting => r \in errCh')
  BY <1>r, <1>g DEF Returns
<1>1. CASE MakeComponent(r)
  <2>1. loop[r] = "new" /\ loop'[r] = "made" /\ r \in component' /\ UNCHANGED <<cancel, tries, proc>>
    BY <1>1, <1>g DEF MakeComponent
  <2> QED
    BY <1>0, <2>1 DEF RunnerOK
<1>2. CASE StoreCancel(r)
  <2>1. loop[r] = "made" /\ loop'[r] = "start" /\ r \in cancel' /\ UNCHANGED <<component, tries, proc>>
    BY <1>2, <1>g DEF StoreCancel
  <2> QED
    BY <1>0, <2>1 DEF RunnerOK
<1>3. CASE StartProcess(r)
  <2>1. /\ loop[r] = "start" /\ tries'[r] = tries[r] + 1 /\ UNCHANGED <<component, cancel, proc>>
        /\ \/ loop'[r] = "fork"
           \/ loop'[r] = "backoff" /\ tries'[r] < MaxRetries + 1
           \/ loop'[r] = "returned" /\ (r \in Reporting => r \in errCh')
    BY <1>3, <1>g, <1>f, <1>t DEF StartProcess
  <2>2. tries'[r] # 0 /\ (tries'[r] < MaxRetries + 1 => tries'[r] # MaxRetries + 1)
    BY <1>0, <1>t, <2>1
  <2> QED
    BY <1>0, <2>1, <2>2 DEF RunnerOK
<1>4. CASE Fork(r) \/ RunOnceReturns(r)
  <2>1. /\ loop[r] \in {"fork", "exited"} /\ UNCHANGED <<component, cancel, tries, proc>>
        /\ \/ loop'[r] = "store"
           \/ loop'[r] = "backoff" /\ tries'[r] < MaxRetries + 1
           \/ loop'[r] = "returned" /\ (r \in Reporting => r \in errCh')
    BY <1>4, <1>g, <1>f DEF Fork, RunOnceReturns
  <2>2. tries'[r] < MaxRetries + 1 => tries'[r] # MaxRetries + 1
    BY <1>0, <1>t, <2>1
  <2>3. loop[r] = "exited" => loop'[r] # "store"
    BY <1>4, <1>f DEF Fork, RunOnceReturns
  <2> QED
    BY <1>0, <2>1, <2>2, <2>3, SMTT(40), SMTT(60) DEF RunnerOK
<1>5. CASE StoreProc(r)
  <2>1. loop[r] = "store" /\ loop'[r] = "wait" /\ UNCHANGED <<component, cancel, tries>>
    BY <1>5, <1>g DEF StoreProc
  <2> QED
    BY <1>0, <2>1 DEF RunnerOK
<1>6. CASE Wait(r)
  <2>1. loop[r] = "wait" /\ loop'[r] = "exited" /\ UNCHANGED <<component, cancel, tries, proc>>
    BY <1>6, <1>g DEF Wait
  <2> QED
    BY <1>0, <2>1 DEF RunnerOK
<1>7. CASE BackOff(r)
  <2>1. /\ loop[r] = "backoff" /\ UNCHANGED <<component, cancel, tries, proc>>
        /\ \/ loop'[r] = "start"
           \/ loop'[r] = "returned" /\ (r \in Reporting => r \in errCh')
    <3>1. CASE Goto(r, "start")
      BY <1>7, <1>g, <3>1 DEF BackOff
    <3>2. CASE Returns(r)
      BY <1>7, <1>r, <3>2 DEF BackOff
    <3> QED
      BY <1>7, <3>1, <3>2, ZenonT(40) DEF BackOff
  <2> QED
    BY <1>0, <2>1 DEF RunnerOK
<1> QED
  BY <1>1, <1>2, <1>3, <1>4, <1>5, <1>6, <1>7, ZenonT(40) DEF Supervise

\* A goroutine of a runner starts one process at a time and waits for it.
LEMMA SuperviseProcesses ==
  ASSUME SuperviseTypeOK, Supervised, NEW r \in Runners, Supervise(r)
  PROVE  Supervised'
<1>1. ASSUME NEW p \in alive, p[1] # r PROVE loop'[p[1]] \in {"store", "wait"} /\ p[2] = tries'[p[1]]
  <2>1. p[1] \in Runners
    BY DEF SuperviseTypeOK
  <2>2. loop'[p[1]] = loop[p[1]] /\ tries'[p[1]] = tries[p[1]]
    BY <1>1, <2>1, SuperviseOthers
  <2> QED
    BY <2>2 DEF Supervised
<1>2. ASSUME NEW p \in alive, p[1] = r PROVE p = <<r, tries[r]>> /\ loop[r] \in {"store", "wait"}
  <2>1. loop[r] \in {"store", "wait"} /\ p[2] = tries[r]
    BY <1>2 DEF Supervised
  <2>2. p = <<p[1], p[2]>>
    BY DEF SuperviseTypeOK
  <2> QED
    BY <1>2, <2>1, <2>2
<1>t. r \in DOMAIN loop
  BY DEF SuperviseTypeOK
<1>3. CASE Fork(r)
  <2>1. \A p \in alive : p[1] # r
    BY <1>2, <1>3 DEF Fork
  <2>2. CASE alive' = alive
    BY <1>1, <2>1, <2>2 DEF Supervised
  <2>3. CASE Goto(r, "store") /\ alive' = alive \cup {<<r, tries[r]>>} /\ UNCHANGED tries
    <3>1. loop'[r] = "store" /\ tries'[r] = tries[r]
      BY <1>t, <2>3 DEF Goto
    <3> QED
      BY <1>1, <2>1, <2>3, <3>1 DEF Supervised
  <2> QED
    BY <1>3, <2>2, <2>3 DEF Fork
<1>4. CASE StoreProc(r)
  <2>1. loop'[r] = "wait" /\ UNCHANGED <<alive, tries>>
    BY <1>4, <1>t DEF StoreProc, Goto
  <2> QED
    BY <1>1, <1>2, <2>1 DEF Supervised
<1>5. CASE Wait(r)
  <2>1. \A p \in alive : p[1] # r
    BY <1>2, <1>5 DEF Wait
  <2> QED
    BY <1>1, <1>5, <2>1 DEF Wait, Supervised
<1>6. CASE MakeComponent(r) \/ StoreCancel(r) \/ StartProcess(r) \/ RunOnceReturns(r) \/ BackOff(r)
  <2>1. loop[r] \notin {"store", "wait"} /\ UNCHANGED alive
    BY <1>6 DEF MakeComponent, StoreCancel, StartProcess, RunOnceReturns, BackOff
  <2> QED
    BY <1>1, <1>2, <2>1 DEF Supervised
<1> QED
  BY <1>3, <1>4, <1>5, <1>6, ZenonT(40) DEF Supervise

\* The steps of the goroutine of Run leave the runners' goroutines alone.  They end
\* processes, start none, and only TeardownCancel cancels a context.
LEMMA MainFrame ==
  ASSUME WorkerTypeOK, Notify \/ Signal \/ ReceiveError \/ Teardown
  PROVE  /\ UNCHANGED <<supervision, forwarding>>
         /\ alive' = alive \/ alive' = alive \ {Proc}
         /\ \/ errCh' = errCh
            \/ main.pc = "select" /\ main'.pc = "cancel" /\ \E r \in errCh : errCh' = errCh \ {r}
         /\ ctxDone' = ctxDone \/ ctxDone' = ctxDone \cup ({Current} \cap cancel)
         /\ \/ stopping' = stopping
            \/ main.pc = "lock" /\ stopping' = stopping \cup {Current}
<1>1. CASE ReceiveError
  <2>1. main \in [pc : MainStates, i : 1 .. Len(Order) + 1, proc : 0 .. MaxRetries + 1]
    BY DEF WorkerTypeOK
  <2>2. main'.pc = "cancel"
    BY <1>1, <2>1 DEF ReceiveError
  <2> QED
    BY <1>1, <2>2 DEF ReceiveError
<1>2. CASE Notify \/ Signal \/ TeardownCancel
  BY <1>2 DEF Notify, Signal, TeardownCancel
<1>3. CASE TeardownComponent \/ TeardownLock \/ TeardownTerm
  BY <1>3 DEF TeardownComponent, TeardownLock, TeardownTerm
<1>4. CASE TeardownPoll \/ TeardownKill
  BY <1>4 DEF TeardownPoll, TeardownKill
<1> QED
  BY <1>1, <1>2, <1>3, <1>4, ZenonT(40) DEF Teardown

\* The goroutine of Run: where it stands, and the runner it is at.
LEMMA MainTypes ==
  ASSUME WorkerTypeOK, Tearing, Notify \/ Signal \/ ReceiveError \/ Teardown
  PROVE  /\ main' \in [pc : MainStates, i : 1 .. Len(Order) + 1, proc : 0 .. MaxRetries + 1]
         /\ Tearing'
         /\ main'.pc \notin {"notify", "select"} \/ main.pc = "notify"
         /\ Current \in Runners
<1>1. /\ main \in [pc : MainStates, i : 1 .. Len(Order) + 1, proc : 0 .. MaxRetries + 1]
      /\ proc \in [Runners -> 0 .. MaxRetries + 1]
  BY DEF WorkerTypeOK
<1>2. Len(Order) \in Nat \ {0} /\ DOMAIN Order = 1 .. Len(Order) /\ MaxRetries \in Nat
  BY WorkerAssumption
<1>3. main.pc # "returned"
  BY DEF Notify, Signal, ReceiveError, Teardown, TeardownCancel, TeardownComponent, TeardownLock,
         TeardownTerm, TeardownPoll, TeardownKill
<1>4. main.i \in 1 .. Len(Order)
  BY <1>3 DEF Tearing
<1>5. Current \in Runners
  BY <1>2, <1>4 DEF Current, Runners
<1>6. proc[Current] \in 0 .. MaxRetries + 1
  BY <1>1, <1>5
<1>7. ASSUME NextOne
      PROVE  /\ main' \in [pc : MainStates, i : 1 .. Len(Order) + 1, proc : 0 .. MaxRetries + 1]
             /\ Tearing' /\ main'.pc \in {"returned", "cancel"}
  <2>1. main.i + 1 \in 1 .. Len(Order) + 1 /\ (main.i # Len(Order) => main.i + 1 \in 1 .. Len(Order))
    BY <1>2, <1>4
  <2>2. 0 \in 0 .. MaxRetries + 1
    BY <1>2
  <2>3. /\ main'.pc = (IF main.i = Len(Order) THEN "returned" ELSE "cancel")
        /\ main'.i = main.i + 1
        /\ main' \in [pc : MainStates, i : 1 .. Len(Order) + 1, proc : 0 .. MaxRetries + 1]
    BY <1>7, <2>1, <2>2 DEF NextOne, MainStates
  <2> QED
    BY <2>1, <2>3 DEF Tearing
<1>8. ASSUME NEW state \in {"select", "cancel", "component", "lock", "poll"},
             main' = [main EXCEPT !.pc = state]
      PROVE  /\ main' \in [pc : MainStates, i : 1 .. Len(Order) + 1, proc : 0 .. MaxRetries + 1]
             /\ Tearing' /\ main'.pc = state
  BY <1>1, <1>4, <1>8 DEF MainStates, Tearing
<1>9. ASSUME main' = [main EXCEPT !.pc = "term", !.proc = proc[Current]]
      PROVE  /\ main' \in [pc : MainStates, i : 1 .. Len(Order) + 1, proc : 0 .. MaxRetries + 1]
             /\ Tearing' /\ main'.pc = "term"
  BY <1>1, <1>4, <1>6, <1>9, ZenonT(40) DEF MainStates, Tearing
<1>10. CASE Notify \/ Signal \/ ReceiveError
  BY <1>5, <1>8, <1>10 DEF Notify, Signal, ReceiveError
<1>11. CASE Teardown
  BY <1>5, <1>7, <1>8, <1>9, <1>11 DEF Teardown, TeardownCancel, TeardownComponent, TeardownLock,
     TeardownTerm, TeardownPoll, TeardownKill
<1> QED
  BY <1>10, <1>11

\* WorkerInv is inductive.
LEMMA WorkerInductive == WorkerInv /\ [WorkerNext]_workerVars => WorkerInv'
<1> SUFFICES ASSUME WorkerInv, [WorkerNext]_workerVars PROVE WorkerInv'
  OBVIOUS
<1>0. WorkerTypeOK /\ SuperviseTypeOK /\ Supervised /\ Tearing /\ \A r \in Runners : RunnerOK(r)
  BY ZenonT(40) DEF WorkerInv, WorkerTypeOK, SuperviseTypeOK
<1>1. ASSUME NEW r \in Runners, Supervise(r) PROVE WorkerInv'
  <2>1. UNCHANGED <<ctxDone, stopping, forwarding, main>>
    BY <1>1, SuperviseFrame
  <2>2. SuperviseTypeOK' /\ RunnerOK(r)' /\ Supervised'
    BY <1>0, <1>1, SuperviseTypes, SuperviseOwn, SuperviseProcesses
  <2>3. ASSUME NEW q \in Runners, q # r PROVE RunnerOK(q)'
    <3>1. /\ component \subseteq component' /\ cancel \subseteq cancel' /\ errCh \subseteq errCh'
          /\ loop'[q] = loop[q] /\ tries'[q] = tries[q] /\ proc'[q] = proc[q]
      BY <1>0, <1>1, <2>3, SuperviseOthers
    <3>2. RunnerOK(q)
      BY <1>0
    <3> QED
      BY <2>1, <3>1, <3>2 DEF RunnerOK
  <2>4. WorkerTypeOK' /\ Tearing'
    BY <1>0, <2>1, <2>2, ZenonT(40) DEF WorkerTypeOK, SuperviseTypeOK, Tearing
  <2> QED
    BY <2>2, <2>3, <2>4, ZenonT(40) DEF WorkerInv
<1>2. ASSUME UNCHANGED <<supervision, ctxDone, stopping, errCh, main>>, alive' \subseteq alive,
             forwarding' \in {"serving", "blocked"}
      PROVE  WorkerInv'
  <2>1. UNCHANGED <<component, cancel, loop, tries, proc>>
    BY <1>2 DEF supervision
  <2>2. WorkerTypeOK' /\ Tearing' /\ Supervised'
    BY <1>0, <1>2, <2>1 DEF WorkerTypeOK, Tearing, Supervised
  <2>3. \A r \in Runners : RunnerOK(r)'
    BY <1>0, <1>2, <2>1 DEF RunnerOK
  <2> QED
    BY <2>2, <2>3 DEF WorkerInv
<1>3. CASE (\E r \in Runners : KillOnCancel(r)) \/ (\E p \in Runners \X Tries : ProcessEnds(p)) \/ ProxyFails
  <2>1. /\ UNCHANGED <<supervision, ctxDone, stopping, errCh, main>>
        /\ alive' = alive \/ \E p : alive' = alive \ {p}
        /\ forwarding' = forwarding \/ forwarding' = "blocked"
    BY <1>3, ZenonT(40) DEF KillOnCancel, ProcessEnds, ProxyFails
  <2>2. alive' \subseteq alive
    BY <2>1
  <2>3. forwarding' \in {"serving", "blocked"}
    BY <1>0, <2>1 DEF WorkerTypeOK
  <2> QED
    BY <1>2, <2>1, <2>2, <2>3
<1>4. CASE Notify \/ Signal \/ ReceiveError \/ Teardown
  <2>1. UNCHANGED <<component, cancel, loop, tries, proc, forwarding>>
    BY <1>4, <1>0, MainFrame DEF supervision
  <2>2. alive' \subseteq alive /\ ctxDone' \subseteq ctxDone \cup ({Current} \cap cancel)
    BY <1>0, <1>4, MainFrame
  <2>3. /\ main' \in [pc : MainStates, i : 1 .. Len(Order) + 1, proc : 0 .. MaxRetries + 1]
        /\ Tearing' /\ Current \in Runners
        /\ main'.pc \notin {"notify", "select"} \/ main.pc = "notify"
    BY <1>0, <1>4, MainTypes
  <2>4. \/ errCh' = errCh
        \/ main.pc = "select" /\ main'.pc = "cancel" /\ errCh' \subseteq errCh
    BY <1>0, <1>4, MainFrame
  <2>5. stopping' \subseteq stopping \cup {Current}
    BY <1>0, <1>4, MainFrame
  <2>6. WorkerTypeOK' /\ Supervised'
    BY <1>0, <2>1, <2>2, <2>3, <2>4, <2>5 DEF WorkerTypeOK, Supervised
  <2>7. ASSUME NEW r \in Runners PROVE RunnerOK(r)'
    <3>1. RunnerOK(r)
      BY <1>0
    <3> QED
      BY <2>1, <2>2, <2>3, <2>4, <3>1 DEF RunnerOK
  <2> QED
    BY <2>3, <2>6, <2>7 DEF WorkerInv
<1>5. CASE UNCHANGED workerVars
  <2>1. UNCHANGED <<supervision, ctxDone, stopping, errCh, main>> /\ UNCHANGED <<alive, forwarding>>
    BY <1>5, ZenonT(40) DEF workerVars
  <2>2. forwarding' \in {"serving", "blocked"}
    BY <1>0, <2>1 DEF WorkerTypeOK
  <2> QED
    BY <1>2, <2>1, <2>2
<1> QED
  BY <1>1, <1>3, <1>4, <1>5, ZenonT(40) DEF WorkerNext

\* The invariant of the supervision.
LEMMA WorkerInvariance == WorkerSpec => []WorkerInv
  BY WorkerInitInv, WorkerInductive, PTL DEF WorkerSpec

\* The fields that the runners' goroutines and Teardown share without a lock keep
\* their types, and Teardown is always at a runner of the slice.
THEOREM SupervisionTypes == WorkerSpec => [](WorkerTypeOK /\ Tearing)
<1>1. WorkerInv => WorkerTypeOK /\ Tearing
  BY DEF WorkerInv
<1> QED
  BY <1>1, WorkerInvariance, PTL

\* No process escapes its supervisor: whatever attempts fail, exit or are cut short
\* by Teardown, a process that is alive is the one of the latest attempt of its
\* runner, whose goroutine is about to wait for it or waits.  In particular a
\* restart never leaves a second containerd or kubelet.
THEOREM ProcessesSupervised ==
  WorkerSpec => [](Supervised /\ \A p, q \in alive : p[1] = q[1] => p = q)
<1>1. WorkerInv => Supervised /\ \A p, q \in alive : p[1] = q[1] => p = q
  <2> SUFFICES ASSUME WorkerInv, NEW p \in alive, NEW q \in alive, p[1] = q[1] PROVE p = q
    BY DEF WorkerInv
  <2>1. p = <<p[1], p[2]>> /\ q = <<q[1], q[2]>>
    BY DEF WorkerInv, WorkerTypeOK
  <2>2. p[2] = tries[p[1]] /\ q[2] = tries[q[1]]
    BY DEF WorkerInv, Supervised
  <2> QED
    BY <2>1, <2>2
<1> QED
  BY <1>1, WorkerInvariance, PTL

\* The error with which a component gives up is not lost: it stays in the channel
\* until Run has left its select, also when Run has not reached it yet.
THEOREM ErrorsReachRun ==
  WorkerSpec => [](\A r \in Reporting : loop[r] = "returned" =>
                      r \in errCh \/ main.pc \notin {"notify", "select"})
<1>1. WorkerInv => \A r \in Reporting : loop[r] = "returned" =>
                      r \in errCh \/ main.pc \notin {"notify", "select"}
  BY WorkerAssumption DEF WorkerInv, RunnerOK
<1> QED
  BY <1>1, WorkerInvariance, PTL

\* Teardown cancels the context of every runner that has had a process, although it
\* reads the cancel function without a lock: proc is stored after it.
THEOREM TeardownCancels ==
  WorkerSpec => [][\A r \in Runners :
      (main.pc = "cancel" /\ Current = r /\ proc[r] # 0 /\ main'.pc # "cancel") => r \in ctxDone']_workerVars
<1>1. WorkerInv /\ [WorkerNext]_workerVars =>
        [\A r \in Runners : (main.pc = "cancel" /\ Current = r /\ proc[r] # 0 /\ main'.pc # "cancel")
            => r \in ctxDone']_workerVars
  <2> SUFFICES ASSUME WorkerInv, WorkerNext, NEW r \in Runners, main.pc = "cancel", Current = r,
                      proc[r] # 0, main'.pc # "cancel"
               PROVE  r \in ctxDone'
    BY ZenonT(40)
  <2>1. r \in cancel
    BY DEF WorkerInv, RunnerOK
  <2>2. main' # main
    OBVIOUS
  <2>3. ASSUME NEW q \in Runners, Supervise(q) PROVE FALSE
    BY <2>2, <2>3, SuperviseFrame
  <2>4. ~ (\E q \in Runners : KillOnCancel(q)) /\ ~ (\E p \in Runners \X Tries : ProcessEnds(p)) /\ ~ ProxyFails
    BY <2>2, ZenonT(40) DEF KillOnCancel, ProcessEnds, ProxyFails
  <2>5. ~ Notify /\ ~ Signal /\ ~ ReceiveError
    BY DEF Notify, Signal, ReceiveError
  <2>6. Teardown
    BY <2>3, <2>4, <2>5, ZenonT(40) DEF WorkerNext
  <2>7. TeardownCancel
    BY <2>6 DEF Teardown, TeardownComponent, TeardownLock, TeardownTerm, TeardownPoll, TeardownKill
  <2> QED
    BY <2>1, <2>7 DEF TeardownCancel
<1> QED
  BY <1>1, WorkerInvariance, PTL DEF WorkerSpec

\* The context of r is done, no start is under way and no process is left.
Stopped(r) == r \in ctxDone /\ loop[r] # "fork" /\ \A a \in Tries : <<r, a>> \notin alive

\* "Intentional stop - do not retry": a runner whose context is done and that has
\* no process left never has one again, however many attempts it has left.
THEOREM StoppedForGood == ASSUME NEW r \in Runners PROVE WorkerSpec => [](Stopped(r) => []Stopped(r))
<1>1. WorkerInv /\ Stopped(r) /\ [WorkerNext]_workerVars => Stopped(r)'
  <2> SUFFICES ASSUME WorkerInv, Stopped(r), [WorkerNext]_workerVars PROVE Stopped(r)'
    OBVIOUS
  <2>0. SuperviseTypeOK /\ WorkerTypeOK
    BY ZenonT(40) DEF WorkerInv, WorkerTypeOK, SuperviseTypeOK
  <2>1. ASSUME ctxDone \subseteq ctxDone', loop'[r] = loop[r] \/ loop'[r] # "fork", alive' \subseteq alive
        PROVE  Stopped(r)'
    BY <2>1 DEF Stopped
  <2>2. ASSUME NEW q \in Runners, q # r, Supervise(q) PROVE Stopped(r)'
    <3>1. loop'[r] = loop[r] /\ UNCHANGED ctxDone
      BY <2>0, <2>2, SuperviseOthers, SuperviseFrame
    <3>2. alive' = alive \/ alive' = alive \cup {<<q, tries[q]>>}
      BY <2>2, ZenonT(40) DEF Supervise, MakeComponent, StoreCancel, StartProcess, Fork, StoreProc, Wait,
         RunOnceReturns, BackOff
    <3> QED
      BY <2>2, <3>1, <3>2 DEF Stopped
  <2>3. CASE Supervise(r)
    <3>1. UNCHANGED ctxDone /\ loop[r] # "fork" /\ r \in ctxDone
      BY <2>3, SuperviseFrame DEF Stopped
    <3>2. ~ Fork(r)
      BY <3>1 DEF Fork
    <3>3. UNCHANGED alive
      BY <2>3, <3>2, ZenonT(40) DEF Supervise, MakeComponent, StoreCancel, StartProcess, StoreProc, Wait,
         RunOnceReturns, BackOff
    <3>4. r \in DOMAIN loop
      BY <2>0 DEF SuperviseTypeOK
    <3>5. \A state : Goto(r, state) => loop'[r] = state
      BY <3>4 DEF Goto
    <3>6. Returns(r) \/ Fails(r) => loop'[r] \in {"backoff", "returned"}
      BY <3>5, ZenonT(40) DEF Returns, Fails
    <3>7. loop'[r] # "fork"
      BY <2>3, <3>1, <3>2, <3>5, <3>6, ZenonT(40)
         DEF Supervise, MakeComponent, StoreCancel, StartProcess, StoreProc, Wait, RunOnceReturns, BackOff
    <3> QED
      BY <2>1, <3>1, <3>3, <3>7
  <2>4. CASE (\E q \in Runners : KillOnCancel(q)) \/ (\E p \in Runners \X Tries : ProcessEnds(p)) \/ ProxyFails
    <3>1. UNCHANGED <<loop, ctxDone>> /\ (alive' = alive \/ \E p : alive' = alive \ {p})
      BY <2>4, ZenonT(40) DEF KillOnCancel, ProcessEnds, ProxyFails, supervision
    <3> QED
      BY <2>1, <3>1
  <2>5. CASE Notify \/ Signal \/ ReceiveError \/ Teardown
    <3>1. UNCHANGED loop /\ ctxDone \subseteq ctxDone' /\ alive' \subseteq alive
      BY <2>0, <2>5, MainFrame DEF supervision
    <3> QED
      BY <2>1, <3>1
  <2>6. CASE UNCHANGED workerVars
    <3>1. UNCHANGED <<loop, ctxDone, alive>>
      BY <2>6 DEF workerVars, supervision
    <3> QED
      BY <2>1, <3>1
  <2> QED
    BY <2>2, <2>3, <2>4, <2>5, <2>6, ZenonT(40) DEF WorkerNext
<1> QED
  BY <1>1, WorkerInvariance, PTL DEF WorkerSpec
=============================================================================
