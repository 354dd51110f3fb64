----------------------------- MODULE Bootstrap -----------------------------
(***************************************************************************)
(* How a machine becomes a worker node (pkg/provision/worker): the join    *)
(* command installs the node, systemd starts the worker and restarts it    *)
(* for ever, and each start resolves the API server, bootstraps the        *)
(* kubelet's certificate, fetches the node profile and sets the components *)
(* up.  Everything a later start relies on is in files.                    *)
(*                                                                         *)
(* Both programs may be killed between any two steps.  A file is written   *)
(* under its final name, so that a crash can leave it torn; the kubelet's  *)
(* certificate store alone replaces its files atomically.  Every token is  *)
(* one of the same tenant cluster.                                         *)
(***************************************************************************)
EXTENDS Naturals, FiniteSets

CONSTANTS Hosts,      \* addresses the API server may be reached at
          Keys,       \* private keys, numbered in the order they are generated
          Attempts,   \* attempts of a retry loop
          MaxJoins, MaxFaults, MaxMoves

ASSUME BootstrapAssumption ==
    /\ Keys \subseteq Nat \ {0}
    /\ Attempts \in Nat \ {0} /\ MaxJoins \in Nat /\ MaxFaults \in Nat /\ MaxMoves \in Nat

\* "self" is the installed heir binary, "key" the temporary private key,
\* "binaries" those of containerd, the kubelet and the CNI plugins.
Files == {"bootstrap", "ca", "self", "key", "kubeconfig", "profile", "binaries"}

VARIABLES
    disk,     \* file -> absent, torn or whole
    server,   \* the API server named by the bootstrap kubeconfig
    cached,   \* the API server named by the profile
    keyFile,  \* the latest key written to the temporary file
    store,    \* the key of the certificate in the store, 0 if there is none
    csrs,     \* key -> its certificate signing request in the API server
    enabled,  \* systemd runs the unit
    serving,  \* where the API server is reached now
    valid,    \* the bootstrap token has not expired
    join,     \* where the join command stands
    worker,   \* where the worker stands
    key,      \* the key this attempt uses
    attempt,  \* attempts of the current retry loop
    proxied,  \* where the local proxy connects to
    joins, faults, moves

cluster == <<csrs, serving, valid>>
budget  == <<joins, faults, moves>>
local   == <<key, attempt, proxied>>
saved   == <<disk, server, cached, keyFile, store>>
nodeVars    == <<saved, cluster, enabled, join, worker, local, budget>>

JoinStates   == {"idle", "bootstrap", "ca", "write ca", "self", "write self", "unit"}
WorkerStates == {"down", "resolve", "bootstrap", "load", "write key", "request", "await", "update",
                 "remove", "kubeconfig", "write kubeconfig", "profile", "save", "write profile",
                 "agent", "setup", "write binaries", "running"}

NodeTypeOK ==
    /\ disk \in [Files -> {"absent", "torn", "whole"}]
    /\ server \in Hosts /\ cached \in Hosts /\ serving \in Hosts /\ proxied \in Hosts
    /\ keyFile \in Keys \cup {0} /\ store \in Keys \cup {0} /\ key \in Keys \cup {0}
    /\ csrs \in [Keys -> {"none", "pending", "issued"}]
    /\ enabled \in BOOLEAN /\ valid \in BOOLEAN
    /\ join \in JoinStates /\ worker \in WorkerStates
    /\ attempt \in 0 .. Attempts
    /\ joins \in 0 .. MaxJoins /\ faults \in 0 .. MaxFaults /\ moves \in 0 .. MaxMoves

NodeInit ==
    /\ disk = [f \in Files |-> "absent"]
    /\ serving \in Hosts /\ server = serving /\ cached = serving /\ proxied = serving
    /\ keyFile = 0 /\ store = 0 /\ key = 0
    /\ csrs = [k \in Keys |-> "none"]
    /\ enabled = FALSE /\ valid = FALSE
    /\ join = "idle" /\ worker = "down"
    /\ attempt = 0 /\ joins = 0 /\ faults = 0 /\ moves = 0

Torn(f)  == disk' = [disk EXCEPT ![f] = "torn"]
Whole(f) == disk' = [disk EXCEPT ![f] = "whole"]
-----------------------------------------------------------------------------
(* Join. *)

JoinStep(from, to) == join = from /\ join' = to /\ UNCHANGED <<worker, local, faults, moves, cached,
                                                               keyFile, store, csrs, serving>>

\* SaveBootstrapKubeconfig writes the kubeconfig of the token, then its CA.
JoinStart ==
    /\ joins < MaxJoins
    /\ JoinStep("idle", "bootstrap")
    /\ joins' = joins + 1
    /\ Torn("bootstrap")
    /\ UNCHANGED <<server, valid, enabled>>
SaveBootstrap ==
    /\ JoinStep("bootstrap", "ca")
    /\ Whole("bootstrap") /\ server' = serving /\ valid' = TRUE
    /\ UNCHANGED <<joins, enabled>>
OpenCA  == JoinStep("ca", "write ca") /\ Torn("ca") /\ UNCHANGED <<server, valid, joins, enabled>>
WriteCA == JoinStep("write ca", "self") /\ Whole("ca") /\ UNCHANGED <<server, valid, joins, enabled>>

\* installSelf leaves a file that exists alone.
OpenSelf ==
    /\ disk["self"] = "absent"
    /\ JoinStep("self", "write self") /\ Torn("self")
    /\ UNCHANGED <<server, valid, joins, enabled>>
WriteSelf == JoinStep("write self", "unit") /\ Whole("self") /\ UNCHANGED <<server, valid, joins, enabled>>
SkipSelf ==
    /\ disk["self"] # "absent"
    /\ JoinStep("self", "unit")
    /\ UNCHANGED <<disk, server, valid, joins, enabled>>

\* installSystemdUnit: the unit is written, enabled and started.
StartUnit ==
    /\ JoinStep("unit", "idle")
    /\ enabled' = TRUE
    /\ UNCHANGED <<disk, server, valid, joins>>

JoinProgress ==
    \/ SaveBootstrap \/ OpenCA \/ WriteCA \/ OpenSelf \/ WriteSelf \/ SkipSelf \/ StartUnit
-----------------------------------------------------------------------------
(* Start-up of the worker. *)

Step(from, to) == worker = from /\ worker' = to /\ UNCHANGED <<enabled, join, valid, serving, server, budget>>

\* Run returns an error, and systemd starts the worker again.
Exit(from) ==
    Step(from, "down") /\ UNCHANGED <<disk, cached, keyFile, store, csrs, local>>

\* An attempt of a retry loop fails: try again, or give up after the last.
AttemptFails(from, again) ==
    \/ /\ attempt < Attempts
       /\ Step(from, again)
       /\ attempt' = attempt + 1
       /\ UNCHANGED <<disk, cached, keyFile, store, csrs, key, proxied>>
    \/ attempt = Attempts /\ Exit(from)

StartWorker ==
    /\ enabled /\ disk["self"] = "whole"
    /\ Step("down", "resolve")
    /\ UNCHANGED <<disk, cached, keyFile, store, csrs, local>>

\* resolveInitialAPIServerEndpoints: the cached profile, the bootstrap kubeconfig
\* if there is none.  A file that does not parse is an error; an empty kubeconfig
\* parses, yields no endpoint and ends the worker one step later.
Resolve ==
    /\ \/ disk["profile"] = "whole" /\ proxied' = cached
       \/ disk["profile"] = "absent" /\ disk["bootstrap"] = "whole" /\ proxied' = server
    /\ Step("resolve", "bootstrap")
    /\ UNCHANGED <<disk, cached, keyFile, store, csrs, key, attempt>>
ResolveFails ==
    /\ disk["profile"] = "torn" \/ (disk["profile"] = "absent" /\ disk["bootstrap"] # "whole")
    /\ Exit("resolve")

\* BootstrapKubeletClientConfig: a kubelet kubeconfig that exists is trusted.  The
\* worker command passes no token, so that Join must have left a bootstrap one.
BootstrapKubelet ==
    /\ \/ disk["kubeconfig"] # "absent" /\ Step("bootstrap", "profile")
       \/ /\ disk["kubeconfig"] = "absent" /\ disk["bootstrap"] # "absent"
          /\ Step("bootstrap", "load")
    /\ attempt' = 1
    /\ UNCHANGED <<disk, cached, keyFile, store, csrs, key, proxied>>

\* verifyKeyData of what the store holds.  Its files are replaced atomically: a key
\* that is there parses.
StoredKey == store # 0

\* Faulty variant: a key is always generated, the one on disk is not reused.
LoadFreshKey ==
    /\ disk["bootstrap"] = "whole" /\ Step("load", "write key") /\ Torn("key")
    /\ UNCHANGED <<cached, keyFile, store, csrs, local>>

\* Faulty variant: a private key file that does not parse is an error.
LoadStrictly ==
    \/ disk["bootstrap"] = "torn" /\ AttemptFails("load", "load")
    \/ disk["bootstrap"] = "whole" /\ store = 0 /\ disk["key"] = "torn" /\ AttemptFails("load", "load")
    \/ /\ disk["bootstrap"] = "whole" /\ (store # 0 \/ disk["key"] = "whole")
       /\ Step("load", "request")
       /\ key' = IF store # 0 THEN store ELSE keyFile
       /\ UNCHANGED <<disk, cached, keyFile, store, csrs, attempt, proxied>>
    \/ /\ disk["bootstrap"] = "whole" /\ store = 0 /\ disk["key"] = "absent"
       /\ Step("load", "write key") /\ Torn("key")
       /\ UNCHANGED <<cached, keyFile, store, csrs, local>>

\* LoadClientCert: the key is the one in the store, else the one in the temporary
\* file, else a new one.
Load ==
    \/ disk["bootstrap"] = "torn" /\ AttemptFails("load", "load")
    \/ /\ disk["bootstrap"] = "whole" /\ (StoredKey \/ disk["key"] = "whole")
       /\ Step("load", "request")
       /\ key' = IF StoredKey THEN store ELSE keyFile
       /\ UNCHANGED <<disk, cached, keyFile, store, csrs, attempt, proxied>>
    \/ /\ disk["bootstrap"] = "whole" /\ ~StoredKey /\ disk["key"] # "whole"
       /\ Step("load", "write key") /\ Torn("key")
       /\ UNCHANGED <<cached, keyFile, store, csrs, local>>
WriteKey ==
    /\ Step("write key", "request")
    /\ keyFile + 1 \in Keys
    /\ key' = keyFile + 1 /\ keyFile' = keyFile + 1
    /\ Whole("key")
    /\ UNCHANGED <<cached, store, csrs, attempt, proxied>>

\* A call of the bootstrap client succeeds: the API server is still the one of its
\* kubeconfig and accepts its token.
Authorized == server = serving /\ valid

\* requestNodeCertificate: the name of the request is a digest of the key, so that
\* a request made before a crash is found again.
RequestNodeCertificate ==
    \/ ~Authorized /\ AttemptFails("request", "load")
    \/ /\ Authorized
       /\ Step("request", "await")
       /\ csrs' = [csrs EXCEPT ![key] = IF @ = "none" THEN "pending" ELSE @]
       /\ UNCHANGED <<disk, cached, keyFile, store, local>>
WaitForCertificate ==
    \/ ~Authorized /\ AttemptFails("await", "load")
    \/ /\ Step("await", "update")
       /\ Authorized /\ csrs[key] = "issued"
       /\ UNCHANGED <<disk, cached, keyFile, store, csrs, local>>

\* Faulty variant: an update of the store that fails is no error.
UpdateStoreUnchecked ==
    /\ Step("update", "remove")
    /\ store' \in {store, key}
    /\ UNCHANGED <<disk, cached, keyFile, csrs, local>>

UpdateStore ==
    /\ Step("update", "remove")
    /\ store' = key
    /\ UNCHANGED <<disk, cached, keyFile, csrs, local>>
RemoveKey ==
    /\ Step("remove", "kubeconfig")
    /\ disk' = [disk EXCEPT !["key"] = "absent"]
    /\ UNCHANGED <<cached, keyFile, store, csrs, local>>
OpenKubeconfig ==
    /\ Step("kubeconfig", "write kubeconfig") /\ Torn("kubeconfig")
    /\ UNCHANGED <<cached, keyFile, store, csrs, local>>
WriteKubeconfig ==
    /\ Step("write kubeconfig", "profile") /\ Whole("kubeconfig")
    /\ attempt' = 1
    /\ UNCHANGED <<cached, keyFile, store, csrs, key, proxied>>

\* ReadWorkerNodeProfile, through the local proxy.
ReadProfile ==
    \/ disk["kubeconfig"] = "torn" /\ Exit("profile")
    \/ disk["kubeconfig"] = "whole" /\ proxied # serving /\ AttemptFails("profile", "profile")
    \/ /\ disk["kubeconfig"] = "whole" /\ proxied = serving
       /\ Step("profile", "save") /\ Torn("profile")
       /\ UNCHANGED <<cached, keyFile, store, csrs, local>>
SaveProfile ==
    /\ Step("save", "agent") /\ Whole("profile")
    /\ cached' = proxied
    /\ UNCHANGED <<keyFile, store, csrs, local>>

\* agent.New reads the CA and the certificate.
NewAgent ==
    \/ disk["ca"] # "whole" /\ Exit("agent")
    \/ /\ disk["ca"] = "whole"
       /\ Step("agent", "setup")
       /\ UNCHANGED <<disk, cached, keyFile, store, csrs, local>>

\* The Setup of the components.  Files that exist are left alone, a torn binary too.
Extract ==
    /\ disk["binaries"] = "absent"
    /\ Step("setup", "write binaries") /\ Torn("binaries")
    /\ UNCHANGED <<cached, keyFile, store, csrs, local>>
SkipBinaries ==
    /\ disk["binaries"] = "whole"
    /\ Step("setup", "running")
    /\ UNCHANGED <<disk, cached, keyFile, store, csrs, local>>
\* A torn kubelet ends the worker when its component gives up.  The error of
\* containerd is only logged, and the others are not the worker's to run: Run goes on.
RunTorn ==
    /\ disk["binaries"] = "torn"
    /\ \/ Exit("setup")
       \/ Step("setup", "running") /\ UNCHANGED <<disk, cached, keyFile, store, csrs, local>>
CopyToFile ==
    /\ Step("write binaries", "setup") /\ Whole("binaries")
    /\ UNCHANGED <<cached, keyFile, store, csrs, local>>

WorkerProgress ==
    \/ StartWorker \/ Resolve \/ ResolveFails \/ BootstrapKubelet \/ Load \/ WriteKey
    \/ RequestNodeCertificate \/ WaitForCertificate \/ UpdateStore \/ RemoveKey
    \/ OpenKubeconfig \/ WriteKubeconfig \/ ReadProfile \/ SaveProfile
    \/ NewAgent \/ Extract \/ CopyToFile \/ SkipBinaries \/ RunTorn
-----------------------------------------------------------------------------
(* The environment. *)

\* The controller manager of the tenant cluster approves and signs.
Sign(k) ==
    /\ csrs[k] = "pending"
    /\ csrs' = [csrs EXCEPT ![k] = "issued"]
    /\ UNCHANGED <<saved, serving, valid, enabled, join, worker, local, budget>>

Expire ==
    /\ valid /\ valid' = FALSE
    /\ UNCHANGED <<saved, csrs, serving, enabled, join, worker, local, budget>>

Move(e) ==
    /\ moves < MaxMoves /\ e # serving
    /\ serving' = e /\ moves' = moves + 1
    /\ UNCHANGED <<saved, csrs, valid, enabled, join, worker, local, joins, faults>>

\* A program is killed, or one of its calls or writes fails.
Crash ==
    /\ faults < MaxFaults
    /\ faults' = faults + 1
    /\ \/ worker # "down" /\ worker' = "down" /\ key' = 0 /\ UNCHANGED join
       \/ join # "idle" /\ join' = "idle" /\ UNCHANGED <<worker, key>>
    /\ UNCHANGED <<saved, cluster, enabled, attempt, proxied, joins, moves>>
-----------------------------------------------------------------------------
NodeNext ==
    \/ JoinStart \/ JoinProgress \/ WorkerProgress
    \/ (\E k \in Keys : Sign(k)) \/ Expire \/ (\E e \in Hosts : Move(e)) \/ Crash

NodeSpec == NodeInit /\ [][NodeNext]_nodeVars

(***************************************************************************)
(* Fairness: the programs run, systemd restarts the worker                 *)
(* (Restart=always) and requests get signed.  Nobody has to join, and      *)
(* faults are finitely many.                                               *)
(***************************************************************************)
NodeFairness ==
    /\ WF_nodeVars(JoinProgress) /\ WF_nodeVars(WorkerProgress)
    /\ \A k \in Keys : WF_nodeVars(Sign(k))

FairNode == NodeSpec /\ NodeFairness
-----------------------------------------------------------------------------
\* "private key is reused on next startup if CSR request fails": whatever crashes
\* happen, the node never leaves a second certificate request in the cluster.
OneRequest == Cardinality({k \in Keys : csrs[k] # "none"}) =< 1

\* A kubelet kubeconfig that exists, which every later start trusts, leads to a
\* certificate that was issued for the key next to it.
KubeconfigHasCertificate ==
    disk["kubeconfig"] # "absent" => store # 0 /\ csrs[store] = "issued"

\* What keeps the worker from coming up although it is restarted for ever.  A
\* join with a fresh token repairs the first group; nothing repairs the second.
NeedsJoin ==
    \/ disk["ca"] # "whole"
    \/ disk["profile"] = "absent" /\ (disk["bootstrap"] # "whole" \/ server # serving)
    \/ disk["kubeconfig"] = "absent" /\ (disk["bootstrap"] # "whole" \/ ~Authorized)
Stranded ==
    \/ \E f \in {"self", "kubeconfig", "profile", "binaries"} : disk[f] = "torn"
    \/ disk["profile"] = "whole" /\ cached # serving

\* A node whose unit is installed comes up after any crashes of the join command
\* and of the worker, unless a crash tore a file that is never rewritten, the API
\* server has moved since the profile was cached, or a new token is needed.
NodeComesUp ==
    enabled ~> (worker = "running" \/ (worker = "down" /\ (NeedsJoin \/ Stranded)))
=============================================================================
