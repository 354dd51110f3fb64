# Verification of heir

TLA+ models of heir, a Kubernetes distribution that runs the control planes of
tenant clusters as pods of a management cluster, with the TLC configurations that
check them on small instances and TLAPS proofs that hold for all of them.
`PROJECT.json` is the index: components, runs, the map from definitions to source
lines, hazards, findings and theorems.

## The system

* **Operator** (`cmd/main.go`, `internal/controller/controlplane`). Reconciles a
  `Runtime` into the objects of a tenant control plane: the PKI Secret, kubeconfigs,
  Services, Deployments.
* **Plane tunnel** (`pkg/tunnel`). Workers are not reachable from the management
  cluster. The *agent* of a worker dials every replica of the *tunnel server*; each
  replica keeps the tunnels per node in its *broker*; the *egress selector* of the
  replica splices the API server's CONNECT requests into them.
* **Cluster agent** (`cmd/clusteragent`, `internal/controller/clusteragent`,
  `pkg/clusteragent`). Runs against the tenant's API server: installs CRDs, keeps the
  endpoints, mints join tokens, runs Helm charts as Jobs, approves kubelet CSRs,
  applies addons.
* **Worker** (`pkg/provision/worker`). Bootstraps its TLS identity, proxies the API
  servers, supervises containerd and kubelet.
* **Master agent** (`pkg/masteragent`). Readiness of the control plane pod.
* **CLI** (`cmd/distro.go`, `pkg/provision`, `pkg/cmd`). Provisions and deletes
  Runtimes, lists, issues tokens.

They interact through the API servers: the CLI writes a Runtime, the operator turns
it into the pods of the control plane, tunnel server and cluster agent; a join token
lets a worker in; its tunnel agent then serves the API server's calls to the kubelet.

## Modules

| Module | Models | State and actions |
|---|---|---|
| `TunnelAgent` | `pkg/tunnel/agent/agent.go`, with the identity upstream of `pkg/tunnel/server/server.go` as environment | `connState` (tracker, target, the channel as the number of ids in it), where the manager stands in `connectionManager` / `establishNewConnection` / `refreshTarget`, who owns each tunnel. One action per critical section, channel operation and network call; replicas start and stop, DNS lags, tunnels break, ctx is cancelled. |
| `Broker` | `pkg/tunnel/server/tunnel.go`, `broker/broker.go` | `nodes` as sequences (swap-removal is order sensitive), the round-robin cursor with its width, sockets and sessions. Handler and serve goroutines step between their lock sections. |
| `EgressSelector` | `egress_selector.go`, composed with `Broker` | each request through hijack, `Pick`, the stream, the reply and the two copies of `splice`. |
| `TunnelDirectory` | what a tunnel server replica promises the API server | abstract: the live tunnels of each node, what each request asked for and was given. `EgressSelector` implements it. |
| `JoinToken` | `workerjointoken_controller.go`, `pkg/token/create.go` | the object, the published Secret and their caches, the tokens accepted by the API server, the pending API call. One action per API call. |
| `RuntimeController` | `runtime_controller.go`, the decisions of `pkg/runtime/pki_auth.go` | the Runtime, its objects and their caches, the step of the pass (`Order`). `CreateOrUpdate` models conflict and AlreadyExists. |
| `TunnelRollout` | `RuntimeController` with the pods of the plane tunnel | adds when pods start and which certificate they load. |
| `HelmChart` | `helmchart_controller.go`, `pkg/runtime/helmchart.go` | the chart, the two Jobs and their caches, RBAC, the release. The command of a Job is its effect on the release. |
| `ProxyManager` | `pkg/provision/worker/proxy` | the registry of upstreams, downstreams and handles, the objects themselves (an entry may be replaced under its name), the goroutines inside `Link`, `RemoveDownstream` and `Close`, clients that connect and are forwarded endpoint by endpoint. |
| `Bootstrap` | `worker.go` up to the components, `join.go`, `tls_bootstrap.go`, `node_profile.go`, `decompress.go` | each file as absent, torn or whole, the key in the temporary file and in the certificate store, the requests in the cluster, where the join command and the worker stand. One action per file written, call made or attempt failed; a crash between any two. |
| `Worker` | `worker.go` from the components on, `containerd_linux.go`, `kubelet.go`, `procmgr` | per runner the fields `component`, `cancel`, `proc`, `stopping`, its goroutine and its processes; the goroutine of `Run` through signal, error and teardown. |
| `ClusterAgent` | `cmd/clusteragent/app.go`, `crds.go` | the pods of a rolling Deployment, one per generation of the Runtime, each from its CRDs to the manager; who is elected. |
| `EndpointSync`, `Addons`, `CSRApprover` | `k8s_endpoint.go`; `addons.go` and the charts of `pkg/runtime/component/addons.go`; `csr_controller.go` | each extends `ClusterAgent` by one activity of its pods: the tick that resolves, lists and writes the EndpointSlice; the pass over the addon charts with its lagging cache; the approver with the kubelet that requests, gives up and asks again. |
| `MC*` | | lists and functions for TLC; `MCWorkerNode` and `MCClusterAgent` put parts that share no state of their own into one run: the node before and after its components start; the four activities of the cluster agent, the join token controller among them. |
| `*Proofs` | | inductive invariants, lemmas and theorems. |

**Caches.** The Runtime, join token and chart controllers read from informers that
lag. An object has no resourceVersion in the models; `current` names who holds the latest version, which is
all that optimistic locking tells apart and keeps the state finite. A cache that
catches up queues the object; a cache may skip intermediate versions, and may catch up
to a version its own controller wrote. A restarted process has fresh caches and
reconciles everything.

**Definitions named as faulty variants** are not part of any specification. Each is
the definition after it with a plausible bug, and shows that some property notices.

**Files.** In `Bootstrap` a file written under its final name is torn until its last
byte is written and stays so if the program dies. Only the kubelet's certificate
store replaces its files atomically.

**Refinement.** `EgressSelector` implements `TunnelDirectory` with `live` mapped to
the registered tunnels whose session is open, and `asked` and `granted` to the node
and the tunnel a request carries: slices, cursor, locks and sockets are gone,
and what is left is that a request gets a live tunnel of its node at one moment, or
is refused at a moment when there is none.

## Runs

Passing runs:

| Run | Instance | What it shows |
|---|---|---|
| `tunnel_agent` | two replicas, two tunnels | No lost wakeup although the send on a full channel is dropped; one owner per tracker entry; no leaked tunnel; no step of the agent drops a served tunnel; shutdown completes; every running replica ends up connected. |
| `tunnel_server` | two nodes, two tunnels, one request | The broker's sets are exactly the tunnels whose goroutine has not unregistered; abandoned sockets are closed; a request goes to its node, is refused only when every tunnel of the node is closed, and leaves nothing open; tunnels are unregistered before they are closed, dead ones leave, splices end; all of it implements `TunnelDirectory`. |
| `runtime` | two specs, three CAs, two generations, one fault | The controller rests only over objects in sync, converges, and never replaces a CA that is stored. |
| `helm_chart` | three generations, two faults | A chart that is Ready is installed in its generation; the teardown never runs beside an install; no running Job is deleted while its chart exists; the controller rests only over a finished chart; deletions complete. |
| `proxy` | one upstream and one downstream name with two objects each, two Links, one remover, one client | A registered downstream forwards to the upstream registered now; no call hangs; Close ends every loop. |
| `worker_node` | two hosts, four keys, two joins, three faults, one move of the API server, two attempts; two runners with one retry | A node leaves one certificate request, whatever crashes; a kubeconfig has its certificate; the node comes up unless it needs a new token, its API server has moved since the profile was cached, or a crash tore a file that is never rewritten. `Run` returns after an error or a signal; a runner that has a process when its teardown begins ends up with none for good. |
| `cluster_agent` | two generations (one with the CSR controller, whose liveness is so checked for one generation; `ApprovedIsKnown` is proved for any number), one CRD, two faults; three charts; two answers of the DNS and two changes; two addresses, two requests, two mishaps; two tokens, two failures | After the pass of the latest generation the charts are its own, but for those it met while they were being deleted and those its cache had not heard of; the endpoints end up those of the latest generation; a kubelet gets a serving certificate for its addresses, and none for an address the Node never had. Recorded and replaced join tokens are revoked, the published one is not; the join token controller rests only over an object that is gone, or whose token is the published one and is accepted until the condition rightly says Expired; deletions complete. |

Violation runs. Each checks one sentence of the repository against what the code does;
the full account is under "findings".

| Run | Sentence | What happens |
|---|---|---|
| `tunnel_agent_target` | "keeps exactly that many distinct connections alive" | After a scale-in before the second tunnel is registered, every dial reaches a tracked replica, the identity with the new count is discarded with the duplicate, and the agent dials for ever. |
| `join_token_revoke` | "deleting a WorkerJoinToken always revokes access" | A deletion between issuing a token and recording it leaves the token accepted until it expires. |
| `join_token_ready` | "a non-expired token and kubeconfig Secret are available" (of Ready) | The status arrives before the Secret it names; the pass in between meets AlreadyExists and writes Ready=False, and no later pass sets it back, although the token is valid and published. |
| `tunnel_rollout` | "the deployment is rolled to pick up the new certificate" | On AlreadyExists a Secret that is not stored is used; its hash rolls the pods before the stored certificate has the new SANs. |
| `helm_orphan` | "removes the release from the upstream cluster instead of orphaning it" | A deletion while the install Job runs takes the branch "Nothing was ever installed". |

### Bounds

* Two tunnel server replicas are what the target, duplicates and scaling need; the
  channel has capacity 1 (16 in the code) so that it is full after one notification;
  two attempts (4 in the code) reach both a retry and giving up.
* In the broker two tunnels exercise swap-removal and the scan of `Pick`. `RRMod` is 2
  (2^64 in the code): the cursor wraps. The number of tunnels must divide the width;
  with three tunnels the scan that crosses the wrap skips a slot, which in the code
  takes 2^64 picks.
* Two tokens give a previous and a new one. The violation runs use three and no failure.
* The Runtime controller's list of objects has one entry besides PKI Secret and
  kubeconfig; every further entry is handled by the same code, and the proof is for
  any list. Two generations and two specs give one edit; three CAs let the Secret
  be lost and generated again, and once more without being stored.
* Three generations of a chart reach a Job made stale while it is being replaced.
* In the proxy two objects per name let an entry be removed and made again while
  somebody still holds the old one; two Links contend for one downstream, and a third
  would only repeat what either does.
* On the node two joins give a token that expired and a fresh one; three faults tear a
  file, lose a key and crash the join command in one behaviour. A node that reuses its
  key generates one; the further keys are there for one that would not. Two attempts and one
  retry reach both trying again and giving up.
* Two generations of the cluster agent overlap as they do during a rollout. The three
  charts are one that is dropped, one that is only ever declared by the older Runtime
  and one that becomes wanted. The approver is checked with one generation, since it
  works in the elected pod only; the proof has any number.
* `MaxFaults`, `MaxFailures`, `MaxBreaks`, `MaxMoves`, `MaxChanges` bound failed calls, crashes,
  edits, moves and failing tunnels.

The deadlock check is off for the agent, which stops when ctx is done, and for the
controllers, which rest once the bounded edits and faults are used up; that they rest
only where they may is what the `Settles...` invariants say. It is off for the proxy,
the worker and the cluster agent, which may rest as well: closed, running, or torn
beyond repair. It is on for the tunnel server.

### Fairness

* Goroutines run and calls return: weak fairness of each goroutine, or of the step of
  the pass a controller has reached. Sessions have keep-alives and write timeouts.
* A queued object is reconciled and watches deliver: weak fairness, what
  controller-runtime's queue and the informers provide. Each Job ends, by its backoff
  limit.
* `TunnelAgent`: strong fairness of the ctx case, since `select` chooses at random
  among ready cases; of reaching each running replica, since a load balancer does
  not avoid one for ever; and of an identity answer with the current DNS count.
* `EgressSelector`: the API server hangs up at some time and the kubelet once its
  input is closed. Without this a splice may rightly last for ever.
* `ProxyManager`, `Worker`: goroutines run and timers fire. No client has to hang up,
  no process to end, not even after a SIGTERM, and nobody has to send a signal.
* `Bootstrap`: the programs run, systemd restarts the worker (`Restart=always`) and
  pending requests get signed. Nobody has to join a second time.
* The cluster agent: the Deployment rolls out, containers restart, an election without
  a leader elects one, tickers fire, the kubelet reports its addresses and gives up
  waiting, old requests are removed. The fairness of each activity is stated in
  `MCClusterAgent` for the behaviours that have it. Addons have no fairness: only safety is stated.
* Nothing is assumed of faults, edits, scaling or, except in `runtime`, of the garbage
  collector.

## Proofs

`tlapm` checks every theorem for all values of the constants that satisfy the named
assumptions: any number of replicas, nodes, tunnels, requests, tokens, generations
and faults, any channel capacity above zero, any list of objects. The assumptions say
that the markers (`None`, `NoConn`...) are not members of the sets they stand beside,
that the set of replicas is finite, that the set of specs is not empty, that keys are
positive numbers, that the runners are listed in a non-empty sequence, that the DNS may
have no records and that the bounds are numbers. Each module shows that an inductive
invariant holds initially and is kept by every step (`Inductive`, or `Invariance`),
and the theorems follow from it.

Three kinds of theorems: the safety properties of the runs; the refinement; and what
the liveness properties of the runs rest on and the prover can reach, called their
safety halves below: that nothing that is over starts again, that whoever waits waits
for somebody who can move, and that a state that was reached is left alone.

* `TunnelAgentProofs`: types, `NoLostWakeup`, `OneOwnerPerReplica`, `NoLeakedTunnel`,
  `ServedTunnelsSurvive`. The strengthening is `Custody`: the manager holds at most
  the tunnel it has just dialled, whoever owns a tunnel knows its replica, and nothing
  else is open. Without it a registration could overwrite another goroutine's entry.
  Of `ShutdownCompletes`: the manager stops only when ctx is done and holds nothing
  then (`StopsOnlyWhenCancelled`), and from then on tunnels are only taken down
  (`OnlyTakenDownAfterStop`).
* `EgressSelectorProofs`: types, `RegisteredIffOwned`, `NoSocketLeak`, `RightNode`,
  `NothingLeftOpen`, `UnregisteredBeforeClosed`. Append and swap-removal are lemmas
  on sequences: they add or remove one member and keep entries distinct. `Lifecycle`
  says what a goroutine's position implies; `PickSound` that `Pick` returns an open
  registered tunnel; `RequestInv` ties a request to its tunnel's node. Of the liveness:
  a dead tunnel is never given out again (`DeadForGood`), one that left its set never
  returns (`LeftForGood`), and the copy of a splice that ended has closed what the
  other waits for (`CopiesFreeEachOther`).
* The refinement, in the same module. `GrantsImplementDirectory`: every step is a step
  of the directory or a stutter, for any width of the cursor, without the promise about
  refusals. `ReplicaImplementsDirectory` is the whole of `ImplementsDirectory`, and
  `RefusalsAreDue` is `RefusedOnlyWithoutTunnel`, under the hypothesis `InRange`: no scan
  passes the end of the cursor's width unless the number of tunnels divides the width.
  It is needed. Where a scan crosses the wrap and the number does not divide the width
  it visits one tunnel twice and may miss another, in the code once in 2^64 picks. With
  at most two tunnels for each node it always holds (`TwoTunnelsSuffice`). The argument is
  `PickComplete`: within the range the residues of k consecutive positions modulo k are
  all of them (`Residues`), so the scan meets every tunnel.
* `JoinTokenProofs`: types, `RecordedIsRevoked`, `SettlesRight`, `ReplacedIsRevoked`,
  `PublishedTokenSurvives`. `Versions` says that who holds the latest version holds
  the latest content, `AtCall` what each pending call may rely on, `AtRest` what the
  caches show when no trigger is left, `TokenGood` that the recorded token is accepted
  or has expired for as long as the Secret names it and nobody deletes the object, and
  so is the one a pass is about to record; `RestIsRight` needs it. Of `DeletionCompletes`: an object only moves
  forward, whatever stale copy is written back (`ObjectsMoveForward`). `SettledStays`: a
  token that is settled is left alone by passes, restarts and timers. So is its
  condition, right or wrong: that is `join_token_ready`.
* `RuntimeControllerProofs`: types, `SettlesInSync`, `CAPreserved`. Rest in sync is
  not inductive: what a pass has done must stay true while it goes on. `Done` says of
  each object the pass has handled that it is as it should be, unless its cache has
  still to hear of a newer version or the Runtime is queued again. Every event makes
  one of these two true (`AnotherPass`), every step extends `Done` by one object
  (`CreateOrUpdateSteps`, `SteppedKeeps`). Of `Converges`: once all is in sync and known,
  passes and new starts of the operator write nothing, not even a status
  (`InSyncStays`). It needs `Plain`: the Runtime's spec is one of `Specs`, and no object
  but the PKI Secret and the kubeconfig carries a CA.
* `HelmChartProofs`: types, `SettlesInstalled`, `ReadyMeansInstalled`,
  `OneHelmAtATime`, `RunningJobsStay`. The controller decides on caches, so the
  invariant says how far they may lag: a Job only ever goes from running to finished or
  away, so a cached finished Job is the real one or gone (`Known`); whoever takes the
  chart for deleted is right (`Ends`); once a generation is Ready nothing is left that
  would install another (`Installed`); and where no trigger is left a Job runs or all is
  done (`Triggered`). Of `DeletionCompletes`: a chart only moves forward
  (`ChartsMoveForward`). `SettledStays`: an installed chart is left alone.
* `ProxyManagerProofs`: types, `LinkedIsRegistered`, and `HandleIsOfRegistered`, which
  no run needs to check. `Naming` says of which name an object is, since objects
  outlive their registration. Of `CallsReturn` and `CloseStopsLoops`: a loop somebody waits for is over or
  can take its next step alone (`AwaitedLoopsEnd`, from `Waiting`: whoever waits for a
  loop has ended its context), and it has at most three steps left
  (`LoopsMoveForward`).
* `WorkerNodeProofs`: of `Bootstrap`, types, `OneRequest`, `KubeconfigHasCertificate`,
  for any number of crashes, joins and moves. `Found`: a key that was sent to the
  cluster is the one the next start will find, in the store or in the temporary file.
  `Holding`: so is the key the worker works with. `Issued`: what is in the store was
  issued. Of `Worker`, for any number of runners and retries: types; no process without
  the goroutine that waits for it, and never two of one runner
  (`ProcessesSupervised`); the error of a component that gives up reaches `Run`
  (`ErrorsReachRun`, of `WorkerReturns`); `Teardown` cancels every runner that has had a
  process (`TeardownCancels`), and a runner that is stopped stays so (`StoppedForGood`),
  of `StopIsFinal`. `RunnerOK` says what each goroutine has stored where it stands.
* `ClusterAgentProofs`: `AddonsSettle`, `ApprovedIsKnown`, and that no two pods work on
  the charts at once. A pass never checks the lease again; `Alone` holds since a pod
  stays elected for as long as its manager runs (`StaysElected`), and lets what a pass
  has done stay done (`Progress`). `Looked`: what the approver saw of the Node stays
  true of its history. Of the endpoints, whose writers are not elected: the slice is
  never without addresses (`SliceKeepsAddresses`, the invariant in
  `EndpointsConverge`), an update never revives a deleted slice (`UpdatesNeedSlice`), and
  the address of the latest generation stays once older pods have ended
  (`SettledStays`). `SyncOK` says what a pod's list is worth: nothing, once anybody wrote.

`AddonsSpec`, `CSRSpec` and `EndpointSpec` are the pods with one activity;
`MCClusterAgent` runs the three and the join token controller as alternatives. The types are proved and not checked by
the runs.

Only model-checked: the liveness in `ShutdownCompletes`, `EveryReplicaTracked`,
`SplicesEnd`, `DeadTunnelsLeave`, `DeletionCompletes`, `Converges`, `CallsReturn`,
`CloseStopsLoops`, `NodeComesUp`, `WorkerReturns`, `StopIsFinal`, `EndpointsConverge` and
`ServingCertificateIssued`, since liveness under fairness is out of the prover's reach;
what is proved of them is said above, and of `EveryReplicaTracked`, `NodeComesUp` and
`ServingCertificateIssued` nothing is, since they are about what the network, systemd
and the kubelet try again. Induction by an operator parameter is out of reach as well;
the one argument by least counterexample (`Least`) goes through the well-foundedness of
the naturals.

## Not modelled

`PROJECT.json` gives the reason for each component. In short:

* Object builders, API types, flag parsing, printing and strvals render or parse
  without state; the controllers' models carry the spec an object was rendered from.
* Cryptography and the expiry of certificates: the models say which CA and which SANs
  a certificate has. Renewal would need a clock.
* Real time: delays and back-off are left to fairness. `tls.Dial` without a timeout
  may block for as long as TCP does.
* Bytes: a splice copies no data, so the half-close that `hijackedConn` hides is seen
  only in which ends are closed.
* A Runtime, chart or join token created again under its old name.
* Master agent (`pkg/masteragent`): one loop refreshes three health flags under a lock
  and an endpoint combines them; no decision depends on the interleaving. Whether the
  pod is ready is a free choice in `RuntimeController`.
* Provisioning and token commands: sequential one-shot programs. What they do to the
  cluster is an edit, a creation or a removal, which the controllers' models allow at
  any moment.
* `pkg/version` compares versions, and no package imports it. `strvals` is a parser
  copied from Helm; its inputs are character strings and it has no state.
* In the worker: the contents of configuration files, which each start writes anew, and
  the kernel settings of `sys.Configure`. Which of the
  binaries is torn: the worker ends if it is the kubelet and goes on otherwise, and the
  model allows both (`RunTorn`).
* Of the Services, whether an update is needed is decided on type, ports, labels and
  annotations; what the models call the content of an object is what is compared.
* In the CSR approver, the check of the request's user name, and in the cluster agent
  the reading of the CRD files: neither depends on state.
