---------------------------- MODULE CSRApprover ----------------------------
(***************************************************************************)
(* The approver of kubelet serving certificates                            *)
(* (internal/controller/clusteragent/csr_controller.go) in the elected     *)
(* cluster agent, for one node.  The kubelet requests a certificate for    *)
(* the addresses it knows and reports them in the Node, in any order; a    *)
(* request that is not answered in time is given up and made again.        *)
(***************************************************************************)
EXTENDS ClusterAgent

CONSTANTS Addresses,  \* addresses the kubelet requests a certificate for
          Extra,      \* further addresses of the Node, such as names of the provider
          Requests,   \* names of certificate signing requests
          MaxMoves    \* bound: changes of the addresses, failed calls, early timeouts

ASSUME CSRAssumption == MaxMoves \in Nat

VARIABLES
    local,     \* the addresses the kubelet knows
    node,      \* the addresses in the Node's status, {} before it registers
    known,     \* all addresses the Node has had
    csr,       \* request -> its state and its SANs
    awaited,   \* the requests the kubelet waits for
    queued,    \* requests in the work queue
    approver,  \* where Reconcile stands
    serving,   \* the SANs of the kubelet's certificate, {} while it has none
    mishaps    \* changes, failed calls and early timeouts so far

csrVars == <<local, node, known, csr, awaited, queued, approver, serving, mishaps>>

NoRequest  == [state |-> "none", sans |-> {}]
CSRs       == [state : {"none", "pending", "approved"}, sans : SUBSET Addresses]
Reconciles == [at : {"idle", "node", "approve"}, csr : SUBSET Requests]
Waiting    == [at |-> "idle", csr |-> {}]

CSRTypeOK ==
    /\ local \in SUBSET Addresses
    /\ node \in SUBSET (Addresses \cup Extra) /\ known \in SUBSET (Addresses \cup Extra)
    /\ csr \in [Requests -> CSRs]
    /\ awaited \in SUBSET Requests /\ queued \in SUBSET Requests
    /\ approver \in Reconciles
    /\ serving \in SUBSET Addresses
    /\ mishaps \in 0 .. MaxMoves

CSRInit ==
    /\ local \in SUBSET Addresses
    /\ node = {} /\ known = {}
    /\ csr = [r \in Requests |-> NoRequest]
    /\ awaited = {} /\ queued = {}
    /\ approver = Waiting
    /\ serving = {} /\ mishaps = 0
-----------------------------------------------------------------------------
(* The kubelet and the API server. *)

Readdress(a) ==
    /\ mishaps < MaxMoves /\ a # {} /\ a # local
    /\ local' = a /\ mishaps' = mishaps + 1
    /\ UNCHANGED <<node, known, csr, awaited, queued, approver, serving>>

Report ==
    /\ node # local \cup Extra
    /\ node' = local \cup Extra /\ known' = known \cup node'
    /\ UNCHANGED <<local, csr, awaited, queued, approver, mishaps, serving>>

\* The kubelet has no certificate for its addresses and waits for none.
Request(r) ==
    /\ serving # local /\ awaited = {} /\ csr[r].state = "none"
    /\ csr' = [csr EXCEPT ![r] = [state |-> "pending", sans |-> local]]
    /\ awaited' = {r} /\ queued' = queued \cup {r}
    /\ UNCHANGED <<local, node, known, approver, serving, mishaps>>

Answered(r) ==
    /\ r \in awaited /\ csr[r].state = "approved"
    /\ serving' = csr[r].sans /\ awaited' = {}
    /\ UNCHANGED <<local, node, known, csr, queued, approver, mishaps>>

\* The kubelet waits for 15 minutes, then makes another request.
GivesUp(r) ==
    /\ r \in awaited /\ csr[r].state = "pending"
    /\ IF r \in queued \cup approver.csr THEN mishaps < MaxMoves /\ mishaps' = mishaps + 1
                                        ELSE UNCHANGED mishaps
    /\ awaited' = {}
    /\ UNCHANGED <<local, node, known, csr, queued, approver, serving>>

\* Requests are removed after an hour or a day.
Collect(r) ==
    /\ csr[r].state # "none" /\ r \notin awaited \cup queued \cup approver.csr
    /\ csr' = [csr EXCEPT ![r] = NoRequest]
    /\ UNCHANGED <<local, node, known, awaited, queued, approver, serving, mishaps>>
-----------------------------------------------------------------------------
(* Reconcile, for one request after the other. *)

csrIsPending(r) == csr[r].state = "pending"

Take(r) ==
    /\ leader # 0 /\ approver.at = "idle" /\ r \in queued
    /\ queued' = queued \ {r}
    /\ approver' = IF csrIsPending(r) THEN [Waiting EXCEPT !.at = "node", !.csr = {r}] ELSE approver
    /\ UNCHANGED <<local, node, known, csr, awaited, mishaps, serving>>

\* Faulty variant: one known SAN is enough.
AcceptsSome(sans, addrs) == sans \cap addrs # {}

\* Faulty variant: the SANs have to be all the addresses of the Node.
AcceptsExactly(sans, addrs) == sans = addrs

\* Every SAN is an address of the Node.
Accepts(sans, addrs) == sans \subseteq addrs

\* validateAndApprove: a Node that is not found or lacks a SAN is an error; Reconcile
\* swallows it and the request is left pending.  Every request is of the node's own
\* kubelet, so that the check of the user's name, which comes first, never fails.
GetNode ==
    /\ approver.at = "node"
    /\ \E r \in approver.csr :
          approver' = IF node # {} /\ Accepts(csr[r].sans, node)
                        THEN [approver EXCEPT !.at = "approve"] ELSE Waiting
    /\ UNCHANGED <<local, node, known, csr, awaited, queued, mishaps, serving>>

Approve ==
    /\ approver.at = "approve"
    /\ csr' = [r \in Requests |-> IF r \in approver.csr THEN [csr[r] EXCEPT !.state = "approved"] ELSE csr[r]]
    /\ approver' = Waiting
    /\ UNCHANGED <<local, node, known, awaited, queued, serving, mishaps>>

\* A call of the pass fails: swallowed as well.
CallFails ==
    /\ approver.at # "idle" /\ mishaps < MaxMoves
    /\ mishaps' = mishaps + 1
    /\ approver' = Waiting
    /\ UNCHANGED <<local, node, known, csr, awaited, queued, serving>>

\* A pass ends with its process; the next elected one lists all requests.
CSRFollowsPods ==
    /\ approver' = IF leader' = leader THEN approver ELSE Waiting
    /\ queued' = IF leader' = leader THEN queued ELSE {r \in Requests : csr[r].state # "none"}
    /\ UNCHANGED <<local, node, known, csr, awaited, mishaps, serving>>

CSRReconcile == (\E r \in Requests : Take(r)) \/ GetNode \/ Approve
Kubelet(r)   == Request(r) \/ Answered(r) \/ GivesUp(r)

CSRStep ==
    \/ \E a \in SUBSET Addresses : Readdress(a)
    \/ Report \/ CSRReconcile \/ CallFails
    \/ \E r \in Requests : Kubelet(r) \/ Collect(r)

\* The pods and the approver of the elected one.
CSRNext == \/ AgentNext /\ CSRFollowsPods
           \/ CSRStep /\ UNCHANGED agentVars
CSRSpec == AgentInit /\ CSRInit /\ [][CSRNext]_<<agentVars, csrVars>>
-----------------------------------------------------------------------------
\* "approves those whose SANs are all already known addresses of the requesting
\* Node": also when the Node changes while a request is being looked at, no
\* certificate is approved for an address the Node has never had.
ApprovedIsKnown == \A r \in Requests : csr[r].state = "approved" => csr[r].sans \subseteq known

\* Errors are swallowed and requests left pending; yet, once the node's addresses
\* stay, the kubelet gets a serving certificate for them, be it by a later request,
\* whatever pods were elected meanwhile.
ServingCertificateIssued ==
    \A a \in (SUBSET Addresses) \ {{}} : <>[](local = a) => <>[](serving = a)
=============================================================================
