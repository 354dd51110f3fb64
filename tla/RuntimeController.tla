------------------------- MODULE RuntimeController -------------------------
(***************************************************************************)
(* The Runtime controller of the operator                                  *)
(* (internal/controller/controlplane/runtime_controller.go) and the life   *)
(* of one Runtime and the objects it owns.                                 *)
(*                                                                         *)
(* A pass of Reconcile brings the objects up to date one after the other,  *)
(* each rendered from the copy of the Runtime it read first, and records   *)
(* the outcome in the status.  Runtime and objects are read from informer  *)
(* caches that lag behind the API server, each on its own; writes use      *)
(* optimistic locking.  Meanwhile the spec may be edited, an object edited *)
(* or deleted, and the operator may crash.  An update that only fills in   *)
(* what the API server defaults anyway changes nothing and is left out.    *)
(*                                                                         *)
(* An object is represented by the spec it was rendered from, and the PKI  *)
(* Secret and the client kubeconfig also by their CA.  The hash            *)
(* annotations are functions of the spec.  A read of a cache and the write *)
(* that follows it are one step: whatever happens in between is the same   *)
(* as if it had happened before, the write conflicts.                      *)
(***************************************************************************)
EXTENDS Naturals, Sequences

CONSTANTS Specs,     \* contents of spec
          CAs,       \* certificate authorities
          None,      \* no object, no CA
          Edited,    \* content the controller did not render
          Rest,      \* the objects after the PKI Secret and the client kubeconfig, in order
          Tolerant,  \* those whose step accepts AlreadyExists
          MaxGen,    \* bound: generations of the spec
          MaxFaults  \* bound: failed steps, crashes, deletions, edits of objects

RestSet   == {Rest[i] : i \in 1 .. Len(Rest)}
Resources == {"pki", "kubeconfig"} \cup RestSet

\* A pass, call by call: the second Get, the objects, the status.
Order == <<"refetch", "pki", "kubeconfig">> \o Rest \o <<"status">>

ASSUME RuntimeAssumption ==
    /\ Specs # {} /\ None \notin Specs /\ None \notin CAs /\ Edited \notin Specs /\ Edited # None
    /\ Rest \in Seq(STRING)
    /\ RestSet \cap {"refetch", "pki", "kubeconfig", "status", "rt", "copy"} = {}
    /\ Tolerant \subseteq RestSet
    /\ MaxGen \in Nat \ {0} /\ MaxFaults \in Nat

VARIABLES
    rt,       \* the Runtime in the API server
    rtCache,  \* what the informer knows of it
    store,    \* the owned objects in the API server
    cache,    \* what the informers know of them
    current,  \* which of "rt", "copy" and the resources are known in their latest version
    queued,   \* the Runtime is in the work queue
    at,       \* the step of Order the pass has reached; 0 between two passes
    copy,     \* the Runtime the pass renders from: controlPlaneRuntime
    pki,      \* the PKI Secret the pass works with: pkiSecret
    faults    \* faults so far

vars == <<rt, rtCache, store, cache, current, queued, at, copy, pki, faults>>

Content  == [spec : Specs \cup {Edited, None}, ca : CAs \cup {None}]
Nothing  == [spec |-> None, ca |-> None]
Runtimes == [gen : 0 .. MaxGen, spec : Specs \cup {None}, observed : 0 .. MaxGen,
             available : {"Unset", "Unknown", "True", "False"}, certs : Content]
NoRuntime == [gen |-> 0, spec |-> None, observed |-> 0, available |-> "Unset", certs |-> Nothing]

TypeOK ==
    /\ rt \in Runtimes /\ rtCache \in Runtimes /\ copy \in Runtimes
    /\ store \in [Resources -> Content] /\ cache \in [Resources -> Content]
    /\ current \subseteq Resources \cup {"rt", "copy"}
    /\ queued \in BOOLEAN
    /\ at \in 0 .. Len(Order)
    /\ pki \in Content
    /\ faults \in 0 .. MaxFaults

Init ==
    /\ rt = [NoRuntime EXCEPT !.gen = 1, !.spec = CHOOSE s \in Specs : TRUE]
    /\ rtCache = NoRuntime /\ copy = NoRuntime
    /\ store = [r \in Resources |-> Nothing] /\ cache = store
    /\ current = Resources
    /\ queued = FALSE /\ at = 0 /\ pki = Nothing
    /\ faults = 0
-----------------------------------------------------------------------------
(* The API server as the reconciler sees it. *)

\* A status update: o replaces the latest version; no watch sees one that changes nothing.
Update(o) ==
    /\ rt' = o
    /\ current' = current \ (IF o = rt THEN {"copy"} ELSE {"rt", "copy"})

\* A new version of object r.
Put(r, c) ==
    /\ store' = [store EXCEPT ![r] = c]
    /\ current' = current \ {r}

\* The pass goes on, or ends.
Advance ==
    /\ at' = at + 1
    /\ UNCHANGED <<rt, queued, copy>>
End == at' = 0 /\ copy' = NoRuntime /\ pki' = Nothing

\* Reconcile returns an error: the Runtime is queued again.
Error == End /\ queued' = TRUE

\* Faulty variant: the error is reported in the status only.
DegradeForgets ==
    /\ \/ "copy" \in current /\ Update([copy EXCEPT !.available = "False", !.observed = copy.gen])
       \/ "copy" \notin current /\ UNCHANGED <<rt, current>>
    /\ End /\ UNCHANGED <<queued, store>>

\* setDegraded: the status of the copy, if it can be written, and an error.
Degrade ==
    /\ \/ "copy" \in current /\ Update([copy EXCEPT !.available = "False", !.observed = copy.gen])
       \/ "copy" \notin current /\ UNCHANGED <<rt, current>>
    /\ Error
    /\ UNCHANGED store
-----------------------------------------------------------------------------
(* Reconcile. *)

\* The copy that follows: the cached Runtime.
Read ==
    /\ copy' = rtCache
    /\ UNCHANGED rt
    /\ current' = IF "rt" \in current THEN current \cup {"copy"} ELSE current \ {"copy"}

\* The first Get, and the condition a new Runtime gets first.
Reconcile ==
    /\ at = 0 /\ queued
    /\ \/ rtCache.gen = 0 /\ queued' = FALSE /\ UNCHANGED <<rt, current, at, copy, pki>>
       \/ /\ rtCache.gen # 0 /\ rtCache.available # "Unset"
          /\ queued' = FALSE /\ at' = 2 /\ Read /\ UNCHANGED pki
       \/ /\ rtCache.gen # 0 /\ rtCache.available = "Unset" /\ "rt" \in current
          /\ queued' = FALSE /\ at' = 1
          /\ Update([rtCache EXCEPT !.available = "Unknown"])
          /\ UNCHANGED <<copy, pki>>
       \/ /\ rtCache.gen # 0 /\ rtCache.available = "Unset" /\ "rt" \notin current
          /\ Error /\ UNCHANGED <<rt, current>>
    /\ UNCHANGED <<rtCache, store, cache, faults>>

Refetch ==
    /\ at > 0 /\ Order[at] = "refetch"
    /\ \/ rtCache.gen # 0 /\ at' = 2 /\ Read /\ UNCHANGED <<queued, pki>>
       \/ rtCache.gen = 0 /\ Error /\ UNCHANGED <<rt, current>>
    /\ UNCHANGED <<rtCache, store, cache, faults>>

\* A certificate authority that nothing refers to yet.
FreshCA == CAs \ ({store[r].ca : r \in Resources} \cup {cache[r].ca : r \in Resources}
                     \cup {rt.certs.ca, rtCache.certs.ca})

\* GeneratePKIAuthSecret: a new CA, and every certificate signed by it.
Generated(spec) == [spec |-> spec, ca |-> CHOOSE ca \in FreshCA : TRUE]

\* RegeneratePKILeafCerts: what depends on the SANs is signed again, by the same CA.
Regenerated(secret, spec) == [secret EXCEPT !.spec = spec]

\* Faulty variant: new SANs come with a new CA.
SetupPKIRotatesCA ==
    /\ at > 0 /\ Order[at] = "pki"
    /\ FreshCA # {} /\ (cache["pki"] = Nothing => store["pki"] = Nothing)
    /\ \/ /\ cache["pki"].spec # copy.spec
          /\ pki' = Generated(copy.spec)
          /\ Put("pki", pki')
       \/ /\ cache["pki"].spec = copy.spec
          /\ pki' = cache["pki"] /\ UNCHANGED <<store, current>>
    /\ Advance
    /\ UNCHANGED <<rtCache, cache, faults>>

\* setupPKIAuthConfiguration: a new CA when the Secret is not found, the leaf
\* certificates alone when the SANs changed.  AlreadyExists is no error, and the
\* pass goes on with the Secret it generated.
SetupPKI ==
    /\ at > 0 /\ Order[at] = "pki"
    /\ \/ /\ cache["pki"] = Nothing
          /\ FreshCA # {}
          /\ pki' = Generated(copy.spec)
          /\ \/ store["pki"] = Nothing /\ Put("pki", pki')
             \/ store["pki"] # Nothing /\ UNCHANGED <<store, current>>
          /\ Advance
       \/ /\ cache["pki"] # Nothing /\ cache["pki"].spec = copy.spec
          /\ pki' = cache["pki"]
          /\ Advance /\ UNCHANGED <<store, current>>
       \/ /\ cache["pki"] # Nothing /\ cache["pki"].spec # copy.spec /\ "pki" \in current
          /\ pki' = Regenerated(cache["pki"], copy.spec)
          /\ Put("pki", pki')
          /\ Advance
       \/ /\ cache["pki"] # Nothing /\ cache["pki"].spec # copy.spec /\ "pki" \notin current
          /\ Degrade
    /\ UNCHANGED <<rtCache, cache, faults>>

\* The object is not found in the cache: it is created.  Tolerant steps accept
\* AlreadyExists.
Create(r, c, tolerant) ==
    /\ cache[r] = Nothing
    /\ \/ store[r] = Nothing /\ Put(r, c) /\ Advance /\ UNCHANGED pki
       \/ store[r] # Nothing /\ tolerant /\ Advance /\ UNCHANGED <<store, current, pki>>
       \/ store[r] # Nothing /\ ~tolerant /\ Degrade

\* The object found differs from the one wanted: it is updated.  The content of an
\* object is what its step compares: of the two Services the type, the ports, the
\* labels and the annotations, and a change of their other fields is not modelled.
Overwrite(r, c) ==
    /\ cache[r] \notin {Nothing, c}
    /\ \/ r \in current /\ Put(r, c) /\ Advance /\ UNCHANGED pki
       \/ r \notin current /\ Degrade

CreateOrUpdate(r, c, tolerant) ==
    \/ Create(r, c, tolerant)
    \/ Overwrite(r, c)
    \/ cache[r] = c /\ Advance /\ UNCHANGED <<store, current, pki>>

\* GenerateClientKubeconfigAuthSecret: the endpoint of the spec, signed by the CA of
\* the PKI Secret.
ClientKubeconfig(secret, spec) == [spec |-> spec, ca |-> secret.ca]

\* Faulty variant: a kubeconfig for the right server is kept whatever CA signed it.
SetupKubeconfigIgnoresCA ==
    /\ at > 0 /\ Order[at] = "kubeconfig"
    /\ \/ cache["pki"] = Nothing /\ Degrade
       \/ /\ cache["pki"] # Nothing
          /\ CreateOrUpdate("kubeconfig",
                [spec |-> copy.spec, ca |-> IF cache["kubeconfig"].ca # None THEN cache["kubeconfig"].ca
                                                                            ELSE cache["pki"].ca], TRUE)
    /\ UNCHANGED <<rtCache, cache, faults>>

\* setupClientKubeconfig reads the PKI Secret again, from the cache.
SetupKubeconfig ==
    /\ at > 0 /\ Order[at] = "kubeconfig"
    /\ \/ cache["pki"] = Nothing /\ Degrade
       \/ /\ cache["pki"] # Nothing
          /\ CreateOrUpdate("kubeconfig", ClientKubeconfig(cache["pki"], copy.spec), TRUE)
    /\ UNCHANGED <<rtCache, cache, faults>>

\* The other objects.
Setup(r) ==
    /\ at > 0 /\ Order[at] = r
    /\ CreateOrUpdate(r, [spec |-> copy.spec, ca |-> None], r \in Tolerant)
    /\ UNCHANGED <<rtCache, cache, faults>>

\* The Runtime is read again and the outcome written to what was read.
RecordAvailable ==
    /\ at > 0 /\ Order[at] = "status"
    /\ \/ /\ "rt" \in current /\ rtCache.gen # 0
          /\ Update([rtCache EXCEPT !.available = "True", !.observed = rtCache.gen, !.certs = pki])
          /\ End /\ UNCHANGED queued
       \/ ("rt" \notin current \/ rtCache.gen = 0) /\ Error /\ UNCHANGED <<rt, current>>
    /\ UNCHANGED <<rtCache, store, cache, faults>>
-----------------------------------------------------------------------------
(* Failures. *)

Fault == faults < MaxFaults /\ faults' = faults + 1

\* A step returns an error: rendering, an object that belongs to someone else, a failed call.
StepFails ==
    /\ Fault
    /\ \/ at > 0 /\ Order[at] \in Resources /\ Degrade
       \/ at > 0 /\ Order[at] \notin Resources /\ Error /\ UNCHANGED <<rt, store, current>>
    /\ UNCHANGED <<rtCache, cache>>

\* A new process starts from fresh caches and reconciles every Runtime.
Crash ==
    /\ Fault
    /\ Error
    /\ rtCache' = rt /\ cache' = store /\ current' = Resources \cup {"rt"}
    /\ UNCHANGED <<rt, store>>
-----------------------------------------------------------------------------
(* The watches, the users and the garbage collector. *)

CacheRuntime ==
    /\ "rt" \notin current
    /\ rtCache' = rt /\ current' = current \cup {"rt"}
    /\ queued' = TRUE
    /\ UNCHANGED <<rt, store, cache, at, copy, pki, faults>>

CacheObject(r) ==
    /\ r \notin current
    /\ cache' = [cache EXCEPT ![r] = store[r]] /\ current' = current \cup {r}
    /\ queued' = TRUE
    /\ UNCHANGED <<rt, store, rtCache, at, copy, pki, faults>>

EditSpec(s) ==
    /\ rt.gen \in 1 .. MaxGen - 1 /\ s # rt.spec
    /\ Update([rt EXCEPT !.gen = @ + 1, !.spec = s])
    /\ UNCHANGED <<store, rtCache, cache, queued, at, copy, pki, faults>>

Delete ==
    /\ Fault
    /\ rt.gen # 0
    /\ Update(NoRuntime)
    /\ UNCHANGED <<store, rtCache, cache, queued, at, copy, pki>>

\* Somebody deletes an object, or edits it.  The controller trusts the content of
\* the PKI Secret.
Tamper(r, c) ==
    /\ Fault
    /\ store[r] # Nothing /\ c # store[r]
    /\ r = "pki" => c = Nothing
    /\ Put(r, c)
    /\ UNCHANGED <<rt, rtCache, cache, queued, at, copy, pki>>

Collect(r) ==
    /\ rt.gen = 0 /\ store[r] # Nothing
    /\ Put(r, Nothing)
    /\ UNCHANGED <<rt, rtCache, cache, queued, at, copy, pki, faults>>
-----------------------------------------------------------------------------
Pass ==
    \/ Reconcile \/ Refetch \/ SetupPKI \/ SetupKubeconfig
    \/ \E r \in RestSet : Setup(r)
    \/ RecordAvailable

Watches == \E r \in Resources : CacheObject(r)
Collector == \E r \in Resources : Collect(r)

Next ==
    \/ Pass \/ StepFails \/ Crash \/ CacheRuntime \/ Watches \/ Collector
    \/ Delete \/ \E s \in Specs : EditSpec(s)
    \/ \E r \in Resources, c \in {Nothing, [spec |-> Edited, ca |-> None]} : Tamper(r, c)

Spec == Init /\ [][Next]_vars

\* A queued Runtime is reconciled, the watches deliver, garbage is collected.
FairSpec ==
    Spec /\ WF_vars(Pass) /\ WF_vars(CacheRuntime) /\ WF_vars(Watches) /\ WF_vars(Collector)
-----------------------------------------------------------------------------
\* Every object is rendered from the latest spec, the admin kubeconfig is signed by
\* the stored CA, and the status says so.
InSync ==
    /\ \A r \in Resources : store[r].spec = rt.spec
    /\ rt.gen # 0 =>
         /\ store["kubeconfig"].ca = store["pki"].ca
         /\ rt.available = "True" /\ rt.observed = rt.gen /\ rt.certs = store["pki"]

\* No step, no trigger and no event is left.
Quiescent == at = 0 /\ ~queued /\ Resources \cup {"rt"} \subseteq current

\* However the passes, the caches, the users and the faults interleave, the
\* controller does not come to rest over a Runtime that is out of sync.
SettlesInSync == Quiescent /\ rt.gen # 0 => InSync

\* Once edits and faults stop, every object follows the spec for good; those of a
\* deleted Runtime are gone for good.
Converges == <>[]InSync

\* "the CA is always preserved so that existing clients do not need to re-trust the
\* root": no pass replaces the CA of a PKI Secret that is there, however stale its reads.
CAPreserved ==
    [][store["pki"] # Nothing /\ store'["pki"] # Nothing => store'["pki"].ca = store["pki"].ca]_vars
=============================================================================
