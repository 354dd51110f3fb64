---------------------- MODULE RuntimeControllerProofs ----------------------
(***************************************************************************)
(* Proofs about RuntimeController, for any list of objects and any number  *)
(* of generations, CAs and faults.                                         *)
(*                                                                         *)
(* That the controller rests only over objects in sync is not inductive:   *)
(* what a pass has done so far must be kept up to date while it runs.  The *)
(* argument is the same for the Runtime and for every object: either the   *)
(* pass has seen the latest version and made it what it should be, or the  *)
(* cache has still to hear of a newer version, or it has heard of it and   *)
(* the Runtime is queued again.                                            *)
(***************************************************************************)
EXTENDS RuntimeController, TLAPS

\* What is known in its latest version is what is stored.
Versions ==
    /\ "rt" \in current => rtCache = rt
    /\ at >= 2 /\ "copy" \in current => copy = rt
    /\ \A r \in Resources : r \in current => cache[r] = store[r]

\* Unless another pass will follow, the pass works with the latest Runtime, ...
CopyIsLatest == at >= 2 /\ ~queued /\ "rt" \in current => copy = rt

\* ... has stored the PKI Secret it works with, ...
PKIDone == at >= 3 /\ ~queued /\ "pki" \in current => store["pki"] = pki /\ pki.spec = copy.spec

\* ... the kubeconfig signed by its CA, ...
KubeconfigDone ==
    at >= 4 /\ ~queued /\ "pki" \in current /\ "kubeconfig" \in current
        => store["kubeconfig"] = ClientKubeconfig(store["pki"], copy.spec)

\* ... and each of the other objects it has passed.
RestDone ==
    \A i \in 4 .. at - 1 :
        ~queued /\ Order[i] \in current => store[Order[i]] = [spec |-> copy.spec, ca |-> None]

Done == CopyIsLatest /\ PKIDone /\ KubeconfigDone /\ RestDone

IInv == TypeOK /\ Versions /\ Done /\ SettlesInSync
-----------------------------------------------------------------------------
\* Where the steps of a pass are: the calls of Reconcile in the order of the code.
LEMMA OrderFacts ==
    /\ Len(Rest) \in Nat /\ Len(Order) = Len(Rest) + 4
    /\ Order[1] = "refetch" /\ Order[2] = "pki" /\ Order[3] = "kubeconfig"
    /\ \A i \in 1 .. Len(Rest) : Order[i + 3] = Rest[i] /\ Rest[i] \in RestSet
    /\ Order[Len(Rest) + 4] = "status"
BY RuntimeAssumption DEF Order, RestSet

\* The step a pass has reached tells how far it is.
LEMMA StepAt ==
    ASSUME TypeOK, at > 0
    PROVE  /\ Order[at] = "refetch" => at = 1
           /\ Order[at] = "pki" => at = 2
           /\ Order[at] = "kubeconfig" => at = 3
           /\ Order[at] \in RestSet => at \in 4 .. Len(Rest) + 3
           /\ Order[at] = "status" => at = Len(Rest) + 4
           /\ Order[at] \in Resources => at >= 2 /\ at <= Len(Rest) + 3
<1>1. at \in 1 .. Len(Rest) + 4
  BY OrderFacts DEF TypeOK
<1>2. at \in 4 .. Len(Rest) + 3 => Order[at] \in RestSet
  <2>1. ASSUME at \in 4 .. Len(Rest) + 3 PROVE Order[at] \in RestSet
    <3>1. at - 3 \in 1 .. Len(Rest) /\ (at - 3) + 3 = at
      BY <2>1, OrderFacts
    <3> QED BY <3>1, OrderFacts
  <2> QED BY <2>1
<1>3. at = 1 \/ at = 2 \/ at = 3 \/ at \in 4 .. Len(Rest) + 3 \/ at = Len(Rest) + 4
  BY <1>1, OrderFacts
<1> QED BY <1>1, <1>2, <1>3, OrderFacts, RuntimeAssumption DEF Resources

\* The names of the objects are none of the other names.
LEMMA Names ==
    /\ "pki" \in Resources /\ "kubeconfig" \in Resources /\ RestSet \subseteq Resources
    /\ "rt" \notin Resources /\ "copy" \notin Resources
    /\ "pki" \notin RestSet /\ "kubeconfig" \notin RestSet
BY RuntimeAssumption DEF Resources

\* The values the state starts from have their types.
LEMMA Values == Nothing \in Content /\ NoRuntime \in Runtimes /\ 0 \in 0 .. MaxGen
BY RuntimeAssumption DEF Nothing, Content, NoRuntime, Runtimes

\* Provision creates a Runtime the operator has not heard of: the invariant holds.
LEMMA InitIInv == Init => IInv
<1> SUFFICES ASSUME Init PROVE IInv
  OBVIOUS
<1> DEFINE s0 == CHOOSE s \in Specs : TRUE
<1>0. s0 \in Specs
  BY RuntimeAssumption
<1>1. rt = [gen |-> 1, spec |-> s0, observed |-> 0, available |-> "Unset", certs |-> Nothing]
  BY Zenon DEF Init, NoRuntime
<1> HIDE DEF s0
<1>2. rt \in Runtimes
  BY <1>0, <1>1, Values, RuntimeAssumption DEF Runtimes
<1>3. store \in [Resources -> Content] /\ cache \in [Resources -> Content]
  BY Values DEF Init
<1>4. TypeOK
  <2>1. rtCache \in Runtimes /\ copy \in Runtimes /\ pki \in Content
    BY Values DEF Init
  <2>2. queued \in BOOLEAN
    BY Zenon DEF Init
  <2>3. at \in 0 .. Len(Order) /\ faults \in 0 .. MaxFaults
    BY OrderFacts, RuntimeAssumption DEF Init
  <2>4. current \subseteq Resources \cup {"rt", "copy"}
    BY DEF Init
  <2> QED BY <1>2, <1>3, <2>1, <2>2, <2>3, <2>4 DEF TypeOK
<1>5. Versions
  BY Names DEF Init, Versions
<1>6. Done
  BY DEF Init, Done, CopyIsLatest, PKIDone, KubeconfigDone, RestDone
<1>7. SettlesInSync
  BY Names DEF Init, SettlesInSync, Quiescent
<1> QED BY <1>4, <1>5, <1>6, <1>7 DEF IInv
-----------------------------------------------------------------------------
\* A Runtime that is in the queue is reconciled again: nothing is claimed of it.
LEMMA AnotherPass ==
    ASSUME TypeOK', Versions', queued' = TRUE
    PROVE  IInv'
BY DEF IInv, Done, CopyIsLatest, PKIDone, KubeconfigDone, RestDone, SettlesInSync, Quiescent

\* A pass that returns an error is followed by another.
LEMMA ErrorKeeps ==
    ASSUME IInv, Error, UNCHANGED <<rt, current, rtCache, store, cache>>, faults' \in 0 .. MaxFaults
    PROVE  IInv'
<1>1. at' = 0 /\ copy' = NoRuntime /\ pki' = Nothing /\ queued' = TRUE
  BY DEF Error, End
<1>2. TypeOK'
  <2>1. (rt \in Runtimes /\ rtCache \in Runtimes /\ copy \in Runtimes /\ pki \in Content)'
    BY <1>1, Values DEF IInv, TypeOK
  <2>2. (store \in [Resources -> Content] /\ cache \in [Resources -> Content])'
    BY DEF IInv, TypeOK
  <2>3. (current \subseteq Resources \cup {"rt", "copy"})'
    BY DEF IInv, TypeOK
  <2>4. queued' \in BOOLEAN
    BY <1>1
  <2>5. at' \in 0 .. Len(Order)
    BY <1>1, OrderFacts
  <2> QED BY <2>1, <2>2, <2>3, <2>4, <2>5 DEF TypeOK
<1>3. Versions'
  BY <1>1 DEF IInv, Versions
<1> QED BY <1>1, <1>2, <1>3, AnotherPass

\* setDegraded may write the status, and returns an error.
LEMMA DegradeKeeps ==
    ASSUME IInv, at >= 2, Degrade, UNCHANGED <<rtCache, cache>>, faults' \in 0 .. MaxFaults
    PROVE  IInv'
<1> DEFINE o == [copy EXCEPT !.available = "False", !.observed = copy.gen]
<1>1. at' = 0 /\ copy' = NoRuntime /\ pki' = Nothing /\ queued' = TRUE /\ store' = store
  BY DEF Degrade, Error, End
<1>2. o \in Runtimes
  BY Zenon DEF IInv, TypeOK, Runtimes
<1>3. \/ rt' = o /\ current' = current \ (IF o = rt THEN {"copy"} ELSE {"rt", "copy"})
      \/ rt' = rt /\ current' = current
  BY DEF Degrade, Update
<1> HIDE DEF o
<1>4. TypeOK'
  <2>1. (rt \in Runtimes /\ rtCache \in Runtimes /\ copy \in Runtimes /\ pki \in Content)'
    BY <1>1, <1>2, <1>3, Values DEF IInv, TypeOK
  <2>2. (store \in [Resources -> Content] /\ cache \in [Resources -> Content])'
    BY <1>1 DEF IInv, TypeOK
  <2>3. (current \subseteq Resources \cup {"rt", "copy"})'
    BY <1>3 DEF IInv, TypeOK
  <2>4. queued' \in BOOLEAN
    BY <1>1
  <2>5. at' \in 0 .. Len(Order)
    BY <1>1, OrderFacts
  <2> QED BY <2>1, <2>2, <2>3, <2>4, <2>5 DEF TypeOK
<1>5. Versions'
  BY <1>1, <1>3 DEF IInv, Versions
<1> QED BY <1>1, <1>4, <1>5, AnotherPass

\* What a step that leaves object r as c, or unseen, does.
Stepped(r, c) ==
    /\ at' = at + 1
    /\ UNCHANGED <<rt, queued, copy, rtCache, cache, faults>>
    /\ store' \in [Resources -> Content]
    /\ \A q \in Resources \ {r} : store'[q] = store[q]
    /\ current' \subseteq current
    /\ r \in current' => store'[r] = c /\ cache[r] = c

\* A step for an object makes it what it should be, finds that its cache is behind,
\* or fails.
LEMMA CreateOrUpdateSteps ==
    ASSUME IInv, at >= 2, NEW r \in Resources, NEW c \in Content, NEW t,
           CreateOrUpdate(r, c, t), UNCHANGED <<rtCache, cache, faults>>
    PROVE  IInv' \/ (Stepped(r, c) /\ pki' = pki)
<1>0. faults' \in 0 .. MaxFaults
  BY DEF IInv, TypeOK
<1>1. CASE Degrade
  <2>1. UNCHANGED <<rtCache, cache>>
    OBVIOUS
  <2> QED BY <1>0, <1>1, <2>1, DegradeKeeps
<1>2. CASE Put(r, c) /\ Advance /\ UNCHANGED pki
  BY <1>2 DEF Put, Advance, Stepped, IInv, TypeOK
<1>3. CASE cache[r] = Nothing /\ store[r] # Nothing /\ Advance /\ UNCHANGED <<store, current, pki>>
  <2>1. r \notin current
    BY <1>3 DEF IInv, Versions
  <2> QED BY <1>3, <2>1 DEF Advance, Stepped, IInv, TypeOK
<1>4. CASE cache[r] = c /\ Advance /\ UNCHANGED <<store, current, pki>>
  BY <1>4 DEF Advance, Stepped, IInv, TypeOK, Versions
<1> QED BY <1>1, <1>2, <1>3, <1>4 DEF CreateOrUpdate, Create, Overwrite

\* A step keeps the types, the versions and what holds between two passes.
LEMMA SteppedKeeps ==
    ASSUME IInv, at \in 2 .. Len(Order) - 1, NEW r \in Resources, NEW c, Stepped(r, c), pki' \in Content
    PROVE  TypeOK' /\ Versions' /\ CopyIsLatest' /\ SettlesInSync' /\ at' = at + 1 /\ at' >= 3
<1>1. at' = at + 1 /\ at' >= 3 /\ at' \in 0 .. Len(Order)
  BY OrderFacts DEF Stepped
<1>2. TypeOK'
  <2>1. (rt \in Runtimes /\ rtCache \in Runtimes /\ copy \in Runtimes)'
    BY DEF IInv, TypeOK, Stepped
  <2>2. (store \in [Resources -> Content] /\ cache \in [Resources -> Content])'
    BY DEF IInv, TypeOK, Stepped
  <2>3. (current \subseteq Resources \cup {"rt", "copy"})'
    BY DEF IInv, TypeOK, Stepped
  <2>4. queued' \in BOOLEAN /\ faults' \in 0 .. MaxFaults
    BY DEF IInv, TypeOK, Stepped
  <2> QED BY <1>1, <2>1, <2>2, <2>3, <2>4 DEF TypeOK
<1>3. Versions'
  <2>1. ("rt" \in current => rtCache = rt)' /\ (at >= 2 /\ "copy" \in current => copy = rt)'
    BY DEF IInv, Versions, Stepped
  <2>2. ASSUME NEW q \in Resources, q \in current' PROVE cache'[q] = store'[q]
    BY <2>2 DEF IInv, Versions, Stepped
  <2> QED BY <2>1, <2>2 DEF Versions
<1>4. CopyIsLatest'
  BY DEF IInv, Done, CopyIsLatest, Stepped
<1>5. SettlesInSync'
  BY <1>1 DEF SettlesInSync, Quiescent
<1> QED BY <1>1, <1>2, <1>3, <1>4, <1>5
-----------------------------------------------------------------------------
\* setupClientKubeconfig.
LEMMA SetupKubeconfigKeeps == IInv /\ SetupKubeconfig => IInv'
<1> SUFFICES ASSUME IInv, SetupKubeconfig PROVE IInv'
  OBVIOUS
<1> DEFINE c == ClientKubeconfig(cache["pki"], copy.spec)
<1>1. at = 3 /\ at >= 2 /\ at \in 2 .. Len(Order) - 1
  BY StepAt, OrderFacts DEF SetupKubeconfig, IInv
<1>2. c \in Content
  BY Names DEF ClientKubeconfig, IInv, TypeOK, Content, Runtimes
<1>3. UNCHANGED <<rtCache, cache, faults>> /\ faults' \in 0 .. MaxFaults
  BY DEF SetupKubeconfig, IInv, TypeOK
<1>4. CASE Degrade
  <2>1. UNCHANGED <<rtCache, cache>>
    BY <1>3
  <2> QED BY <1>1, <1>3, <1>4, <2>1, DegradeKeeps
<1>5. CASE CreateOrUpdate("kubeconfig", c, TRUE)
  <2>1. IInv' \/ (Stepped("kubeconfig", c) /\ pki' = pki)
    <3> HIDE DEF c
    <3> QED BY <1>1, <1>2, <1>3, <1>5, Names, CreateOrUpdateSteps, Zenon
  <2>2. CASE Stepped("kubeconfig", c) /\ pki' = pki
    <3>1. TypeOK' /\ Versions' /\ CopyIsLatest' /\ SettlesInSync' /\ at' = 4
      <4> HIDE DEF c
      <4>1. pki' \in Content
        BY <2>2 DEF IInv, TypeOK
      <4> QED BY <1>1, <2>2, <4>1, Names, SteppedKeeps
    <3>2. PKIDone'
      BY <1>1, <2>2, Names DEF Stepped, IInv, Done, PKIDone
    <3>3. KubeconfigDone'
      BY <1>1, <2>2, Names DEF Stepped, IInv, Versions, KubeconfigDone, ClientKubeconfig
    <3>4. RestDone'
      BY <3>1 DEF RestDone
    <3> QED BY <3>1, <3>2, <3>3, <3>4 DEF IInv, Done
  <2> QED BY <2>1, <2>2
<1> QED BY <1>4, <1>5, Zenon DEF SetupKubeconfig

\* The steps of the other objects.
LEMMA SetupKeeps == ASSUME NEW r \in RestSet PROVE IInv /\ Setup(r) => IInv'
<1> SUFFICES ASSUME IInv, Setup(r) PROVE IInv'
  OBVIOUS
<1> DEFINE c == [spec |-> copy.spec, ca |-> None]
<1>1. at >= 4 /\ at >= 2 /\ at \in 2 .. Len(Order) - 1 /\ Order[at] = r
  BY StepAt, OrderFacts DEF Setup, IInv
<1>2. c \in Content
  BY DEF IInv, TypeOK, Content, Runtimes
<1>3. UNCHANGED <<rtCache, cache, faults>>
  BY DEF Setup
<1>4. IInv' \/ (Stepped(r, c) /\ pki' = pki)
  <2>1. CreateOrUpdate(r, c, r \in Tolerant)
    BY DEF Setup
  <2> HIDE DEF c
  <2> QED BY <1>1, <1>2, <1>3, <2>1, Names, CreateOrUpdateSteps
<1>5. CASE Stepped(r, c) /\ pki' = pki
  <2>0. r \in Resources /\ r # "pki" /\ r # "kubeconfig"
    BY Names
  <2>1. TypeOK' /\ Versions' /\ CopyIsLatest' /\ SettlesInSync' /\ at' = at + 1
    <3> HIDE DEF c
    <3>1. pki' \in Content
      BY <1>5 DEF IInv, TypeOK
    <3> QED BY <1>1, <1>5, <2>0, <3>1, SteppedKeeps
  <2>2. PKIDone'
    BY <1>1, <1>5, <2>0, Names DEF Stepped, IInv, Done, PKIDone
  <2>3. KubeconfigDone'
    BY <1>1, <1>5, <2>0, Names DEF Stepped, IInv, Done, KubeconfigDone, ClientKubeconfig
  <2>4. RestDone'
    <3> SUFFICES ASSUME NEW i \in 4 .. at, ~queued', Order[i] \in current'
                 PROVE  store'[Order[i]] = [spec |-> copy'.spec, ca |-> None]
      BY <1>1, <2>1 DEF RestDone
    <3>0. copy' = copy /\ queued' = queued /\ current' \subseteq current
      BY <1>5 DEF Stepped
    <3>1. CASE Order[i] = r
      BY <1>5, <3>0, <3>1 DEF Stepped
    <3>2. CASE Order[i] # r
      <4>1. i \in 4 .. at - 1
        BY <1>1, <3>2
      <4>2. Order[i] \in Resources
        <5>1. i - 3 \in 1 .. Len(Rest) /\ (i - 3) + 3 = i
          BY <1>1, <4>1, OrderFacts
        <5> QED BY <5>1, OrderFacts, Names, Zenon
      <4>3. store[Order[i]] = [spec |-> copy.spec, ca |-> None]
        BY <3>0, <4>1 DEF IInv, Done, RestDone
      <4> QED BY <1>5, <3>0, <3>2, <4>2, <4>3 DEF Stepped
    <3> QED BY <3>1, <3>2
  <2> QED BY <2>1, <2>2, <2>3, <2>4 DEF IInv, Done
<1> QED BY <1>4, <1>5

\* setupPKIAuthConfiguration.
LEMMA SetupPKIKeeps == IInv /\ SetupPKI => IInv'
<1> SUFFICES ASSUME IInv, SetupPKI PROVE IInv'
  OBVIOUS
<1>1. at = 2 /\ at >= 2 /\ at \in 2 .. Len(Order) - 1
  BY StepAt, OrderFacts DEF SetupPKI, IInv
<1>2. UNCHANGED <<rtCache, cache, faults>> /\ faults' \in 0 .. MaxFaults
  BY DEF SetupPKI, IInv, TypeOK
<1>3. CASE Degrade
  <2>1. UNCHANGED <<rtCache, cache>>
    BY <1>2
  <2> QED BY <1>1, <1>2, <1>3, <2>1, DegradeKeeps
<1>4. CASE ~Degrade
  <2>1. pki' \in Content /\ pki'.spec = copy.spec
    <3>1. CASE pki' = Generated(copy.spec) /\ FreshCA # {}
      <4>1. (CHOOSE ca \in FreshCA : TRUE) \in CAs
        BY <3>1 DEF FreshCA
      <4> QED BY <3>1, <4>1 DEF Generated, IInv, TypeOK, Content, Runtimes
    <3>2. CASE pki' = cache["pki"] /\ cache["pki"].spec = copy.spec
      BY <3>2, Names DEF IInv, TypeOK
    <3>3. CASE pki' = Regenerated(cache["pki"], copy.spec)
      <4>1. cache["pki"] \in Content /\ copy.spec \in Specs \cup {Edited, None}
        BY Names, SMTT(40) DEF IInv, TypeOK, Runtimes
      <4> QED BY <3>3, <4>1 DEF Regenerated, Content
    <3> QED BY <1>4, <3>1, <3>2, <3>3 DEF SetupPKI
  <2>2. Stepped("pki", pki')
    <3>1. CASE Put("pki", pki') /\ Advance
      BY <1>2, <2>1, <3>1, Names DEF Put, Advance, Stepped, IInv, TypeOK
    <3>2. CASE cache["pki"] = Nothing /\ store["pki"] # Nothing /\ Advance /\ UNCHANGED <<store, current>>
      BY <1>2, <3>2, Names DEF Advance, Stepped, IInv, TypeOK, Versions
    <3>3. CASE pki' = cache["pki"] /\ Advance /\ UNCHANGED <<store, current>>
      BY <1>2, <3>3, Names DEF Advance, Stepped, IInv, TypeOK, Versions
    <3> QED BY <1>4, <3>1, <3>2, <3>3 DEF SetupPKI
  <2>3. TypeOK' /\ Versions' /\ CopyIsLatest' /\ SettlesInSync' /\ at' = 3
    BY <1>1, <2>1, <2>2, Names, SteppedKeeps
  <2>4. PKIDone'
    BY <2>1, <2>2 DEF PKIDone, Stepped
  <2>5. KubeconfigDone' /\ RestDone'
    BY <2>3 DEF KubeconfigDone, RestDone
  <2> QED BY <2>3, <2>4, <2>5 DEF IInv, Done
<1> QED BY <1>3, <1>4
-----------------------------------------------------------------------------
\* The first Get of a pass, and the condition a new Runtime gets.
LEMMA ReconcileKeeps == IInv /\ Reconcile => IInv'
<1> SUFFICES ASSUME IInv, Reconcile PROVE IInv'
  OBVIOUS
<1>0. UNCHANGED <<rtCache, store, cache, faults>> /\ faults' \in 0 .. MaxFaults
  BY DEF Reconcile, IInv, TypeOK
<1>1. CASE rtCache.gen = 0 /\ queued' = FALSE /\ UNCHANGED <<rt, current, at, copy, pki>>
  <2>1. TypeOK'
    <3>1. queued' \in BOOLEAN
      BY <1>1, Zenon
    <3> QED BY <1>0, <1>1, <3>1 DEF IInv, TypeOK
  <2>2. Versions'
    BY <1>0, <1>1 DEF IInv, Versions
  <2>3. at' = 0
    BY <1>1 DEF Reconcile
  <2>4. Done'
    BY <2>3 DEF Done, CopyIsLatest, PKIDone, KubeconfigDone, RestDone
  <2>5. SettlesInSync'
    BY <1>0, <1>1 DEF IInv, Versions, SettlesInSync, Quiescent
  <2> QED BY <2>1, <2>2, <2>4, <2>5 DEF IInv
<1>2. CASE queued' = FALSE /\ at' = 2 /\ Read /\ UNCHANGED pki
  <2>1. TypeOK'
    <3>1. queued' \in BOOLEAN
      BY <1>2, Zenon
    <3>2. at' \in 0 .. Len(Order)
      BY <1>2, OrderFacts
    <3>3. (current \subseteq Resources \cup {"rt", "copy"})'
      BY <1>2 DEF Read, IInv, TypeOK
    <3> QED BY <1>0, <1>2, <3>1, <3>2, <3>3 DEF Read, IInv, TypeOK
  <2>2. Versions'
    BY <1>0, <1>2, Names DEF Read, IInv, Versions
  <2>3. Done'
    BY <1>0, <1>2 DEF Read, IInv, Versions, Done, CopyIsLatest, PKIDone, KubeconfigDone, RestDone
  <2>4. SettlesInSync'
    BY <1>2 DEF SettlesInSync, Quiescent
  <2> QED BY <2>1, <2>2, <2>3, <2>4 DEF IInv
<1>3. CASE /\ queued' = FALSE /\ at' = 1
           /\ Update([rtCache EXCEPT !.available = "Unknown"]) /\ UNCHANGED <<copy, pki>>
  <2> DEFINE o == [rtCache EXCEPT !.available = "Unknown"]
  <2>0. o \in Runtimes
    BY SMTT(40) DEF IInv, TypeOK, Runtimes
  <2>1. rt' = o /\ current' = current \ (IF o = rt THEN {"copy"} ELSE {"rt", "copy"})
    BY <1>3 DEF Update
  <2> HIDE DEF o
  <2>2. TypeOK'
    <3>1. queued' \in BOOLEAN
      BY <1>3, Zenon
    <3>2. at' \in 0 .. Len(Order)
      BY <1>3, OrderFacts
    <3>3. (current \subseteq Resources \cup {"rt", "copy"})'
      BY <2>1 DEF IInv, TypeOK
    <3> QED BY <1>0, <1>3, <2>0, <2>1, <3>1, <3>2, <3>3 DEF IInv, TypeOK
  <2>3. Versions'
    BY <1>0, <1>3, <2>1 DEF IInv, Versions
  <2>4. Done' /\ SettlesInSync'
    BY <1>3 DEF Done, CopyIsLatest, PKIDone, KubeconfigDone, RestDone, SettlesInSync, Quiescent
  <2> QED BY <2>2, <2>3, <2>4 DEF IInv
<1>4. CASE Error /\ UNCHANGED <<rt, current>>
  <2>1. UNCHANGED <<rt, current, rtCache, store, cache>>
    BY <1>0, <1>4
  <2> QED BY <1>0, <1>4, <2>1, ErrorKeeps
<1> QED BY <1>1, <1>2, <1>3, <1>4, Zenon DEF Reconcile

\* The second Get.
LEMMA RefetchKeeps == IInv /\ Refetch => IInv'
<1> SUFFICES ASSUME IInv, Refetch PROVE IInv'
  OBVIOUS
<1>0. UNCHANGED <<rtCache, store, cache, faults>> /\ faults' \in 0 .. MaxFaults
  BY DEF Refetch, IInv, TypeOK
<1>1. CASE at' = 2 /\ Read /\ UNCHANGED <<queued, pki>>
  <2>1. TypeOK'
    <3>1. queued' \in BOOLEAN
      BY <1>1 DEF IInv, TypeOK
    <3>2. at' \in 0 .. Len(Order)
      BY <1>1, OrderFacts
    <3>3. (current \subseteq Resources \cup {"rt", "copy"})'
      BY <1>1 DEF Read, IInv, TypeOK
    <3> QED BY <1>0, <1>1, <3>1, <3>2, <3>3 DEF Read, IInv, TypeOK
  <2>2. Versions'
    BY <1>0, <1>1, Names DEF Read, IInv, Versions
  <2>3. Done'
    BY <1>0, <1>1 DEF Read, IInv, Versions, Done, CopyIsLatest, PKIDone, KubeconfigDone, RestDone
  <2>4. SettlesInSync'
    BY <1>1 DEF SettlesInSync, Quiescent
  <2> QED BY <2>1, <2>2, <2>3, <2>4 DEF IInv
<1>2. CASE Error /\ UNCHANGED <<rt, current>>
  <2>1. UNCHANGED <<rt, current, rtCache, store, cache>>
    BY <1>0, <1>2
  <2> QED BY <1>0, <1>2, <2>1, ErrorKeeps
<1> QED BY <1>1, <1>2 DEF Refetch

\* The final status.  When it changes nothing no event follows, and everything must be right.
LEMMA RecordAvailableKeeps == IInv /\ RecordAvailable => IInv'
<1> SUFFICES ASSUME IInv, RecordAvailable PROVE IInv'
  OBVIOUS
<1>0. UNCHANGED <<rtCache, store, cache, faults>> /\ faults' \in 0 .. MaxFaults
  BY DEF RecordAvailable, IInv, TypeOK
<1> DEFINE o == [rtCache EXCEPT !.available = "True", !.observed = rtCache.gen, !.certs = pki]
<1>1. CASE "rt" \in current /\ Update(o) /\ End /\ UNCHANGED queued
  <2>1. at = Len(Rest) + 4
    BY StepAt DEF RecordAvailable, IInv
  <2>2. o \in Runtimes /\ o.spec = rtCache.spec /\ o.gen = rtCache.gen /\ o.available = "True"
          /\ o.observed = rtCache.gen /\ o.certs = pki
    BY Zenon DEF IInv, TypeOK, Runtimes
  <2>3. rt' = o /\ current' = current \ (IF o = rt THEN {"copy"} ELSE {"rt", "copy"})
    BY <1>1 DEF Update
  <2>4. at' = 0 /\ copy' = NoRuntime /\ pki' = Nothing /\ queued' = queued
    BY <1>1 DEF End
  <2> HIDE DEF o
  <2>5. TypeOK'
    <3>1. queued' \in BOOLEAN
      BY <2>4 DEF IInv, TypeOK
    <3>2. at' \in 0 .. Len(Order)
      BY <2>4, OrderFacts
    <3>3. (current \subseteq Resources \cup {"rt", "copy"})'
      BY <2>3 DEF IInv, TypeOK
    <3> QED BY <1>0, <2>2, <2>3, <2>4, <3>1, <3>2, <3>3, Values DEF IInv, TypeOK
  <2>6. Versions'
    BY <1>0, <2>3, <2>4 DEF IInv, Versions
  <2>7. Done'
    BY <2>4 DEF Done, CopyIsLatest, PKIDone, KubeconfigDone, RestDone
  <2>8. SettlesInSync'
    <3> SUFFICES ASSUME Quiescent', rt'.gen # 0 PROVE InSync'
      BY DEF SettlesInSync
    <3>1. o = rt /\ rt' = rt /\ ~queued /\ "rt" \in current /\ Resources \subseteq current
      BY <2>3, <2>4 DEF Quiescent
    <3>2. copy = rt /\ rtCache = rt
      BY <2>1, <3>1, OrderFacts DEF IInv, Versions, Done, CopyIsLatest
    <3>3. store["pki"] = pki /\ pki.spec = rt.spec
      BY <2>1, <3>1, <3>2, Names, OrderFacts DEF IInv, Done, PKIDone
    <3>4. store["kubeconfig"] = ClientKubeconfig(store["pki"], rt.spec)
      BY <2>1, <3>1, <3>2, Names, OrderFacts DEF IInv, Done, KubeconfigDone
    <3>5. ASSUME NEW r \in RestSet PROVE store[r].spec = rt.spec
      <4>1. PICK i \in 1 .. Len(Rest) : r = Rest[i]
        BY DEF RestSet
      <4>2. i + 3 \in 4 .. at - 1 /\ Order[i + 3] = r
        BY <2>1, <4>1, OrderFacts
      <4>3. store[r] = [spec |-> copy.spec, ca |-> None]
        BY <3>1, <4>2, Names DEF IInv, Done, RestDone
      <4> QED BY <3>2, <4>3
    <3>6. \A r \in Resources : store[r].spec = rt.spec
      BY <3>3, <3>4, <3>5 DEF Resources, ClientKubeconfig
    <3>7. store["kubeconfig"].ca = store["pki"].ca
      BY <3>4 DEF ClientKubeconfig
    <3> QED BY <1>0, <2>2, <3>1, <3>2, <3>3, <3>6, <3>7 DEF InSync
  <2> QED BY <2>5, <2>6, <2>7, <2>8 DEF IInv
<1>2. CASE Error /\ UNCHANGED <<rt, current>>
  <2>1. UNCHANGED <<rt, current, rtCache, store, cache>>
    BY <1>0, <1>2
  <2> QED BY <1>0, <1>2, <2>1, ErrorKeeps
<1> QED BY <1>1, <1>2 DEF RecordAvailable
-----------------------------------------------------------------------------
\* A step that returns an error.
LEMMA StepFailsKeeps == IInv /\ StepFails => IInv'
<1> SUFFICES ASSUME IInv, StepFails PROVE IInv'
  OBVIOUS
<1>1. UNCHANGED <<rtCache, cache>> /\ faults' \in 0 .. MaxFaults
  BY RuntimeAssumption DEF StepFails, Fault, IInv, TypeOK
<1>2. CASE at > 0 /\ Order[at] \in Resources /\ Degrade
  <2>1. at >= 2
    BY <1>2, StepAt DEF IInv
  <2> QED BY <1>1, <1>2, <2>1, DegradeKeeps
<1>3. CASE Error /\ UNCHANGED <<rt, store, current>>
  <2>1. UNCHANGED <<rt, current, rtCache, store, cache>>
    BY <1>1, <1>3
  <2> QED BY <1>1, <1>3, <2>1, ErrorKeeps
<1> QED BY <1>2, <1>3 DEF StepFails

\* Events and a restart put the Runtime in the queue.
LEMMA EventsKeep ==
    IInv /\ (Crash \/ CacheRuntime \/ \E r \in Resources : CacheObject(r)) => IInv'
<1> SUFFICES ASSUME IInv, Crash \/ CacheRuntime \/ \E r \in Resources : CacheObject(r) PROVE IInv'
  OBVIOUS
<1>1. CASE Crash
  <2>1. at' = 0 /\ copy' = NoRuntime /\ pki' = Nothing /\ queued' = TRUE /\ rtCache' = rt
          /\ cache' = store /\ current' = Resources \cup {"rt"} /\ UNCHANGED <<rt, store>>
    BY <1>1 DEF Crash, Error, End
  <2>2. TypeOK'
    <3>1. queued' \in BOOLEAN
      BY <2>1
    <3>2. at' \in 0 .. Len(Order) /\ faults' \in 0 .. MaxFaults
      BY <1>1, <2>1, OrderFacts, RuntimeAssumption DEF Crash, Fault, IInv, TypeOK
    <3> QED BY <2>1, <3>1, <3>2, Values DEF IInv, TypeOK
  <2>3. Versions'
    BY <2>1 DEF Versions
  <2> QED BY <2>1, <2>2, <2>3, AnotherPass
<1>2. CASE CacheRuntime
  <2>1. TypeOK'
    <3>1. queued' \in BOOLEAN
      BY <1>2, SMTT(40) DEF CacheRuntime
    <3> QED BY <1>2, <3>1 DEF CacheRuntime, IInv, TypeOK
  <2>2. Versions'
    BY <1>2, Names DEF CacheRuntime, IInv, Versions
  <2> QED BY <1>2, <2>1, <2>2, AnotherPass DEF CacheRuntime
<1>3. ASSUME NEW r \in Resources, CacheObject(r) PROVE IInv'
  <2>1. TypeOK'
    <3>1. queued' \in BOOLEAN
      BY <1>3 DEF CacheObject
    <3>2. cache' \in [Resources -> Content]
      BY <1>3 DEF CacheObject, IInv, TypeOK
    <3> QED BY <1>3, <3>1, <3>2 DEF CacheObject, IInv, TypeOK
  <2>2. Versions'
    BY <1>3, Names DEF CacheObject, IInv, TypeOK, Versions
  <2> QED BY <1>3, <2>1, <2>2, AnotherPass DEF CacheObject
<1> QED BY <1>1, <1>2, <1>3

\* A user edits or deletes the Runtime: its informer has still to hear of it.
LEMMA UsersKeep ==
    ASSUME NEW o \in Runtimes, o # rt, Update(o), faults' \in 0 .. MaxFaults,
           UNCHANGED <<store, rtCache, cache, queued, at, copy, pki>>
    PROVE  IInv => IInv'
<1> SUFFICES ASSUME IInv PROVE IInv'
  OBVIOUS
<1>1. rt' = o /\ current' = current \ {"rt", "copy"}
  BY DEF Update
<1>2. TypeOK'
  BY <1>1 DEF IInv, TypeOK
<1>3. Versions'
  BY <1>1, Names DEF IInv, Versions
<1>4. CopyIsLatest' /\ PKIDone' /\ KubeconfigDone' /\ SettlesInSync'
  BY <1>1, Names DEF IInv, Done, CopyIsLatest, PKIDone, KubeconfigDone, SettlesInSync, Quiescent
<1>5. RestDone'
  BY <1>1 DEF IInv, Done, RestDone
<1> QED BY <1>2, <1>3, <1>4, <1>5 DEF IInv, Done

\* Somebody writes an object, or the garbage collector deletes it.
LEMMA ObjectsKeep ==
    ASSUME NEW r \in Resources, NEW c \in Content, Put(r, c), faults' \in 0 .. MaxFaults,
           UNCHANGED <<rt, rtCache, cache, queued, at, copy, pki>>
    PROVE  IInv => IInv'
<1> SUFFICES ASSUME IInv PROVE IInv'
  OBVIOUS
<1>1. current' = current \ {r} /\ \A q \in Resources : q # r => store'[q] = store[q]
  BY DEF Put, IInv, TypeOK
<1>2. TypeOK'
  BY DEF Put, IInv, TypeOK
<1>3. Versions'
  BY <1>1, Names DEF IInv, Versions
<1>4. CopyIsLatest' /\ PKIDone' /\ KubeconfigDone'
  BY <1>1, Names DEF IInv, Done, CopyIsLatest, PKIDone, KubeconfigDone, ClientKubeconfig
<1>5. SettlesInSync'
  BY <1>1 DEF SettlesInSync, Quiescent
<1>6. RestDone'
  <2> SUFFICES ASSUME NEW i \in 4 .. at - 1, ~queued, Order[i] \in current'
               PROVE  store'[Order[i]] = [spec |-> copy.spec, ca |-> None]
    BY DEF RestDone
  <2>1. i - 3 \in 1 .. Len(Rest) /\ (i - 3) + 3 = i
    BY OrderFacts DEF IInv, TypeOK
  <2>2. Order[i] \in Resources /\ Order[i] # r /\ Order[i] \in current
    BY <1>1, <2>1, OrderFacts, Names
  <2> QED BY <1>1, <2>2 DEF IInv, Done, RestDone
<1> QED BY <1>2, <1>3, <1>4, <1>5, <1>6 DEF IInv, Done

\* Every step of the controller and of its world keeps the invariant.
LEMMA NextIInv == IInv /\ [Next]_vars => IInv'
<1> SUFFICES ASSUME IInv, [Next]_vars PROVE IInv'
  OBVIOUS
<1>1. CASE Pass
  BY <1>1, ReconcileKeeps, RefetchKeeps, SetupPKIKeeps, SetupKubeconfigKeeps, SetupKeeps,
     RecordAvailableKeeps DEF Pass
<1>2. CASE StepFails
  BY <1>2, StepFailsKeeps
<1>3. CASE Crash \/ CacheRuntime \/ Watches
  BY <1>3, EventsKeep DEF Watches
<1>4. ASSUME NEW s \in Specs, EditSpec(s) PROVE IInv'
  <2> DEFINE o == [rt EXCEPT !.gen = @ + 1, !.spec = s]
  <2>1. o \in Runtimes /\ o.spec = s
    <3>1. rt \in Runtimes /\ rt.gen + 1 \in 0 .. MaxGen
      BY <1>4, RuntimeAssumption DEF EditSpec, IInv, TypeOK
    <3> QED BY <3>1, Zenon DEF Runtimes
  <2>2. o # rt
    BY <1>4, <2>1, Zenon DEF EditSpec
  <2>3. Update(o) /\ faults' \in 0 .. MaxFaults /\ UNCHANGED <<store, rtCache, cache, queued, at, copy, pki>>
    BY <1>4 DEF EditSpec, IInv, TypeOK
  <2> HIDE DEF o
  <2> QED BY <2>1, <2>2, <2>3, UsersKeep
<1>5. CASE Delete
  <2>1. NoRuntime # rt
    BY <1>5 DEF Delete, NoRuntime
  <2>2. Update(NoRuntime) /\ faults' \in 0 .. MaxFaults /\ UNCHANGED <<store, rtCache, cache, queued, at, copy, pki>>
    BY <1>5, RuntimeAssumption DEF Delete, Fault, IInv, TypeOK
  <2> QED BY <2>1, <2>2, Values, UsersKeep
<1>6. ASSUME NEW r \in Resources, NEW c \in {Nothing, [spec |-> Edited, ca |-> None]}, Tamper(r, c)
      PROVE  IInv'
  <2>1. c \in Content
    BY Values, SMTT(40) DEF Content
  <2>2. Put(r, c) /\ faults' \in 0 .. MaxFaults /\ UNCHANGED <<rt, rtCache, cache, queued, at, copy, pki>>
    BY <1>6, RuntimeAssumption DEF Tamper, Fault, IInv, TypeOK
  <2> QED BY <2>1, <2>2, ObjectsKeep
<1>7. ASSUME NEW r \in Resources, Collect(r) PROVE IInv'
  <2>1. Put(r, Nothing) /\ faults' \in 0 .. MaxFaults /\ UNCHANGED <<rt, rtCache, cache, queued, at, copy, pki>>
    BY <1>7, SMTT(40) DEF Collect, IInv, TypeOK
  <2> QED BY <2>1, Values, ObjectsKeep
<1>8. CASE UNCHANGED vars
  BY <1>8 DEF vars, IInv, TypeOK, Versions, Done, CopyIsLatest, PKIDone, KubeconfigDone, RestDone,
              SettlesInSync, Quiescent, InSync, ClientKubeconfig
<1> QED BY <1>1, <1>2, <1>3, <1>4, <1>5, <1>6, <1>7, <1>8 DEF Next, Collector

\* The invariant holds of every behaviour of the Runtime controller.
THEOREM Invariance == Spec => []IInv
BY InitIInv, NextIInv, PTL DEF Spec

\* The controller and the API server keep their types.
THEOREM TypeCorrect == Spec => []TypeOK
<1>1. IInv => TypeOK
  BY DEF IInv
<1> QED BY <1>1, Invariance, PTL

\* Reconcile loses no trigger: the controller rests only over objects rendered from
\* the latest spec, with a kubeconfig signed by the stored CA and a status that says so.
THEOREM RestIsInSync == Spec => []SettlesInSync
<1>1. IInv => SettlesInSync
  BY SMTT(40) DEF IInv
<1> QED BY <1>1, Invariance, PTL

\* A step of setupPKIAuthConfiguration, or of anyone else, keeps the CA of a PKI
\* Secret that is there.
LEMMA StepKeepsCA ==
    IInv /\ [Next]_vars => (store["pki"] # Nothing /\ store'["pki"] # Nothing
                                => store'["pki"].ca = store["pki"].ca)
<1> SUFFICES ASSUME IInv, [Next]_vars, store["pki"] # Nothing, store'["pki"] # Nothing,
                    store' # store
             PROVE  store'["pki"].ca = store["pki"].ca
  OBVIOUS
<1>1. ASSUME NEW r \in Resources, NEW c, Put(r, c), r # "pki" PROVE store'["pki"] = store["pki"]
  BY <1>1, Names DEF Put, IInv, TypeOK
<1>2. ASSUME NEW c, Put("pki", c) PROVE store'["pki"] = c
  BY <1>2, Names DEF Put, IInv, TypeOK
<1>3. CASE SetupPKI
  <2>1. "pki" \in current /\ Put("pki", Regenerated(cache["pki"], copy.spec))
    BY <1>3, SMTT(40) DEF SetupPKI, Degrade
  <2>2. cache["pki"] = store["pki"] /\ store["pki"] \in Content
    BY <2>1, Names DEF IInv, Versions, TypeOK
  <2>3. store'["pki"] = [store["pki"] EXCEPT !.spec = copy.spec]
    BY <1>2, <2>1, <2>2 DEF Regenerated
  <2> QED BY <2>2, <2>3 DEF Content
<1>4. CASE SetupKubeconfig
  BY <1>1, <1>4, Names DEF SetupKubeconfig, CreateOrUpdate, Create, Overwrite, Degrade
<1>5. ASSUME NEW r \in RestSet, Setup(r) PROVE store'["pki"] = store["pki"]
  BY <1>1, <1>5, Names DEF Setup, CreateOrUpdate, Create, Overwrite, Degrade
<1>6. ASSUME NEW r \in Resources, NEW c, Tamper(r, c) PROVE store'["pki"] = store["pki"]
  BY <1>1, <1>2, <1>6 DEF Tamper
<1>7. ASSUME NEW r \in Resources, Collect(r) PROVE store'["pki"] = store["pki"]
  BY <1>1, <1>2, <1>7 DEF Collect
<1> QED
  BY <1>3, <1>4, <1>5, <1>6, <1>7, Zenon
  DEF Next, Pass, Watches, Collector, Reconcile, Refetch, RecordAvailable, StepFails, Degrade, Crash,
      CacheRuntime, CacheObject, EditSpec, Delete, vars

\* "the CA is always preserved so that existing clients do not need to re-trust the
\* root", however stale the reads of setupPKIAuthConfiguration are.
THEOREM CAsPreserved == Spec => CAPreserved
<1>1. IInv /\ [Next]_vars => [store["pki"] # Nothing /\ store'["pki"] # Nothing
                                  => store'["pki"].ca = store["pki"].ca]_vars
  BY StepKeepsCA
<1> QED BY <1>1, Invariance, PTL DEF Spec, CAPreserved
-----------------------------------------------------------------------------
(* In sync for good. *)

\* A Runtime that exists has a spec, and only the PKI Secret and the kubeconfig have a CA.
Plain ==
    /\ rt.gen # 0 => rt.spec \in Specs
    /\ \A r \in RestSet : store[r].ca = None

\* Only users give a Runtime another spec: every status update goes to a copy of the
\* latest version.
LEMMA SpecKept ==
  ASSUME IInv, [Next]_vars
  PROVE  \/ rt'.gen = rt.gen /\ rt'.spec = rt.spec
         \/ rt' = NoRuntime
         \/ \E s \in Specs : rt' = [rt EXCEPT !.gen = rt.gen + 1, !.spec = s]
<1>0. rt \in Runtimes /\ rtCache \in Runtimes /\ copy \in Runtimes
  BY DEF IInv, TypeOK
<1> DEFINE Kept == rt'.gen = rt.gen /\ rt'.spec = rt.spec
<1>1. CASE UNCHANGED rt
  BY <1>1
<1>2. ASSUME at >= 2, Degrade PROVE Kept
  <2>1. rt' = rt \/ (copy = rt /\ rt' = [copy EXCEPT !.available = "False", !.observed = copy.gen])
    BY <1>2 DEF Degrade, Update, IInv, Versions
  <2> QED BY <1>0, <2>1, ZenonT(40) DEF Runtimes
<1>3. CASE Reconcile
  <2>1. rt' = rt \/ (rtCache = rt /\ rt' = [rtCache EXCEPT !.available = "Unknown"])
    BY <1>3, ZenonT(40) DEF Reconcile, Update, Read, IInv, Versions
  <2> QED BY <1>0, <2>1, ZenonT(40) DEF Runtimes
<1>4. CASE RecordAvailable
  <2>1. rt' = rt \/ (rtCache = rt /\ rt' = [rtCache EXCEPT !.available = "True", !.observed = rtCache.gen, !.certs = pki])
    BY <1>4, ZenonT(40) DEF RecordAvailable, Update, IInv, Versions
  <2> QED BY <1>0, <2>1, ZenonT(40) DEF Runtimes
<1>5. at > 0 /\ Order[at] \in Resources => at >= 2
  BY StepAt DEF IInv
<1>6. ASSUME SetupPKI \/ SetupKubeconfig \/ \E r \in RestSet : Setup(r) PROVE Kept
  <2>1. at > 0 /\ Order[at] \in Resources
    BY <1>6, Names, ZenonT(40) DEF SetupPKI, SetupKubeconfig, Setup
  <2>2. Degrade \/ UNCHANGED rt
    BY <1>6, ZenonT(40) DEF SetupPKI, SetupKubeconfig, Setup, CreateOrUpdate, Create, Overwrite, Advance
  <2> QED BY <1>2, <1>5, <2>1, <2>2
<1>7. CASE StepFails
  <2>1. (at > 0 /\ Order[at] \in Resources /\ Degrade) \/ UNCHANGED rt
    BY <1>7, ZenonT(40) DEF StepFails
  <2> QED BY <1>2, <1>5, <2>1, ZenonT(40)
<1>8. Refetch \/ Crash \/ CacheRuntime \/ Watches \/ Collector \/ UNCHANGED vars => UNCHANGED rt
  BY ZenonT(40) DEF Refetch, Read, Crash, CacheRuntime, Watches, CacheObject, Collector, Collect, vars
<1>9. \A r \in Resources, c \in {Nothing, [spec |-> Edited, ca |-> None]} : Tamper(r, c) => UNCHANGED rt
  BY ZenonT(40) DEF Tamper
<1>10. Delete => rt' = NoRuntime
  BY DEF Delete, Update
<1>11. ASSUME NEW s \in Specs, EditSpec(s) PROVE rt' = [rt EXCEPT !.gen = rt.gen + 1, !.spec = s]
  BY <1>11 DEF EditSpec, Update
<1> QED
  BY <1>1, <1>3, <1>4, <1>6, <1>7, <1>8, <1>9, <1>10, <1>11, ZenonT(40) DEF Next, Pass

\* What is written over an object other than the first two has no CA.
LEMMA NoOtherCA ==
  ASSUME IInv, [Next]_vars, NEW r \in RestSet
  PROVE  store'[r] = store[r] \/ store'[r].ca = None
<1>0. store \in [Resources -> Content] /\ r \in Resources /\ r # "pki" /\ r # "kubeconfig"
  BY Names DEF IInv, TypeOK
<1>1. \A q \in Resources : \A c : Put(q, c) => store'[r] = IF q = r THEN c ELSE store[r]
  BY <1>0 DEF Put
<1>2. CASE UNCHANGED store
  BY <1>2
<1>3. SetupPKI \/ SetupKubeconfig => UNCHANGED store \/ \E c : Put("pki", c) \/ Put("kubeconfig", c)
  BY ZenonT(40) DEF SetupPKI, SetupKubeconfig, CreateOrUpdate, Create, Overwrite, Degrade
<1>4. \A q \in RestSet : Setup(q) => UNCHANGED store \/ Put(q, [spec |-> copy.spec, ca |-> None])
  BY ZenonT(40) DEF Setup, CreateOrUpdate, Create, Overwrite, Degrade
<1>5. \A q \in Resources : \A c : Tamper(q, c) => Put(q, c)
  BY ZenonT(40) DEF Tamper
<1>6. \A q \in Resources : Collect(q) => Put(q, Nothing)
  BY ZenonT(40) DEF Collect
<1>7. CASE SetupPKI \/ SetupKubeconfig
  BY <1>0, <1>1, <1>3, <1>7, Names, ZenonT(40)
<1>8. ASSUME NEW q \in RestSet, Setup(q) PROVE store'[r] = store[r] \/ store'[r].ca = None
  <2>1. store'[r] = store[r] \/ store'[r] = [spec |-> copy.spec, ca |-> None]
    BY <1>0, <1>1, <1>4, <1>8, Names, ZenonT(40)
  <2> QED BY <2>1
<1>9. ASSUME NEW q \in Resources, NEW c \in {Nothing, [spec |-> Edited, ca |-> None]}, Tamper(q, c) \/ Collect(q)
      PROVE  store'[r] = store[r] \/ store'[r].ca = None
  <2>1. store'[r] = store[r] \/ store'[r] = c \/ store'[r] = Nothing
    BY <1>1, <1>5, <1>6, <1>9, ZenonT(40)
  <2>2. c.ca = None /\ Nothing.ca = None
    BY DEF Nothing
  <2> QED BY <2>1, <2>2
<1>10. \/ Reconcile \/ Refetch \/ RecordAvailable \/ StepFails \/ Crash \/ CacheRuntime \/ Watches
       \/ Delete \/ (\E s \in Specs : EditSpec(s)) \/ UNCHANGED vars
       => UNCHANGED store
  BY ZenonT(40) DEF Reconcile, Refetch, RecordAvailable, StepFails, Degrade, Crash, CacheRuntime, Watches,
     CacheObject, Delete, EditSpec, vars
<1> QED
  BY <1>2, <1>7, <1>8, <1>9, <1>10, ZenonT(40) DEF Next, Pass, Collector

\* Plain holds throughout.
LEMMA PlainInvariance == Spec => []Plain
<1>1. Init => Plain
  <2> SUFFICES ASSUME Init PROVE Plain
    OBVIOUS
  <2>1. rt.spec = CHOOSE s \in Specs : TRUE
    BY Zenon DEF Init, NoRuntime
  <2>2. (CHOOSE s \in Specs : TRUE) \in Specs
    BY RuntimeAssumption
  <2>3. \A r \in RestSet : store[r] = Nothing
    BY Names DEF Init
  <2> QED BY <2>1, <2>2, <2>3 DEF Plain, Nothing
<1>2. IInv /\ Plain /\ [Next]_vars => Plain'
  <2> SUFFICES ASSUME IInv, Plain, [Next]_vars PROVE Plain'
    BY ZenonT(40)
  <2>1. rt'.gen # 0 => rt'.spec \in Specs
    <3>1. rt \in Runtimes
      BY DEF IInv, TypeOK
    <3>2. CASE rt'.gen = rt.gen /\ rt'.spec = rt.spec
      BY <3>2 DEF Plain
    <3>3. CASE rt' = NoRuntime
      BY <3>3 DEF NoRuntime
    <3>4. ASSUME NEW s \in Specs, rt' = [rt EXCEPT !.gen = rt.gen + 1, !.spec = s] PROVE rt'.spec \in Specs
      BY <3>1, <3>4 DEF Runtimes
    <3> QED BY <3>2, <3>3, <3>4, SpecKept, ZenonT(40)
  <2>2. \A r \in RestSet : store'[r].ca = None
    BY NoOtherCA, ZenonT(40) DEF Plain
  <2> QED BY <2>1, <2>2 DEF Plain
<1> QED BY <1>1, <1>2, Invariance, PTL DEF Spec

\* Everything is in sync and known, also to the pass that may be running.
Converged ==
    /\ rt.gen # 0 /\ InSync
    /\ Resources \cup {"rt"} \subseteq current
    /\ at >= 2 => copy.spec = rt.spec
    /\ at >= 3 => pki = store["pki"]

\* What the operator and the API server do by themselves, and a new start of the operator.
Unprompted == Pass \/ CacheRuntime \/ Watches \/ Collector \/ Crash

\* A step of a pass that finds what it would write.
LEMMA Finds ==
  ASSUME NEW r \in Resources, NEW c, NEW tolerant, cache[r] = c, c # Nothing, CreateOrUpdate(r, c, tolerant)
  PROVE  Advance /\ UNCHANGED <<store, current, pki>>
BY ZenonT(40) DEF CreateOrUpdate, Create, Overwrite

\* No step of a pass changes anything that is in sync.
LEMMA ConvergedStep ==
  ASSUME IInv, Plain, Converged, Unprompted
  PROVE  Converged' /\ UNCHANGED <<rt, store>>
<1>0. /\ rt \in Runtimes /\ store \in [Resources -> Content] /\ pki \in Content
      /\ rtCache = rt /\ \A r \in Resources : cache[r] = store[r]
      /\ "rt" \in current /\ Resources \subseteq current
      /\ at \in 0 .. Len(Order)
  BY DEF IInv, TypeOK, Versions, Converged
<1>1. /\ rt.gen # 0 /\ rt.spec \in Specs /\ rt.spec # None
      /\ \A r \in Resources : store[r].spec = rt.spec
      /\ store["kubeconfig"].ca = store["pki"].ca
      /\ rt.available = "True" /\ rt.observed = rt.gen /\ rt.certs = store["pki"]
  BY RuntimeAssumption DEF Converged, InSync, Plain
<1>2. \A r \in Resources : store[r] # Nothing
  BY <1>1 DEF Nothing
<1>3. ASSUME UNCHANGED <<rt, store>>, Resources \cup {"rt"} \subseteq current',
             at' >= 2 => copy'.spec = rt.spec, at' >= 3 => pki' = store["pki"]
      PROVE  Converged' /\ UNCHANGED <<rt, store>>
  BY <1>3 DEF Converged, InSync
<1>4. ~ CacheRuntime /\ ~ Watches /\ ~ Collector
  BY <1>0, <1>1 DEF CacheRuntime, Watches, CacheObject, Collector, Collect
<1>5. CASE Reconcile
  <2>1. at' = 2 /\ copy' = rtCache /\ UNCHANGED <<rt, store>>
        /\ current' = IF "rt" \in current THEN current \cup {"copy"} ELSE current \ {"copy"}
    BY <1>0, <1>1, <1>5 DEF Reconcile, Read
  <2> QED BY <1>0, <1>3, <2>1
<1>6. CASE Refetch
  <2>1. at' = 2 /\ copy' = rtCache /\ UNCHANGED <<rt, store>>
        /\ current' = IF "rt" \in current THEN current \cup {"copy"} ELSE current \ {"copy"}
    BY <1>0, <1>1, <1>6 DEF Refetch, Read
  <2> QED BY <1>0, <1>3, <2>1
<1>7. CASE SetupPKI
  <2>1. at = 2 /\ "pki" \in Resources /\ "pki" \in current
    BY <1>0, <1>7, StepAt, Names DEF SetupPKI, IInv
  <2>2. copy.spec = rt.spec /\ cache["pki"] # Nothing /\ cache["pki"].spec = copy.spec
    BY <1>0, <1>1, <1>2, <2>1 DEF Converged
  <2>3. pki' = cache["pki"] /\ Advance /\ UNCHANGED <<store, current>>
    BY <1>7, <2>1, <2>2, ZenonT(40) DEF SetupPKI
  <2>4. at' = 3 /\ UNCHANGED <<rt, copy>>
    BY <2>1, <2>3 DEF Advance
  <2> QED BY <1>0, <1>3, <2>1, <2>2, <2>3, <2>4
<1>8. ASSUME at >= 3, Advance, UNCHANGED <<store, current, pki>> PROVE Converged' /\ UNCHANGED <<rt, store>>
  <2>1. at' >= 3 /\ UNCHANGED <<rt, copy>>
    BY <1>0, <1>8, OrderFacts DEF Advance
  <2>2. copy.spec = rt.spec /\ pki = store["pki"]
    BY <1>0, <1>8, OrderFacts DEF Converged
  <2> QED BY <1>0, <1>3, <1>8, <2>1, <2>2
<1>9. CASE SetupKubeconfig
  <2>1. at = 3
    BY <1>9, StepAt DEF SetupKubeconfig, IInv
  <2>2. copy.spec = rt.spec
    BY <2>1 DEF Converged
  <2>3. store["kubeconfig"] = ClientKubeconfig(cache["pki"], copy.spec)
    BY <1>0, <1>1, <2>2, Names DEF ClientKubeconfig, Content
  <2>4. CreateOrUpdate("kubeconfig", ClientKubeconfig(cache["pki"], copy.spec), TRUE)
    BY <1>0, <1>2, <1>9, Names, ZenonT(40) DEF SetupKubeconfig
  <2>5. Advance /\ UNCHANGED <<store, current, pki>>
    BY <1>0, <1>2, <2>3, <2>4, Finds, Names, ZenonT(40)
  <2> QED BY <1>8, <2>1, <2>5
<1>10. ASSUME NEW r \in RestSet, Setup(r) PROVE Converged' /\ UNCHANGED <<rt, store>>
  <2>1. at >= 3 /\ r \in Resources
    BY <1>10, StepAt, Names, OrderFacts DEF Setup, IInv
  <2>2. copy.spec = rt.spec
    BY <1>0, <2>1, OrderFacts DEF Converged
  <2>3. store[r] = [spec |-> copy.spec, ca |-> None]
    BY <1>0, <1>1, <2>1, <2>2 DEF Plain, Content
  <2>4. CreateOrUpdate(r, [spec |-> copy.spec, ca |-> None], r \in Tolerant)
    BY <1>10 DEF Setup
  <2>5. Advance /\ UNCHANGED <<store, current, pki>>
    BY <1>0, <1>2, <2>1, <2>3, <2>4, Finds
  <2> QED BY <1>8, <2>1, <2>5
<1>11. CASE RecordAvailable
  <2>1. at >= 3
    BY <1>11, StepAt, OrderFacts DEF RecordAvailable, IInv
  <2>2. pki = rt.certs
    BY <1>1, <2>1 DEF Converged
  <2>3. [rtCache EXCEPT !.available = "True", !.observed = rtCache.gen, !.certs = pki] = rt
    BY <1>0, <1>1, <2>2, ZenonT(40) DEF Runtimes
  <2>4. Update([rtCache EXCEPT !.available = "True", !.observed = rtCache.gen, !.certs = pki])
          /\ End /\ UNCHANGED store
    BY <1>0, <1>1, <1>11, ZenonT(40) DEF RecordAvailable
  <2>5. UNCHANGED <<rt, store>> /\ current' = current \ {"copy"} /\ at' = 0
    BY <2>3, <2>4 DEF Update, End
  <2> QED BY <1>0, <1>3, <2>5, Names
<1>12. CASE Crash
  <2>1. UNCHANGED <<rt, store>> /\ current' = Resources \cup {"rt"} /\ at' = 0
    BY <1>12 DEF Crash, Error, End
  <2> QED BY <1>3, <2>1
<1> QED BY <1>4, <1>5, <1>6, <1>7, <1>9, <1>10, <1>11, <1>12, ZenonT(40) DEF Unprompted, Pass

\* The safety half of Converges: once everything is in sync and known, the controller
\* leaves it alone.  A pass, whatever triggered it, writes nothing new, not even a
\* status, so that it does not trigger itself; neither does a new start of the operator.
THEOREM InSyncStays == Spec => [][Converged /\ Unprompted => Converged' /\ UNCHANGED <<rt, store>>]_vars
<1>1. IInv /\ Plain => (Converged /\ Unprompted => Converged' /\ UNCHANGED <<rt, store>>)
  BY ConvergedStep
<1> QED BY <1>1, Invariance, PlainInvariance, PTL DEF Spec
=============================================================================
