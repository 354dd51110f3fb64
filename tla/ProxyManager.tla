---------------------------- MODULE ProxyManager ----------------------------
(***************************************************************************)
(* The worker's API server proxy (pkg/provision/worker/proxy): a registry  *)
(* of upstreams (lists of endpoints) and downstreams (local listeners),    *)
(* with one handle per running downstream.                                 *)
(*                                                                         *)
(* Every operation of the Manager locks it for one step.  Link then runs   *)
(* the downstream unlocked until its context ends; RemoveDownstream and    *)
(* Close wait, unlocked, for such loops.  Upstreams and downstreams are    *)
(* objects: one that is removed and added again is a new object under an   *)
(* old name, while goroutines may still hold the old one.                  *)
(***************************************************************************)
EXTENDS Naturals, Sequences

CONSTANTS UpNames, DownNames,  \* registered names
          MaxObjects,          \* bound on the objects made under one name
          Links,               \* calls of Link, and the handle each may register
          Removers,            \* goroutines that call RemoveDownstream
          Clients,             \* connections to a downstream
          Endpoints,           \* backend addresses
          EndpointLists,       \* lists AddUpstream and Update may be given
          None, Idle, Spliced

\* Objects, numbered in the order in which they are made under a name.
Ups   == UpNames \X (1 .. MaxObjects)
Downs == DownNames \X (1 .. MaxObjects)

ASSUME ProxyAssumption ==
    /\ None \notin Ups /\ None \notin Downs /\ None \notin Links
    /\ MaxObjects \in Nat
    /\ EndpointLists \subseteq Seq(Endpoints)
    /\ Idle \notin Seq(Endpoints) /\ Spliced \notin Seq(Endpoints) /\ Idle # Spliced

VARIABLES
    upstreams,    \* name -> its upstream
    downstreams,  \* name -> its downstream
    handles,      \* name -> the call of Link whose handle is registered
    made,         \* objects created so far
    endpoints,    \* upstream -> its endpoints
    upstream,     \* downstream -> the upstream it is linked to
    proxy,        \* downstream -> the call of Link that made its tcpproxy
    link,         \* call of Link -> where it stands
    runs,         \* call of Link -> the downstream it runs
    listening,    \* calls of Link whose tcpproxy listens
    cancelled,    \* calls of Link whose handle was cancelled
    remover,      \* remover -> the downstream it removes and the handle it waits for
    close,        \* where Close stands
    awaits,       \* the handles Close waits for
    client        \* client connection -> Idle, the endpoints left to dial, or Spliced

registry == <<upstreams, downstreams, handles, made, endpoints, upstream>>
loops    == <<proxy, link, runs, listening, cancelled>>
vars     == <<registry, loops, remover, close, awaits, client>>

\* States of a call of Link: "run" before tcpproxy.Start, "exit" when Run has
\* returned, "delete" between close(h.done) and the removal of the handle.
LinkStates == {"new", "run", "serve", "exit", "delete", "returned"}
Done(l)    == link[l] \in {"delete", "returned"}
Running(l) == link[l] \in {"run", "serve"}

NotCalled == [ds |-> None, waits |-> {}]

TypeOK ==
    /\ upstreams \in [UpNames -> Ups \cup {None}]
    /\ downstreams \in [DownNames -> Downs \cup {None}]
    /\ handles \in [DownNames -> Links \cup {None}]
    /\ made \in SUBSET (Ups \cup Downs)
    /\ endpoints \in [Ups -> EndpointLists \cup {<<>>}]
    /\ upstream \in [Downs -> Ups \cup {None}]
    /\ proxy \in [Downs -> Links \cup {None}]
    /\ link \in [Links -> LinkStates]
    /\ runs \in [Links -> Downs \cup {None}]
    /\ listening \in SUBSET Links /\ cancelled \in SUBSET Links
    /\ remover \in [Removers -> [ds : Downs \cup {None}, waits : SUBSET Links]]
    /\ close \in {"open", "cancelled", "waiting", "closed"}
    /\ awaits \in SUBSET Links
    /\ client \in [Clients -> Seq(Endpoints) \cup {Idle, Spliced}]

\* NewManager.
Init ==
    /\ upstreams = [n \in UpNames |-> None]
    /\ downstreams = [n \in DownNames |-> None]
    /\ handles = [n \in DownNames |-> None]
    /\ made = {}
    /\ endpoints = [u \in Ups |-> <<>>]
    /\ upstream = [d \in Downs |-> None]
    /\ proxy = [d \in Downs |-> None]
    /\ link = [l \in Links |-> "new"]
    /\ runs = [l \in Links |-> None]
    /\ listening = {} /\ cancelled = {}
    /\ remover = [r \in Removers |-> NotCalled]
    /\ close = "open" /\ awaits = {}
    /\ client = [c \in Clients |-> Idle]
-----------------------------------------------------------------------------
(* Upstreams. *)

\* The next object of that name.
New(objects, n) ==
    {o \in objects \ made : o[1] = n /\ \A p \in objects \ made : p[1] = n => o[2] =< p[2]}

\* Upstream.Update, and what NewUpstream starts with.
Update(u, eps) == endpoints' = [endpoints EXCEPT ![u] = eps]

\* Faulty variant: a second AddUpstream makes a new object.
AddUpstreamReplaces(n, eps) ==
    \E u \in New(Ups, n) :
        /\ upstreams' = [upstreams EXCEPT ![n] = u]
        /\ Update(u, eps)
        /\ made' = made \cup {u}
        /\ UNCHANGED <<downstreams, handles, upstream, loops, remover, close, awaits, client>>

\* AddUpstream: an upstream that exists is updated in place.
AddUpstream(n, eps) ==
    /\ \/ /\ upstreams[n] # None
          /\ Update(upstreams[n], eps)
          /\ UNCHANGED <<upstreams, made>>
       \/ \E u \in New(Ups, n) :
            /\ upstreams[n] = None
            /\ upstreams' = [upstreams EXCEPT ![n] = u]
            /\ Update(u, eps)
            /\ made' = made \cup {u}
    /\ UNCHANGED <<downstreams, handles, upstream, loops, remover, close, awaits, client>>

Registered(d) == downstreams[d[1]] = d

\* RemoveUpstream, which unlinks by name every registered downstream.
RemoveUpstream(n) ==
    /\ upstreams[n] # None
    /\ upstreams' = [upstreams EXCEPT ![n] = None]
    /\ upstream' = [d \in Downs |->
            IF Registered(d) /\ upstream[d] # None /\ upstream[d][1] = n THEN None ELSE upstream[d]]
    /\ UNCHANGED <<downstreams, handles, made, endpoints, loops, remover, close, awaits, client>>
-----------------------------------------------------------------------------
(* Downstreams. *)

\* AddDownstream: one that exists is returned unchanged.
AddDownstream(n) ==
    /\ downstreams[n] = None
    /\ \E d \in New(Downs, n) :
        /\ downstreams' = [downstreams EXCEPT ![n] = d]
        /\ made' = made \cup {d}
    /\ UNCHANGED <<upstreams, handles, endpoints, upstream, loops, remover, close, awaits, client>>

\* Downstream.Link and Downstream.Unlink: swap the pointer.
Attach(d, u) == upstream' = [upstream EXCEPT ![d] = u]

Unlink(n) ==
    /\ downstreams[n] # None
    /\ Attach(downstreams[n], None)
    /\ UNCHANGED <<upstreams, downstreams, handles, made, endpoints, loops, remover, close,
                   awaits, client>>

\* The handle registered under a name, if any.
Handle(n) == {handles[n]} \ {None}

\* Faulty variant: the handle is taken out but its context is not cancelled.
RemoveDownstreamWaits(r, n) ==
    /\ remover[r] = NotCalled /\ downstreams[n] # None
    /\ handles' = [handles EXCEPT ![n] = None]
    /\ downstreams' = [downstreams EXCEPT ![n] = None]
    /\ remover' = [remover EXCEPT ![r] = [ds |-> downstreams[n], waits |-> Handle(n)]]
    /\ UNCHANGED <<upstreams, made, endpoints, upstream, loops, close, awaits, client>>

\* RemoveDownstream, locked: cancel the handle if there is one, forget both.
RemoveDownstream(r, n) ==
    /\ remover[r] = NotCalled /\ downstreams[n] # None
    /\ cancelled' = cancelled \cup Handle(n)
    /\ handles' = [handles EXCEPT ![n] = None]
    /\ downstreams' = [downstreams EXCEPT ![n] = None]
    /\ remover' = [remover EXCEPT ![r] = [ds |-> downstreams[n], waits |-> Handle(n)]]
    /\ UNCHANGED <<upstreams, made, endpoints, upstream, proxy, link, runs, listening, close,
                   awaits, client>>

\* RemoveDownstream, unlocked: the loop it cancelled is over.
Removed(r) ==
    /\ remover[r].ds # None
    /\ \A l \in remover[r].waits : Done(l)
    /\ remover' = [remover EXCEPT ![r] = NotCalled]
    /\ UNCHANGED <<registry, loops, close, awaits, client>>
-----------------------------------------------------------------------------
(* Link and Downstream.Run. *)

\* Link, locked.  The downstream is linked even when it is already running, in
\* which case the call returns an error.  A name that is not registered is an error too.
Link(l, n, up) ==
    /\ link[l] = "new"
    /\ downstreams[n] # None /\ upstreams[up] # None
    /\ Attach(downstreams[n], upstreams[up])
    /\ IF handles[n] # None
         THEN link' = [link EXCEPT ![l] = "returned"] /\ UNCHANGED <<handles, runs>>
         ELSE /\ link' = [link EXCEPT ![l] = "run"]
              /\ handles' = [handles EXCEPT ![n] = l]
              /\ runs' = [runs EXCEPT ![l] = downstreams[n]]
    /\ UNCHANGED <<upstreams, downstreams, made, endpoints, proxy, listening, cancelled,
                   remover, close, awaits, client>>

\* Run makes a tcpproxy and starts it.  The address may be taken, by another
\* process or by a loop of the same downstream.
Start(l) ==
    /\ link[l] = "run"
    /\ proxy' = [proxy EXCEPT ![runs[l]] = l]
    /\ \/ /\ \A k \in listening : runs[k][1] # runs[l][1]
          /\ link' = [link EXCEPT ![l] = "serve"]
          /\ listening' = listening \cup {l}
       \/ /\ link' = [link EXCEPT ![l] = "exit"]
          /\ UNCHANGED listening
    /\ UNCHANGED <<registry, runs, cancelled, remover, close, awaits, client>>

\* Faulty variant: the loop's context is not derived from the manager's.
CtxDoneOwn(l) == l \in cancelled

CtxDone(l) == l \in cancelled \/ close # "open"

\* Run closes the downstream's tcpproxy: the one its latest Run made.
Stop(l) ==
    /\ link[l] = "serve" /\ CtxDone(l)
    /\ listening' = listening \ {proxy[runs[l]]}
    /\ link' = [link EXCEPT ![l] = "exit"]
    /\ UNCHANGED <<registry, proxy, runs, cancelled, remover, close, awaits, client>>

\* The deferred function of Link: close(h.done), then, locked, delete the handle
\* of that name, whichever call registered it.
CloseDone(l) ==
    /\ link[l] = "exit"
    /\ link' = [link EXCEPT ![l] = "delete"]
    /\ UNCHANGED <<registry, proxy, runs, listening, cancelled, remover, close, awaits, client>>
DeleteHandle(l) ==
    /\ link[l] = "delete"
    /\ link' = [link EXCEPT ![l] = "returned"]
    /\ handles' = [handles EXCEPT ![runs[l][1]] = None]
    /\ UNCHANGED <<upstreams, downstreams, made, endpoints, upstream, proxy, runs, listening,
                   cancelled, remover, close, awaits, client>>
-----------------------------------------------------------------------------
(* Close. *)

CancelAll ==
    /\ close = "open"
    /\ close' = "cancelled"
    /\ UNCHANGED <<registry, loops, remover, awaits, client>>

TakeHandles ==
    /\ close = "cancelled"
    /\ close' = "waiting"
    /\ awaits' = UNION {Handle(n) : n \in DownNames}
    /\ handles' = [n \in DownNames |-> None]
    /\ UNCHANGED <<upstreams, downstreams, made, endpoints, upstream, loops, remover, client>>

Closed ==
    /\ close = "waiting" /\ \A l \in awaits : Done(l)
    /\ close' = "closed"
    /\ UNCHANGED <<registry, loops, remover, awaits, client>>
-----------------------------------------------------------------------------
(* A connection accepted by a listening downstream. *)

\* The dial function of Run loads the linked upstream, and Upstream.DialContext
\* copies its endpoints.  Without an upstream or endpoints the client is refused.
Accept(c, l) ==
    /\ client[c] = Idle /\ l \in listening
    /\ LET up == upstream[runs[l]] IN
         up # None /\ endpoints[up] # <<>> /\ client' = [client EXCEPT ![c] = endpoints[up]]
    /\ UNCHANGED <<registry, loops, remover, close, awaits>>

\* The first endpoint of those left answers, or fails and the next is tried; the
\* last failure closes the client's connection.
Dial(c) ==
    /\ client[c] \notin {Idle, Spliced}
    /\ client' = [client EXCEPT ![c] = Spliced]
       \/ client' = [client EXCEPT ![c] = IF Len(@) = 1 THEN Idle ELSE Tail(@)]
    /\ UNCHANGED <<registry, loops, remover, close, awaits>>

\* One of the two ends closes; RemoveUpstream, Update and Stop leave it alone.
HangUp(c) ==
    /\ client[c] = Spliced
    /\ client' = [client EXCEPT ![c] = Idle]
    /\ UNCHANGED <<registry, loops, remover, close, awaits>>
-----------------------------------------------------------------------------
\* Steps of a call of Link that wait for nobody.
Loop(l) == Start(l) \/ Stop(l) \/ CloseDone(l) \/ DeleteHandle(l)

Next ==
    \/ \E n \in UpNames : RemoveUpstream(n) \/ \E eps \in EndpointLists : AddUpstream(n, eps)
    \/ \E n \in DownNames :
         \/ AddDownstream(n) \/ Unlink(n)
         \/ \E r \in Removers : RemoveDownstream(r, n)
         \/ \E l \in Links, up \in UpNames : Link(l, n, up)
    \/ \E r \in Removers : Removed(r)
    \/ \E l \in Links : Loop(l) \/ \E c \in Clients : Accept(c, l)
    \/ CancelAll \/ TakeHandles \/ Closed
    \/ \E c \in Clients : Dial(c) \/ HangUp(c)

Spec == Init /\ [][Next]_vars

(***************************************************************************)
(* Fairness: goroutines run.  Nobody has to call an operation of the       *)
(* manager, nor does a client have to hang up.                             *)
(***************************************************************************)
Fairness ==
    /\ \A l \in Links : WF_vars(Loop(l))
    /\ \A r \in Removers : WF_vars(Removed(r))
    /\ WF_vars(TakeHandles) /\ WF_vars(Closed)

FairSpec == Spec /\ Fairness
-----------------------------------------------------------------------------
\* "Unlinks any downstreams that were pointing to it", "updated in place": a
\* registered downstream forwards to the upstream object that the registry holds
\* now under that name, so that a later AddUpstream or Update reaches it and a
\* removed upstream gets no new connection, in whatever order Link, Unlink,
\* AddUpstream and RemoveUpstream are called.
LinkedIsRegistered ==
    \A n \in DownNames :
        LET u == upstream[downstreams[n]] IN
        downstreams[n] # None /\ u # None => upstreams[u[1]] = u

\* A handle in the registry is that of a call of Link that runs the downstream
\* registered under that name and has yet to remove it: RemoveDownstream and
\* Close never wait for the loop of another downstream, nor for none.
HandleIsOfRegistered ==
    \A n \in DownNames : handles[n] # None =>
        /\ downstreams[n] # None /\ runs[handles[n]] = downstreams[n]
        /\ link[handles[n]] \in LinkStates \ {"new", "returned"}

\* RemoveDownstream and Close return, although loops start, fail and end while
\* they run.
CallsReturn ==
    /\ \A r \in Removers : remover[r] # NotCalled ~> remover[r] = NotCalled
    /\ close = "cancelled" ~> close = "closed"

\* Once Close is called every loop ends, also one that no handle leads to and one
\* that is linked after Close took the handles.
CloseStopsLoops == close # "open" ~> [](\A l \in Links : link[l] # "serve")
=============================================================================
