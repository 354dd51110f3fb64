------------------------ MODULE ProxyManagerProofs ------------------------
(***************************************************************************)
(* ProxyManager: what the registry says of the objects it holds, for any   *)
(* number of names, objects, calls of Link, removers and clients.          *)
(*                                                                         *)
(* Objects outlive their registration, so the invariants have to say of    *)
(* which name an object is: a registered object is one of its name, and    *)
(* one that was not made yet is linked to nothing.                         *)
(***************************************************************************)
EXTENDS ProxyManager, SequenceTheorems, TLAPS

\* Registered objects are made under their name; an object that is yet to be
\* made is not linked.
Naming ==
    /\ \A n \in UpNames : upstreams[n] # None => upstreams[n][1] = n
    /\ \A n \in DownNames : downstreams[n] # None => downstreams[n][1] = n
    /\ \A d \in Downs : upstream[d] # None => d \in made
    /\ \A n \in DownNames : downstreams[n] # None => downstreams[n] \in made

\* A loop that is about to listen, or listens, runs a downstream; a client that is
\* being served has an endpoint left to try.
Working ==
    /\ \A l \in Links : l \in listening \/ link[l] = "run" => runs[l] # None
    /\ \A c \in Clients : client[c] # <<>>

IInv == TypeOK /\ Working /\ Naming /\ LinkedIsRegistered /\ HandleIsOfRegistered

\* NewManager establishes the invariant.
LEMMA InitIInv == Init => IInv
  <1> SUFFICES ASSUME Init PROVE IInv
    OBVIOUS
  <1>1. TypeOK
    BY ProxyAssumption DEF Init, TypeOK, LinkStates, NotCalled
  <1>2. Working
    <2>1. <<>> \in Seq(Endpoints)
      OBVIOUS
    <2> QED
      BY <2>1, ProxyAssumption, Zenon DEF Init, Working
  <1>3. Naming /\ HandleIsOfRegistered /\ LinkedIsRegistered
    BY DEF Init, Naming, LinkedIsRegistered, HandleIsOfRegistered
  <1> QED
    BY <1>1, <1>2, <1>3 DEF IInv

\* What an operation changes of the registry, it changes to values of its type.
LEMMA TypeNext == TypeOK /\ Working /\ [Next]_vars => TypeOK'
  <1> SUFFICES ASSUME TypeOK, Working, [Next]_vars PROVE TypeOK'
    OBVIOUS
  <1> USE ProxyAssumption DEF TypeOK, LinkStates, registry, loops, NotCalled
  <1>1. ASSUME NEW n \in UpNames, RemoveUpstream(n) PROVE TypeOK'
    BY <1>1 DEF RemoveUpstream
  <1>2. ASSUME NEW n \in UpNames, NEW eps \in EndpointLists, AddUpstream(n, eps) PROVE TypeOK'
    <2>1. endpoints' \in [Ups -> EndpointLists \cup {<<>>}]
      <3>1. ASSUME NEW u, Update(u, eps) PROVE endpoints' \in [Ups -> EndpointLists \cup {<<>>}]
        BY <3>1, Zenon DEF Update
      <3> QED
        BY <1>2, <3>1 DEF AddUpstream
    <2>2. upstreams' \in [UpNames -> Ups \cup {None}] /\ made' \in SUBSET (Ups \cup Downs)
      BY <1>2 DEF AddUpstream, New
    <2> QED
      BY <1>2, <2>1, <2>2 DEF AddUpstream
  <1>3. ASSUME NEW n \in DownNames, AddDownstream(n) PROVE TypeOK'
    BY <1>3 DEF AddDownstream, New
  <1>4. ASSUME NEW n \in DownNames, Unlink(n) PROVE TypeOK'
    BY <1>4 DEF Unlink, Attach
  <1>5. ASSUME NEW n \in DownNames, NEW r \in Removers, RemoveDownstream(r, n) PROVE TypeOK'
    BY <1>5 DEF RemoveDownstream, Handle
  <1>6. ASSUME NEW n \in DownNames, NEW l \in Links, NEW up \in UpNames, Link(l, n, up) PROVE TypeOK'
    <2>1. upstream' \in [Downs -> Ups \cup {None}]
      BY <1>6 DEF Link, Attach
    <2>2. CASE handles[n] # None
      BY <1>6, <2>1, <2>2 DEF Link
    <2>3. CASE handles[n] = None
      <3>1. link' = [link EXCEPT ![l] = "run"] /\ handles' = [handles EXCEPT ![n] = l]
              /\ runs' = [runs EXCEPT ![l] = downstreams[n]] /\ downstreams[n] \in Downs
        BY <1>6, <2>3 DEF Link
      <3> QED
        BY <1>6, <2>1, <3>1 DEF Link
    <2> QED
      BY <2>2, <2>3
  <1>7. ASSUME NEW r \in Removers, Removed(r) PROVE TypeOK'
    BY <1>7 DEF Removed
  <1>8. ASSUME NEW l \in Links, Loop(l) PROVE TypeOK'
    BY <1>8 DEF Loop, Start, Stop, CloseDone, DeleteHandle
  <1>9. ASSUME NEW l \in Links, NEW c \in Clients, Accept(c, l) PROVE TypeOK'
    <2>1. PICK up \in Ups : endpoints[up] # <<>> /\ client' = [client EXCEPT ![c] = endpoints[up]]
      <3>1. runs[l] \in Downs
        BY <1>9 DEF Accept, Working
      <3>2. upstream[runs[l]] # None /\ endpoints[upstream[runs[l]]] # <<>>
              /\ client' = [client EXCEPT ![c] = endpoints[upstream[runs[l]]]]
        BY <1>9 DEF Accept
      <3> QED
        BY <3>1, <3>2, Zenon
    <2>2. endpoints[up] \in Seq(Endpoints)
      BY <2>1
    <2>3. client' \in [Clients -> Seq(Endpoints) \cup {Idle, Spliced}]
      BY <2>1, <2>2
    <2> QED
      BY <1>9, <2>3 DEF Accept
  <1>10. CASE CancelAll \/ TakeHandles \/ Closed
    BY <1>10 DEF CancelAll, TakeHandles, Closed, Handle
  <1>11. ASSUME NEW c \in Clients, Dial(c) PROVE TypeOK'
    <2>1. client[c] \in Seq(Endpoints) /\ client[c] # <<>>
      BY <1>11 DEF Dial, Working
    <2>2. Tail(client[c]) \in Seq(Endpoints)
      BY <2>1
    <2>3. client' \in [Clients -> Seq(Endpoints) \cup {Idle, Spliced}]
      BY <1>11, <2>1, <2>2, ZenonT(40) DEF Dial
    <2> QED
      BY <1>11, <2>3 DEF Dial
  <1>12. ASSUME NEW c \in Clients, HangUp(c) PROVE TypeOK'
    BY <1>12 DEF HangUp
  <1>13. CASE UNCHANGED vars
    BY <1>13 DEF vars
  <1> QED
    BY <1>1, <1>2, <1>3, <1>4, <1>5, <1>6, <1>7, <1>8, <1>9, <1>10, <1>11, <1>12, <1>13, Zenon DEF Next

\* No step serves a client without an endpoint, nor starts a loop without a
\* downstream.
LEMMA WorkingNext == TypeOK /\ Working /\ [Next]_vars => Working'
  <1> SUFFICES ASSUME TypeOK, Working, [Next]_vars PROVE Working'
    OBVIOUS
  <1> USE ProxyAssumption DEF TypeOK, Working, registry, loops
  <1>1. ASSUME NEW n \in UpNames, RemoveUpstream(n) \/ \E eps \in EndpointLists : AddUpstream(n, eps)
        PROVE  Working'
    BY <1>1 DEF RemoveUpstream, AddUpstream
  <1>2. ASSUME NEW n \in DownNames,
               AddDownstream(n) \/ Unlink(n) \/ \E r \in Removers : RemoveDownstream(r, n)
        PROVE  Working'
    BY <1>2 DEF AddDownstream, Unlink, RemoveDownstream
  <1>3. ASSUME NEW n \in DownNames, NEW l \in Links, NEW up \in UpNames, Link(l, n, up) PROVE Working'
    BY <1>3 DEF Link
  <1>4. ASSUME NEW l \in Links, Loop(l) PROVE Working'
    BY <1>4 DEF Loop, Start, Stop, CloseDone, DeleteHandle
  <1>5. ASSUME NEW l \in Links, NEW c \in Clients, Accept(c, l) PROVE Working'
    BY <1>5, SMTT(40) DEF Accept
  <1>6. CASE (\E r \in Removers : Removed(r)) \/ CancelAll \/ TakeHandles \/ Closed
    BY <1>6 DEF Removed, CancelAll, TakeHandles, Closed
  <1>7. ASSUME NEW c \in Clients, Dial(c) PROVE Working'
    <2>1. client[c] \in Seq(Endpoints) /\ client[c] # <<>>
      BY <1>7 DEF Dial
    <2>2. Len(client[c]) # 1 => Tail(client[c]) # <<>>
      <3>1. Len(client[c]) \in Nat \ {0} /\ Len(Tail(client[c])) = Len(client[c]) - 1
        BY <2>1, EmptySeq, HeadTailProperties
      <3>2. Len(<<>>) = 0
        OBVIOUS
      <3>3. ASSUME Tail(client[c]) = <<>> PROVE Len(Tail(client[c])) = 0
        BY <3>2, <3>3, Zenon
      <3>4. \A m \in Nat \ {0} : m - 1 = 0 => m = 1
        OBVIOUS
      <3> QED
        BY <3>1, <3>3, <3>4, Zenon
    <2>3. Idle # <<>> /\ Spliced # <<>>
      <3>1. <<>> \in Seq(Endpoints)
        OBVIOUS
      <3> QED
        BY <3>1, Zenon
    <2>4. client' = [client EXCEPT ![c] = Spliced]
            \/ client' = [client EXCEPT ![c] = IF Len(client[c]) = 1 THEN Idle ELSE Tail(client[c])]
      BY <1>7 DEF Dial
    <2>5. \A k \in Clients : client'[k] # <<>>
      BY <2>2, <2>3, <2>4
    <2> QED
      BY <1>7, <2>5 DEF Dial
  <1>8. ASSUME NEW c \in Clients, HangUp(c) PROVE Working'
    <2>1. Idle # <<>>
      <3>1. <<>> \in Seq(Endpoints)
        OBVIOUS
      <3> QED
        BY <3>1, Zenon
    <2> QED
      BY <1>8, <2>1 DEF HangUp
  <1>9. CASE UNCHANGED vars
    BY <1>9 DEF vars
  <1> QED
    BY <1>1, <1>2, <1>3, <1>4, <1>5, <1>6, <1>7, <1>8, <1>9 DEF Next

\* What the steps that do not touch the registry's names, or its handles, leave alone.
LEMMA Frames ==
  /\ \/ \E l \in Links : Loop(l) \/ \E c \in Clients : Accept(c, l)
     \/ \E r \in Removers : Removed(r)
     \/ \E c \in Clients : Dial(c) \/ HangUp(c)
     \/ CancelAll \/ TakeHandles \/ Closed \/ UNCHANGED vars
     => UNCHANGED <<upstreams, downstreams, upstream, made>>
  /\ \/ \E n \in UpNames : RemoveUpstream(n) \/ \E eps \in EndpointLists : AddUpstream(n, eps)
     \/ \E n \in DownNames : Unlink(n)
     \/ \E l \in Links, c \in Clients : Accept(c, l)
     \/ \E r \in Removers : Removed(r)
     \/ \E c \in Clients : Dial(c) \/ HangUp(c)
     \/ CancelAll \/ Closed \/ UNCHANGED vars
     => UNCHANGED <<downstreams, handles, link, runs>>
  <1>1. \A l \in Links : Loop(l) => UNCHANGED <<upstreams, downstreams, upstream, made>>
    BY ZenonT(40) DEF Loop, Start, Stop, CloseDone, DeleteHandle, registry
  <1>2. \/ \E l \in Links, c \in Clients : Accept(c, l)
        \/ \E r \in Removers : Removed(r)
        \/ \E c \in Clients : Dial(c) \/ HangUp(c)
        \/ CancelAll \/ Closed \/ UNCHANGED vars
        => UNCHANGED <<registry, loops>>
    BY ZenonT(40) DEF Accept, Removed, Dial, HangUp, CancelAll, Closed, vars
  <1>3. TakeHandles => UNCHANGED <<upstreams, downstreams, upstream, made>>
    BY ZenonT(40) DEF TakeHandles
  <1>4. \/ \E n \in UpNames : RemoveUpstream(n) \/ \E eps \in EndpointLists : AddUpstream(n, eps)
        \/ \E n \in DownNames : Unlink(n)
        => UNCHANGED <<downstreams, handles, link, runs>>
    BY ZenonT(40) DEF RemoveUpstream, AddUpstream, Unlink, loops
  <1>5. /\ UNCHANGED registry => UNCHANGED <<upstreams, downstreams, upstream, made, handles>>
        /\ UNCHANGED loops => UNCHANGED <<link, runs>>
    BY ZenonT(40) DEF registry, loops
  <1> QED
    BY <1>1, <1>2, <1>3, <1>4, <1>5, ZenonT(40)

\* Registrations keep to their names, and only made objects are linked.
LEMMA NamingNext == TypeOK /\ Naming /\ [Next]_vars => Naming'
  <1> SUFFICES ASSUME TypeOK, Naming, [Next]_vars PROVE Naming'
    BY ZenonT(40)
  <1>1. CASE UNCHANGED <<upstreams, downstreams, upstream, made>>
    BY <1>1, ZenonT(40) DEF Naming
  <1>2. /\ upstreams \in [UpNames -> Ups \cup {None}]
        /\ downstreams \in [DownNames -> Downs \cup {None}]
        /\ upstream \in [Downs -> Ups \cup {None}]
    BY DEF TypeOK
  <1>3. None \notin Ups /\ None \notin Downs
    BY ProxyAssumption
  <1> USE <1>2, <1>3 DEF Naming
  <1>4. ASSUME NEW n \in UpNames, RemoveUpstream(n) PROVE Naming'
    BY <1>4 DEF RemoveUpstream
  <1>5. ASSUME NEW n \in UpNames, NEW eps \in EndpointLists, AddUpstream(n, eps) PROVE Naming'
    BY <1>5 DEF AddUpstream, New
  <1>6. ASSUME NEW n \in DownNames, AddDownstream(n) PROVE Naming'
    BY <1>6 DEF AddDownstream, New
  <1>7. ASSUME NEW n \in DownNames, Unlink(n) PROVE Naming'
    BY <1>7 DEF Unlink, Attach
  <1>8. ASSUME NEW n \in DownNames, NEW r \in Removers, RemoveDownstream(r, n) PROVE Naming'
    BY <1>8 DEF RemoveDownstream
  <1>9. ASSUME NEW n \in DownNames, NEW l \in Links, NEW up \in UpNames, Link(l, n, up) PROVE Naming'
    BY <1>9 DEF Link, Attach
  <1> QED
    BY <1>1, <1>4, <1>5, <1>6, <1>7, <1>8, <1>9, Frames, ZenonT(40) DEF Next

\* A link to an upstream that is not registered arises neither when an upstream
\* goes nor when another takes its name.
LEMMA LinkedNext == TypeOK /\ Naming /\ LinkedIsRegistered /\ [Next]_vars => LinkedIsRegistered'
  <1> SUFFICES ASSUME TypeOK, Naming, LinkedIsRegistered, [Next]_vars PROVE LinkedIsRegistered'
    BY ZenonT(40)
  <1>1. CASE UNCHANGED <<upstreams, downstreams, upstream, made>>
    BY <1>1, ZenonT(40) DEF LinkedIsRegistered
  <1>2. /\ upstreams \in [UpNames -> Ups \cup {None}]
        /\ downstreams \in [DownNames -> Downs \cup {None}]
        /\ upstream \in [Downs -> Ups \cup {None}]
    BY DEF TypeOK
  <1>3. /\ None \notin Ups /\ None \notin Downs
        /\ \A u \in Ups : u[1] \in UpNames
        /\ \A d \in Downs : d[1] \in DownNames
    BY ProxyAssumption DEF Ups, Downs
  <1> USE <1>2, <1>3 DEF Naming, LinkedIsRegistered
  <1>4. ASSUME NEW n \in UpNames, RemoveUpstream(n) PROVE LinkedIsRegistered'
    BY <1>4 DEF RemoveUpstream, Registered
  <1>5. ASSUME NEW n \in UpNames, NEW eps \in EndpointLists, AddUpstream(n, eps)
        PROVE  LinkedIsRegistered'
    BY <1>5 DEF AddUpstream, New
  <1>6. ASSUME NEW n \in DownNames, AddDownstream(n) PROVE LinkedIsRegistered'
    BY <1>6 DEF AddDownstream, New
  <1>7. ASSUME NEW n \in DownNames, Unlink(n) PROVE LinkedIsRegistered'
    BY <1>7 DEF Unlink, Attach
  <1>8. ASSUME NEW n \in DownNames, NEW r \in Removers, RemoveDownstream(r, n) PROVE LinkedIsRegistered'
    BY <1>8 DEF RemoveDownstream
  <1>9. ASSUME NEW n \in DownNames, NEW l \in Links, NEW up \in UpNames, Link(l, n, up)
        PROVE  LinkedIsRegistered'
    BY <1>9 DEF Link, Attach
  <1> QED
    BY <1>1, <1>4, <1>5, <1>6, <1>7, <1>8, <1>9, Frames, ZenonT(40) DEF Next

\* The handle under a name follows the downstream under that name.  A loop that
\* ends deletes by name; it is found under the name of the downstream it runs only.
LEMMA HandleNext == TypeOK /\ Naming /\ HandleIsOfRegistered /\ [Next]_vars => HandleIsOfRegistered'
  <1> SUFFICES ASSUME TypeOK, Naming, HandleIsOfRegistered, [Next]_vars PROVE HandleIsOfRegistered'
    BY ZenonT(40)
  <1>1. CASE UNCHANGED <<downstreams, handles, link, runs>>
    BY <1>1, ZenonT(40) DEF HandleIsOfRegistered
  <1>2. /\ downstreams \in [DownNames -> Downs \cup {None}]
        /\ handles \in [DownNames -> Links \cup {None}]
        /\ link \in [Links -> LinkStates]
        /\ runs \in [Links -> Downs \cup {None}]
    BY DEF TypeOK
  <1>3. None \notin Links /\ None \notin Downs
    BY ProxyAssumption
  <1> USE <1>2, <1>3 DEF Naming, HandleIsOfRegistered, LinkStates
  <1>4. ASSUME NEW n \in DownNames, AddDownstream(n) PROVE HandleIsOfRegistered'
    BY <1>4 DEF AddDownstream, loops
  <1>5. ASSUME NEW n \in DownNames, NEW r \in Removers, RemoveDownstream(r, n)
        PROVE  HandleIsOfRegistered'
    BY <1>5 DEF RemoveDownstream
  <1>6. ASSUME NEW n \in DownNames, NEW l \in Links, NEW up \in UpNames, Link(l, n, up)
        PROVE  HandleIsOfRegistered'
    BY <1>6 DEF Link
  <1>7. ASSUME NEW l \in Links, Start(l) \/ Stop(l) \/ CloseDone(l) PROVE HandleIsOfRegistered'
    BY <1>7 DEF Start, Stop, CloseDone, registry
  <1>8. ASSUME NEW l \in Links, DeleteHandle(l) PROVE HandleIsOfRegistered'
    BY <1>8 DEF DeleteHandle
  <1>9. CASE TakeHandles
    BY <1>9 DEF TakeHandles
  <1> QED
    BY <1>1, <1>4, <1>5, <1>6, <1>7, <1>8, <1>9, Frames, ZenonT(40) DEF Next, Loop

\* The manager keeps its invariant.
LEMMA Inductive == Spec => []IInv
  <1>1. IInv /\ [Next]_vars => IInv'
    BY TypeNext, WorkingNext, NamingNext, LinkedNext, HandleNext DEF IInv
  <1> QED
    BY InitIInv, <1>1, PTL DEF Spec

\* The variables of the manager keep their types; in particular a listening loop
\* has a downstream to ask for its upstream, and a dial an endpoint to try.
THEOREM TypeCorrect == Spec => [](TypeOK /\ Working)
  BY Inductive, PTL DEF IInv

\* A registered downstream forwards to an upstream that is registered, whatever
\* calls of AddUpstream, RemoveUpstream, Link, Unlink and RemoveDownstream race.
THEOREM LinkedUpstream == Spec => []LinkedIsRegistered
  BY Inductive, PTL DEF IInv

\* RemoveDownstream and Close wait for loops of the downstreams they take out of
\* the registry, and for no other.
THEOREM RegisteredHandle == Spec => []HandleIsOfRegistered
  BY Inductive, PTL DEF IInv
-----------------------------------------------------------------------------
(* Those who wait. *)

\* A loop that RemoveDownstream waits for was cancelled, one that Close waits for has
\* the context that Close ended; either was begun.
Waiting ==
    /\ \A r \in Removers, l \in Links : l \in remover[r].waits => l \in cancelled /\ link[l] # "new"
    /\ \A l \in awaits : close # "open" /\ link[l] # "new"

\* The way of a call of Link through its states.
Forward == {<<"new", "run">>, <<"new", "returned">>, <<"run", "serve">>, <<"run", "exit">>,
            <<"serve", "exit">>, <<"exit", "delete">>, <<"delete", "returned">>}

\* What a step may change of the state of a call of Link: nothing, or the next state.
LEMMA LinkSteps ==
  ASSUME TypeOK, [Next]_vars, NEW l \in Links
  PROVE  link'[l] = link[l] \/ <<link[l], link'[l]>> \in Forward
  <1>1. link \in [Links -> LinkStates]
    BY DEF TypeOK
  <1>2. CASE UNCHANGED link
    BY <1>2
  <1>3. ASSUME NEW n \in DownNames, NEW k \in Links, NEW up \in UpNames, Link(k, n, up)
        PROVE  link'[l] = link[l] \/ <<link[l], link'[l]>> \in Forward
    BY <1>1, <1>3 DEF Link, Forward
  <1>4. ASSUME NEW k \in Links, Loop(k)
        PROVE  link'[l] = link[l] \/ <<link[l], link'[l]>> \in Forward
    BY <1>1, <1>4 DEF Loop, Start, Stop, CloseDone, DeleteHandle, Forward
  <1>5. \/ \E n \in DownNames : AddDownstream(n) \/ \E r \in Removers : RemoveDownstream(r, n)
        \/ TakeHandles
        => UNCHANGED link
    BY ZenonT(40) DEF AddDownstream, RemoveDownstream, TakeHandles, loops
  <1> QED
    BY <1>2, <1>3, <1>4, <1>5, Frames, ZenonT(40) DEF Next

\* A context that is done stays done.
LEMMA ContextsStayDone == [Next]_vars => cancelled \subseteq cancelled' /\ (close # "open" => close' # "open")
  <1> SUFFICES ASSUME [Next]_vars PROVE cancelled \subseteq cancelled' /\ (close # "open" => close' # "open")
    OBVIOUS
  <1>1. CASE UNCHANGED <<cancelled, close>>
    BY <1>1
  <1>2. ASSUME NEW n \in DownNames, NEW r \in Removers, RemoveDownstream(r, n)
        PROVE  cancelled \subseteq cancelled' /\ UNCHANGED close
    BY <1>2 DEF RemoveDownstream
  <1>3. CASE CancelAll \/ TakeHandles \/ Closed
    <2>1. UNCHANGED cancelled /\ close' \in {"cancelled", "waiting", "closed"}
      BY <1>3 DEF CancelAll, TakeHandles, Closed, loops
    <2> QED
      BY <2>1
  <1>4. \/ \E n \in UpNames : RemoveUpstream(n) \/ \E eps \in EndpointLists : AddUpstream(n, eps)
        \/ \E n \in DownNames : \/ AddDownstream(n) \/ Unlink(n)
                                \/ \E l \in Links, up \in UpNames : Link(l, n, up)
        => UNCHANGED <<cancelled, close>>
    BY ZenonT(40) DEF RemoveUpstream, AddUpstream, AddDownstream, Unlink, Link, loops
  <1>5. \/ \E r \in Removers : Removed(r)
        \/ \E l \in Links : Loop(l) \/ \E c \in Clients : Accept(c, l)
        \/ \E c \in Clients : Dial(c) \/ HangUp(c)
        \/ UNCHANGED vars
        => UNCHANGED <<cancelled, close>>
    BY ZenonT(40) DEF Removed, Loop, Start, Stop, CloseDone, DeleteHandle, Accept, Dial, HangUp, loops, vars
  <1> QED
    BY <1>1, <1>2, <1>3, <1>4, <1>5, ZenonT(40) DEF Next

\* Who waits: only RemoveDownstream and Close begin to.
LEMMA WaitingNext == IInv /\ Waiting /\ [Next]_vars => Waiting'
  <1> SUFFICES ASSUME IInv, Waiting, [Next]_vars PROVE Waiting'
    OBVIOUS
  <1>1. /\ \A l \in Links : link[l] # "new" => link'[l] # "new"
        /\ cancelled \subseteq cancelled' /\ (close # "open" => close' # "open")
    <2>1. \A l \in Links : link'[l] = link[l] \/ <<link[l], link'[l]>> \in Forward
      BY LinkSteps DEF IInv
    <2> QED
      BY <2>1, ContextsStayDone DEF Forward
  <1>2. /\ remover \in [Removers -> [ds : Downs \cup {None}, waits : SUBSET Links]]
        /\ awaits \in SUBSET Links
    BY DEF IInv, TypeOK
  <1>3. CASE /\ \A r \in Removers : remover'[r].waits \subseteq remover[r].waits
             /\ awaits' = awaits
    BY <1>1, <1>2, <1>3 DEF Waiting
  <1>4. \A n \in DownNames : \A l \in Handle(n) : l \in Links /\ link[l] # "new"
    BY DEF IInv, TypeOK, HandleIsOfRegistered, Handle, LinkStates
  <1>5. ASSUME NEW n \in DownNames, NEW r \in Removers, RemoveDownstream(r, n) PROVE Waiting'
    <2>1. /\ remover' = [remover EXCEPT ![r] = [ds |-> downstreams[n], waits |-> Handle(n)]]
          /\ cancelled' = cancelled \cup Handle(n) /\ UNCHANGED <<link, close, awaits>>
      BY <1>5 DEF RemoveDownstream
    <2> QED
      BY <1>2, <1>4, <2>1 DEF Waiting
  <1>6. CASE TakeHandles
    <2>1. /\ awaits' = UNION {Handle(n) : n \in DownNames} /\ close' = "waiting"
          /\ UNCHANGED <<link, cancelled, remover>>
      BY <1>6 DEF TakeHandles, loops
    <2> QED
      BY <1>4, <2>1 DEF Waiting
  <1>7. ASSUME NEW r \in Removers, Removed(r) PROVE Waiting'
    BY <1>2, <1>3, <1>7 DEF Removed, NotCalled
  <1>8. \/ \E n \in UpNames : RemoveUpstream(n) \/ \E eps \in EndpointLists : AddUpstream(n, eps)
        \/ \E n \in DownNames : \/ AddDownstream(n) \/ Unlink(n)
                                \/ \E l \in Links, up \in UpNames : Link(l, n, up)
        => UNCHANGED <<remover, awaits>>
    BY ZenonT(40) DEF RemoveUpstream, AddUpstream, AddDownstream, Unlink, Link
  <1>9. \/ \E l \in Links : Loop(l) \/ \E c \in Clients : Accept(c, l)
        \/ \E c \in Clients : Dial(c) \/ HangUp(c)
        \/ CancelAll \/ Closed \/ UNCHANGED vars
        => UNCHANGED <<remover, awaits>>
    BY ZenonT(40) DEF Loop, Start, Stop, CloseDone, DeleteHandle, Accept, Dial, HangUp, CancelAll, Closed, vars
  <1>10. CASE UNCHANGED <<remover, awaits>>
    BY <1>3, <1>10
  <1> QED
    BY <1>5, <1>6, <1>7, <1>8, <1>9, <1>10, ZenonT(40) DEF Next

\* The safety half of CallsReturn: a loop that RemoveDownstream or Close waits for is
\* over, or its next step waits for nobody (tcpproxy starts or fails, Run sees its
\* context done, or the deferred function closes h.done).  No two of them ever wait
\* for each other, and none waits for a loop that still serves.
THEOREM AwaitedLoopsEnd ==
  Spec => [](\A l \in Links : l \in awaits \/ (\E r \in Removers : l \in remover[r].waits) =>
               Done(l) \/ link[l] \in {"run", "exit"} \/ (link[l] = "serve" /\ CtxDone(l)))
  <1>1. Init => Waiting
    BY DEF Init, Waiting, NotCalled
  <1>2. IInv /\ Waiting => \A l \in Links : l \in awaits \/ (\E r \in Removers : l \in remover[r].waits) =>
               Done(l) \/ link[l] \in {"run", "exit"} \/ (link[l] = "serve" /\ CtxDone(l))
    BY DEF IInv, TypeOK, Waiting, Done, CtxDone, LinkStates
  <1> QED
    BY <1>1, <1>2, WaitingNext, Inductive, PTL DEF Spec

\* A call of Link only ever moves forward, and a context that ended stays ended: with
\* AwaitedLoopsEnd, whoever waits for a loop waits for at most three steps of it.
THEOREM LoopsMoveForward ==
  Spec => [][\A l \in Links : /\ link'[l] # link[l] => <<link[l], link'[l]>> \in Forward
                              /\ CtxDone(l) => CtxDone(l)']_vars
  <1>1. IInv /\ [Next]_vars => \A l \in Links : /\ link'[l] # link[l] => <<link[l], link'[l]>> \in Forward
                                                /\ CtxDone(l) => CtxDone(l)'
    BY LinkSteps, ContextsStayDone DEF IInv, CtxDone
  <1> QED
    BY <1>1, Inductive, PTL DEF Spec
=============================================================================
