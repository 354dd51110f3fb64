--------------------------- MODULE TunnelDirectory ---------------------------
(***************************************************************************)
(* What a tunnel server replica promises the API server, without sockets,  *)
(* goroutines, slices and cursors: each node has a set of live tunnels,    *)
(* which join and leave one at a time and belong to one node; a request    *)
(* for a node is given one of its live tunnels, or refused if it has none. *)
(***************************************************************************)
CONSTANTS Nodes, Tunnels, Requests, NoNode, NoTunnel

VARIABLES live,    \* node -> its live tunnels
          asked,   \* request -> the node it asked for, NoNode if it is not being served
          granted  \* request -> the tunnel it was given, or NoTunnel

vars == <<live, asked, granted>>

Init ==
    /\ live = [n \in Nodes |-> {}]
    /\ asked = [r \in Requests |-> NoNode]
    /\ granted = [r \in Requests |-> NoTunnel]

Join(n, t) ==
    /\ \A m \in Nodes : t \notin live[m]
    /\ live' = [live EXCEPT ![n] = @ \cup {t}]
    /\ UNCHANGED <<asked, granted>>

Leave(n, t) ==
    /\ t \in live[n]
    /\ live' = [live EXCEPT ![n] = @ \ {t}]
    /\ UNCHANGED <<asked, granted>>

Ask(r, n) ==
    /\ asked[r] = NoNode
    /\ asked' = [asked EXCEPT ![r] = n]
    /\ UNCHANGED <<live, granted>>

Grant(r, t) ==
    /\ asked[r] # NoNode /\ granted[r] = NoTunnel
    /\ t \in live[asked[r]]
    /\ granted' = [granted EXCEPT ![r] = t]
    /\ UNCHANGED <<live, asked>>

\* The request is over, however it went.
Forget(r) ==
    /\ asked[r] # NoNode
    /\ asked' = [asked EXCEPT ![r] = NoNode]
    /\ granted' = [granted EXCEPT ![r] = NoTunnel]
    /\ UNCHANGED live

Refuse(r) == granted[r] = NoTunnel /\ asked[r] # NoNode /\ live[asked[r]] = {} /\ Forget(r)
Finish(r) == granted[r] # NoTunnel /\ Forget(r)

Moves == \E n \in Nodes, t \in Tunnels : Join(n, t) \/ Leave(n, t)
Asks  == \E r \in Requests : (\E n \in Nodes : Ask(r, n)) \/ \E t \in Tunnels : Grant(r, t)

Next == Moves \/ Asks \/ \E r \in Requests : Refuse(r) \/ Finish(r)
Spec == Init /\ [][Next]_vars

\* The same without a promise about refusals.
GrantNext == Moves \/ Asks \/ \E r \in Requests : Forget(r)
GrantSpec == Init /\ [][GrantNext]_vars
=============================================================================
