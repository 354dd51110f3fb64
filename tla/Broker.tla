------------------------------- MODULE Broker -------------------------------
(***************************************************************************)
(* One replica of the plane tunnel server: the mTLS listener               *)
(* (pkg/tunnel/server/tunnel.go) and the broker that keeps the accepted    *)
(* tunnels per node (pkg/tunnel/server/broker/broker.go).                  *)
(*                                                                         *)
(* Each accepted connection has a handler goroutine, which ends in         *)
(* Register, and from then on a serve goroutine that owns it.  A node may  *)
(* have several tunnels: one that died and its successor, or duplicates    *)
(* the agent has not dropped yet.                                          *)
(***************************************************************************)
EXTENDS Integers, Sequences

CONSTANTS Nodes,   \* node names
          Conns,   \* accepted connections, with the uuid of their tunnel
          NoNode,  \* the node of a connection before its handshake
          RRMod    \* width of the round-robin cursor: 2^64

ASSUME BrokerAssumption ==
    /\ NoNode \notin Nodes
    /\ RRMod \in Nat \ {0}

VARIABLES
    conn,      \* connection -> where its handler or serve goroutine stands
    node,      \* connection -> node name of its certificate
    socket,    \* connections that are open
    open,      \* connections that carry an open session (tunnel.IsClosed is false)
    nodes,     \* node -> set.conns; the empty sequence is an absent map entry
    rr,        \* node -> set.rr, 0 while the entry is absent
    cancelled  \* ctx is done

brokerVars == <<conn, node, socket, open, nodes, rr, cancelled>>

\* States in which the serve goroutine has not unregistered its tunnel.
Owned == {"serving", "unregister"}

BrokerTypeOK ==
    /\ conn \in [Conns -> {"new", "handshake", "session", "append", "serving",
                           "unregister", "close", "gone"}]
    /\ node \in [Conns -> Nodes \cup {NoNode}]
    /\ socket \in SUBSET Conns
    /\ open \in SUBSET Conns
    /\ nodes \in [Nodes -> Seq(Conns)]
    /\ rr \in [Nodes -> 0 .. RRMod - 1]
    /\ cancelled \in BOOLEAN

BrokerInit ==
    /\ conn = [c \in Conns |-> "new"]
    /\ node = [c \in Conns |-> NoNode]
    /\ socket = {}
    /\ open = {}
    /\ nodes = [n \in Nodes |-> <<>>]
    /\ rr = [n \in Nodes |-> 0]
    /\ cancelled = FALSE
-----------------------------------------------------------------------------
(* TunnelServer.Serve and handle. *)

Accept(c) ==
    /\ conn[c] = "new"
    /\ conn' = [conn EXCEPT ![c] = "handshake"]
    /\ socket' = socket \cup {c}
    /\ UNCHANGED <<node, open, nodes, rr, cancelled>>

\* The handshake fails or passes its deadline, there is no client certificate,
\* or its common name is not system:node:<name>: the cleaner closes the connection.
Reject(c) ==
    /\ conn[c] = "handshake"
    /\ conn' = [conn EXCEPT ![c] = "gone"]
    /\ socket' = socket \ {c}
    /\ UNCHANGED <<node, open, nodes, rr, cancelled>>

\* extractNodeName yields n.
Identify(c, n) ==
    /\ conn[c] = "handshake"
    /\ conn' = [conn EXCEPT ![c] = "session"]
    /\ node' = [node EXCEPT ![c] = n]
    /\ UNCHANGED <<socket, open, nodes, rr, cancelled>>
-----------------------------------------------------------------------------
(* Broker.Register and the serve goroutine it starts. *)

\* Faulty variant: Register leaves the connection to its caller.
SessionFailsOpen(c) ==
    /\ conn[c] = "session"
    /\ conn' = [conn EXCEPT ![c] = "gone"]
    /\ UNCHANGED <<node, socket, open, nodes, rr, cancelled>>

\* outbound.Server fails: Register closes the connection, and handle, which
\* only logs the error, releases its cleaner.
SessionFails(c) ==
    /\ conn[c] = "session"
    /\ conn' = [conn EXCEPT ![c] = "gone"]
    /\ socket' = socket \ {c}
    /\ UNCHANGED <<node, open, nodes, rr, cancelled>>

SessionStarts(c) ==
    /\ conn[c] = "session"
    /\ conn' = [conn EXCEPT ![c] = "append"]
    /\ open' = open \cup {c}
    /\ UNCHANGED <<node, socket, nodes, rr, cancelled>>

\* Locked: the tunnel joins its node's set; the serve goroutine starts.
AddToSet(c) ==
    /\ conn[c] = "append"
    /\ nodes' = [nodes EXCEPT ![node[c]] = Append(@, c)]
    /\ conn' = [conn EXCEPT ![c] = "serving"]
    /\ UNCHANGED <<node, socket, open, rr, cancelled>>

\* Faulty variants: the goroutine ends with ctx only; it closes the tunnel while
\* it is still registered.
ServeExitOnCtx(c) ==
    /\ conn[c] = "serving" /\ cancelled
    /\ conn' = [conn EXCEPT ![c] = "unregister"]
    /\ UNCHANGED <<node, socket, open, nodes, rr, cancelled>>
ServeExitCloses(c) ==
    /\ conn[c] = "serving" /\ (c \notin open \/ cancelled)
    /\ conn' = [conn EXCEPT ![c] = "unregister"]
    /\ open' = open \ {c}
    /\ UNCHANGED <<node, socket, nodes, rr, cancelled>>

\* Serve returned and the session is closed or ctx is done.
ServeExit(c) ==
    /\ conn[c] = "serving" /\ (c \notin open \/ cancelled)
    /\ conn' = [conn EXCEPT ![c] = "unregister"]
    /\ UNCHANGED <<node, socket, open, nodes, rr, cancelled>>

Members(s)   == {s[i] : i \in 1 .. Len(s)}
Injective(s) == \A i, j \in 1 .. Len(s) : s[i] = s[j] => i = j

\* The loop of Unregister: the last tunnel takes the place of c.
SwapRemove(s, c) ==
    IF c \in Members(s)
      THEN [i \in 1 .. Len(s) - 1 |-> IF s[i] = c THEN s[Len(s)] ELSE s[i]]
      ELSE s

\* Faulty variant: the last tunnel is dropped, whichever it is.
UnregisterLast(c) ==
    /\ conn[c] = "unregister"
    /\ LET left == SubSeq(nodes[node[c]], 1, Len(nodes[node[c]]) - 1) IN
         /\ nodes' = [nodes EXCEPT ![node[c]] = left]
         /\ rr' = [rr EXCEPT ![node[c]] = IF left = <<>> THEN 0 ELSE @]
    /\ conn' = [conn EXCEPT ![c] = "close"]
    /\ UNCHANGED <<node, socket, open, cancelled>>

\* Deferred, first: Unregister, locked.  An emptied set leaves the map with its cursor.
Unregister(c) ==
    /\ conn[c] = "unregister"
    /\ LET left == SwapRemove(nodes[node[c]], c) IN
         /\ nodes' = [nodes EXCEPT ![node[c]] = left]
         /\ rr' = [rr EXCEPT ![node[c]] = IF left = <<>> THEN 0 ELSE @]
    /\ conn' = [conn EXCEPT ![c] = "close"]
    /\ UNCHANGED <<node, socket, open, cancelled>>

\* Deferred, second: tunnel.Close tears down the session and the connection.
CloseTunnel(c) ==
    /\ conn[c] = "close"
    /\ conn' = [conn EXCEPT ![c] = "gone"]
    /\ socket' = socket \ {c}
    /\ open' = open \ {c}
    /\ UNCHANGED <<node, nodes, rr, cancelled>>
-----------------------------------------------------------------------------
(* Pick: the cursor advances and the first open tunnel from there is taken. *)

Start(n)  == (rr[n] + 1) % RRMod
\* The tunnels of n in the order Pick looks at them.
Scan(n) == LET k == Len(nodes[n])
           IN  [i \in 1 .. k |-> nodes[n][1 + (((Start(n) + i - 1) % RRMod) % k)]]
\* The tunnels Pick may return: the first open one in that order, or none.
Picks(n) ==
    {Scan(n)[i] : i \in {j \in 1 .. Len(nodes[n]) :
        Scan(n)[j] \in open /\ \A k \in 1 .. j - 1 : Scan(n)[k] \notin open}}
\* Pick leaves the cursor alone when the node has no set.
Advance(n) == rr' = [rr EXCEPT ![n] = IF nodes[n] = <<>> THEN @ ELSE Start(n)]
-----------------------------------------------------------------------------
(* The network and the caller of Serve. *)

\* The agent closes the tunnel, or the keep-alive gives up on it.
TunnelBreaks(c) ==
    /\ c \in open
    /\ open' = open \ {c}
    /\ UNCHANGED <<conn, node, socket, nodes, rr, cancelled>>

Cancel ==
    /\ ~cancelled
    /\ cancelled' = TRUE
    /\ UNCHANGED <<conn, node, socket, open, nodes, rr>>
-----------------------------------------------------------------------------
Handler(c) ==
    \/ Reject(c) \/ (\E n \in Nodes : Identify(c, n))
    \/ SessionFails(c) \/ SessionStarts(c) \/ AddToSet(c)

Goroutine(c) == ServeExit(c) \/ Unregister(c) \/ CloseTunnel(c)

BrokerNext ==
    \/ \E c \in Conns : Accept(c) \/ Handler(c) \/ Goroutine(c) \/ TunnelBreaks(c)
    \/ Cancel
-----------------------------------------------------------------------------
Registered(n) == Members(nodes[n])

\* The sets and the serve goroutines agree: the tunnels of a node are exactly
\* those whose goroutine has yet to call Unregister, each once, so swap-removal
\* never loses a neighbour and never leaves a tunnel behind.
RegisteredIffOwned ==
    \A n \in Nodes :
        /\ \A c \in Conns : c \in Registered(n) <=> (node[c] = n /\ conn[c] \in Owned)
        /\ Injective(nodes[n])

\* Every connection that nobody works on any more has been closed, on each of the
\* paths through handle and Register.
NoSocketLeak == \A c \in Conns : conn[c] = "gone" => c \notin socket /\ c \notin open

\* The broker closes a tunnel only once it is out of the set: what Pick finds is
\* never torn down by the broker itself, only by the peer or the network.
UnregisteredBeforeClosed ==
    [][\A c \in Conns : (c \in open /\ c \notin open' /\ conn[c] \in Owned) =>
          conn' = conn]_brokerVars
=============================================================================
