--------------------------- MODULE EgressSelector ---------------------------
(***************************************************************************)
(* The egress selector of a tunnel server replica                          *)
(* (pkg/tunnel/server/egress_selector): the API server sends CONNECT       *)
(* <node>:<port>; the handler hijacks the connection, dials the node's     *)
(* kubelet through the broker and splices the two.  It composes with       *)
(* Broker, whose tunnels come and go under its feet.                       *)
(***************************************************************************)
EXTENDS Broker

CONSTANTS Requests,    \* HTTP requests, each with its client connection
          NoTunnel,    \* no tunnel picked yet
          HalfCloses   \* whether a stream of the multiplexer offers CloseWrite

ASSUME EgressAssumption ==
    /\ NoTunnel \notin Conns
    /\ HalfCloses \in BOOLEAN

VARIABLES
    req,       \* request -> where its handler stands
    host,      \* request -> the node named by r.Host
    via,       \* request -> the tunnel Pick returned
    client,    \* requests whose hijacked connection is open
    stream,    \* request -> its stream to the kubelet: "closed", "open" or "half" closed
    copying,   \* running copy goroutines: <<r, "up">> to the kubelet, <<r, "down">> back
    finished   \* <<r, "up">>: the client sent its last byte; <<r, "down">>: the kubelet did

egressVars == <<req, host, via, client, stream, copying, finished>>
vars       == <<brokerVars, egressVars>>

TypeOK ==
    /\ BrokerTypeOK
    /\ req \in [Requests -> {"idle", "hijacked", "dial", "reply", "splice"}]
    /\ host \in [Requests -> Nodes \cup {NoNode}]
    /\ via \in [Requests -> Conns \cup {NoTunnel}]
    /\ client \in SUBSET Requests
    /\ stream \in [Requests -> {"closed", "open", "half"}]
    /\ copying \in SUBSET (Requests \X {"up", "down"})
    /\ finished \in SUBSET (Requests \X {"up", "down"})

Init ==
    /\ BrokerInit
    /\ req = [r \in Requests |-> "idle"]
    /\ host = [r \in Requests |-> NoNode]
    /\ via = [r \in Requests |-> NoTunnel]
    /\ client = {}
    /\ stream = [r \in Requests |-> "closed"]
    /\ copying = {} /\ finished = {}
-----------------------------------------------------------------------------
(* handle. *)

\* A CONNECT request for node n is hijacked.  Any other request, and one that
\* cannot be hijacked, is answered (405, 500) and changes nothing.
Hijack(r, n) ==
    /\ req[r] = "idle"
    /\ req' = [req EXCEPT ![r] = "hijacked"]
    /\ host' = [host EXCEPT ![r] = n]
    /\ client' = client \cup {r}
    /\ UNCHANGED <<brokerVars, via, stream, copying, finished>>

\* The handler returns, its connection and its stream closed, and may serve
\* another request.
Return(r) ==
    /\ req' = [req EXCEPT ![r] = "idle"]
    /\ host' = [host EXCEPT ![r] = NoNode]
    /\ via' = [via EXCEPT ![r] = NoTunnel]
    /\ client' = client \ {r}
    /\ stream' = [stream EXCEPT ![r] = "closed"]
    /\ finished' = finished \ {<<r, "up">>, <<r, "down">>}

\* Faulty variant: only the tunnel under the cursor is tried.
PickFirst(r) ==
    /\ req[r] = "hijacked"
    /\ Advance(host[r])
    /\ LET n == host[r] IN
       IF nodes[n] # <<>> /\ Scan(n)[1] \in open
         THEN /\ via' = [via EXCEPT ![r] = Scan(n)[1]]
              /\ req' = [req EXCEPT ![r] = "dial"]
              /\ UNCHANGED <<host, client, stream, finished>>
         ELSE Return(r)
    /\ UNCHANGED <<conn, node, socket, open, nodes, cancelled, copying>>

\* Faulty variant: a tunnel is looked for among all nodes.
PickAnyNode(r) ==
    /\ req[r] = "hijacked"
    /\ Advance(host[r])
    /\ \/ \E n \in Nodes : \E t \in Picks(n) :
            /\ via' = [via EXCEPT ![r] = t]
            /\ req' = [req EXCEPT ![r] = "dial"]
            /\ UNCHANGED <<host, client, stream, finished>>
       \/ Picks(host[r]) = {} /\ Return(r)
    /\ UNCHANGED <<conn, node, socket, open, nodes, cancelled, copying>>

\* Broker.Dial, under the read lock: Pick a tunnel, or fail, and the client gets a 502.
Pick(r) ==
    /\ req[r] = "hijacked"
    /\ Advance(host[r])
    /\ \/ \E t \in Picks(host[r]) :
            /\ via' = [via EXCEPT ![r] = t]
            /\ req' = [req EXCEPT ![r] = "dial"]
            /\ UNCHANGED <<host, client, stream, finished>>
       \/ Picks(host[r]) = {} /\ Return(r)
    /\ UNCHANGED <<conn, node, socket, open, nodes, cancelled, copying>>

\* Broker.Dial, unlocked: the tunnel opens a stream to the kubelet, if it still can.
StreamOpens(r) ==
    /\ req[r] = "dial" /\ via[r] \in open
    /\ req' = [req EXCEPT ![r] = "reply"]
    /\ stream' = [stream EXCEPT ![r] = "open"]
    /\ UNCHANGED <<brokerVars, host, via, client, copying, finished>>

\* It cannot: the tunnel died since Pick, or the kubelet refused.  No other is tried.
StreamFails(r) ==
    /\ req[r] = "dial"
    /\ Return(r)
    /\ UNCHANGED <<brokerVars, copying>>

\* The 200 is written and flushed; splice starts its two copies.
Reply(r) ==
    /\ req[r] = "reply"
    /\ req' = [req EXCEPT ![r] = "splice"]
    /\ copying' = copying \cup {<<r, "up">>, <<r, "down">>}
    /\ UNCHANGED <<brokerVars, host, via, client, stream, finished>>

\* Faulty variant: without the deferred stream.Close.
ReplyFailsLeaks(r) ==
    /\ req[r] = "reply"
    /\ req' = [req EXCEPT ![r] = "idle"]
    /\ client' = client \ {r}
    /\ UNCHANGED <<brokerVars, host, via, stream, copying, finished>>

\* Writing or flushing the 200 fails: the connection is closed, and the stream by the defer.
ReplyFails(r) ==
    /\ req[r] = "reply"
    /\ Return(r)
    /\ UNCHANGED <<brokerVars, copying>>
-----------------------------------------------------------------------------
(* splice. *)

\* A copy ends without an error at the end of its input and closes the other
\* side for writing.  hijackedConn hides CloseWrite, so the client's connection
\* is closed altogether; so is a stream that cannot be half-closed.
CopyEnds(r, dir) ==
    /\ <<r, dir>> \in copying /\ <<r, dir>> \in finished
    /\ r \in client /\ stream[r] # "closed" /\ via[r] \in open
    /\ copying' = copying \ {<<r, dir>>}
    /\ client' = IF dir = "down" THEN client \ {r} ELSE client
    /\ stream' = IF dir = "down" THEN stream
                 ELSE [stream EXCEPT ![r] = IF HalfCloses THEN "half" ELSE "closed"]
    /\ UNCHANGED <<brokerVars, req, host, via, finished>>

\* Faulty variant: an error ends this copy and nothing else.
CopyFailsAlone(r, dir) ==
    /\ <<r, dir>> \in copying
    /\ copying' = copying \ {<<r, dir>>}
    /\ UNCHANGED <<brokerVars, req, host, via, client, stream, finished>>

\* A copy fails, at any time or because one end is closed: both ends are closed.
CopyFails(r, dir) ==
    /\ <<r, dir>> \in copying
    /\ copying' = copying \ {<<r, dir>>}
    /\ client' = client \ {r}
    /\ stream' = [stream EXCEPT ![r] = "closed"]
    /\ UNCHANGED <<brokerVars, req, host, via, finished>>

\* Both copies are done: splice and handle close what is left.
SpliceEnds(r) ==
    /\ req[r] = "splice"
    /\ <<r, "up">> \notin copying /\ <<r, "down">> \notin copying
    /\ Return(r)
    /\ UNCHANGED <<brokerVars, copying>>

\* The client or the kubelet sends its last byte.
PeerFinishes(r, dir) ==
    /\ req[r] = "splice" /\ <<r, dir>> \notin finished
    /\ finished' = finished \cup {<<r, dir>>}
    /\ UNCHANGED <<brokerVars, req, host, via, client, stream, copying>>
-----------------------------------------------------------------------------
\* An end of the copy is closed, so that its next read or write returns.
CopyReturns(r, dir) ==
    \/ CopyEnds(r, dir)
    \/ (r \notin client \/ stream[r] = "closed" \/ via[r] \notin open) /\ CopyFails(r, dir)

\* The steps of the handler of r that wait for nobody.
Handle(r) ==
    \/ Pick(r) \/ StreamOpens(r) \/ StreamFails(r) \/ Reply(r) \/ ReplyFails(r)
    \/ SpliceEnds(r)

Next ==
    \/ BrokerNext /\ UNCHANGED egressVars
    \/ \E r \in Requests :
         \/ (\E n \in Nodes : Hijack(r, n)) \/ Handle(r)
         \/ \E dir \in {"up", "down"} :
              CopyEnds(r, dir) \/ CopyFails(r, dir) \/ PeerFinishes(r, dir)

Spec == Init /\ [][Next]_vars

(***************************************************************************)
(* Fairness: goroutines run, dials return, and the two peers hang up: the  *)
(* API server at some time, the kubelet once its input is closed.          *)
(***************************************************************************)
Fairness ==
    /\ \A c \in Conns : WF_vars(Goroutine(c) /\ UNCHANGED egressVars)
    /\ \A r \in Requests :
         /\ WF_vars(Handle(r))
         /\ WF_vars(CopyReturns(r, "up")) /\ WF_vars(CopyReturns(r, "down"))
         /\ WF_vars(PeerFinishes(r, "up"))
         /\ WF_vars(stream[r] = "half" /\ PeerFinishes(r, "down"))

FairSpec == Spec /\ Fairness
-----------------------------------------------------------------------------
\* A request is spliced to the node it names: between Pick and the stream, and
\* as long as the stream lasts, its tunnel belongs to that node.
RightNode ==
    \A r \in Requests :
        via[r] # NoTunnel => node[via[r]] = host[r]

\* Whatever way a request ends (no tunnel, a stream that fails, a reply that
\* cannot be written, either copy failing), neither its connection nor its
\* stream is left open.
NothingLeftOpen ==
    \A r \in Requests : req[r] = "idle" =>
        r \notin client /\ stream[r] = "closed" /\ <<r, "up">> \notin copying /\ <<r, "down">> \notin copying

\* "Through the best available tunnel": Pick refuses a request only when each
\* tunnel registered for the node is closed, wherever the cursor stands.
RefusedOnlyWithoutTunnel ==
    [][\A r \in Requests : (req[r] = "hijacked" /\ req'[r] = "idle") =>
          Registered(host[r]) \cap open = {}]_vars

\* The replica implements the directory of live tunnels: a tunnel counts for its
\* node from AddToSet until it breaks or is unregistered.
Directory ==
    INSTANCE TunnelDirectory WITH
        Tunnels <- Conns, asked <- host, granted <- via,
        live <- [n \in Nodes |-> Registered(n) \cap open]

\* "through the best available tunnel for nodeName": with handlers, serve goroutines
\* and breaking tunnels interleaved, every request is given a tunnel that is live
\* and belongs to the node it names at that moment, or is refused at a moment when
\* there is none, and a tunnel never counts for two nodes.
ImplementsDirectory == Directory!Spec

\* A spliced request ends, with both its ends closed, once its peers hang up.
SplicesEnd == \A r \in Requests : req[r] = "splice" ~> req[r] = "idle"

\* A dead tunnel leaves its node's set.
DeadTunnelsLeave ==
    \A n \in Nodes : \A c \in Conns :
        (c \in Registered(n) /\ c \notin open) ~> c \notin Registered(n)
=============================================================================
