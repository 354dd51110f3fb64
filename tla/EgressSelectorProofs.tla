------------------------ MODULE EgressSelectorProofs ------------------------
(***************************************************************************)
(* Broker and EgressSelector: what the replica registers, picks and closes *)
(* holds for any number of nodes, tunnels and concurrent requests.         *)
(***************************************************************************)
EXTENDS EgressSelector, SequenceTheorems, WellFoundedInduction, TLAPS

\* append adds its tunnel and nothing else, and keeps the entries distinct.
LEMMA AppendMembers ==
    ASSUME NEW S, NEW s \in Seq(S), NEW c \in S, c \notin Members(s), Injective(s)
    PROVE  /\ Append(s, c) \in Seq(S)
           /\ Members(Append(s, c)) = Members(s) \cup {c}
           /\ Injective(Append(s, c))
  <1> DEFINE t == Append(s, c)
  <1>1. t \in Seq(S) /\ Len(t) = Len(s) + 1 /\ Len(s) \in Nat
    BY AppendProperties, LenProperties
  <1>2. \A i \in 1 .. Len(s) : t[i] = s[i]
    BY AppendProperties
  <1>3. t[Len(s) + 1] = c
    BY AppendProperties
  <1> HIDE DEF t
  <1>4. Members(t) = Members(s) \cup {c}
    BY <1>1, <1>2, <1>3 DEF Members
  <1>5. Injective(t)
    BY <1>1, <1>2, <1>3 DEF Injective, Members
  <1> QED
    BY <1>1, <1>4, <1>5 DEF t

\* Swap-removal removes its tunnel and nothing else, and keeps the entries distinct.
LEMMA SwapRemoveMembers ==
    ASSUME NEW S, NEW s \in Seq(S), NEW c \in Members(s), Injective(s)
    PROVE  /\ SwapRemove(s, c) \in Seq(S)
           /\ Members(SwapRemove(s, c)) = Members(s) \ {c}
           /\ Injective(SwapRemove(s, c))
  <1> DEFINE t == SwapRemove(s, c)
  <1>1. Len(s) \in Nat /\ s \in [1 .. Len(s) -> S]
    BY LenProperties
  <1>2. PICK k \in 1 .. Len(s) : s[k] = c
    BY DEF Members
  <1>3. t = [i \in 1 .. Len(s) - 1 |-> IF s[i] = c THEN s[Len(s)] ELSE s[i]]
    BY DEF SwapRemove
  <1>4. t \in [1 .. Len(s) - 1 -> S] /\ Len(s) - 1 \in Nat
    BY <1>1, <1>2, <1>3
  <1>5. t \in Seq(S) /\ Len(t) = Len(s) - 1
    BY <1>4, SeqDef, LenProperties
  <1>6. \A i \in 1 .. Len(s) - 1 : t[i] = IF s[i] = c THEN s[Len(s)] ELSE s[i]
    BY <1>3
  <1> HIDE DEF t
  <1>7. Members(t) \subseteq Members(s) \ {c}
    BY <1>1, <1>2, <1>5, <1>6 DEF Members, Injective
  <1>8. Members(s) \ {c} \subseteq Members(t)
    <2> SUFFICES ASSUME NEW x \in Members(s), x # c PROVE x \in Members(t)
      OBVIOUS
    <2> PICK i \in 1 .. Len(s) : s[i] = x
      BY DEF Members
    <2>1. CASE i = Len(s)
      <3>1. k \in 1 .. Len(t) /\ t[k] = x
        <4>1. k # Len(s)
          BY <2>1, <1>2
        <4> QED
          BY <4>1, <2>1, <1>1, <1>2, <1>5, <1>6
      <3> QED
        BY <3>1 DEF Members
    <2>2. CASE i # Len(s)
      <3>1. i \in 1 .. Len(t) /\ t[i] = x
        <4>1. i \in 1 .. Len(s) - 1
          <5>1. Len(s) \in Nat
            BY <1>1
          <5> QED
            BY <5>1, <2>2
        <4>2. t[i] = s[i]
          BY <4>1, <1>6
        <4> QED
          BY <4>1, <4>2, <1>5
      <3> QED
        BY <3>1 DEF Members
    <2> QED
      BY <2>1, <2>2
  <1>9. Injective(t)
    BY <1>1, <1>2, <1>5, <1>6 DEF Injective
  <1> QED
    BY <1>5, <1>7, <1>8, <1>9 DEF t

-----------------------------------------------------------------------------
\* A connection past its handshake has a node, only a session that was started
\* is open, and a connection is closed before it is given up.
Lifecycle ==
    /\ \A c \in Conns : conn[c] \in {"session", "append", "serving", "unregister", "close"} =>
           node[c] \in Nodes
    /\ \A c \in Conns : conn[c] = "new" => c \notin socket
    /\ \A c \in open : conn[c] \in {"append", "serving", "unregister", "close"}

BrokerInv == BrokerTypeOK /\ Lifecycle /\ RegisteredIffOwned /\ NoSocketLeak

\* A broker starts with empty sets and no connection.
LEMMA BrokerInitInv == BrokerInit => BrokerInv
  <1> SUFFICES ASSUME BrokerInit PROVE BrokerInv
    OBVIOUS
  <1>1. \A n \in Nodes : Len(nodes[n]) = 0
    BY Zenon DEF BrokerInit
  <1>2. BrokerTypeOK
    <2>1. nodes \in [Nodes -> Seq(Conns)]
      BY DEF BrokerInit
    <2>2. cancelled \in BOOLEAN
      BY Zenon DEF BrokerInit
    <2> QED
      BY <2>1, <2>2, BrokerAssumption DEF BrokerInit, BrokerTypeOK
  <1>3. RegisteredIffOwned
    <2>1. \A n \in Nodes : Members(nodes[n]) = {} /\ Injective(nodes[n])
      <3> SUFFICES ASSUME NEW n \in Nodes PROVE Members(nodes[n]) = {} /\ Injective(nodes[n])
        BY Zenon
      <3>1. 1 .. Len(nodes[n]) = {}
        BY <1>1
      <3> QED
        BY <3>1 DEF Members, Injective
    <2> QED
      BY <2>1, Zenon DEF BrokerInit, RegisteredIffOwned, Registered, Owned
  <1> QED
    <2>1. Lifecycle /\ NoSocketLeak
      BY DEF BrokerInit, Lifecycle, NoSocketLeak
    <2> QED
      BY <2>1, <1>2, <1>3 DEF BrokerInv

\* A connection joins and leaves its node's set together with its goroutine.
LEMMA BrokerNextInv == BrokerInv /\ BrokerNext => BrokerInv'
  <1> SUFFICES ASSUME BrokerInv, BrokerNext PROVE BrokerInv'
    OBVIOUS
  <1> USE BrokerAssumption DEF BrokerInv, Lifecycle, NoSocketLeak, Owned
  <1>1. ASSUME NEW c \in Conns, Accept(c) \/ Reject(c) \/ SessionFails(c) \/ SessionStarts(c)
                 \/ ServeExit(c) \/ CloseTunnel(c) \/ TunnelBreaks(c)
        PROVE  BrokerInv'
    <2>1. BrokerTypeOK'
      BY <1>1, Zenon DEF BrokerTypeOK, Accept, Reject, SessionFails, SessionStarts, ServeExit,
                  CloseTunnel, TunnelBreaks
    <2>2. Lifecycle' /\ NoSocketLeak'
      BY <1>1, ZenonT(40) DEF BrokerTypeOK, Accept, Reject, SessionFails, SessionStarts, ServeExit,
                  CloseTunnel, TunnelBreaks
    <2>3. RegisteredIffOwned'
      BY <1>1, SMTT(40) DEF BrokerTypeOK, RegisteredIffOwned, Registered, Members, Injective,
                  Accept, Reject, SessionFails, SessionStarts, ServeExit, CloseTunnel, TunnelBreaks
    <2> QED
      BY <2>1, <2>2, <2>3
  <1>2. ASSUME NEW c \in Conns, NEW n \in Nodes, Identify(c, n) PROVE BrokerInv'
    BY <1>2 DEF BrokerTypeOK, RegisteredIffOwned, Registered, Identify
  <1>3. ASSUME NEW c \in Conns, AddToSet(c) PROVE BrokerInv'
    <2> DEFINE m == node[c]
    <2>1. m \in Nodes /\ nodes[m] \in Seq(Conns) /\ c \notin Members(nodes[m]) /\ Injective(nodes[m])
      BY <1>3, Zenon DEF AddToSet, BrokerTypeOK, RegisteredIffOwned, Registered
    <2>2. /\ Append(nodes[m], c) \in Seq(Conns)
          /\ Members(Append(nodes[m], c)) = Members(nodes[m]) \cup {c}
          /\ Injective(Append(nodes[m], c))
      BY <2>1, AppendMembers
    <2>3. nodes' = [nodes EXCEPT ![m] = Append(nodes[m], c)]
      BY <1>3 DEF AddToSet
    <2>4. nodes'[m] = Append(nodes[m], c) /\ \A n \in Nodes : n # m => nodes'[n] = nodes[n]
      BY <2>1, <2>3 DEF BrokerTypeOK
    <2>5. BrokerTypeOK'
      BY <1>3, <2>1, <2>2, <2>3 DEF AddToSet, BrokerTypeOK
    <2>6. RegisteredIffOwned'
      BY <1>3, <2>1, <2>2, <2>4 DEF AddToSet, BrokerTypeOK, RegisteredIffOwned, Registered
    <2> QED
      BY <1>3, <2>5, <2>6 DEF AddToSet, BrokerTypeOK
  <1>4. ASSUME NEW c \in Conns, Unregister(c) PROVE BrokerInv'
    <2> DEFINE m == node[c]
    <2> DEFINE left == SwapRemove(nodes[m], c)
    <2>1. m \in Nodes /\ nodes[m] \in Seq(Conns) /\ c \in Members(nodes[m]) /\ Injective(nodes[m])
      BY <1>4 DEF Unregister, BrokerTypeOK, RegisteredIffOwned, Registered
    <2>2. left \in Seq(Conns) /\ Members(left) = Members(nodes[m]) \ {c} /\ Injective(left)
      BY <2>1, SwapRemoveMembers
    <2>3. /\ nodes' = [nodes EXCEPT ![m] = left]
          /\ rr' = [rr EXCEPT ![m] = IF left = <<>> THEN 0 ELSE @]
          /\ conn' = [conn EXCEPT ![c] = "close"]
          /\ UNCHANGED <<node, socket, open, cancelled>>
          /\ conn[c] = "unregister"
      BY <1>4 DEF Unregister
    <2> HIDE DEF left
    <2>4. nodes'[m] = left /\ \A n \in Nodes : n # m => nodes'[n] = nodes[n]
      BY <2>1, <2>3 DEF BrokerTypeOK
    <2>5. BrokerTypeOK'
      BY <2>1, <2>2, <2>3, SMTT(40) DEF BrokerTypeOK
    <2>6. RegisteredIffOwned'
      BY <2>1, <2>2, <2>3, <2>4 DEF BrokerTypeOK, RegisteredIffOwned, Registered
    <2> QED
      BY <2>3, <2>5, <2>6 DEF BrokerTypeOK
  <1>5. CASE Cancel
    BY <1>5 DEF Cancel, BrokerTypeOK, RegisteredIffOwned, Registered
  <1> QED
    BY <1>1, <1>2, <1>3, <1>4, <1>5 DEF BrokerNext, Handler, Goroutine
-----------------------------------------------------------------------------
\* The cursor stays within its width, and Pick returns only open tunnels of the
\* node it was asked for.
LEMMA PickSound ==
    ASSUME BrokerInv, NEW n \in Nodes
    PROVE  Start(n) \in 0 .. RRMod - 1 /\ Picks(n) \subseteq Registered(n) \cap open
  <1>1. Start(n) \in 0 .. RRMod - 1
    <2>1. rr[n] \in Nat /\ RRMod \in Nat \ {0}
      BY BrokerAssumption DEF BrokerInv, BrokerTypeOK
    <2> QED
      BY <2>1 DEF Start
  <1>2. nodes[n] \in Seq(Conns) /\ Len(nodes[n]) \in Nat
    BY DEF BrokerInv, BrokerTypeOK
  <1>3. \A i \in 1 .. Len(nodes[n]) : Scan(n)[i] \in Members(nodes[n])
    <2> SUFFICES ASSUME NEW i \in 1 .. Len(nodes[n]) PROVE Scan(n)[i] \in Members(nodes[n])
      OBVIOUS
    <2> DEFINE x == (Start(n) + i - 1) % RRMod
    <2> DEFINE k == Len(nodes[n])
    <2>1. k \in Nat \ {0}
      BY <1>2
    <2>2. x \in Nat
      BY <1>1, <1>2, BrokerAssumption
    <2>3. Scan(n)[i] = nodes[n][1 + (x % k)]
      BY DEF Scan
    <2> HIDE DEF x, k
    <2>4. 1 + (x % k) \in 1 .. k
      BY <2>1, <2>2
    <2> QED
      BY <2>3, <2>4 DEF Members, k
  <1>4. ASSUME NEW t \in Picks(n) PROVE t \in Registered(n) \cap open
    BY <1>3, <1>4 DEF Picks, Registered
  <1> QED
    BY <1>1, <1>4

\* A residue determines the remainder.
LEMMA DivUnique ==
    ASSUME NEW k \in Nat \ {0}, NEW q \in Int, NEW t \in 0 .. k - 1
    PROVE  (q * k + t) % k = t
  <1> DEFINE x == q * k + t
  <1> DEFINE d == x \div k
  <1>1. x = d * k + (x % k) /\ x % k \in 0 .. k - 1 /\ d \in Int
    OBVIOUS
  <1>2. (q - d) * k = (x % k) - t
    BY <1>1
  <1> DEFINE e == q - d
  <1>3. e \in Int /\ e * k = (x % k) - t
    BY <1>1, <1>2
  <1> HIDE DEF e
  <1>4. e * k < k /\ e * k > 0 - k
    BY <1>1, <1>3
  <1>5. ~ (e >= 1)
    BY <1>3, <1>4
  <1>6. ~ (e =< -1)
    BY <1>3, <1>4
  <1>7. e = 0
    BY <1>3, <1>5, <1>6
  <1> QED
    BY <1>1, <1>3, <1>7

\* Reducing by a multiple of k first changes no remainder.
LEMMA ModMod ==
    ASSUME NEW k \in Nat \ {0}, NEW m \in Nat \ {0}, NEW x \in Nat, m % k = 0
    PROVE  (x % m) % k = x % k
  <1> DEFINE r == x % m
             q == x \div m
             p == m \div k
             b == r \div k
             t == r % k
  <1>1. x = q * m + r /\ r \in Nat /\ q \in Int
    OBVIOUS
  <1>2. m = p * k /\ p \in Int
    OBVIOUS
  <1>3. r = b * k + t /\ b \in Int /\ t \in 0 .. k - 1
    BY <1>1
  <1> HIDE DEF r, q, p, b, t
  <1>4. x = (q * p + b) * k + t /\ q * p + b \in Int
    BY <1>1, <1>2, <1>3
  <1>5. x % k = t
    BY <1>3, <1>4, DivUnique, ZenonT(40)
  <1> QED
    BY <1>5 DEF r, t

\* k consecutive numbers leave every remainder.
LEMMA Residues ==
    ASSUME NEW k \in Nat \ {0}, NEW s \in Nat, NEW j \in 0 .. k - 1
    PROVE  \E i \in 1 .. k : (s + i - 1) % k = j
  <1> DEFINE a == s % k
             d == s \div k
  <1>1. s = d * k + a /\ d \in Int /\ a \in 0 .. k - 1
    OBVIOUS
  <1> HIDE DEF a, d
  <1>2. CASE j >= a
    <2>1. s + (j - a + 1) - 1 = d * k + j /\ j - a + 1 \in 1 .. k
      BY <1>1, <1>2
    <2> QED
      BY <1>1, <2>1, DivUnique, ZenonT(40)
  <1>3. CASE j < a
    <2>1. s + (j - a + k + 1) - 1 = (d + 1) * k + j /\ j - a + k + 1 \in 1 .. k /\ d + 1 \in Int
      BY <1>1, <1>3
    <2> QED
      BY <2>1, DivUnique, ZenonT(40)
  <1> QED
    BY <1>1, <1>2, <1>3

\* A set of numbers has a least one.
LEMMA Least == ASSUME NEW T, T \subseteq Nat, T # {} PROVE \E x \in T : \A y \in T : x =< y
  <1> DEFINE R == OpToRel(<, Nat)
  <1>1. IsWellFoundedOn(R, Nat)
    BY NatLessThanWellFounded, ZenonT(40)
  <1>2. \A x, y \in Nat : y < x => <<y, x>> \in R
    BY DEF OpToRel
  <1> HIDE DEF R
  <1>3. PICK x \in T : \A y \in T : ~ (<<y, x>> \in R)
    BY <1>1, WFMin, ZenonT(40)
  <1>4. ASSUME NEW y \in T PROVE x =< y
    <2>1. x \in Nat /\ y \in Nat /\ ~(y < x)
      BY <1>2, <1>3, <1>4, ZenonT(40)
    <2> QED
      BY <2>1
  <1> QED
    BY <1>4

\* The scan that the next Pick for n makes does not pass the end of the cursor's
\* width, or the width is a whole number of rounds through the set.
InRange(n) == Start(n) + Len(nodes[n]) =< RRMod \/ RRMod % Len(nodes[n]) = 0

\* Pick overlooks no tunnel: when it finds none, none of the node's set is open.
LEMMA PickComplete ==
    ASSUME BrokerInv, NEW n \in Nodes, InRange(n), Picks(n) = {}
    PROVE  Registered(n) \cap open = {}
  <1> DEFINE k == Len(nodes[n])
             s == Start(n)
             T == {j \in 1 .. k : Scan(n)[j] \in open}
  <1>1. k \in Nat /\ s \in Nat /\ s < RRMod /\ RRMod \in Nat \ {0}
    <2>1. nodes[n] \in Seq(Conns)
      BY DEF BrokerInv, BrokerTypeOK
    <2>2. s \in 0 .. RRMod - 1
      BY PickSound
    <2> QED
      BY <2>1, <2>2, BrokerAssumption
  <1>2. \A i \in 1 .. k : Scan(n)[i] = nodes[n][1 + (((s + i - 1) % RRMod) % k)]
    BY DEF Scan
  <1>3. T = {}
    <2> SUFFICES ASSUME T # {} PROVE FALSE
      OBVIOUS
    <2>1. T \subseteq Nat
      BY <1>1
    <2> HIDE DEF T
    <2>2. PICK j \in T : \A y \in T : j =< y
      BY <2>1, Least, ZenonT(40)
    <2>3. j \in 1 .. k /\ Scan(n)[j] \in open
      BY DEF T
    <2>4. \A y \in 1 .. j - 1 : Scan(n)[y] \notin open
      <3> SUFFICES ASSUME NEW y \in 1 .. j - 1, Scan(n)[y] \in open PROVE FALSE
        OBVIOUS
      <3>1. y \in 1 .. k /\ ~ (j =< y)
        BY <1>1, <2>3
      <3>2. y \in T
        BY <3>1 DEF T
      <3> QED
        BY <2>2, <3>1, <3>2
    <2>5. Scan(n)[j] \in Picks(n)
      BY <2>3, <2>4 DEF Picks
    <2> QED
      BY <2>5
  <1>4. ASSUME NEW c \in Registered(n), c \in open PROVE FALSE
    <2>1. PICK p \in 1 .. k : nodes[n][p] = c
      BY <1>4 DEF Registered, Members
    <2> HIDE DEF k, s
    <2>2. k \in Nat \ {0} /\ p - 1 \in 0 .. k - 1
      BY <1>1, <2>1
    <2>3. PICK i \in 1 .. k : (s + i - 1) % k = p - 1
      BY <1>1, <2>2, Residues, ZenonT(40)
    <2> DEFINE x == s + i - 1
    <2>4. x \in Nat
      BY <1>1, <2>2, <2>3
    <2>5. x % k = p - 1
      BY <2>3
    <2>6. (x % RRMod) % k = x % k
      <3>1. CASE s + k =< RRMod
        <4>1. x < RRMod
          BY <1>1, <2>2, <2>3, <3>1
        <4> HIDE DEF x
        <4>2. x % RRMod = x
          <5>1. x = 0 * RRMod + x /\ x \in 0 .. RRMod - 1
            BY <1>1, <2>4, <4>1
          <5> QED
            BY <1>1, <5>1, DivUnique
        <4> QED
          BY <4>2
      <3>2. CASE RRMod % k = 0
        <4> HIDE DEF x
        <4> QED
          BY <1>1, <2>2, <2>4, <3>2, ModMod, ZenonT(40)
      <3> QED
        BY <3>1, <3>2 DEF InRange, k, s
    <2>7. Scan(n)[i] = nodes[n][1 + ((x % RRMod) % k)]
      BY <1>2, <2>3
    <2>8. 1 + ((x % RRMod) % k) = p
      <3> HIDE DEF x
      <3>1. p \in Nat
        BY <1>1, <2>1
      <3> QED
        BY <2>5, <2>6, <3>1
    <2>9. Scan(n)[i] = c
      BY <2>1, <2>7, <2>8
    <2> QED
      BY <1>3, <1>4, <2>3, <2>9
  <1> QED
    BY <1>4

\* A request has a node from the hijack on, a tunnel of that node from Pick on,
\* and nothing once it is over; a tunnel that was picked keeps its node.
RequestOK(r) ==
    /\ req[r] = "idle" => r \notin client /\ stream[r] = "closed" /\ host[r] = NoNode
    /\ req[r] \in {"idle", "hijacked"} => via[r] = NoTunnel
    /\ req[r] \in {"dial", "reply", "splice"} => via[r] # NoTunnel
    /\ req[r] # "idle" => host[r] \in Nodes
    /\ \A dir \in {"up", "down"} : <<r, dir>> \in copying => req[r] = "splice"
    /\ via[r] # NoTunnel =>
         /\ node[via[r]] = host[r]
         /\ conn[via[r]] \in {"serving", "unregister", "close", "gone"}

RequestInv == \A r \in Requests : RequestOK(r)

IInv == TypeOK /\ BrokerInv /\ RequestInv

\* Nothing is accepted and no request is served yet: the invariant holds.
LEMMA InitIInv == Init => IInv
  <1> SUFFICES ASSUME Init PROVE IInv
    OBVIOUS
  <1>1. BrokerInv
    BY BrokerInitInv DEF Init
  <1>2. TypeOK
    BY <1>1 DEF Init, TypeOK, BrokerInv
  <1>3. RequestInv
    BY DEF Init, RequestInv, RequestOK
  <1> QED
    BY <1>1, <1>2, <1>3 DEF IInv

\* A step of a connection leaves the requests alone, and the tunnels they picked
\* do not change their node.
LEMMA BrokerStep == IInv /\ BrokerNext /\ UNCHANGED egressVars => IInv'
  <1> SUFFICES ASSUME IInv, BrokerNext, UNCHANGED egressVars PROVE IInv'
    OBVIOUS
  <1>1. BrokerInv'
    BY BrokerNextInv DEF IInv
  <1>2. TypeOK'
    BY <1>1, SMTT(40) DEF IInv, TypeOK, BrokerInv, egressVars
  <1>3. \A c \in Conns : conn[c] \in {"serving", "unregister", "close", "gone"} =>
           node'[c] = node[c] /\ conn'[c] \in {"serving", "unregister", "close", "gone"}
    BY DEF IInv, BrokerInv, BrokerTypeOK, BrokerNext, Handler, Goroutine, Accept, Reject, Identify,
           SessionFails, SessionStarts, AddToSet, ServeExit, Unregister, CloseTunnel, TunnelBreaks,
           Cancel
  <1>4. RequestInv'
    <2>1. \A r \in Requests : via[r] # NoTunnel => via[r] \in Conns
      BY DEF IInv, TypeOK
    <2>2. UNCHANGED <<req, host, via, client, stream, copying>>
      BY DEF egressVars
    <2>3. \A r \in Requests : via[r] # NoTunnel =>
             /\ node'[via[r]] = host[r]
             /\ conn'[via[r]] \in {"serving", "unregister", "close", "gone"}
      BY <1>3, <2>1, ZenonT(40) DEF IInv, RequestInv, RequestOK
    <2> QED
      BY <2>2, <2>3, ZenonT(40) DEF IInv, RequestInv, RequestOK
  <1> QED
    BY <1>1, <1>2, <1>4 DEF IInv

\* Moving a cursor within its width disturbs nothing.
LEMMA CursorStep ==
    ASSUME BrokerInv, UNCHANGED <<conn, node, socket, open, nodes, cancelled>>,
           rr' \in [Nodes -> 0 .. RRMod - 1]
    PROVE  BrokerInv'
  BY DEF BrokerInv, BrokerTypeOK, Lifecycle, RegisteredIffOwned, Registered, NoSocketLeak

\* A step on behalf of request r.
Step(r) ==
    \/ \E n \in Nodes : Hijack(r, n)
    \/ Handle(r)
    \/ \E dir \in {"up", "down"} : CopyEnds(r, dir) \/ CopyFails(r, dir) \/ PeerFinishes(r, dir)

\* A step of a request moves at most the cursor of the broker.
LEMMA RequestBrokerStep ==
    ASSUME BrokerInv, RequestInv, NEW r \in Requests, Step(r)
    PROVE  BrokerInv' /\ UNCHANGED <<conn, node, open, nodes>>
  <1>1. CASE Pick(r)
    <2>1. host[r] \in Nodes
      BY <1>1, ZenonT(40) DEF Pick, RequestInv, RequestOK
    <2>2. Start(host[r]) \in 0 .. RRMod - 1
      BY <2>1, PickSound
    <2>3. rr \in [Nodes -> 0 .. RRMod - 1]
      BY DEF BrokerInv, BrokerTypeOK
    <2>4. rr' \in [Nodes -> 0 .. RRMod - 1]
      BY <1>1, <2>2, <2>3, ZenonT(40) DEF Pick, Advance
    <2>5. UNCHANGED <<conn, node, socket, open, nodes, cancelled>>
      BY <1>1, ZenonT(40) DEF Pick
    <2> QED
      BY <2>4, <2>5, CursorStep
  <1>2. CASE UNCHANGED brokerVars
    <2>1. rr' \in [Nodes -> 0 .. RRMod - 1]
      BY <1>2 DEF BrokerInv, BrokerTypeOK, brokerVars
    <2>2. UNCHANGED <<conn, node, socket, open, nodes, cancelled>>
      BY <1>2, ZenonT(40) DEF brokerVars
    <2> QED
      BY <2>1, <2>2, CursorStep
  <1>3. CASE Handle(r)
    BY <1>1, <1>2, <1>3, ZenonT(40) DEF Handle, StreamOpens, StreamFails, Reply, ReplyFails, SpliceEnds
  <1> QED
    BY <1>2, <1>3, ZenonT(40) DEF Step, Hijack, CopyEnds, CopyFails, PeerFinishes

\* The variables of the egress selector that have a type of their own.
EgressTypeOK ==
    /\ req \in [Requests -> {"idle", "hijacked", "dial", "reply", "splice"}]
    /\ host \in [Requests -> Nodes \cup {NoNode}]
    /\ via \in [Requests -> Conns \cup {NoTunnel}]
    /\ client \in SUBSET Requests
    /\ stream \in [Requests -> {"closed", "open", "half"}]
    /\ copying \in SUBSET (Requests \X {"up", "down"})
    /\ finished \in SUBSET (Requests \X {"up", "down"})

\* What Pick returns is a tunnel of the node that was asked for.
LEMMA PickedTunnel ==
    ASSUME BrokerInv, NEW n \in Nodes, NEW t \in Picks(n)
    PROVE  t \in Conns /\ t # NoTunnel /\ node[t] = n /\ conn[t] \in {"serving", "unregister"}
  <1>1. t \in Registered(n)
    BY PickSound
  <1>2. nodes[n] \in Seq(Conns)
    BY DEF BrokerInv, BrokerTypeOK
  <1>3. t \in Conns
    BY <1>1, <1>2, ElementOfSeq DEF Registered, Members
  <1>4. t # NoTunnel
    BY <1>3, EgressAssumption
  <1>5. node[t] = n /\ conn[t] \in Owned
    BY <1>1, <1>3, ZenonT(40) DEF BrokerInv, RegisteredIffOwned
  <1> QED
    BY <1>3, <1>4, <1>5 DEF Owned

\* What a step of request r does to r: RequestOK(r) holds again, and every
\* variable keeps its type.
LEMMA OwnRequest ==
    ASSUME BrokerInv, EgressTypeOK, RequestInv, NEW r \in Requests, Step(r)
    PROVE  EgressTypeOK' /\ RequestOK(r)'
  <1>0. UNCHANGED <<conn, node>>
    BY RequestBrokerStep
  <1>a. RequestOK(r)
    BY ZenonT(40) DEF RequestInv
  <1> USE DEF EgressTypeOK
  <1>1. ASSUME NEW n \in Nodes, Hijack(r, n) PROVE EgressTypeOK' /\ RequestOK(r)'
    BY <1>a, <1>0, <1>1 DEF Hijack, RequestOK
  <1>2. ASSUME Return(r), UNCHANGED copying, <<r, "up">> \notin copying, <<r, "down">> \notin copying
        PROVE  EgressTypeOK' /\ RequestOK(r)'
    <2>1. EgressTypeOK'
      BY <1>2 DEF Return
    <2>2. /\ req'[r] = "idle" /\ host'[r] = NoNode /\ via'[r] = NoTunnel
          /\ stream'[r] = "closed" /\ r \notin client'
      BY <1>2 DEF Return
    <2> HIDE DEF EgressTypeOK
    <2>3. <<r, "up">> \notin copying' /\ <<r, "down">> \notin copying'
      BY <1>2
    <2> QED
      BY <2>1, <2>2, <2>3 DEF RequestOK
  <1>3. req[r] # "splice" => <<r, "up">> \notin copying /\ <<r, "down">> \notin copying
    BY <1>a, ZenonT(40) DEF RequestOK
  <1>4. CASE Pick(r)
    <2>1. req[r] = "hijacked" /\ UNCHANGED copying
      BY <1>4, ZenonT(40) DEF Pick
    <2>2. CASE Return(r)
      BY <1>2, <1>3, <2>1, <2>2
    <2>3. ASSUME NEW t \in Picks(host[r]), via' = [via EXCEPT ![r] = t],
                 req' = [req EXCEPT ![r] = "dial"], UNCHANGED <<host, client, stream, finished>>
          PROVE  EgressTypeOK' /\ RequestOK(r)'
      <3>1. host[r] \in Nodes
        BY <1>a, <2>1 DEF RequestOK
      <3>2. t \in Conns /\ t # NoTunnel /\ node[t] = host[r] /\ conn[t] \in {"serving", "unregister"}
        BY <2>3, <3>1, PickedTunnel
      <3>3. EgressTypeOK' /\ req'[r] = "dial" /\ via'[r] = t
        BY <2>1, <2>3, <3>2
      <3> HIDE DEF EgressTypeOK
      <3> QED
        BY <1>0, <1>3, <2>1, <2>3, <3>1, <3>2, <3>3 DEF RequestOK
    <2> QED
      BY <1>4, <2>2, <2>3, ZenonT(40) DEF Pick
  <1>5. CASE StreamOpens(r)
    BY <1>a, <1>0, <1>5 DEF StreamOpens, RequestOK
  <1>6. CASE Reply(r)
    BY <1>a, <1>0, <1>6 DEF Reply, RequestOK
  <1>7. CASE StreamFails(r) \/ ReplyFails(r)
    <2>1. Return(r) /\ UNCHANGED copying /\ req[r] # "splice"
      BY <1>7 DEF StreamFails, ReplyFails
    <2> QED
      BY <1>2, <1>3, <2>1
  <1>8. CASE SpliceEnds(r)
    <2>1. Return(r) /\ UNCHANGED copying /\ <<r, "up">> \notin copying /\ <<r, "down">> \notin copying
      BY <1>8, ZenonT(40) DEF SpliceEnds
    <2> QED
      BY <1>2, <2>1
  <1>9. ASSUME NEW dir \in {"up", "down"},
               CopyEnds(r, dir) \/ CopyFails(r, dir) \/ PeerFinishes(r, dir)
        PROVE  EgressTypeOK' /\ RequestOK(r)'
    <2>1. req[r] = "splice" /\ UNCHANGED <<req, host, via>>
      BY <1>9, <1>a, ZenonT(40) DEF CopyEnds, CopyFails, PeerFinishes, RequestOK
    <2>2. EgressTypeOK'
      BY <1>9 DEF CopyEnds, CopyFails, PeerFinishes
    <2> HIDE DEF EgressTypeOK
    <2> QED
      BY <1>a, <1>0, <2>1, <2>2 DEF RequestOK
  <1> QED
    BY <1>1, <1>4, <1>5, <1>6, <1>7, <1>8, <1>9, ZenonT(40) DEF Step, Handle

\* What a step of request r does to another request: nothing.
LEMMA OtherRequests ==
    ASSUME EgressTypeOK, NEW r \in Requests, Step(r), NEW q \in Requests, q # r
    PROVE  /\ req'[q] = req[q] /\ host'[q] = host[q] /\ via'[q] = via[q]
           /\ stream'[q] = stream[q] /\ (q \in client' <=> q \in client)
           /\ \A dir \in {"up", "down"} : <<q, dir>> \in copying' <=> <<q, dir>> \in copying
  <1> USE DEF EgressTypeOK
  <1>1. ASSUME Return(r)
        PROVE  /\ req'[q] = req[q] /\ host'[q] = host[q] /\ via'[q] = via[q]
               /\ stream'[q] = stream[q] /\ (q \in client' <=> q \in client)
    BY <1>1 DEF Return
  <1>2. CASE \E n \in Nodes : Hijack(r, n)
    BY <1>2 DEF Hijack
  <1>3. CASE Pick(r)
    BY <1>1, <1>3 DEF Pick
  <1>4. CASE StreamOpens(r) \/ Reply(r)
    BY <1>4 DEF StreamOpens, Reply
  <1>5. CASE StreamFails(r) \/ ReplyFails(r) \/ SpliceEnds(r)
    BY <1>1, <1>5 DEF StreamFails, ReplyFails, SpliceEnds
  <1>6. CASE \E dir \in {"up", "down"} : CopyEnds(r, dir)
    BY <1>6 DEF CopyEnds
  <1>7. CASE \E dir \in {"up", "down"} : CopyFails(r, dir) \/ PeerFinishes(r, dir)
    BY <1>7 DEF CopyFails, PeerFinishes
  <1> QED
    BY <1>2, <1>3, <1>4, <1>5, <1>6, <1>7, ZenonT(40) DEF Step, Handle

\* The invariant is kept by the steps of a request.
LEMMA RequestStep == ASSUME IInv, NEW r \in Requests, Step(r) PROVE IInv'
  <1>1. BrokerInv /\ EgressTypeOK /\ RequestInv
    BY ZenonT(40) DEF IInv, TypeOK, EgressTypeOK
  <1>2. BrokerInv' /\ UNCHANGED <<conn, node>>
    BY <1>1, RequestBrokerStep
  <1>3. EgressTypeOK' /\ RequestOK(r)'
    BY <1>1, OwnRequest
  <1>4. ASSUME NEW q \in Requests, q # r PROVE RequestOK(q)'
    <2>1. RequestOK(q)
      BY <1>1, ZenonT(40) DEF RequestInv
    <2> QED
      BY <1>1, <1>2, <1>4, <2>1, OtherRequests DEF RequestOK
  <1>5. RequestInv'
    BY <1>3, <1>4, ZenonT(40) DEF RequestInv
  <1> QED
    BY <1>2, <1>3, <1>5, ZenonT(40) DEF IInv, TypeOK, EgressTypeOK, BrokerInv

\* The invariant holds of every behaviour of the broker and the egress selector.
THEOREM Invariance == Spec => []IInv
  <1>1. IInv /\ UNCHANGED vars => IInv'
    BY DEF vars, brokerVars, egressVars, IInv, TypeOK, BrokerTypeOK, BrokerInv, Lifecycle,
           RegisteredIffOwned, Registered, NoSocketLeak, RequestInv, RequestOK
  <1>2. IInv /\ [Next]_vars => IInv'
    <2> SUFFICES ASSUME IInv, Next PROVE IInv'
      BY <1>1
    <2>1. CASE BrokerNext /\ UNCHANGED egressVars
      BY <2>1, BrokerStep
    <2>2. CASE \E r \in Requests : Step(r)
      BY <2>2, RequestStep
    <2> QED
      BY <2>1, <2>2, ZenonT(40) DEF Next, Step
  <1> QED
    BY InitIInv, <1>2, PTL DEF Spec

\* Every variable of the tunnel server keeps its type: the sets hold tunnels only
\* and the cursor of Pick stays within its width.
THEOREM TypeCorrect == Spec => []TypeOK
  BY Invariance, PTL DEF IInv

\* For any number of nodes and connections, the sets of the broker and its serve
\* goroutines agree, and swap-removal keeps them free of duplicates and of leftovers.
THEOREM SetsMatchGoroutines == Spec => []RegisteredIffOwned
  <1>1. IInv => RegisteredIffOwned
    BY DEF IInv, BrokerInv
  <1> QED
    BY Invariance, <1>1, PTL

\* Every path through handle and Register that abandons a connection has closed it.
THEOREM SocketsAreClosed == Spec => []NoSocketLeak
  <1>1. IInv => NoSocketLeak
    BY DEF IInv, BrokerInv
  <1> QED
    BY Invariance, <1>1, PTL

\* A CONNECT for a node is never spliced into a tunnel of another node.
THEOREM RequestsReachTheirNode == Spec => []RightNode
  <1>1. IInv => RightNode
    BY Zenon DEF IInv, RequestInv, RequestOK, RightNode
  <1> QED
    BY Invariance, <1>1, PTL

\* Whichever way handle returns, it leaves neither the hijacked connection, nor the
\* stream, nor a copy goroutine behind.
THEOREM RequestsAreCleanedUp == Spec => []NothingLeftOpen
  <1>1. IInv => NothingLeftOpen
    BY DEF IInv, RequestInv, RequestOK, NothingLeftOpen
  <1> QED
    BY Invariance, <1>1, PTL

\* The serve goroutine closes a tunnel only after Unregister took it out of its set.
THEOREM ClosedAfterUnregister == Spec => UnregisteredBeforeClosed
  <1>1. IInv /\ [Next]_vars => [\A c \in Conns :
          (c \in open /\ c \notin open' /\ conn[c] \in Owned) => conn' = conn]_brokerVars
    BY ZenonT(40) DEF vars, brokerVars, Next, BrokerNext, Handler, Goroutine, Accept, Reject, Identify,
           SessionFails, SessionStarts, AddToSet, ServeExit, Unregister, CloseTunnel, TunnelBreaks,
           Cancel, Hijack, Handle, Pick, StreamOpens, StreamFails, Reply, ReplyFails, SpliceEnds,
           CopyEnds, CopyFails, PeerFinishes, Owned
  <1> QED
    BY Invariance, <1>1, PTL DEF Spec, UnregisteredBeforeClosed
-----------------------------------------------------------------------------
(* The refinement.  Every step of the replica joins or removes one live     *)
(* tunnel, asks, grants, forgets, or changes nothing a request can see.     *)

Live(n) == Registered(n) \cap open

\* A connection that is registered and open when it was not before joins its node;
\* the only step that does so is append, and it belongs to no other node.
LEMMA BrokerMoves ==
    ASSUME BrokerInv, BrokerNext
    PROVE  \/ \A n \in Nodes : Live(n)' = Live(n)
           \/ \E m \in Nodes, c \in Conns :
                 /\ (\A n \in Nodes : c \notin Live(n)) /\ Live(m)' = Live(m) \cup {c}
                 /\ \A n \in Nodes \ {m} : Live(n)' = Live(n)
           \/ \E m \in Nodes, c \in Conns :
                 /\ c \in Live(m) /\ Live(m)' = Live(m) \ {c}
                 /\ \A n \in Nodes \ {m} : Live(n)' = Live(n)
  <1> DEFINE Alive(n) == {c \in Conns : node[c] = n /\ conn[c] \in Owned /\ c \in open}
  <1>1. \A n \in Nodes : Live(n) = Alive(n)
    BY Zenon DEF BrokerInv, BrokerTypeOK, RegisteredIffOwned, Live
  <1>2. \A n \in Nodes : Live(n)' = Alive(n)'
    BY BrokerNextInv, SMTT(40) DEF BrokerInv, BrokerTypeOK, RegisteredIffOwned, Live
  <1>3. ASSUME NEW c \in Conns, Accept(c) \/ Reject(c) \/ SessionFails(c) \/ SessionStarts(c)
                 \/ ServeExit(c) \/ (\E n \in Nodes : Identify(c, n))
        PROVE  \A n \in Nodes : Alive(n)' = Alive(n)
    BY <1>3 DEF BrokerInv, BrokerTypeOK, Lifecycle, Owned, Accept, Reject, SessionFails,
                SessionStarts, ServeExit, Identify
  <1>4. ASSUME NEW c \in Conns, CloseTunnel(c) PROVE \A n \in Nodes : Alive(n)' = Alive(n)
    BY <1>4 DEF BrokerInv, BrokerTypeOK, Owned, CloseTunnel
  <1>5. ASSUME NEW c \in Conns, AddToSet(c)
        PROVE  /\ node[c] \in Nodes /\ \A n \in Nodes : c \notin Alive(n)
               /\ Alive(node[c])' = Alive(node[c]) \cup ({c} \cap open)
               /\ \A n \in Nodes \ {node[c]} : Alive(n)' = Alive(n)
    BY <1>5 DEF BrokerInv, BrokerTypeOK, Lifecycle, Owned, AddToSet
  <1>6. ASSUME NEW c \in Conns, Unregister(c) \/ TunnelBreaks(c), conn[c] \in Owned, c \in open
        PROVE  /\ node[c] \in Nodes /\ c \in Alive(node[c])
               /\ Alive(node[c])' = Alive(node[c]) \ {c}
               /\ \A n \in Nodes \ {node[c]} : Alive(n)' = Alive(n)
    BY <1>6 DEF BrokerInv, BrokerTypeOK, Lifecycle, Owned, Unregister, TunnelBreaks
  <1>7. ASSUME NEW c \in Conns, Unregister(c) \/ TunnelBreaks(c), conn[c] \notin Owned \/ c \notin open
        PROVE  \A n \in Nodes : Alive(n)' = Alive(n)
    BY <1>7, SMTT(40) DEF BrokerInv, BrokerTypeOK, Owned, Unregister, TunnelBreaks
  <1>8. CASE Cancel
    BY <1>1, <1>2, <1>8 DEF Cancel
  <1> HIDE DEF Alive
  <1>9. ASSUME NEW c \in Conns, AddToSet(c)
        PROVE  \/ \A n \in Nodes : Live(n)' = Live(n)
               \/ \E m \in Nodes :
                     /\ (\A n \in Nodes : c \notin Live(n)) /\ Live(m)' = Live(m) \cup {c}
                     /\ \A n \in Nodes \ {m} : Live(n)' = Live(n)
    <2>1. UNCHANGED node
      BY <1>9, SMTT(40) DEF AddToSet
    <2> PICK m \in Nodes : m = node[c]
      BY <1>5, <1>9
    <2>2. m \in Nodes /\ Live(m)' = Live(m) \cup ({c} \cap open)
          /\ (\A n \in Nodes : c \notin Live(n)) /\ \A n \in Nodes \ {m} : Live(n)' = Live(n)
      BY <1>1, <1>2, <1>5, <1>9, <2>1
    <2>3. CASE c \in open
      <3>1. Live(m) \cup ({c} \cap open) = Live(m) \cup {c}
        BY <2>3
      <3> QED
        BY <2>2, <3>1, Zenon
    <2>4. CASE c \notin open
      <3>1. Live(m) \cup ({c} \cap open) = Live(m)
        BY <2>4, SMTT(40)
      <3> QED
        BY <2>2, <3>1, Zenon
    <2> QED
      BY <2>3, <2>4
  <1>10. ASSUME NEW c \in Conns, Unregister(c) \/ TunnelBreaks(c), conn[c] \in Owned, c \in open
        PROVE  \E m \in Nodes :
                 /\ c \in Live(m) /\ Live(m)' = Live(m) \ {c}
                 /\ \A n \in Nodes \ {m} : Live(n)' = Live(n)
    <2>1. UNCHANGED node
      BY <1>10 DEF Unregister, TunnelBreaks
    <2> QED
      BY <1>1, <1>2, <1>6, <1>10, <2>1
  <1>11. CASE Cancel
    BY <1>8, <1>11
  <1>12. ASSUME NEW c \in Conns, Accept(c) \/ Reject(c) \/ SessionFails(c) \/ SessionStarts(c)
                  \/ ServeExit(c) \/ (\E n \in Nodes : Identify(c, n)) \/ CloseTunnel(c)
         PROVE  \A n \in Nodes : Live(n)' = Live(n)
    BY <1>1, <1>2, <1>3, <1>4, <1>12
  <1>13. ASSUME NEW c \in Conns, Unregister(c) \/ TunnelBreaks(c), conn[c] \notin Owned \/ c \notin open
         PROVE  \A n \in Nodes : Live(n)' = Live(n)
    BY <1>1, <1>2, <1>7, <1>13, SMTT(40)
  <1>14. CASE \E c \in Conns : Accept(c) \/ Handler(c) \/ Goroutine(c) \/ TunnelBreaks(c)
    <2> PICK c \in Conns : Accept(c) \/ Handler(c) \/ Goroutine(c) \/ TunnelBreaks(c)
      BY <1>14
    <2>1. CASE AddToSet(c)
      BY <1>9, <2>1
    <2>2. CASE Unregister(c) \/ TunnelBreaks(c)
      BY <1>10, <1>13, <2>2
    <2>3. CASE Accept(c) \/ Reject(c) \/ SessionFails(c) \/ SessionStarts(c)
                 \/ ServeExit(c) \/ (\E n \in Nodes : Identify(c, n)) \/ CloseTunnel(c)
      BY <1>12, <2>3
    <2> QED
      BY <2>1, <2>2, <2>3 DEF Handler, Goroutine
  <1> QED
    BY <1>11, <1>14 DEF BrokerNext

\* Every step of the replica is one of the directory, except that a request may be
\* forgotten without a tunnel: then Pick found none.
LEMMA DirectoryStep ==
    ASSUME IInv, Next
    PROVE  \/ UNCHANGED Directory!vars \/ Directory!Moves \/ Directory!Asks
           \/ \E r \in Requests : Directory!Finish(r)
           \/ \E r \in Requests :
                /\ host[r] \in Nodes /\ via[r] = NoTunnel /\ Picks(host[r]) = {}
                /\ Directory!Forget(r)
  <1> DEFINE L == [n \in Nodes |-> Registered(n) \cap open]
  <1>1. CASE BrokerNext /\ UNCHANGED egressVars
    <2>1. UNCHANGED <<host, via>>
      BY <1>1, ZenonT(40) DEF egressVars
    <2>2. CASE \A n \in Nodes : Live(n)' = Live(n)
      <3>1. UNCHANGED L
        BY <2>2, ZenonT(40) DEF Live
      <3> QED
        BY <2>1, <3>1, ZenonT(40) DEF Directory!vars
    <2>3. ASSUME NEW m \in Nodes, NEW c \in Conns,
                 \A n \in Nodes : c \notin Live(n), Live(m)' = Live(m) \cup {c},
                 \A n \in Nodes \ {m} : Live(n)' = Live(n)
          PROVE  Directory!Join(m, c)
      <3>1. \A n \in Nodes : c \notin L[n]
        BY <2>3, ZenonT(40) DEF Live
      <3>2. L' = [L EXCEPT ![m] = @ \cup {c}]
        BY <2>3, ZenonT(40) DEF Live
      <3> QED
        BY <2>1, <3>1, <3>2, ZenonT(40) DEF Directory!Join
    <2>4. ASSUME NEW m \in Nodes, NEW c \in Conns, c \in Live(m), Live(m)' = Live(m) \ {c},
                 \A n \in Nodes \ {m} : Live(n)' = Live(n)
          PROVE  Directory!Leave(m, c)
      <3>1. c \in L[m]
        BY <2>4, ZenonT(40) DEF Live
      <3>2. L' = [L EXCEPT ![m] = @ \ {c}]
        BY <2>4, ZenonT(40) DEF Live
      <3> QED
        BY <2>1, <3>1, <3>2, ZenonT(40) DEF Directory!Leave
    <2>5. BrokerInv /\ BrokerNext
      BY <1>1 DEF IInv
    <2> QED
      BY <2>5, <2>2, <2>3, <2>4, BrokerMoves, ZenonT(40) DEF Directory!Moves
  <1>2. ASSUME NEW r \in Requests, Step(r) PROVE UNCHANGED L
    <2>1. UNCHANGED <<open, nodes>>
      BY <1>2, RequestBrokerStep DEF IInv
    <2> QED
      BY <2>1 DEF Registered
  <1>3. ASSUME NEW r \in Requests, NEW n \in Nodes, Hijack(r, n) PROVE Directory!Ask(r, n)
    <2>1. UNCHANGED L
      BY <1>2, <1>3 DEF Step
    <2>2. host[r] = NoNode
      BY <1>3, ZenonT(40) DEF Hijack, IInv, RequestInv, RequestOK
    <2>3. host' = [host EXCEPT ![r] = n] /\ UNCHANGED via
      BY <1>3, ZenonT(40) DEF Hijack
    <2> QED
      BY <2>1, <2>2, <2>3 DEF Directory!Ask
  <1>4. ASSUME NEW r \in Requests, host[r] \in Nodes, Return(r), UNCHANGED L
        PROVE  Directory!Forget(r)
    <2>1. host[r] # NoNode
      BY <1>4, BrokerAssumption
    <2>2. host' = [host EXCEPT ![r] = NoNode] /\ via' = [via EXCEPT ![r] = NoTunnel]
      BY <1>4 DEF Return
    <2> QED
      BY <1>4, <2>1, <2>2 DEF Directory!Forget
  <1>5. ASSUME NEW r \in Requests, Pick(r)
        PROVE  \/ /\ host[r] \in Nodes /\ via[r] = NoTunnel /\ Picks(host[r]) = {}
                  /\ Directory!Forget(r)
               \/ \E t \in Conns : Directory!Grant(r, t)
    <2>1. host[r] \in Nodes /\ via[r] = NoTunnel
      <3>1. RequestOK(r) /\ req[r] = "hijacked"
        BY <1>5, ZenonT(40) DEF Pick, IInv, RequestInv
      <3> QED
        BY <3>1 DEF RequestOK
    <2>2. host[r] # NoNode
      BY <2>1, BrokerAssumption
    <2>3. UNCHANGED L
      BY <1>2, <1>5 DEF Step, Handle
    <2>4. CASE Picks(host[r]) = {} /\ Return(r)
      BY <1>4, <2>1, <2>3, <2>4
    <2>5. ASSUME NEW t \in Picks(host[r]), via' = [via EXCEPT ![r] = t], UNCHANGED host
          PROVE  t \in Conns /\ Directory!Grant(r, t)
      <3>1. t \in L[host[r]] /\ t \in Conns
        BY <2>1, <2>5, PickSound, PickedTunnel DEF IInv
      <3> QED
        BY <2>1, <2>2, <2>3, <2>5, <3>1 DEF Directory!Grant
    <2> QED
      BY <1>5, <2>4, <2>5, ZenonT(40) DEF Pick
  <1>6. ASSUME NEW r \in Requests, StreamFails(r) \/ ReplyFails(r) \/ SpliceEnds(r)
        PROVE  Directory!Finish(r)
    <2>1. req[r] \in {"dial", "reply", "splice"} /\ Return(r)
      BY <1>6 DEF StreamFails, ReplyFails, SpliceEnds
    <2>2. RequestOK(r)
      BY ZenonT(40) DEF IInv, RequestInv
    <2>3. host[r] \in Nodes /\ via[r] # NoTunnel
      BY <2>1, <2>2 DEF RequestOK
    <2>4. UNCHANGED L
      BY <1>2, <1>6 DEF Step, Handle
    <2> QED
      BY <1>4, <2>1, <2>3, <2>4 DEF Directory!Finish
  <1>7. ASSUME NEW r \in Requests,
               \/ StreamOpens(r) \/ Reply(r)
               \/ \E dir \in {"up", "down"} :
                    CopyEnds(r, dir) \/ CopyFails(r, dir) \/ PeerFinishes(r, dir)
        PROVE  UNCHANGED Directory!vars
    <2>1. UNCHANGED <<host, via>>
      BY <1>7, ZenonT(40) DEF StreamOpens, Reply, CopyEnds, CopyFails, PeerFinishes
    <2>2. UNCHANGED L
      BY <1>2, <1>7 DEF Step, Handle
    <2> QED
      BY <2>1, <2>2, ZenonT(40) DEF Directory!vars
  <1> QED
    BY <1>1, <1>3, <1>5, <1>6, <1>7, ZenonT(40) DEF Next, Handle, Directory!Asks

\* The directory starts empty, and a step that changes nothing here changes nothing
\* there.
LEMMA DirectoryFrame ==
    /\ Init => Directory!Init
    /\ UNCHANGED vars => UNCHANGED Directory!vars
  <1>1. ASSUME Init PROVE Directory!Init
    <2>1. \A n \in Nodes : Registered(n) \cap open = {}
      BY <1>1, ZenonT(40) DEF Init, BrokerInit
    <2> QED
      BY <1>1, <2>1 DEF Init, Directory!Init
  <1>2. UNCHANGED vars => UNCHANGED Directory!vars
    BY DEF vars, brokerVars, egressVars, Directory!vars, Registered
  <1> QED
    BY <1>1, <1>2

\* Whatever the numbers of nodes, tunnels and requests, and whatever is interleaved,
\* a request is only ever given a tunnel that is live and of the node it names, and
\* a tunnel counts for one node.
THEOREM GrantsImplementDirectory == Spec => Directory!GrantSpec
  <1>1. ASSUME IInv, Next PROVE [Directory!GrantNext]_(Directory!vars)
    BY <1>1, DirectoryStep, ZenonT(40) DEF Directory!GrantNext, Directory!Finish
  <1> QED
    BY Invariance, <1>1, DirectoryFrame, PTL DEF Spec, Directory!GrantSpec

\* The replica implements the directory, refusals included: a request is refused
\* at a moment when its node has no live tunnel.  This needs the cursor of Pick to
\* be in range, which a cursor of 64 bits is for every number of requests that a
\* replica can serve; past its end, a scan of three tunnels can miss one.
THEOREM ReplicaImplementsDirectory == Spec /\ [](\A n \in Nodes : InRange(n)) => ImplementsDirectory
  <1> DEFINE InR == \A n \in Nodes : InRange(n)
  <1>1. ASSUME IInv, InR, Next PROVE [Directory!Next]_(Directory!vars)
    <2>1. ASSUME NEW r \in Requests, host[r] \in Nodes, via[r] = NoTunnel, Picks(host[r]) = {},
                 Directory!Forget(r)
          PROVE  Directory!Refuse(r)
      <3>1. Registered(host[r]) \cap open = {}
        BY <1>1, <2>1, PickComplete DEF IInv
      <3>2. host[r] # NoNode
        BY <2>1, BrokerAssumption
      <3> QED
        BY <2>1, <3>1, <3>2, ZenonT(40) DEF Directory!Refuse
    <2> QED
      BY <1>1, <2>1, DirectoryStep, ZenonT(40) DEF Directory!Next
  <1> HIDE DEF InR
  <1>2. Spec /\ []InR => Directory!Spec
    BY Invariance, <1>1, DirectoryFrame, PTL DEF Spec, Directory!Spec
  <1> QED
    BY <1>2, PTL DEF InR, ImplementsDirectory

\* A client gets a 502 for want of a tunnel only when every tunnel registered for
\* its node is closed, wherever in its range the cursor stands.
THEOREM RefusalsAreDue == Spec /\ [](\A n \in Nodes : InRange(n)) => RefusedOnlyWithoutTunnel
  <1> DEFINE InR == \A n \in Nodes : InRange(n)
  <1>1. ASSUME IInv, InR, [Next]_vars
        PROVE  [\A r \in Requests : (req[r] = "hijacked" /\ req'[r] = "idle") =>
                  Registered(host[r]) \cap open = {}]_vars
    <2> SUFFICES ASSUME Next, NEW r \in Requests, req[r] = "hijacked", req'[r] = "idle"
                 PROVE  Registered(host[r]) \cap open = {}
      BY <1>1, ZenonT(40)
    <2>1. BrokerInv /\ EgressTypeOK /\ RequestOK(r)
      BY <1>1, ZenonT(40) DEF IInv, TypeOK, EgressTypeOK, RequestInv
    <2>2. host[r] \in Nodes
      BY <2>1 DEF RequestOK
    <2>3. ~ UNCHANGED egressVars
      BY DEF egressVars
    <2>4. ASSUME NEW q \in Requests, Step(q) PROVE Picks(host[r]) = {}
      <3>1. q = r
        BY <2>1, <2>4, OtherRequests, ZenonT(40)
      <3>2. CASE Pick(r)
        BY <2>1, <3>2 DEF Pick, EgressTypeOK
      <3>3. ~ (\E n \in Nodes : Hijack(r, n))
        BY DEF Hijack
      <3>4. ~ StreamOpens(r) /\ ~ StreamFails(r) /\ ~ Reply(r) /\ ~ ReplyFails(r) /\ ~ SpliceEnds(r)
        BY DEF StreamOpens, StreamFails, Reply, ReplyFails, SpliceEnds
      <3>5. ASSUME NEW dir \in {"up", "down"}
            PROVE  ~ CopyEnds(r, dir) /\ ~ CopyFails(r, dir) /\ ~ PeerFinishes(r, dir)
        <4>1. req' # req
          BY <2>1 DEF EgressTypeOK
        <4> QED
          BY <4>1, ZenonT(40) DEF CopyEnds, CopyFails, PeerFinishes
      <3> QED
        BY <2>4, <3>1, <3>2, <3>3, <3>4, <3>5, ZenonT(40) DEF Step, Handle
    <2>5. Picks(host[r]) = {}
      BY <2>3, <2>4, ZenonT(40) DEF Next, Step
    <2> QED
      BY <1>1, <2>1, <2>2, <2>5, PickComplete
  <1> HIDE DEF InR
  <1>2. Spec /\ []InR => RefusedOnlyWithoutTunnel
    BY Invariance, <1>1, PTL DEF Spec, RefusedOnlyWithoutTunnel
  <1> QED
    BY <1>2, PTL DEF InR

\* While no node has more than two tunnels, a replaced one and its successor, the
\* replica implements the directory wherever its cursor stands: the width of the
\* cursor is even, so that it wraps around where a round through two ends.
THEOREM TwoTunnelsSuffice ==
    ASSUME RRMod % 2 = 0
    PROVE  Spec /\ [](\A n \in Nodes : Len(nodes[n]) =< 2) => ImplementsDirectory
  <1>1. IInv /\ (\A n \in Nodes : Len(nodes[n]) =< 2) => \A n \in Nodes : InRange(n)
    <2> SUFFICES ASSUME IInv, NEW n \in Nodes, Len(nodes[n]) =< 2 PROVE InRange(n)
      BY ZenonT(40)
    <2>1. Len(nodes[n]) \in {0, 1, 2}
      <3>1. nodes[n] \in Seq(Conns)
        BY DEF IInv, BrokerInv, BrokerTypeOK
      <3>2. Len(nodes[n]) \in Nat
        BY <3>1
      <3>3. \A l \in Nat : l =< 2 => l \in {0, 1, 2}
        OBVIOUS
      <3> QED
        BY <3>2, <3>3, ZenonT(40)
    <2>2. Start(n) \in 0 .. RRMod - 1 /\ RRMod \in Nat
      BY PickSound, BrokerAssumption DEF IInv
    <2>3. RRMod % 1 = 0
      BY <2>2
    <2>4. CASE Len(nodes[n]) = 0
      BY <2>2, <2>4 DEF InRange
    <2> QED
      BY <2>1, <2>3, <2>4, ZenonT(40) DEF InRange
  <1> QED
    BY Invariance, <1>1, ReplicaImplementsDirectory, PTL
-----------------------------------------------------------------------------
(* What the liveness properties rest on: nothing that is over starts again, *)
(* and no copy of a splice is left without an end that it waits for.        *)

\* The tunnel of c has been given up, and c has left the set of its node.
Dead(c) == conn[c] \in {"serving", "unregister", "close", "gone"} /\ c \notin open
Left(c) == conn[c] \in {"close", "gone"}

\* A step of anything leaves the dead tunnels dead and those that left outside.
LEMMA TunnelsMoveOn ==
    ASSUME IInv, [Next]_vars, NEW c \in Conns
    PROVE  (Dead(c) => Dead(c)') /\ (Left(c) => Left(c)')
  <1>1. conn \in [Conns -> {"new", "handshake", "session", "append", "serving",
                            "unregister", "close", "gone"}]
    BY ZenonT(40) DEF IInv, BrokerInv, BrokerTypeOK
  <1>2. CASE UNCHANGED <<conn, open>>
    BY <1>2 DEF Dead, Left
  <1>3. ASSUME NEW d \in Conns, Accept(d) \/ Handler(d)
        PROVE  (Dead(c) => Dead(c)') /\ (Left(c) => Left(c)')
    BY <1>1, <1>3, SMTT(40), SMTT(60)
       DEF Dead, Left, Accept, Handler, Reject, Identify, SessionFails, SessionStarts, AddToSet
  <1>4. ASSUME NEW d \in Conns, Goroutine(d) \/ TunnelBreaks(d)
        PROVE  (Dead(c) => Dead(c)') /\ (Left(c) => Left(c)')
    BY <1>1, <1>4, SMTT(40), SMTT(60)
       DEF Dead, Left, Goroutine, ServeExit, Unregister, CloseTunnel, TunnelBreaks
  <1>5. CASE BrokerNext
    <2>1. CASE Cancel
      BY <1>2, <2>1, ZenonT(40) DEF Cancel
    <2> QED
      BY <1>3, <1>4, <1>5, <2>1, ZenonT(40) DEF BrokerNext
  <1>6. CASE \E r \in Requests : Step(r)
    <2>1. BrokerInv /\ RequestInv
      BY ZenonT(40) DEF IInv
    <2>2. UNCHANGED <<conn, open>>
      BY <1>6, <2>1, RequestBrokerStep
    <2> QED
      BY <1>2, <2>2
  <1>7. CASE UNCHANGED vars
    <2>1. UNCHANGED <<conn, open>>
      BY <1>7, ZenonT(40) DEF vars, brokerVars
    <2> QED
      BY <1>2, <2>1
  <1> QED
    BY <1>5, <1>6, <1>7, ZenonT(40) DEF Next, Step

\* A tunnel that died is never given out again: nothing reopens it, so that Pick,
\* which returns open tunnels only, passes it over until its goroutine removes it.
THEOREM DeadForGood ==
    ASSUME NEW c \in Conns
    PROVE  Spec => [](Dead(c) => [](\A n \in Nodes : c \notin Picks(n)))
  <1>1. IInv /\ Dead(c) => \A n \in Nodes : c \notin Picks(n)
    BY PickSound, ZenonT(40) DEF IInv, Dead
  <1>2. IInv /\ [Next]_vars /\ Dead(c) => Dead(c)'
    BY TunnelsMoveOn
  <1> QED
    BY Invariance, <1>1, <1>2, PTL DEF Spec

\* A tunnel that left its node's set never returns to one, whatever reconnects:
\* the safety half of the property that dead tunnels leave.
THEOREM LeftForGood ==
    ASSUME NEW c \in Conns
    PROVE  Spec => [](Left(c) => [](\A n \in Nodes : c \notin Registered(n)))
  <1>1. IInv /\ Left(c) => \A n \in Nodes : c \notin Registered(n)
    <2> SUFFICES ASSUME IInv, Left(c), NEW n \in Nodes PROVE c \notin Registered(n)
      BY ZenonT(40)
    <2>1. conn[c] \notin Owned
      BY DEF Left, Owned
    <2> QED
      BY <2>1, ZenonT(40) DEF IInv, BrokerInv, RegisteredIffOwned
  <1>2. IInv /\ [Next]_vars /\ Left(c) => Left(c)'
    BY TunnelsMoveOn
  <1> QED
    BY Invariance, <1>1, <1>2, PTL DEF Spec

\* The copy that has ended closed what the other one waits for.
PartnerFreed(r) ==
    req[r] = "splice" =>
      /\ <<r, "down">> \notin copying => r \notin client
      /\ <<r, "up">> \notin copying => stream[r] # "open"

\* A step of request r keeps this of r, whether a copy ends or fails.
LEMMA OwnPartner ==
    ASSUME EgressTypeOK, NEW r \in Requests, PartnerFreed(r), Step(r)
    PROVE  PartnerFreed(r)'
  <1>1. req \in [Requests -> {"idle", "hijacked", "dial", "reply", "splice"}]
        /\ stream \in [Requests -> {"closed", "open", "half"}]
    BY ZenonT(40) DEF EgressTypeOK
  <1>2. ASSUME Return(r) PROVE PartnerFreed(r)'
    BY <1>1, <1>2 DEF Return, PartnerFreed
  <1>3. CASE \E n \in Nodes : Hijack(r, n)
    BY <1>1, <1>3 DEF Hijack, PartnerFreed
  <1>4. CASE Pick(r)
    <2>1. CASE Return(r)
      BY <1>2, <2>1
    <2>2. CASE req' = [req EXCEPT ![r] = "dial"]
      BY <1>1, <2>2 DEF PartnerFreed
    <2> QED
      BY <1>4, <2>1, <2>2, ZenonT(40) DEF Pick
  <1>5. CASE StreamOpens(r)
    BY <1>1, <1>5 DEF StreamOpens, PartnerFreed
  <1>6. CASE StreamFails(r) \/ ReplyFails(r) \/ SpliceEnds(r)
    BY <1>2, <1>6, ZenonT(40) DEF StreamFails, ReplyFails, SpliceEnds
  <1>7. CASE Reply(r)
    BY <1>1, <1>7 DEF Reply, PartnerFreed
  <1>8. ASSUME NEW dir \in {"up", "down"}, CopyEnds(r, dir) PROVE PartnerFreed(r)'
    BY <1>1, <1>8, SMTT(40), SMTT(60) DEF CopyEnds, PartnerFreed
  <1>9. ASSUME NEW dir \in {"up", "down"}, CopyFails(r, dir) PROVE PartnerFreed(r)'
    BY <1>1, <1>9, SMTT(40), SMTT(60) DEF CopyFails, PartnerFreed
  <1>10. ASSUME NEW dir \in {"up", "down"}, PeerFinishes(r, dir) PROVE PartnerFreed(r)'
    BY <1>10, ZenonT(40) DEF PeerFinishes, PartnerFreed
  <1> QED
    BY <1>3, <1>4, <1>5, <1>6, <1>7, <1>8, <1>9, <1>10, ZenonT(40) DEF Step, Handle

\* No half of a splice is orphaned: when the copy towards the client has ended, by
\* end of input or by an error, the client's connection is closed under the other
\* copy, and when the copy towards the kubelet has ended, the stream is no longer
\* open for writing.  The safety half of the property that splices end.
THEOREM CopiesFreeEachOther == Spec => [](\A r \in Requests : PartnerFreed(r))
  <1> DEFINE Freed == \A r \in Requests : PartnerFreed(r)
  <1>1. Init => Freed
    BY DEF Init, PartnerFreed
  <1>2. IInv /\ Freed /\ [Next]_vars => Freed'
    <2> SUFFICES ASSUME IInv, Freed, [Next]_vars, NEW q \in Requests PROVE PartnerFreed(q)'
      OBVIOUS
    <2>1. EgressTypeOK
      BY ZenonT(40) DEF IInv, TypeOK, EgressTypeOK
    <2>2. CASE UNCHANGED <<req, client, stream, copying>>
      BY <2>2, ZenonT(40) DEF PartnerFreed
    <2>3. CASE BrokerNext /\ UNCHANGED egressVars
      BY <2>2, <2>3, ZenonT(40) DEF egressVars
    <2>4. ASSUME NEW r \in Requests, Step(r) PROVE PartnerFreed(q)'
      <3>1. CASE q = r
        BY <2>1, <2>4, <3>1, OwnPartner
      <3>2. CASE q # r
        <4>1. /\ req'[q] = req[q] /\ stream'[q] = stream[q] /\ (q \in client' <=> q \in client)
              /\ <<q, "up">> \in copying' <=> <<q, "up">> \in copying
              /\ <<q, "down">> \in copying' <=> <<q, "down">> \in copying
          BY <2>1, <2>4, <3>2, OtherRequests
        <4> QED
          BY <4>1, ZenonT(40) DEF PartnerFreed
      <3> QED
        BY <3>1, <3>2
    <2>5. CASE UNCHANGED vars
      BY <2>2, <2>5, ZenonT(40) DEF vars, egressVars
    <2> QED
      BY <2>3, <2>4, <2>5, ZenonT(40) DEF Next, Step
  <1> HIDE DEF Freed
  <1>3. Spec => []Freed
    BY Invariance, <1>1, <1>2, PTL DEF Spec
  <1> QED
    BY <1>3, PTL DEF Freed
=============================================================================
