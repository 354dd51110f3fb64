---------------------------- MODULE TunnelAgent ----------------------------
(***************************************************************************)
(* The plane tunnel agent of a worker node (pkg/tunnel/agent/agent.go).    *)
(*                                                                         *)
(* One manager goroutine (connectionManager) keeps tunnels to the replicas *)
(* of the tunnel server; one serve goroutine per tunnel watches it and     *)
(* cleans up when it dies.  They share connState: the tracker, the target  *)
(* and the buffered channel `disconnected'.  All replicas are dialled      *)
(* through one load-balanced address, so the replica reached is not the    *)
(* agent's choice.  Each replica answers identity requests with its uuid   *)
(* and with the replica count it finds in DNS (server.go), which may lag   *)
(* and is reported as 1 when the lookup fails.                             *)
(*                                                                         *)
(* A member of Servers is one server process: its uuid is drawn at start   *)
(* and never reused, so a restarted replica is another member.             *)
(***************************************************************************)
EXTENDS Integers, FiniteSets

CONSTANTS Servers,       \* server processes, identified by their uuid
          Conns,         \* tunnels, with their serve goroutine; reused once free
          NoServer,      \* the peer of an unused tunnel
          NoConn,        \* absence of a tunnel
          Attempts,      \* retry.Attempts in establishNewConnection: 4
          ChanCap,       \* capacity of the channel disconnected: 16
          MaxBreaks,     \* bound: spontaneous tunnel failures
          LookupMayFail  \* whether the DNS lookup of a replica may fail

ASSUME ConstantsAssumption ==
    /\ IsFiniteSet(Servers)
    /\ NoServer \notin Servers
    /\ NoConn \notin Conns
    /\ Attempts \in Nat \ {0}
    /\ ChanCap \in Nat \ {0}
    /\ MaxBreaks \in Nat
    /\ LookupMayFail \in BOOLEAN

VARIABLES
    server,        \* server process -> "new", "up" or "down"
    dns,           \* number of addresses the headless Service publishes
    tracker,       \* uuid -> the tunnel tracked for it
    target,        \* connState.target
    disconnected,  \* number of ids buffered in the channel
    conn,          \* tunnel -> what owns it: nobody, the manager, its goroutine
    peer,          \* tunnel -> the server process at its other end
    open,          \* the tunnels whose session is open
    mgr,           \* where the manager goroutine stands
    attempt,       \* attempts made in the current retry.Do
    mc,            \* the tunnel the manager holds (mc, tunnel)
    answer,        \* NumberOfInstances of the identity the manager holds
    cancelled,     \* ctx is done
    breaks         \* spontaneous failures so far

envVars  == <<server, dns, cancelled, breaks>>
connVars == <<conn, peer, open>>
mgrVars  == <<mgr, attempt, mc, answer>>
vars     == <<envVars, tracker, target, disconnected, connVars, mgrVars>>

Up      == {s \in Servers : server[s] = "up"}
Tracked == {s \in Servers : tracker[s] # NoConn}
Free    == {c \in Conns : conn[c] = "free"}

\* resolveReplicaCount: 1 on a failed lookup or an empty answer.
Answers == {IF dns = 0 THEN 1 ELSE dns} \cup (IF LookupMayFail THEN {1} ELSE {})

TypeOK ==
    /\ server \in [Servers -> {"new", "up", "down"}]
    /\ dns \in Nat
    /\ tracker \in [Servers -> Conns \cup {NoConn}]
    /\ target \in Nat
    /\ disconnected \in 0 .. ChanCap
    /\ conn \in [Conns -> {"free", "held", "serving", "unlink", "notify"}]
    /\ peer \in [Conns -> Servers \cup {NoServer}]
    /\ open \in SUBSET Conns
    /\ mgr \in {"check", "wait", "refresh", "apply", "attempt", "dialing",
                "register", "stopped"}
    /\ attempt \in 0 .. Attempts - 1
    /\ mc \in Conns \cup {NoConn}
    /\ answer \in Nat
    /\ cancelled \in BOOLEAN
    /\ breaks \in 0 .. MaxBreaks

\* agent.New; the replicas may already be running.
Init ==
    /\ server \in [Servers -> {"new", "up"}]
    /\ dns = Cardinality(Up)
    /\ tracker = [s \in Servers |-> NoConn]
    /\ target = 1
    /\ disconnected = 0
    /\ conn = [c \in Conns |-> "free"]
    /\ peer = [c \in Conns |-> NoServer]
    /\ open = {}
    /\ mgr = "check"
    /\ attempt = 0
    /\ mc = NoConn
    /\ answer = 0
    /\ cancelled = FALSE
    /\ breaks = 0
-----------------------------------------------------------------------------
(* The manager goroutine. *)

\* The head of connectionManager's loop: tracker and target are read under the
\* lock; the comparison decides between waiting and dialling.
Check ==
    /\ mgr = "check"
    /\ mgr' = IF Cardinality(Tracked) >= target THEN "wait" ELSE "attempt"
    /\ UNCHANGED <<envVars, tracker, target, disconnected, connVars, attempt, mc, answer>>

\* select: case <-ctx.Done().
SelectDone ==
    /\ mgr = "wait" /\ cancelled
    /\ mgr' = "stopped"
    /\ UNCHANGED <<envVars, tracker, target, disconnected, connVars, attempt, mc, answer>>

\* select: case <-disconnected.  The id is only logged.
SelectDisconnected ==
    /\ mgr = "wait" /\ disconnected > 0
    /\ disconnected' = disconnected - 1
    /\ mgr' = "check"
    /\ UNCHANGED <<envVars, tracker, target, connVars, attempt, mc, answer>>

\* select: case <-identityRefresh.C, up to the unlocked call of fetchIdentity:
\* refreshTarget picks a tracked tunnel, or returns when there is none.
SelectTick ==
    /\ mgr = "wait"
    /\ IF Tracked = {}
         THEN mgr' = "check" /\ mc' = mc
         ELSE mgr' = "refresh" /\ \E s \in Tracked : mc' = tracker[s]
    /\ UNCHANGED <<envVars, tracker, target, disconnected, connVars, attempt, answer>>

\* fetchIdentity on the picked tunnel returns the count n.
RefreshAnswer(n) ==
    /\ mgr = "refresh"
    /\ mc \in open /\ server[peer[mc]] = "up" /\ n \in Answers
    /\ answer' = n
    /\ mgr' = "apply"
    /\ UNCHANGED <<envVars, tracker, target, disconnected, connVars, attempt, mc>>

\* fetchIdentity fails: refreshTarget returns and leaves the target alone.
RefreshFail ==
    /\ mgr = "refresh"
    /\ mgr' = "check" /\ mc' = NoConn
    /\ UNCHANGED <<envVars, tracker, target, disconnected, connVars, attempt, answer>>

\* Faulty variant: the refreshed count is fetched but not stored.
RefreshApplyForgets ==
    /\ mgr = "apply"
    /\ mgr' = "check" /\ mc' = NoConn /\ answer' = 0
    /\ UNCHANGED <<envVars, tracker, target, disconnected, connVars, attempt>>

\* The locked tail of refreshTarget.
RefreshApply ==
    /\ mgr = "apply"
    /\ target' = answer
    /\ mgr' = "check" /\ mc' = NoConn /\ answer' = 0
    /\ UNCHANGED <<envVars, tracker, disconnected, connVars, attempt>>

\* retry.Do returns the context's error between attempts; the manager returns.
AbortRetry ==
    /\ mgr = "attempt" /\ cancelled
    /\ mgr' = "stopped" /\ attempt' = 0
    /\ UNCHANGED <<envVars, tracker, target, disconnected, connVars, mc, answer>>

\* The next attempt calls connect, whose tls.Dial does not look at ctx.
Dial ==
    /\ mgr = "attempt"
    /\ mgr' = "dialing"
    /\ UNCHANGED <<envVars, tracker, target, disconnected, connVars, attempt, mc, answer>>

\* An attempt failed: another one, or the error goes to the manager, which
\* returns when ctx is done and starts over otherwise.
FailAttempt ==
    IF attempt + 1 < Attempts
      THEN mgr' = "attempt" /\ attempt' = attempt + 1
      ELSE mgr' = (IF cancelled THEN "stopped" ELSE "check") /\ attempt' = 0

ConnectFail ==
    /\ mgr = "dialing"
    /\ FailAttempt
    /\ UNCHANGED <<envVars, tracker, target, disconnected, connVars, mc, answer>>

\* connect succeeds: the load balancer chose s, which answered the identity request.
Connect(s) ==
    /\ mgr = "dialing" /\ server[s] = "up" /\ Free # {}
    /\ LET c == CHOOSE c \in Conns : c \in Free IN
         /\ conn' = [conn EXCEPT ![c] = "held"]
         /\ peer' = [peer EXCEPT ![c] = s]
         /\ open' = open \cup {c}
         /\ mc' = c
    /\ answer' \in Answers
    /\ mgr' = "register"
    /\ UNCHANGED <<envVars, tracker, target, disconnected, attempt>>

\* Faulty variants: the duplicate stays open; the tracked tunnel is closed instead.
RegisterDuplicateLeaks ==
    /\ mgr = "register" /\ tracker[peer[mc]] # NoConn
    /\ conn' = [conn EXCEPT ![mc] = "free"]
    /\ peer' = [peer EXCEPT ![mc] = NoServer]
    /\ mc' = NoConn /\ answer' = 0
    /\ FailAttempt
    /\ UNCHANGED <<envVars, tracker, target, disconnected, open>>
RegisterDuplicateClosesOld ==
    /\ mgr = "register" /\ tracker[peer[mc]] # NoConn
    /\ conn' = [conn EXCEPT ![mc] = "free"]
    /\ peer' = [peer EXCEPT ![mc] = NoServer]
    /\ open' = open \ {tracker[peer[mc]]}
    /\ mc' = NoConn /\ answer' = 0
    /\ FailAttempt
    /\ UNCHANGED <<envVars, tracker, target, disconnected>>

\* Locked: a tunnel to a replica that is tracked already is closed and the attempt fails.
RegisterDuplicate ==
    /\ mgr = "register" /\ tracker[peer[mc]] # NoConn
    /\ conn' = [conn EXCEPT ![mc] = "free"]
    /\ peer' = [peer EXCEPT ![mc] = NoServer]
    /\ open' = open \ {mc}
    /\ mc' = NoConn /\ answer' = 0
    /\ FailAttempt
    /\ UNCHANGED <<envVars, tracker, target, disconnected>>

\* Faulty variant: the tracker is not consulted first.
RegisterUnchecked ==
    /\ mgr = "register"
    /\ tracker' = [tracker EXCEPT ![peer[mc]] = mc]
    /\ target' = answer
    /\ conn' = [conn EXCEPT ![mc] = "serving"]
    /\ mgr' = "check" /\ attempt' = 0 /\ mc' = NoConn /\ answer' = 0
    /\ UNCHANGED <<envVars, disconnected, peer, open>>

\* Locked: the tunnel is tracked, the target learnt, the serve goroutine started.
Register ==
    /\ mgr = "register" /\ tracker[peer[mc]] = NoConn
    /\ tracker' = [tracker EXCEPT ![peer[mc]] = mc]
    /\ target' = answer
    /\ conn' = [conn EXCEPT ![mc] = "serving"]
    /\ mgr' = "check" /\ attempt' = 0 /\ mc' = NoConn /\ answer' = 0
    /\ UNCHANGED <<envVars, disconnected, peer, open>>
-----------------------------------------------------------------------------
(* The serve goroutine of tunnel c. *)

\* Faulty variant: the loop tests only IsClosed.
ServeExitIgnoresCtx(c) ==
    /\ conn[c] = "serving" /\ c \notin open
    /\ conn' = [conn EXCEPT ![c] = "unlink"]
    /\ UNCHANGED <<envVars, tracker, target, disconnected, peer, open, mgrVars>>

\* Serve returns for good once the session is closed or ctx is done.  A
\* transient error loops and changes nothing.
ServeExit(c) ==
    /\ conn[c] = "serving" /\ (c \notin open \/ cancelled)
    /\ open' = open \ {c}
    /\ conn' = [conn EXCEPT ![c] = "unlink"]
    /\ UNCHANGED <<envVars, tracker, target, disconnected, peer, mgrVars>>

\* Faulty variant: the goroutine ends without telling the manager.
UnlinkSilently(c) ==
    /\ conn[c] = "unlink"
    /\ tracker' = [tracker EXCEPT ![peer[c]] = NoConn]
    /\ conn' = [conn EXCEPT ![c] = "free"]
    /\ peer' = [peer EXCEPT ![c] = NoServer]
    /\ UNCHANGED <<envVars, target, disconnected, open, mgrVars>>

\* Locked: the goroutine deletes the entry of the id it captured.
Unlink(c) ==
    /\ conn[c] = "unlink"
    /\ tracker' = [tracker EXCEPT ![peer[c]] = NoConn]
    /\ conn' = [conn EXCEPT ![c] = "notify"]
    /\ UNCHANGED <<envVars, target, disconnected, peer, open, mgrVars>>

\* The send that gives up when the channel is full; the goroutine ends.
Notify(c) ==
    /\ conn[c] = "notify"
    /\ disconnected' = IF disconnected < ChanCap THEN disconnected + 1 ELSE disconnected
    /\ conn' = [conn EXCEPT ![c] = "free"]
    /\ peer' = [peer EXCEPT ![c] = NoServer]
    /\ UNCHANGED <<envVars, tracker, target, open, mgrVars>>
-----------------------------------------------------------------------------
(* The replicas, their DNS name, the network and the caller of Start. *)

Started(c) == conn[c] \in {"held", "serving"}

TunnelBreaks(c) ==
    /\ Started(c) /\ c \in open /\ breaks < MaxBreaks
    /\ open' = open \ {c}
    /\ breaks' = breaks + 1
    /\ UNCHANGED <<server, dns, cancelled, tracker, target, disconnected, conn, peer, mgrVars>>

\* The keep-alive of the session notices that the server process is gone.
KeepAliveFails(c) ==
    /\ Started(c) /\ c \in open /\ server[peer[c]] = "down"
    /\ open' = open \ {c}
    /\ UNCHANGED <<envVars, tracker, target, disconnected, conn, peer, mgrVars>>

ServerStarts(s) ==
    /\ server[s] = "new"
    /\ server' = [server EXCEPT ![s] = "up"]
    /\ UNCHANGED <<dns, cancelled, breaks, tracker, target, disconnected, connVars, mgrVars>>

ServerStops(s) ==
    /\ server[s] = "up"
    /\ server' = [server EXCEPT ![s] = "down"]
    /\ UNCHANGED <<dns, cancelled, breaks, tracker, target, disconnected, connVars, mgrVars>>

DNSCatchesUp ==
    /\ dns # Cardinality(Up)
    /\ dns' = Cardinality(Up)
    /\ UNCHANGED <<server, cancelled, breaks, tracker, target, disconnected, connVars, mgrVars>>

Cancel ==
    /\ ~cancelled
    /\ cancelled' = TRUE
    /\ UNCHANGED <<server, dns, breaks, tracker, target, disconnected, connVars, mgrVars>>
-----------------------------------------------------------------------------
DialReturns    == ConnectFail \/ \E s \in Servers : Connect(s)
RefreshReturns == RefreshFail \/ \E n \in Answers : RefreshAnswer(n)

Manager ==
    \/ Check \/ SelectDone \/ SelectDisconnected \/ SelectTick
    \/ RefreshReturns \/ RefreshApply
    \/ AbortRetry \/ Dial \/ DialReturns \/ RegisterDuplicate \/ Register

Goroutine(c) == ServeExit(c) \/ Unlink(c) \/ Notify(c)

Environment ==
    \/ \E c \in Conns : TunnelBreaks(c) \/ KeepAliveFails(c)
    \/ \E s \in Servers : ServerStarts(s) \/ ServerStops(s)
    \/ DNSCatchesUp \/ Cancel

Next == Manager \/ (\E c \in Conns : Goroutine(c)) \/ Environment

Spec == Init /\ [][Next]_vars

(***************************************************************************)
(* Fairness.  Go runs every runnable goroutine, dials and identity         *)
(* requests return (keep-alive and write timeouts bound them), and a       *)
(* select case that is ready again and again is eventually taken, select   *)
(* choosing at random.  Of the environment: a dead peer is noticed, DNS    *)
(* catches up, the load balancer does not avoid a running replica for ever *)
(* and not every identity request fails or carries a failed lookup.        *)
(***************************************************************************)
Fairness ==
    /\ WF_vars(Manager)
    /\ SF_vars(SelectDone \/ AbortRetry)
    /\ WF_vars(\E c \in Conns : Goroutine(c))
    /\ WF_vars(\E c \in Conns : KeepAliveFails(c))
    /\ WF_vars(DNSCatchesUp)
    /\ \A s \in Servers : SF_vars(Connect(s))
    /\ SF_vars(RefreshAnswer(dns))

FairSpec == Spec /\ Fairness
-----------------------------------------------------------------------------
(* Properties. *)

\* The manager, parked in its select with fewer tunnels than the target, has a
\* notification waiting or on its way: giving up the send when the channel is
\* full (the `default' of the select at the end of the serve goroutine) never
\* leaves it asleep over a lost tunnel until the next tick.
NoLostWakeup ==
    (mgr = "wait" /\ Cardinality(Tracked) < target)
        => (disconnected > 0 \/ \E c \in Conns : conn[c] = "notify")

\* The tracker and the serve goroutines agree: a goroutine that has not yet
\* unlinked its tunnel owns exactly its replica's entry, so a replica has at
\* most one served tunnel and a late goroutine never deletes a newer tunnel's entry.
OneOwnerPerReplica ==
    /\ \A c \in Conns : conn[c] \in {"serving", "unlink"} =>
           peer[c] \in Servers /\ tracker[peer[c]] = c
    /\ \A s \in Tracked : /\ conn[tracker[s]] \in {"serving", "unlink"}
                           /\ peer[tracker[s]] = s

\* Every open tunnel is tracked and served or in the manager's hands: a dropped
\* duplicate and a tunnel registered after the shutdown are closed, not leaked.
NoLeakedTunnel ==
    \A c \in Conns : c \in open =>
        \/ conn[c] = "serving" /\ tracker[peer[c]] = c
        \/ conn[c] = "held" /\ mc = c /\ mgr = "register"

\* "Adding a replica does not force existing tunnels to drop": no step of the
\* agent closes a served tunnel unless ctx is done; only the network, the death
\* of the peer or the shutdown does.
ServedTunnelsSurvive ==
    [][\A c \in Conns : (conn[c] = "serving" /\ c \in open /\ c \notin open') =>
          cancelled \/ breaks' # breaks \/ server[peer[c]] = "down"]_vars

\* After ctx is done the manager returns and every tunnel is closed and forgotten.
ShutdownCompletes ==
    cancelled ~> (mgr = "stopped" /\ Tracked = {} /\ \A c \in Conns : conn[c] = "free" /\ c \notin open)

\* The agent ends up, and stays, connected to every running replica, whatever
\* the order of scaling up and down, failed lookups and lost tunnels before.
EveryReplicaTracked ==
    <>[](cancelled \/ (\A s \in Up : tracker[s] # NoConn /\ tracker[s] \in open))

\* connectionManager's comment: it learns the desired replica count "from the
\* NumberOfInstances field in each identity response and keeps exactly that many
\* distinct connections alive".
KeepsExactlyTarget ==
    <>[](cancelled \/ Up = {} \/ Cardinality(Tracked) = target)
=============================================================================
