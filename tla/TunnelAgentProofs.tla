------------------------- MODULE TunnelAgentProofs -------------------------
(***************************************************************************)
(* TunnelAgent: the type invariant and the three safety invariants hold    *)
(* for any number of replicas, tunnels, retries and channel capacity.      *)
(*                                                                         *)
(* Ownership of a tunnel is what has to be strengthened: the manager holds *)
(* at most the tunnel it just dialled, and it knows which replica it is.   *)
(***************************************************************************)
EXTENDS TunnelAgent, FiniteSetTheorems, TLAPS

\* A tunnel that somebody owns has a peer, the manager holds the tunnel it is
\* about to register and no other, and nothing else is open.
Custody ==
    /\ \A c \in Conns : conn[c] # "free" => peer[c] \in Servers
    /\ \A c \in Conns : conn[c] = "held" => mgr = "register" /\ mc = c
    /\ mgr = "register" => mc \in Conns /\ conn[mc] = "held"
    /\ \A c \in open : conn[c] \in {"held", "serving"}

IInv == TypeOK /\ Custody /\ OneOwnerPerReplica /\ NoLostWakeup

\* The tracker's size is a number, so waiting and dialling exclude each other.
LEMMA TrackedSize == Cardinality(Tracked) \in Nat
  BY ConstantsAssumption, FS_Subset, FS_CardinalityType DEF Tracked

\* So is the number of running replicas, which DNS ends up publishing.
LEMMA UpSize == Cardinality(Up) \in Nat
  BY ConstantsAssumption, FS_Subset, FS_CardinalityType DEF Up

\* New and the replicas' start establish the invariant.
LEMMA InitIInv == Init => IInv
  <1> SUFFICES ASSUME Init PROVE IInv
    OBVIOUS
  <1>1. TypeOK
    <2>1. server \in [Servers -> {"new", "up", "down"}]
      BY DEF Init
    <2>2. cancelled \in BOOLEAN
      BY Zenon DEF Init
    <2>3. dns \in Nat
      BY UpSize DEF Init
    <2> QED
      BY <2>1, <2>2, <2>3, ConstantsAssumption DEF Init, TypeOK
  <1>2. Custody /\ OneOwnerPerReplica /\ NoLostWakeup
    BY DEF Init, Custody, OneOwnerPerReplica, NoLostWakeup, Tracked
  <1> QED
    BY <1>1, <1>2 DEF IInv

\* Every step of the manager, of a serve goroutine and of the environment
\* keeps the invariant.
LEMMA NextIInv == IInv /\ [Next]_vars => IInv'
  <1> SUFFICES ASSUME IInv, [Next]_vars PROVE IInv'
    OBVIOUS
  <1> USE ConstantsAssumption
          DEF IInv, TypeOK, Custody, OneOwnerPerReplica, NoLostWakeup, Tracked,
              envVars, connVars, mgrVars
  <1>1. CASE Check
    BY <1>1, TrackedSize DEF Check
  <1>2. CASE SelectDone
    BY <1>2 DEF SelectDone
  <1>3. CASE SelectDisconnected
    BY <1>3 DEF SelectDisconnected
  <1>4. CASE SelectTick
    BY <1>4 DEF SelectTick
  <1>5. CASE RefreshFail
    BY <1>5 DEF RefreshFail
  <1>6. ASSUME NEW n \in Answers, RefreshAnswer(n) PROVE IInv'
    BY <1>6 DEF RefreshAnswer, Answers
  <1>7. CASE RefreshApply
    BY <1>7 DEF RefreshApply
  <1>8. CASE AbortRetry
    BY <1>8 DEF AbortRetry
  <1>9. CASE Dial
    BY <1>9 DEF Dial
  <1>10. CASE ConnectFail
    BY <1>10 DEF ConnectFail, FailAttempt
  <1>11. ASSUME NEW s \in Servers, Connect(s) PROVE IInv'
    BY <1>11 DEF Connect, Answers, Free
  <1>12. CASE RegisterDuplicate
    BY <1>12 DEF RegisterDuplicate, FailAttempt
  <1>13. CASE Register
    BY <1>13 DEF Register
  <1>14. ASSUME NEW c \in Conns, ServeExit(c) PROVE IInv'
    BY <1>14 DEF ServeExit
  <1>15. ASSUME NEW c \in Conns, Unlink(c) PROVE IInv'
    BY <1>15 DEF Unlink
  <1>16. ASSUME NEW c \in Conns, Notify(c) PROVE IInv'
    BY <1>16 DEF Notify
  <1>17. ASSUME NEW c \in Conns, TunnelBreaks(c) PROVE IInv'
    BY <1>17 DEF TunnelBreaks, Started
  <1>18. ASSUME NEW c \in Conns, KeepAliveFails(c) PROVE IInv'
    BY <1>18 DEF KeepAliveFails, Started
  <1>19. ASSUME NEW s \in Servers, ServerStarts(s) PROVE IInv'
    BY <1>19 DEF ServerStarts
  <1>20. ASSUME NEW s \in Servers, ServerStops(s) PROVE IInv'
    BY <1>20 DEF ServerStops
  <1>21. CASE DNSCatchesUp
    BY <1>21, UpSize DEF DNSCatchesUp
  <1>22. CASE Cancel
    BY <1>22 DEF Cancel
  <1>23. CASE UNCHANGED vars
    BY <1>23 DEF vars
  <1> QED
    BY <1>1, <1>2, <1>3, <1>4, <1>5, <1>6, <1>7, <1>8, <1>9, <1>10, <1>11, <1>12, <1>13, <1>14, <1>15, <1>16, <1>17, <1>18, <1>19, <1>20, <1>21, <1>22, <1>23, ZenonT(40)
       DEF Next, Manager, DialReturns, RefreshReturns, Goroutine, Environment

\* The inductive invariant holds in every reachable state.
THEOREM Invariance == Spec => []IInv
  BY InitIInv, NextIInv, PTL DEF Spec

\* connState, the goroutines and the manager's locals keep their types; in
\* particular the channel never holds more ids than its capacity.
THEOREM TypeCorrect == Spec => []TypeOK
  <1>1. IInv => TypeOK
    BY DEF IInv
  <1> QED
    BY Invariance, <1>1, PTL

\* The manager never sleeps over a missing tunnel without a notification pending,
\* although the serve goroutines drop notifications when the channel is full.
THEOREM WakeupsAreNotLost == Spec => []NoLostWakeup
  <1>1. IInv => NoLostWakeup
    BY DEF IInv
  <1> QED
    BY Invariance, <1>1, PTL

\* A replica has at most one served tunnel, and only its goroutine removes its entry.
THEOREM OwnersAreUnique == Spec => []OneOwnerPerReplica
  <1>1. IInv => OneOwnerPerReplica
    BY DEF IInv
  <1> QED
    BY Invariance, <1>1, PTL

\* No open tunnel is forgotten: dropped duplicates and late registrations are closed.
THEOREM TunnelsAreNotLeaked == Spec => []NoLeakedTunnel
  <1>1. IInv => NoLeakedTunnel
    BY DEF IInv, Custody, OneOwnerPerReplica, NoLeakedTunnel
  <1> QED
    BY Invariance, <1>1, PTL

\* No step of the agent closes a served tunnel while ctx is live.
THEOREM ServedTunnelsAreKept == Spec => ServedTunnelsSurvive
  <1> DEFINE Keeps == \A c \in Conns : (conn[c] = "serving" /\ c \in open /\ c \notin open') =>
                        cancelled \/ breaks' # breaks \/ server[peer[c]] = "down"
  <1>1. IInv /\ [Next]_vars => [Keeps]_vars
    <2> SUFFICES ASSUME IInv, Next, NEW c \in Conns,
                        conn[c] = "serving", c \in open, c \notin open'
                 PROVE  cancelled \/ breaks' # breaks \/ server[peer[c]] = "down"
      OBVIOUS
    <2>1. CASE RegisterDuplicate
      \* It closes the tunnel in the manager's hands, which nobody serves yet.
      BY <2>1 DEF RegisterDuplicate, IInv, Custody
    <2>2. ASSUME NEW d \in Conns, ServeExit(d) PROVE cancelled
      BY <2>2 DEF ServeExit
    <2>3. ASSUME NEW d \in Conns, TunnelBreaks(d) PROVE breaks' # breaks
      BY <2>3, ConstantsAssumption DEF TunnelBreaks, IInv, TypeOK
    <2>4. ASSUME NEW d \in Conns, KeepAliveFails(d) PROVE server[peer[c]] = "down"
      BY <2>4 DEF KeepAliveFails
    <2> QED
      BY <2>1, <2>2, <2>3, <2>4, SMTT(40)
         DEF Next, Manager, DialReturns, RefreshReturns, Goroutine, Environment, connVars,
             Check, SelectDone, SelectDisconnected, SelectTick, RefreshFail, RefreshAnswer,
             RefreshApply, AbortRetry, Dial, ConnectFail, Connect, Register, Unlink, Notify,
             ServerStarts, ServerStops, DNSCatchesUp, Cancel
  <1> QED
    BY Invariance, <1>1, PTL DEF Spec, ServedTunnelsSurvive

\* The safety half of ShutdownCompletes: the manager returns only when ctx is done,
\* and leaves no tunnel it has dialled without an owner.
THEOREM StopsOnlyWhenCancelled ==
  Spec => [](mgr = "stopped" => cancelled /\ \A c \in Conns : conn[c] # "held")
  <1> DEFINE Stop == mgr = "stopped" => cancelled
  <1>1. Init => Stop
    BY DEF Init
  <1>2. Stop /\ [Next]_vars => Stop'
    <2> SUFFICES ASSUME Stop, [Next]_vars PROVE Stop'
      OBVIOUS
    <2>1. CASE UNCHANGED <<mgr, cancelled>>
      BY <2>1
    <2>2. CASE Check \/ SelectDone \/ SelectDisconnected \/ SelectTick \/ RefreshReturns \/ RefreshApply
      BY <2>2 DEF Check, SelectDone, SelectDisconnected, SelectTick, RefreshReturns, RefreshFail,
         RefreshAnswer, RefreshApply, envVars
    <2>3. CASE AbortRetry \/ Dial \/ DialReturns \/ RegisterDuplicate \/ Register
      BY <2>3 DEF AbortRetry, Dial, DialReturns, ConnectFail, Connect, FailAttempt, RegisterDuplicate,
         Register, envVars
    <2>4. CASE Cancel
      BY <2>4 DEF Cancel
    <2>5. (\E c \in Conns : Goroutine(c)) \/ UNCHANGED vars => UNCHANGED <<mgr, cancelled>>
      BY ZenonT(40) DEF Goroutine, ServeExit, Unlink, Notify, vars, envVars, mgrVars
    <2>6. \/ \E c \in Conns : TunnelBreaks(c) \/ KeepAliveFails(c)
          \/ \E s \in Servers : ServerStarts(s) \/ ServerStops(s)
          \/ DNSCatchesUp
          => UNCHANGED <<mgr, cancelled>>
      BY ZenonT(40) DEF TunnelBreaks, KeepAliveFails, ServerStarts, ServerStops, DNSCatchesUp, envVars, mgrVars
    <2> QED
      BY <2>1, <2>2, <2>3, <2>4, <2>5, <2>6, ZenonT(40) DEF Next, Manager, Environment
  <1>3. IInv => (mgr = "stopped" => \A c \in Conns : conn[c] # "held")
    BY DEF IInv, Custody
  <1> QED
    BY <1>1, <1>2, <1>3, Invariance, PTL DEF Spec

\* ... from then on tunnels are only taken down: no late goroutine and no late answer of
\* a replica opens or tracks one, nor starts the manager again.
THEOREM OnlyTakenDownAfterStop ==
  Spec => [][mgr = "stopped" => mgr' = "stopped" /\ open' \subseteq open /\ Tracked' \subseteq Tracked]_vars
  <1>1. IInv /\ [Next]_vars =>
          [mgr = "stopped" => mgr' = "stopped" /\ open' \subseteq open /\ Tracked' \subseteq Tracked]_vars
    <2> SUFFICES ASSUME IInv, Next, mgr = "stopped"
                 PROVE  mgr' = "stopped" /\ open' \subseteq open /\ Tracked' \subseteq Tracked
      OBVIOUS
    <2>1. CASE UNCHANGED <<mgr, tracker>> /\ open' \subseteq open
      BY <2>1 DEF Tracked
    <2>2. ~ Manager
      BY DEF Manager, Check, SelectDone, SelectDisconnected, SelectTick, RefreshReturns,
         RefreshFail, RefreshAnswer, RefreshApply, AbortRetry, Dial, DialReturns, ConnectFail, Connect,
         RegisterDuplicate, Register
    <2>3. ASSUME NEW c \in Conns, Unlink(c)
          PROVE  mgr' = "stopped" /\ open' \subseteq open /\ Tracked' \subseteq Tracked
      <3>1. tracker' = [tracker EXCEPT ![peer[c]] = NoConn] /\ UNCHANGED <<mgr, open>>
        BY <2>3 DEF Unlink, mgrVars
      <3>2. tracker \in [Servers -> Conns \cup {NoConn}]
        BY DEF IInv, TypeOK
      <3> QED
        BY <3>1, <3>2 DEF Tracked
    <2>4. ASSUME NEW c \in Conns, ServeExit(c) \/ Notify(c) \/ TunnelBreaks(c) \/ KeepAliveFails(c)
          PROVE  UNCHANGED <<mgr, tracker>> /\ open' \subseteq open
      BY <2>4 DEF ServeExit, Notify, TunnelBreaks, KeepAliveFails, mgrVars
    <2>5. (\E s \in Servers : ServerStarts(s) \/ ServerStops(s)) \/ DNSCatchesUp \/ Cancel
          => UNCHANGED <<mgr, tracker, open>>
      BY ZenonT(40) DEF ServerStarts, ServerStops, DNSCatchesUp, Cancel, connVars, mgrVars
    <2>6. UNCHANGED <<mgr, tracker, open>> => UNCHANGED <<mgr, tracker>> /\ open' \subseteq open
      OBVIOUS
    <2> QED
      BY <2>1, <2>2, <2>3, <2>4, <2>5, <2>6, ZenonT(40) DEF Next, Goroutine, Environment
  <1> QED
    BY <1>1, Invariance, PTL DEF Spec
=============================================================================
