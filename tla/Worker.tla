------------------------------- MODULE Worker -------------------------------
(***************************************************************************)
(* The worker once its components are set up (pkg/provision/worker): Run   *)
(* starts one goroutine per runner, waits for a signal or for an error,    *)
(* and tears the runners down one after the other.  A runner (containerd,  *)
(* kubelet) supervises a process through a procmgr.Component, which        *)
(* restarts it with a back-off.                                            *)
(*                                                                         *)
(* The goroutine of a runner and Teardown, which runs in the goroutine of  *)
(* Run, share the fields component and cancel without a lock, and proc and *)
(* stopping under one.  The context given to Run is never done: the only   *)
(* caller is a command executed without one.                               *)
(***************************************************************************)
EXTENDS Naturals, Sequences

CONSTANTS Order,      \* the runners, in the order of the slice
          Reporting,  \* runners whose Run returns the error of its component
          MaxRetries

Runners  == {Order[i] : i \in DOMAIN Order}
Tries == 1 .. MaxRetries + 1

ASSUME WorkerAssumption ==
    /\ Order \in Seq(Runners) /\ Order # <<>>
    /\ Reporting \subseteq Runners
    /\ MaxRetries \in Nat

VARIABLES
    component, \* runners that have a component
    cancel,    \* runners that have a cancel function
    ctxDone,   \* runners whose run context is cancelled
    loop,      \* runner -> where Component.Run stands
    tries,     \* runner -> calls of runOnce so far
    proc,      \* runner -> the attempt whose process is stored, 0 if nil
    stopping,  \* runners whose component is being stopped
    alive,     \* processes, named by runner and attempt
    errCh,     \* runners whose error is in the channel
    forwarding, \* the goroutine of the local API server proxy
    main       \* the goroutine of Run: its step, the runner's index, Teardown's proc

supervision == <<component, cancel, loop, tries, proc>>
workerVars == <<supervision, ctxDone, stopping, alive, errCh, forwarding, main>>

\* "fork" is between the look at the context and the fork in cmd.Start, "store"
\* between cmd.Start and the assignment of proc.
LoopStates == {"new", "made", "start", "fork", "store", "wait", "exited", "backoff", "returned"}
MainStates == {"notify", "select", "cancel", "component", "lock", "term", "poll", "returned"}

WorkerTypeOK ==
    /\ component \in SUBSET Runners /\ cancel \in SUBSET Runners
    /\ ctxDone \in SUBSET Runners /\ stopping \in SUBSET Runners
    /\ loop \in [Runners -> LoopStates]
    /\ tries \in [Runners -> 0 .. MaxRetries + 1]
    /\ proc \in [Runners -> 0 .. MaxRetries + 1]
    /\ alive \in SUBSET (Runners \X Tries)
    /\ errCh \in SUBSET Reporting
    /\ forwarding \in {"serving", "blocked"}
    /\ main \in [pc : MainStates, i : 1 .. Len(Order) + 1, proc : 0 .. MaxRetries + 1]

WorkerInit ==
    /\ component = {} /\ cancel = {} /\ ctxDone = {} /\ stopping = {}
    /\ loop = [r \in Runners |-> "new"]
    /\ tries = [r \in Runners |-> 0] /\ proc = [r \in Runners |-> 0]
    /\ alive = {}
    /\ errCh = {}
    /\ forwarding = "serving"
    /\ main = [pc |-> "notify", i |-> 1, proc |-> 0]
-----------------------------------------------------------------------------
(* The goroutine of a runner. *)

Goto(r, state) == loop' = [loop EXCEPT ![r] = state]

\* Containerd.Run, Kubelet.Run.
MakeComponent(r) ==
    /\ loop[r] = "new"
    /\ component' = component \cup {r}
    /\ Goto(r, "made")
    /\ UNCHANGED <<cancel, tries, proc, ctxDone, stopping, alive, errCh, forwarding, main>>
StoreCancel(r) ==
    /\ loop[r] = "made"
    /\ cancel' = cancel \cup {r}
    /\ Goto(r, "start")
    /\ UNCHANGED <<component, tries, proc, ctxDone, stopping, alive, errCh, forwarding, main>>

\* Faulty variant: the error is dropped unless Run is receiving at that moment,
\* as with an unbuffered channel and a default case.
ReturnsOrDrops(r) ==
    /\ Goto(r, "returned")
    /\ errCh' = IF main.pc = "select" THEN errCh \cup ({r} \cap Reporting) ELSE errCh

\* Component.Run returns, always with an error; Containerd.Run only logs it.
Returns(r) ==
    /\ Goto(r, "returned")
    /\ errCh' = errCh \cup ({r} \cap Reporting)

\* retry.Do after a failed attempt: back off unless the attempts are used up.
\* The back-off ends with the timer or with the context.
Fails(r) ==
    \/ tries'[r] < MaxRetries + 1 /\ Goto(r, "backoff") /\ UNCHANGED errCh
    \/ tries'[r] = MaxRetries + 1 /\ Returns(r)

BackOff(r) ==
    /\ loop[r] = "backoff"
    /\ \/ Goto(r, "start") /\ UNCHANGED errCh
       \/ r \in ctxDone /\ Returns(r)
    /\ UNCHANGED <<component, cancel, tries, proc, ctxDone, stopping, alive, forwarding, main>>

\* cmd.Start: nothing is started once the context is done.
StartProcess(r) ==
    /\ loop[r] = "start"
    /\ tries' = [tries EXCEPT ![r] = @ + 1]
    /\ \/ r \notin ctxDone /\ Goto(r, "fork") /\ UNCHANGED errCh
       \/ r \in ctxDone /\ Fails(r)
    /\ UNCHANGED <<component, cancel, proc, ctxDone, stopping, alive, forwarding, main>>
Fork(r) ==
    /\ loop[r] = "fork"
    /\ \/ Goto(r, "store") /\ alive' = alive \cup {<<r, tries[r]>>} /\ UNCHANGED <<tries, errCh>>
       \/ UNCHANGED <<alive, tries>> /\ Fails(r)
    /\ UNCHANGED <<component, cancel, proc, ctxDone, stopping, forwarding, main>>

StoreProc(r) ==
    /\ loop[r] = "store"
    /\ proc' = [proc EXCEPT ![r] = tries[r]]
    /\ Goto(r, "wait")
    /\ UNCHANGED <<component, cancel, tries, ctxDone, stopping, alive, errCh, forwarding, main>>

Wait(r) ==
    /\ loop[r] = "wait" /\ <<r, tries[r]>> \notin alive
    /\ Goto(r, "exited")
    /\ UNCHANGED <<component, cancel, tries, proc, ctxDone, stopping, alive, errCh, forwarding, main>>

\* runOnce returns: an intentional stop is not retried.
RunOnceReturns(r) ==
    /\ loop[r] = "exited"
    /\ UNCHANGED tries
    /\ IF r \in stopping THEN Returns(r) ELSE Fails(r)
    /\ UNCHANGED <<component, cancel, proc, ctxDone, stopping, alive, forwarding, main>>

\* A process ends by itself or because of a SIGTERM.
ProcessEnds(p) ==
    /\ p \in alive
    /\ alive' = alive \ {p}
    /\ UNCHANGED <<supervision, ctxDone, stopping, errCh, forwarding, main>>

\* The goroutine of exec.CommandContext kills the process when the context is done.
KillOnCancel(r) ==
    /\ loop[r] \in {"store", "wait"} /\ r \in ctxDone
    /\ <<r, tries[r]>> \in alive
    /\ alive' = alive \ {<<r, tries[r]>>}
    /\ UNCHANGED <<supervision, ctxDone, stopping, errCh, forwarding, main>>

\* Link fails; its error is sent on a nil channel.
ProxyFails ==
    /\ forwarding = "serving"
    /\ forwarding' = "blocked"
    /\ UNCHANGED <<supervision, ctxDone, stopping, alive, errCh, main>>
-----------------------------------------------------------------------------
(* The goroutine of Run, after it has started the others. *)

Notify ==
    /\ main.pc = "notify"
    /\ main' = [main EXCEPT !.pc = "select"]
    /\ UNCHANGED <<supervision, ctxDone, stopping, alive, errCh, forwarding>>

Signal ==
    /\ main.pc = "select"
    /\ main' = [main EXCEPT !.pc = "cancel"]
    /\ UNCHANGED <<supervision, ctxDone, stopping, alive, errCh, forwarding>>

ReceiveError ==
    /\ main.pc = "select"
    /\ \E r \in errCh : errCh' = errCh \ {r}
    /\ main' = [main EXCEPT !.pc = "cancel"]
    /\ UNCHANGED <<supervision, ctxDone, stopping, alive, forwarding>>

\* The runner whose Teardown runs, and the step to the next one.
Current  == Order[main.i]
Proc     == <<Current, main.proc>>
NextOne  == main' = [pc |-> IF main.i = Len(Order) THEN "returned" ELSE "cancel",
                     i |-> main.i + 1, proc |-> 0]

\* Faulty variant: the run context is left alone.
TeardownWithoutCancel ==
    /\ main.pc = "cancel"
    /\ main' = [main EXCEPT !.pc = "component"]
    /\ UNCHANGED <<supervision, ctxDone, stopping, alive, errCh, forwarding>>

\* Containerd.Teardown, Kubelet.Teardown.
TeardownCancel ==
    /\ main.pc = "cancel"
    /\ ctxDone' = ctxDone \cup ({Current} \cap cancel)
    /\ main' = [main EXCEPT !.pc = "component"]
    /\ UNCHANGED <<supervision, stopping, alive, errCh, forwarding>>
TeardownComponent ==
    /\ main.pc = "component"
    /\ IF Current \in component THEN main' = [main EXCEPT !.pc = "lock"] ELSE NextOne
    /\ UNCHANGED <<supervision, ctxDone, stopping, alive, errCh, forwarding>>

\* Component.Teardown.
TeardownLock ==
    /\ main.pc = "lock"
    /\ stopping' = stopping \cup {Current}
    /\ IF proc[Current] = 0 THEN NextOne
       ELSE main' = [main EXCEPT !.pc = "term", !.proc = proc[Current]]
    /\ UNCHANGED <<supervision, ctxDone, alive, errCh, forwarding>>

\* cmd.Wait has returned: a signal to the process is an error.
Reaped == tries[Current] # main.proc \/ loop[Current] # "wait"

TeardownTerm ==
    /\ main.pc = "term"
    /\ IF Reaped THEN NextOne ELSE main' = [main EXCEPT !.pc = "poll"]
    /\ UNCHANGED <<supervision, ctxDone, stopping, alive, errCh, forwarding>>

\* The poll finds the process gone; StopTimeout or the context of Teardown kills it.
TeardownPoll ==
    /\ main.pc = "poll" /\ Reaped
    /\ NextOne
    /\ UNCHANGED <<supervision, ctxDone, stopping, alive, errCh, forwarding>>
TeardownKill ==
    /\ main.pc = "poll"
    /\ alive' = alive \ {Proc}
    /\ NextOne
    /\ UNCHANGED <<supervision, ctxDone, stopping, errCh, forwarding>>
-----------------------------------------------------------------------------
Supervise(r) ==
    \/ MakeComponent(r) \/ StoreCancel(r) \/ StartProcess(r) \/ Fork(r) \/ StoreProc(r)
    \/ Wait(r) \/ RunOnceReturns(r) \/ BackOff(r)

Teardown ==
    \/ TeardownCancel \/ TeardownComponent \/ TeardownLock \/ TeardownTerm
    \/ TeardownPoll \/ TeardownKill

WorkerNext ==
    \/ \E r \in Runners : Supervise(r) \/ KillOnCancel(r)
    \/ \E p \in Runners \X Tries : ProcessEnds(p)
    \/ ProxyFails \/ Notify \/ Signal \/ ReceiveError \/ Teardown

WorkerSpec == WorkerInit /\ [][WorkerNext]_workerVars

(***************************************************************************)
(* Fairness: goroutines run and timers fire.  A process never has to end,  *)
(* not even after a SIGTERM, and nobody has to send a signal.              *)
(***************************************************************************)
WorkerFairness ==
    /\ \A r \in Runners : WF_workerVars(Supervise(r)) /\ WF_workerVars(KillOnCancel(r))
    /\ WF_workerVars(Notify) /\ WF_workerVars(ReceiveError) /\ WF_workerVars(Teardown)

FairWorker == WorkerSpec /\ WorkerFairness
-----------------------------------------------------------------------------
\* A component that gives up, and reports it, ends Run so that systemd restarts
\* the worker; Run then returns, although the processes ignore SIGTERM and the
\* other runners may be at any point of their start or restart.
WorkerReturns ==
    /\ \A r \in Reporting : loop[r] = "returned" ~> main.pc = "returned"
    /\ main.pc = "cancel" ~> main.pc = "returned"

\* "Intentional stop - do not retry": a runner that has started a process when its
\* Teardown begins, also one that is dead and about to be replaced, ends up with
\* none for good, although a restart may be under way at that moment.
StopIsFinal ==
    \A r \in Runners :
        (main.pc = "cancel" /\ Current = r /\ proc[r] # 0)
            ~> [](\A a \in Tries : <<r, a>> \notin alive)
=============================================================================
