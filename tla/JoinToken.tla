----------------------------- MODULE JoinToken -----------------------------
(***************************************************************************)
(* The worker join token controller of the cluster agent                   *)
(* (internal/controller/clusteragent/workerjointoken_controller.go) and    *)
(* the life of one WorkerJoinToken.                                        *)
(*                                                                         *)
(* The controller mints a bootstrap token (a Secret in kube-system),       *)
(* publishes a kubeconfig with it in the Secret <name>-jointoken and       *)
(* records the token in the status.  It reads the object and the published *)
(* Secret from informer caches that lag behind the API server, independent *)
(* of each other, writes with optimistic locking, is triggered by its      *)
(* watches, by errors and by timers, and may crash between any two calls.  *)
(*                                                                         *)
(* A kubeconfig is represented by its token.  Status.TokenID, ExpiresAt,   *)
(* SecretRef and SecretChecksum are always written together and are one    *)
(* field here.                                                             *)
(***************************************************************************)
EXTENDS Integers

CONSTANTS Tokens,       \* token ids
          None,         \* no token, no Secret
          Tampered,     \* a Secret whose content the controller did not write
          MaxFailures   \* bound: failed API calls, crashes and edits of the Secret

ASSUME TokenAssumption ==
    /\ None \notin Tokens
    /\ Tampered \notin Tokens
    /\ Tampered # None
    /\ MaxFailures \in Nat

VARIABLES
    obj,          \* the WorkerJoinToken in the API server
    objCache,     \* what the informer knows of it
    secret,       \* the content of the Secret <name>-jointoken
    secretCache,  \* what the informer knows of it
    current,      \* which of "cache" (objCache), "copy" and "secret" hold the latest resourceVersion
    live,         \* tokens the API server accepts
    passed,       \* tokens whose ExpiresAt has passed
    unrevoked,    \* tokens whose revocation failed
    enqueued,     \* the object is in the work queue
    timers,       \* tokens for whose ExpiresAt a requeue is scheduled
    pc,           \* the API call the reconciler is about to make
    copy,         \* its copy of the object: joinToken
    tok,          \* the token it minted: tok
    failures      \* failures, crashes and edits so far

apiVars  == <<obj, secret, live, passed, unrevoked>>
ctrlVars == <<enqueued, timers, pc, copy, tok>>
vars     == <<apiVars, objCache, secretCache, current, ctrlVars, failures>>

\* An object without and with the finalizer, one being deleted, and none at all.
Objects == [life : {"created", "finalized", "deleting", "gone"},
            token : Tokens \cup {None},
            ready : {"Unset", "TokenIssued", "Degraded", "Expired"}]
NoObject == [life |-> "gone", token |-> None, ready |-> "Unset"]

TypeOK ==
    /\ obj \in Objects /\ objCache \in Objects /\ copy \in Objects
    /\ secret \in Tokens \cup {None, Tampered}
    /\ secretCache \in Tokens \cup {None, Tampered}
    /\ current \subseteq {"cache", "copy", "secret"}
    /\ live \subseteq Tokens /\ passed \subseteq Tokens /\ unrevoked \subseteq Tokens
    /\ enqueued \in BOOLEAN
    /\ timers \subseteq Tokens
    /\ pc \in {"idle", "finalizer", "issue", "write", "revoke", "status", "degrade", "expire",
               "delete", "release"}
    /\ tok \in Tokens \cup {None}
    /\ failures \in 0 .. MaxFailures

Init ==
    /\ obj = [NoObject EXCEPT !.life = "created"]
    /\ objCache = NoObject /\ copy = NoObject
    /\ secret = None /\ secretCache = None
    /\ current = {"secret"}
    /\ live = {} /\ passed = {} /\ unrevoked = {}
    /\ enqueued = FALSE /\ timers = {}
    /\ pc = "idle" /\ tok = None
    /\ failures = 0
-----------------------------------------------------------------------------
(* The API server as the reconciler sees it. *)

\* An update, or a status update, of the object with the reconciler's copy: it
\* takes place only if the copy is the latest version, and no watch sees an
\* update that changes nothing.  The reconciler returns after it.
Update(o) ==
    /\ obj' = o
    /\ current' = current \ (IF o = obj THEN {"copy"} ELSE {"copy", "cache"})
Conflict == "copy" \notin current

\* CreateOrUpdate reads the cache: it fails when the Secret changed since.
Writable == "secret" \in current \/ (secret = None /\ secretCache = None)

\* Reconcile returns, with an error or not.
Return ==
    /\ pc' = "idle" /\ copy' = NoObject /\ tok' = None
    /\ UNCHANGED <<enqueued, failures>>
ReturnError ==
    /\ pc' = "idle" /\ copy' = NoObject /\ tok' = None
    /\ enqueued' = TRUE
    /\ UNCHANGED failures
Fault == failures < MaxFailures /\ failures' = failures + 1
-----------------------------------------------------------------------------
(* Reconcile. *)

\* The reads of Reconcile and secretDrifted, and where they lead.
Reconcile ==
    /\ pc = "idle" /\ enqueued
    /\ enqueued' = FALSE
    /\ \/ objCache.life = "gone" /\ pc' = "idle" /\ UNCHANGED timers
       \/ objCache.life = "created" /\ pc' = "finalizer" /\ UNCHANGED timers
       \/ /\ objCache.life = "deleting"
          /\ pc' = IF objCache.token # None THEN "delete" ELSE "release"
          /\ UNCHANGED timers
       \/ /\ objCache.life = "finalized" /\ (objCache.token = None \/ secretCache # objCache.token)
          /\ pc' = "issue"
          /\ UNCHANGED timers
       \/ /\ objCache.life = "finalized" /\ objCache.token # None /\ secretCache = objCache.token
          /\ \/ /\ objCache.token \notin passed
                /\ pc' = "idle"
                /\ timers' = timers \cup {objCache.token}
             \/ /\ objCache.token \in passed
                /\ pc' = IF objCache.ready = "Expired" THEN "idle" ELSE "expire"
                /\ UNCHANGED timers
    /\ copy' = IF pc' = "idle" THEN NoObject ELSE objCache
    /\ current' = IF pc' # "idle" /\ "cache" \in current THEN current \cup {"copy"} ELSE current
    /\ UNCHANGED <<apiVars, objCache, secretCache, tok, failures>>

\* A call that only writes the object: the new version, or a conflict.
WriteObject(o) ==
    /\ \/ ~Conflict /\ Update(o) /\ Return
       \/ Conflict /\ ReturnError /\ UNCHANGED <<obj, current>>
    /\ UNCHANGED <<secret, live, passed, unrevoked, objCache, secretCache, timers>>

\* Faulty variant: the reconciler mints without waiting for its finalizer.
AddFinalizerSkipped ==
    /\ pc = "finalizer"
    /\ pc' = "issue"
    /\ UNCHANGED <<apiVars, objCache, secretCache, current, enqueued, timers, copy, tok, failures>>

\* No requeue is asked for: the watch reports the update.
AddFinalizer == pc = "finalizer" /\ WriteObject([copy EXCEPT !.life = "finalized"])

MarkExpired == pc = "expire" /\ WriteObject([copy EXCEPT !.ready = "Expired"])

\* The last reference goes with the finalizer.
RemoveFinalizer == pc = "release" /\ WriteObject([copy EXCEPT !.life = "gone"])
-----------------------------------------------------------------------------
(* mint. *)

\* Ids nothing refers to any more: the Secret of a recent token is still there.
Fresh == {t \in Tokens \ live : t \notin {obj.token, objCache.token, secret, secretCache, copy.token}}

\* Faulty variant: the previous token is revoked before its successor is published.
IssueRevokesFirst ==
    /\ pc = "issue"
    /\ \E t \in Fresh :
         /\ tok' = t
         /\ live' = (live \cup {t}) \ {copy.token}
         /\ passed' = passed \ {t} /\ unrevoked' = unrevoked \ {t} /\ timers' = timers \ {t}
    /\ pc' = "write"
    /\ UNCHANGED <<obj, secret, objCache, secretCache, current, enqueued, copy, failures>>

\* IssueBootstrapToken.  A random id that is taken, AlreadyExists, is an error.
Issue ==
    /\ pc = "issue"
    /\ \E t \in Fresh :
         /\ tok' = t
         /\ live' = live \cup {t}
         /\ passed' = passed \ {t} /\ unrevoked' = unrevoked \ {t} /\ timers' = timers \ {t}
    /\ pc' = "write"
    /\ UNCHANGED <<obj, secret, objCache, secretCache, current, enqueued, copy, failures>>

IssueCollides ==
    /\ pc = "issue" /\ Fresh = {}
    /\ pc' = "degrade"
    /\ UNCHANGED <<apiVars, objCache, secretCache, current, enqueued, timers, copy, tok, failures>>

\* Faulty variant: the previous token is left alone.
AfterWriteKeeps == "status"

\* The previous token is revoked, next, if the copy names one.
AfterWrite == IF copy.token # None THEN "revoke" ELSE "status"

\* CreateOrUpdate of the Secret <name>-jointoken.
WriteSecret ==
    /\ pc = "write"
    /\ \/ Writable /\ secret' = tok /\ current' = current \ {"secret"} /\ pc' = AfterWrite
       \/ ~Writable /\ pc' = "degrade" /\ UNCHANGED <<secret, current>>
    /\ UNCHANGED <<obj, live, passed, unrevoked, objCache, secretCache, enqueued, timers, copy, tok, failures>>

\* deleteBootstrapTokenSecret of the previous token; a token that is gone is no error.
RevokePrevious ==
    /\ pc = "revoke"
    /\ live' = live \ {copy.token}
    /\ pc' = "status"
    /\ UNCHANGED <<obj, secret, passed, unrevoked, objCache, secretCache, current, enqueued, timers, copy,
                   tok, failures>>

\* The token enters the status; RequeueAfter schedules the next look for its expiry.
RecordToken ==
    /\ pc = "status"
    /\ \/ /\ ~Conflict
          /\ Update([copy EXCEPT !.token = tok, !.ready = "TokenIssued"])
          /\ timers' = timers \cup {tok}
          /\ Return
       \/ Conflict /\ ReturnError /\ UNCHANGED <<obj, current, timers>>
    /\ UNCHANGED <<secret, live, passed, unrevoked, objCache, secretCache>>

\* setDegraded: the status is written if it can be; the error requeues either way.
SetDegraded ==
    /\ pc = "degrade"
    /\ \/ ~Conflict /\ Update([copy EXCEPT !.ready = "Degraded"])
       \/ Conflict /\ UNCHANGED <<obj, current>>
    /\ ReturnError
    /\ UNCHANGED <<secret, live, passed, unrevoked, objCache, secretCache, timers>>
-----------------------------------------------------------------------------
(* reconcileDelete. *)

\* Faulty variant: a token that is already gone is an error, and keeps the finalizer.
RevokeOnDeleteStrict ==
    /\ pc = "delete"
    /\ live' = live \ {copy.token}
    /\ \/ copy.token \in live /\ pc' = "release" /\ UNCHANGED <<enqueued, copy, tok, failures>>
       \/ copy.token \notin live /\ ReturnError
    /\ UNCHANGED <<obj, secret, passed, unrevoked, objCache, secretCache, current, timers>>

\* The recorded token is revoked; a failure does not keep the object.
RevokeOnDelete ==
    /\ pc = "delete"
    /\ live' = live \ {copy.token}
    /\ pc' = "release"
    /\ UNCHANGED <<obj, secret, passed, unrevoked, objCache, secretCache, current, enqueued, timers, copy,
                   tok, failures>>
-----------------------------------------------------------------------------
(* Failures.  A call whose effect takes place although its answer is lost is  *)
(* a crash after it.                                                          *)

\* A failed write of the object is an error; a failed write of a Secret leads to
\* setDegraded; a failed revocation is logged, and a failed setDegraded is not.
RequestFails ==
    /\ Fault
    /\ \/ /\ pc \in {"finalizer", "expire", "release", "status", "degrade"}
          /\ pc' = "idle" /\ copy' = NoObject /\ tok' = None /\ enqueued' = TRUE
          /\ current' = current \ {"copy"}
          /\ UNCHANGED unrevoked
       \/ /\ pc \in {"issue", "write"}
          /\ pc' = "degrade"
          /\ UNCHANGED <<copy, tok, enqueued, current, unrevoked>>
       \/ /\ pc \in {"revoke", "delete"}
          /\ pc' = IF pc = "revoke" THEN "status" ELSE "release"
          /\ unrevoked' = unrevoked \cup {copy.token}
          /\ UNCHANGED <<copy, tok, enqueued, current>>
    /\ UNCHANGED <<obj, secret, live, passed, objCache, secretCache, timers>>

\* A new process starts from fresh caches and reconciles every object.
Restart ==
    /\ Fault
    /\ pc' = "idle" /\ copy' = NoObject /\ tok' = None
    /\ enqueued' = TRUE /\ timers' = {}
    /\ objCache' = obj /\ secretCache' = secret /\ current' = {"cache", "secret"}
    /\ UNCHANGED apiVars
-----------------------------------------------------------------------------
(* The watches, the clock, the garbage collector and the user. *)

CacheObject ==
    /\ "cache" \notin current
    /\ objCache' = obj
    /\ current' = current \cup {"cache"}
    /\ enqueued' = TRUE
    /\ UNCHANGED <<apiVars, secretCache, timers, pc, copy, tok, failures>>

\* Faulty variant: the controller does not own the Secret, so its changes trigger nothing.
CacheSecretUnwatched ==
    /\ "secret" \notin current
    /\ secretCache' = secret
    /\ current' = current \cup {"secret"}
    /\ UNCHANGED <<apiVars, objCache, enqueued, timers, pc, copy, tok, failures>>

CacheSecret ==
    /\ "secret" \notin current
    /\ secretCache' = secret
    /\ current' = current \cup {"secret"}
    /\ enqueued' = TRUE
    /\ UNCHANGED <<apiVars, objCache, timers, pc, copy, tok, failures>>

\* The tokencleaner removes an expired token; ExpiresAt is taken right after the
\* token's own expiration, and passes with it.
Expire(t) ==
    /\ t \notin passed /\ t \in live \cup {obj.token}
    /\ live' = live \ {t}
    /\ passed' = passed \cup {t}
    /\ UNCHANGED <<obj, secret, unrevoked, objCache, secretCache, current, ctrlVars, failures>>

TimerFires(t) ==
    /\ t \in timers /\ t \in passed
    /\ timers' = timers \ {t}
    /\ enqueued' = TRUE
    /\ UNCHANGED <<apiVars, objCache, secretCache, current, pc, copy, tok, failures>>

CollectSecret ==
    /\ obj.life = "gone" /\ secret # None
    /\ secret' = None
    /\ current' = current \ {"secret"}
    /\ UNCHANGED <<obj, live, passed, unrevoked, objCache, secretCache, ctrlVars, failures>>

\* Without the finalizer the object goes at once.
DeleteJoinToken ==
    /\ obj.life \in {"created", "finalized"}
    /\ obj' = [obj EXCEPT !.life = IF @ = "created" THEN "gone" ELSE "deleting"]
    /\ current' = current \ {"cache", "copy"}
    /\ UNCHANGED <<secret, live, passed, unrevoked, objCache, secretCache, ctrlVars, failures>>

EditSecret(x) ==
    /\ Fault
    /\ secret \notin {None, x}
    /\ secret' = x
    /\ current' = current \ {"secret"}
    /\ UNCHANGED <<obj, live, passed, unrevoked, objCache, secretCache, ctrlVars>>
-----------------------------------------------------------------------------
Calls ==
    \/ AddFinalizer \/ MarkExpired \/ RemoveFinalizer
    \/ Issue \/ IssueCollides \/ WriteSecret \/ RevokePrevious \/ RecordToken \/ SetDegraded
    \/ RevokeOnDelete

Watches == CacheObject \/ CacheSecret
Clock == \E t \in Tokens : Expire(t) \/ TimerFires(t)

Next ==
    \/ Reconcile \/ Calls \/ RequestFails \/ Restart
    \/ Watches \/ Clock \/ CollectSecret
    \/ DeleteJoinToken \/ EditSecret(None) \/ EditSecret(Tampered)

Spec == Init /\ [][Next]_vars

\* Fairness: a queued object is reconciled, calls return and the watches deliver.
Fairness == WF_vars(Reconcile \/ Calls) /\ WF_vars(CacheObject)

FairSpec == Spec /\ Fairness
-----------------------------------------------------------------------------
\* A token that reached the status does not outlive the object: however stale
\* the reconciler's copies, when the finalizer is gone so is the recorded token,
\* unless its revocation failed.
RecordedIsRevoked ==
    obj.life = "gone" => obj.token \notin live \/ obj.token \in unrevoked

\* A token leaves the status only revoked (or with a failed attempt), whatever
\* conflicts and crashes came before.
ReplacedIsRevoked ==
    [][(obj.token # None /\ obj'.token # obj.token) =>
          obj.token \notin live \/ obj.token \in unrevoked]_vars

\* "Revokes whatever token this WorkerJoinToken previously minted": minting never
\* revokes the token a worker can read from the published Secret.
PublishedTokenSurvives ==
    [][(secret \in live /\ secret \notin live') =>
          secret \in passed' \/ pc = "delete"]_vars

\* A deleted object goes, whatever call was under way and whatever became of its token.
DeletionCompletes == obj.life = "deleting" ~> obj.life = "gone"

\* reconcileDelete's comment: "deleting a WorkerJoinToken always revokes access
\* rather than waiting for the token to expire on its own".
DeletionRevokesAccess == obj.life = "gone" => live \subseteq unrevoked

\* Nothing is left to do: no call, no trigger, nothing the watches have not delivered.
Quiescent ==
    /\ pc = "idle" /\ ~enqueued
    /\ {"cache", "secret"} \subseteq current
    /\ timers \cap passed = {}

\* Whatever the order of stale reads, conflicts, failures and crashes, no trigger
\* is lost: the controller comes to rest only over an object that is gone, or whose
\* recorded token is the published one and is accepted until it expires; and the
\* condition says Expired exactly when the token has.  (What else the condition
\* says of a token that has not expired is ReadyWhenAvailable.)
SettlesRight ==
    Quiescent =>
        \/ obj.life = "gone"
        \/ /\ obj.life = "finalized" /\ obj.token # None /\ secret = obj.token
           /\ obj.token \in live \cup passed
           /\ obj.ready = "Expired" <=> obj.token \in passed

\* The types' comment: "Ready - a non-expired token and kubeconfig Secret are
\* available".  At rest, an object that has both says so.
ReadyWhenAvailable ==
    (/\ Quiescent /\ obj.life = "finalized"
     /\ obj.token \in live \ passed /\ secret = obj.token)
        => obj.ready = "TokenIssued"
=============================================================================
