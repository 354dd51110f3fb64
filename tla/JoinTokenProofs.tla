-------------------------- MODULE JoinTokenProofs --------------------------
(***************************************************************************)
(* Proofs about the join token controller, for any number of tokens and of *)
(* faults.  The inductive invariant says what each pending API call may    *)
(* rely on: who holds the latest version holds the latest content, what    *)
(* the copy and the minted token are at each call, and what is true of the *)
(* caches when the reconciler has come to rest.                            *)
(***************************************************************************)
EXTENDS JoinToken, TLAPS

\* An object is without a token until it has the finalizer.
Plain(o) == o.life = "created" => o.token = None

\* A token the controller is done with: not accepted any more, or its revocation failed.
Dropped(t) == t \notin live \/ t \in unrevoked

Versions ==
    /\ "cache" \in current => objCache = obj
    /\ "copy" \in current => copy = obj /\ pc # "idle"
    /\ "secret" \in current => secretCache = secret
    /\ Plain(obj) /\ Plain(objCache) /\ Plain(copy)

Minting == {"write", "revoke", "status"}

AtCall ==
    /\ pc = "finalizer" => copy.life = "created"
    /\ pc \in {"issue", "expire"} \cup Minting => copy.life = "finalized"
    /\ pc \in {"delete", "release"} => copy.life = "deleting"
    /\ pc \in {"revoke", "delete"} => copy.token # None
    /\ pc \in {"degrade", "issue"} => copy.life = "finalized"
    /\ pc = "expire" => copy.ready # "Expired"
    /\ pc \in Minting => tok \in Tokens /\ tok # copy.token
    /\ pc = "revoke" => secret \in {tok, None, Tampered}
    /\ pc \in {"status", "release"} => Dropped(copy.token)

\* The reconciler rests on what it read: unless the watches have something new,
\* its caches show a finished object.
AtRest ==
    pc = "idle" /\ ~enqueued /\ {"cache", "secret"} \subseteq current =>
        \/ objCache.life = "gone"
        \/ /\ objCache.life = "finalized" /\ objCache.token # None /\ secretCache = objCache.token
           /\ objCache.token \in timers \/ (objCache.token \in passed /\ objCache.ready = "Expired")

IInv == TypeOK /\ Versions /\ AtCall /\ AtRest /\ RecordedIsRevoked

\* The object the API server stores first, and no object, satisfy the invariant.
LEMMA InitIInv == Init => IInv
  <1> SUFFICES ASSUME Init PROVE IInv
    OBVIOUS
  <1> USE TokenAssumption DEF Init, Objects, NoObject
  <1>1. obj \in Objects /\ objCache \in Objects /\ copy \in Objects
    OBVIOUS
  <1>2. failures \in 0 .. MaxFailures
    OBVIOUS
  <1>3. TypeOK
    BY <1>1, <1>2, Zenon DEF TypeOK
  <1>4. Versions /\ AtCall /\ AtRest /\ RecordedIsRevoked
    BY DEF Versions, Plain, AtCall, Minting, AtRest, RecordedIsRevoked
  <1>5. QED
    BY <1>3, <1>4 DEF IInv

\* Every call of the reconciler, every failure, and every step of the watches, the
\* clock, the garbage collector and the user preserves the invariant.
LEMMA NextIInv == IInv /\ [Next]_vars => IInv'
  <1> SUFFICES ASSUME IInv, [Next]_vars PROVE IInv'
    OBVIOUS
  <1> USE TokenAssumption DEF IInv, TypeOK, Objects, NoObject, Versions, Plain, AtCall, Minting, AtRest,
                              RecordedIsRevoked, Dropped, apiVars, ctrlVars
  <1>1. CASE Reconcile
    <2>1. TypeOK'
      <3>1. (obj \in Objects /\ objCache \in Objects /\ copy \in Objects)'
        BY <1>1 DEF Reconcile
      <3>2. enqueued' \in BOOLEAN
        BY <1>1, Zenon DEF Reconcile
      <3>3. QED
        BY <3>1, <3>2, <1>1 DEF Reconcile
    <2>2. Versions'
      BY <1>1 DEF Reconcile
    <2>3. AtCall'
      BY <1>1 DEF Reconcile
    <2>4. AtRest'
      BY <1>1 DEF Reconcile
    <2>5. RecordedIsRevoked'
      BY <1>1 DEF Reconcile
    <2>6. QED
      BY <2>1, <2>2, <2>3, <2>4, <2>5
  <1>2. CASE AddFinalizer
    <2>1. TypeOK'
      <3>1. (obj \in Objects /\ objCache \in Objects /\ copy \in Objects)'
        BY <1>2 DEF AddFinalizer, WriteObject, Update, Conflict, Return, ReturnError
      <3>2. enqueued' \in BOOLEAN
        BY <1>2, Zenon DEF AddFinalizer, WriteObject, Update, Conflict, Return, ReturnError
      <3>3. QED
        BY <3>1, <3>2, <1>2 DEF AddFinalizer, WriteObject, Update, Conflict, Return, ReturnError
    <2>2. Versions'
      BY <1>2 DEF AddFinalizer, WriteObject, Update, Conflict, Return, ReturnError
    <2>3. AtCall'
      BY <1>2 DEF AddFinalizer, WriteObject, Update, Conflict, Return, ReturnError
    <2>4. AtRest'
      BY <1>2 DEF AddFinalizer, WriteObject, Update, Conflict, Return, ReturnError
    <2>5. RecordedIsRevoked'
      BY <1>2 DEF AddFinalizer, WriteObject, Update, Conflict, Return, ReturnError
    <2>6. QED
      BY <2>1, <2>2, <2>3, <2>4, <2>5
  <1>3. CASE MarkExpired
    <2>1. TypeOK'
      <3>1. (obj \in Objects /\ objCache \in Objects /\ copy \in Objects)'
        BY <1>3 DEF MarkExpired, WriteObject, Update, Conflict, Return, ReturnError
      <3>2. enqueued' \in BOOLEAN
        BY <1>3, Zenon DEF MarkExpired, WriteObject, Update, Conflict, Return, ReturnError
      <3>3. QED
        BY <3>1, <3>2, <1>3 DEF MarkExpired, WriteObject, Update, Conflict, Return, ReturnError
    <2>2. Versions'
      BY <1>3 DEF MarkExpired, WriteObject, Update, Conflict, Return, ReturnError
    <2>3. AtCall'
      BY <1>3 DEF MarkExpired, WriteObject, Update, Conflict, Return, ReturnError
    <2>4. AtRest'
      BY <1>3 DEF MarkExpired, WriteObject, Update, Conflict, Return, ReturnError
    <2>5. RecordedIsRevoked'
      BY <1>3 DEF MarkExpired, WriteObject, Update, Conflict, Return, ReturnError
    <2>6. QED
      BY <2>1, <2>2, <2>3, <2>4, <2>5
  <1>4. CASE RemoveFinalizer
    <2>1. TypeOK'
      <3>1. (obj \in Objects /\ objCache \in Objects /\ copy \in Objects)'
        BY <1>4 DEF RemoveFinalizer, WriteObject, Update, Conflict, Return, ReturnError
      <3>2. enqueued' \in BOOLEAN
        BY <1>4, Zenon DEF RemoveFinalizer, WriteObject, Update, Conflict, Return, ReturnError
      <3>3. QED
        BY <3>1, <3>2, <1>4 DEF RemoveFinalizer, WriteObject, Update, Conflict, Return, ReturnError
    <2>2. Versions'
      BY <1>4 DEF RemoveFinalizer, WriteObject, Update, Conflict, Return, ReturnError
    <2>3. AtCall'
      BY <1>4 DEF RemoveFinalizer, WriteObject, Update, Conflict, Return, ReturnError
    <2>4. AtRest'
      BY <1>4 DEF RemoveFinalizer, WriteObject, Update, Conflict, Return, ReturnError
    <2>5. RecordedIsRevoked'
      BY <1>4 DEF RemoveFinalizer, WriteObject, Update, Conflict, Return, ReturnError
    <2>6. QED
      BY <2>1, <2>2, <2>3, <2>4, <2>5
  <1>5. CASE Issue
    BY <1>5 DEF Issue, Fresh
  <1>6. CASE IssueCollides
    BY <1>6 DEF IssueCollides
  <1>7. CASE WriteSecret
    <2>1. TypeOK'
      <3>1. (obj \in Objects /\ objCache \in Objects /\ copy \in Objects)'
        BY <1>7 DEF WriteSecret, Writable, AfterWrite
      <3>2. enqueued' \in BOOLEAN
        BY <1>7 DEF WriteSecret, Writable, AfterWrite
      <3>3. QED
        BY <3>1, <3>2, <1>7, ZenonT(40) DEF WriteSecret, Writable, AfterWrite
    <2>2. Versions'
      BY <1>7 DEF WriteSecret, Writable, AfterWrite
    <2>3. AtCall'
      BY <1>7 DEF WriteSecret, Writable, AfterWrite
    <2>4. AtRest'
      BY <1>7 DEF WriteSecret, Writable, AfterWrite
    <2>5. RecordedIsRevoked'
      BY <1>7 DEF WriteSecret, Writable, AfterWrite
    <2>6. QED
      BY <2>1, <2>2, <2>3, <2>4, <2>5
  <1>8. CASE RevokePrevious
    BY <1>8 DEF RevokePrevious
  <1>9. CASE RecordToken
    <2>1. CASE Conflict
      <3>1. /\ pc' = "idle" /\ copy' = NoObject /\ tok' = None /\ enqueued' = TRUE
            /\ UNCHANGED <<apiVars, current, timers, failures, objCache, secretCache>>
        BY <1>9, <2>1 DEF RecordToken, ReturnError
      <3>2. copy' \in Objects
        BY <3>1
      <3>3. QED
        BY <2>1, <3>1, <3>2 DEF Conflict
    <2>2. CASE ~Conflict
      <3> DEFINE o == [copy EXCEPT !.token = tok, !.ready = "TokenIssued"]
      <3>1. o \in Objects /\ o.life = "finalized" /\ o.token = tok /\ o # obj
        BY <1>9, <2>2, ZenonT(40) DEF RecordToken, Conflict
      <3>2. /\ obj' = o /\ current' = current \ {"copy", "cache"}
            /\ timers' = timers \cup {tok}
            /\ pc' = "idle" /\ copy' = NoObject /\ tok' = None
            /\ UNCHANGED <<enqueued, failures, secret, live, passed, unrevoked, objCache, secretCache>>
        BY <1>9, <2>2, <3>1 DEF RecordToken, Update, Conflict, Return, ReturnError
      <3> HIDE DEF o
      <3>3. TypeOK'
        <4>1. (obj \in Objects /\ objCache \in Objects /\ copy \in Objects)'
          BY <3>1, <3>2
        <4>2. tok \in Tokens /\ enqueued' \in BOOLEAN
          BY <1>9, <3>2 DEF RecordToken
        <4>3. QED
          BY <4>1, <4>2, <3>2
      <3>4. QED
        BY <3>1, <3>2, <3>3
    <2>3. QED
      BY <2>1, <2>2
  <1>10. CASE SetDegraded
    BY <1>10 DEF SetDegraded, Update, Conflict, ReturnError
  <1>11. CASE RevokeOnDelete
    BY <1>11 DEF RevokeOnDelete
  <1>12. CASE RequestFails
    <2>1. TypeOK'
      <3>1. (obj \in Objects /\ objCache \in Objects /\ copy \in Objects)'
        BY <1>12 DEF RequestFails, Fault
      <3>2. enqueued' \in BOOLEAN
        BY <1>12, Zenon DEF RequestFails, Fault
      <3>3. failures' \in 0 .. MaxFailures
        BY <1>12 DEF RequestFails, Fault
      <3>4. QED
        BY <3>1, <3>2, <3>3, <1>12, ZenonT(40) DEF RequestFails, Fault
    <2>2. Versions'
      BY <1>12 DEF RequestFails, Fault
    <2>3. AtCall'
      BY <1>12 DEF RequestFails, Fault
    <2>4. AtRest'
      BY <1>12 DEF RequestFails, Fault
    <2>5. RecordedIsRevoked'
      BY <1>12 DEF RequestFails, Fault
    <2>6. QED
      BY <2>1, <2>2, <2>3, <2>4, <2>5
  <1>13. CASE Restart
    BY <1>13 DEF Restart, Fault
  <1>14. CASE CacheObject
    BY <1>14 DEF CacheObject
  <1>15. CASE CacheSecret
    BY <1>15 DEF CacheSecret
  <1>16. ASSUME NEW t \in Tokens, Expire(t) PROVE IInv'
    BY <1>16 DEF Expire
  <1>17. ASSUME NEW t \in Tokens, TimerFires(t) PROVE IInv'
    BY <1>17 DEF TimerFires
  <1>18. CASE CollectSecret
    BY <1>18 DEF CollectSecret
  <1>19. CASE DeleteJoinToken
    BY <1>19 DEF DeleteJoinToken
  <1>20. CASE EditSecret(None) \/ EditSecret(Tampered)
    <2>1. TypeOK'
      <3>1. (obj \in Objects /\ objCache \in Objects /\ copy \in Objects)'
        BY <1>20 DEF EditSecret, Fault
      <3>2. enqueued' \in BOOLEAN
        BY <1>20 DEF EditSecret, Fault
      <3>3. failures' \in 0 .. MaxFailures
        BY <1>20 DEF EditSecret, Fault
      <3>4. QED
        BY <3>1, <3>2, <3>3, <1>20, ZenonT(40) DEF EditSecret, Fault
    <2>2. Versions'
      BY <1>20 DEF EditSecret, Fault
    <2>3. AtCall'
      BY <1>20 DEF EditSecret, Fault
    <2>4. AtRest'
      BY <1>20 DEF EditSecret, Fault
    <2>5. RecordedIsRevoked'
      BY <1>20 DEF EditSecret, Fault
    <2>6. QED
      BY <2>1, <2>2, <2>3, <2>4, <2>5
  <1>21. CASE UNCHANGED vars
    BY <1>21 DEF vars
  <1>22. QED
    BY <1>1, <1>2, <1>3, <1>4, <1>5, <1>6, <1>7, <1>8, <1>9, <1>10,
       <1>11, <1>12, <1>13, <1>14, <1>15, <1>16, <1>17, <1>18, <1>19, <1>20,
       <1>21, ZenonT(40)
    DEF Next, Calls, Watches, Clock

\* The invariant holds of every behaviour, fair or not.
THEOREM Invariance == Spec => []IInv
  <1>1. QED
    BY InitIInv, NextIInv, PTL DEF Spec

\* The state of the API server, of the caches and of the reconciler keeps its type.
THEOREM TypeCorrect == Spec => []TypeOK
  <1>1. IInv => TypeOK
    BY DEF IInv
  <1>2. QED
    BY <1>1, Invariance, PTL

\* reconcileDelete: with the object goes the token its status names, unless the
\* revocation failed.
THEOREM DeletedTokensRevoked == Spec => []RecordedIsRevoked
  <1>1. IInv => RecordedIsRevoked
    BY DEF IInv
  <1>2. QED
    BY <1>1, Invariance, PTL

\* What makes the recorded token good: it is accepted, or has expired, for as long as the
\* Secret names it and nobody deletes the object; and the status says Expired only of a
\* token that has.
TokenGood ==
    /\ pc \in Minting => tok \in live \cup passed /\ tok # obj.token
    /\ pc = "status" => secret \in {tok, None, Tampered}
    /\ objCache.life = "deleting" => obj.life \in {"deleting", "gone"}
    /\ copy.life = "deleting" => obj.life \in {"deleting", "gone"}
    /\ obj.life = "finalized" /\ obj.token # None /\ secret = obj.token => obj.token \in live \cup passed
    /\ obj.ready = "Expired" => obj.token \in passed
    /\ pc = "expire" => copy.token \in passed

\* A token is revoked only when the Secret names another one or the object is being
\* deleted, and the id of one that expired is reused only when nothing refers to it.
LEMMA TokenStaysGood == IInv /\ TokenGood /\ [Next]_vars => TokenGood'
  <1> SUFFICES ASSUME IInv, TokenGood, [Next]_vars PROVE TokenGood'
    OBVIOUS
  <1>0. /\ obj \in Objects /\ objCache \in Objects /\ copy \in Objects
        /\ tok \in Tokens \cup {None} /\ secret \in Tokens \cup {None, Tampered}
        /\ live \subseteq Tokens /\ passed \subseteq Tokens
        /\ None \notin Tokens /\ Tampered \notin Tokens
    BY TokenAssumption DEF IInv, TypeOK
  <1>1. "copy" \in current => copy = obj
    BY DEF IInv, Versions
  <1>2. AtCall
    BY DEF IInv
  <1> USE <1>0 DEF TokenGood, Minting, Objects, NoObject, apiVars, ctrlVars
  <1>3. CASE Reconcile
    BY <1>3 DEF Reconcile
  <1>4. ASSUME NEW o \in Objects, WriteObject(o), o.token = copy.token, copy.life # "gone",
               copy.life = "deleting" => o.life \in {"deleting", "gone"},
               o.life = "finalized" => copy.life \in {"created", "finalized"},
               copy.life = "created" => copy.token = None,
               o.ready = "Expired" => copy.ready = "Expired" \/ pc = "expire"
        PROVE  TokenGood'
    <2>1. CASE Conflict
      BY <1>4, <2>1 DEF WriteObject, ReturnError
    <2>2. CASE ~Conflict
      <3>1. /\ copy = obj /\ obj' = o /\ pc' = "idle" /\ copy' = NoObject
            /\ UNCHANGED <<secret, live, passed, objCache>>
        BY <1>1, <1>4, <2>2 DEF WriteObject, Update, Conflict, Return
      <3> QED
        BY <1>4, <3>1
    <2> QED
      BY <2>1, <2>2
  <1>5. CASE AddFinalizer
    BY <1>2, <1>4, <1>5 DEF AddFinalizer, AtCall, IInv, Versions, Plain
  <1>6. CASE MarkExpired
    BY <1>2, <1>4, <1>6 DEF MarkExpired, AtCall, IInv, Versions, Plain
  <1>7. CASE RemoveFinalizer
    BY <1>2, <1>4, <1>7 DEF RemoveFinalizer, AtCall, IInv, Versions, Plain
  <1>8. CASE Issue
    BY <1>8 DEF Issue, Fresh
  <1>9. CASE IssueCollides
    BY <1>9 DEF IssueCollides
  <1>10. CASE WriteSecret
    BY <1>10 DEF WriteSecret, AfterWrite
  <1>11. CASE RevokePrevious
    BY <1>2, <1>11 DEF RevokePrevious, AtCall
  <1>12. CASE RecordToken
    <2>1. CASE Conflict
      BY <1>12, <2>1 DEF RecordToken, ReturnError
    <2>2. CASE ~Conflict
      <3> DEFINE o == [copy EXCEPT !.token = tok, !.ready = "TokenIssued"]
      <3>1. /\ copy = obj /\ obj' = o /\ pc' = "idle" /\ copy' = NoObject
            /\ UNCHANGED <<secret, live, passed, objCache>>
        BY <1>1, <1>12, <2>2 DEF RecordToken, Update, Conflict, Return
      <3>2. o.life = "finalized" /\ copy.life = "finalized" /\ o.token = tok /\ o.ready = "TokenIssued"
        BY <1>2, <1>12 DEF RecordToken, AtCall
      <3>3. tok \in live \cup passed
        BY <1>12 DEF RecordToken
      <3> HIDE DEF o
      <3> QED
        BY <3>1, <3>2, <3>3
    <2> QED
      BY <2>1, <2>2
  <1>13. CASE SetDegraded
    BY <1>1, <1>13 DEF SetDegraded, Update, Conflict, ReturnError
  <1>14. CASE RevokeOnDelete
    BY <1>2, <1>14 DEF RevokeOnDelete, AtCall
  <1>15. CASE RequestFails
    BY <1>2, <1>15 DEF RequestFails, AtCall
  <1>16. CASE Restart
    BY <1>16 DEF Restart
  <1>17. CASE Watches
    BY <1>17 DEF Watches, CacheObject, CacheSecret
  <1>18. CASE Clock
    BY <1>18 DEF Clock, Expire, TimerFires
  <1>19. CASE CollectSecret \/ EditSecret(None) \/ EditSecret(Tampered)
    BY <1>19 DEF CollectSecret, EditSecret
  <1>20. CASE DeleteJoinToken
    BY <1>20 DEF DeleteJoinToken
  <1>21. CASE UNCHANGED vars
    BY <1>21 DEF vars
  <1> QED
    BY <1>3, <1>5, <1>6, <1>7, <1>8, <1>9, <1>10, <1>11, <1>12, <1>13, <1>14, <1>15, <1>16, <1>17,
       <1>18, <1>19, <1>20, <1>21, ZenonT(40) DEF Next, Calls

\* The controller never comes to rest over a missing token, a foreign Secret, a published
\* token that is not accepted, an expiry that is not in the status or one that never
\* was, or an unfinished deletion.
THEOREM RestIsRight == Spec => []SettlesRight
  <1>1. Init => TokenGood
    BY TokenAssumption DEF Init, TokenGood, Minting, NoObject
  <1>2. IInv /\ TokenGood => SettlesRight
    BY DEF IInv, Versions, AtRest, TokenGood, SettlesRight, Quiescent
  <1>3. QED
    BY <1>1, <1>2, TokenStaysGood, Invariance, PTL DEF Spec

\* mint revokes the previous token before the status forgets it.
THEOREM ReplacedTokensRevoked == Spec => ReplacedIsRevoked
  <1>1. ASSUME IInv, [Next]_vars, obj.token # None, obj'.token # obj.token
        PROVE  obj.token \notin live \/ obj.token \in unrevoked
    <2>1. CASE RecordToken
      BY <1>1, <2>1 DEF IInv, Versions, AtCall, Minting, Dropped, RecordToken, Conflict
    <2>2. CASE ~RecordToken
      <3>1. obj \in Objects /\ copy \in Objects /\ ("copy" \in current => copy = obj)
        BY <1>1 DEF IInv, TypeOK, Versions
      <3>2. obj'.token = obj.token
        BY <1>1, <2>2, <3>1
        DEF Next, Calls, Watches, Clock, vars, apiVars, ctrlVars, Objects, Reconcile, AddFinalizer, MarkExpired,
            RemoveFinalizer, WriteObject, Update, Conflict, Issue, IssueCollides, WriteSecret, RevokePrevious,
            SetDegraded, RevokeOnDelete, RequestFails, Restart, CacheObject, CacheSecret, Expire, TimerFires,
            CollectSecret, DeleteJoinToken, EditSecret
      <3>3. QED
        BY <1>1, <3>2
    <2>3. QED
      BY <2>1, <2>2
  <1>2. QED
    BY <1>1, Invariance, PTL DEF Spec, ReplacedIsRevoked

\* Only expiry and deletion take away the token of the published Secret: mint
\* revokes the previous one after the Secret names its successor.
THEOREM PublishedTokensSurvive == Spec => PublishedTokenSurvives
  <1>1. ASSUME IInv, [Next]_vars, secret \in live, secret \notin live'
        PROVE  secret \in passed' \/ pc = "delete"
    <2>1. CASE RevokePrevious
      BY <1>1, <2>1, TokenAssumption DEF IInv, TypeOK, AtCall, Minting, RevokePrevious
    <2>2. CASE ~RevokePrevious
      BY <1>1, <2>2
      DEF Next, Calls, Watches, Clock, vars, apiVars, ctrlVars, Reconcile, AddFinalizer, MarkExpired,
          RemoveFinalizer, WriteObject, Issue, IssueCollides, WriteSecret, RecordToken,
          SetDegraded, RevokeOnDelete, RequestFails, Restart, CacheObject, CacheSecret, Expire, TimerFires,
          CollectSecret, DeleteJoinToken, EditSecret
    <2>3. QED
      BY <2>1, <2>2
  <1>2. QED
    BY <1>1, Invariance, PTL DEF Spec, PublishedTokenSurvives

\* What is written to the object is written to its latest version.
LEMMA ObjectWrites ==
  ASSUME IInv, [Next]_vars, obj' # obj
  PROVE  \/ pc = "finalizer" /\ obj.life = "created" /\ obj' = [obj EXCEPT !.life = "finalized"]
         \/ pc = "release" /\ obj.life = "deleting" /\ obj' = [obj EXCEPT !.life = "gone"]
         \/ /\ pc \in {"expire", "degrade", "status"} /\ obj.life = "finalized"
            /\ \E t \in Tokens \cup {None} : \E r : obj' = [obj EXCEPT !.token = t, !.ready = r]
         \/ /\ obj.life \in {"created", "finalized"}
            /\ obj' = [obj EXCEPT !.life = IF obj.life = "created" THEN "gone" ELSE "deleting"]
  <1>0. /\ obj \in Objects /\ ("copy" \in current => copy = obj) /\ tok \in Tokens \cup {None}
        /\ pc = "finalizer" => copy.life = "created"
        /\ pc \in {"expire", "status", "degrade"} => copy.life = "finalized"
        /\ pc = "release" => copy.life = "deleting"
    BY DEF IInv, TypeOK, Versions, AtCall, Minting
  <1>1. ASSUME NEW o, WriteObject(o) PROVE copy = obj /\ obj' = o
    BY <1>0, <1>1 DEF WriteObject, Update, Conflict
  <1>2. CASE AddFinalizer
    BY <1>0, <1>1, <1>2 DEF AddFinalizer
  <1>3. CASE RemoveFinalizer
    BY <1>0, <1>1, <1>3 DEF RemoveFinalizer
  <1>4. \A r : [obj EXCEPT !.ready = r] = [obj EXCEPT !.token = obj.token, !.ready = r]
    BY <1>0, ZenonT(40) DEF Objects
  <1>5. obj.token \in Tokens \cup {None}
    BY <1>0 DEF Objects
  <1>6. CASE MarkExpired
    <2>1. pc = "expire" /\ obj.life = "finalized" /\ obj' = [obj EXCEPT !.ready = "Expired"]
      BY <1>0, <1>1, <1>6 DEF MarkExpired
    <2>2. obj' = [obj EXCEPT !.token = obj.token, !.ready = "Expired"]
      BY <1>4, <2>1, Zenon
    <2> QED
      BY <1>5, <2>1, <2>2, Zenon
  <1>7. CASE RecordToken
    BY <1>0, <1>7, ZenonT(40) DEF RecordToken, Update, Conflict
  <1>8. CASE SetDegraded
    <2>1. pc = "degrade" /\ obj.life = "finalized" /\ obj' = [obj EXCEPT !.ready = "Degraded"]
      BY <1>0, <1>8 DEF SetDegraded, Update, Conflict
    <2>2. obj' = [obj EXCEPT !.token = obj.token, !.ready = "Degraded"]
      BY <1>4, <2>1, Zenon
    <2> QED
      BY <1>5, <2>1, <2>2, Zenon
  <1>9. CASE DeleteJoinToken
    BY <1>9, ZenonT(40) DEF DeleteJoinToken
  <1>10. \/ Reconcile \/ Issue \/ IssueCollides \/ WriteSecret \/ RevokePrevious \/ RevokeOnDelete
         \/ RequestFails \/ Restart \/ UNCHANGED vars
         => UNCHANGED obj
    BY ZenonT(40) DEF Reconcile, Issue, IssueCollides, WriteSecret, RevokePrevious, RevokeOnDelete, RequestFails,
       Restart, vars, apiVars
  <1>11. \/ Watches \/ Clock \/ CollectSecret \/ EditSecret(None) \/ EditSecret(Tampered) => UNCHANGED obj
    BY ZenonT(40) DEF Watches, CacheObject, CacheSecret, Clock, Expire, TimerFires, CollectSecret, EditSecret, apiVars
  <1> QED
    BY <1>2, <1>3, <1>6, <1>7, <1>8, <1>9, <1>10, <1>11, ZenonT(40) DEF Next, Calls

\* The safety half of DeletionCompletes: an object only moves forward, however stale the
\* copies that are written back.  One that is being deleted gets no other token, only
\* the reconciler's release of the finalizer ends it, and one that is gone stays gone.
THEOREM ObjectsMoveForward ==
  Spec => [][/\ obj.life = "gone" => obj' = obj
             /\ obj.life = "deleting" => obj' = obj \/ (pc = "release" /\ obj' = [obj EXCEPT !.life = "gone"])
             /\ obj.life = "finalized" => obj'.life \in {"finalized", "deleting"}]_vars
  <1>1. ASSUME IInv, [Next]_vars
        PROVE  /\ obj.life = "gone" => obj' = obj
               /\ obj.life = "deleting" => obj' = obj \/ (pc = "release" /\ obj' = [obj EXCEPT !.life = "gone"])
               /\ obj.life = "finalized" => obj'.life \in {"finalized", "deleting"}
    <2>1. obj \in Objects
      BY <1>1 DEF IInv, TypeOK
    <2>2. CASE obj' = obj
      BY <2>2, ZenonT(40)
    <2>3. CASE obj' # obj
      BY <1>1, <2>1, <2>3, ObjectWrites, ZenonT(40) DEF Objects
    <2> QED
      BY <2>2, <2>3
  <1> QED
    BY <1>1, Invariance, PTL DEF Spec

\* The published Secret is the recorded token's, an expiry is in the status, the watches
\* have delivered, and no call is under way.
Settled ==
    /\ obj.life = "finalized" /\ obj.token # None /\ secret = obj.token
    /\ obj.token \in passed => obj.ready = "Expired"
    /\ {"cache", "secret"} \subseteq current
    /\ pc = "idle"

\* What happens without a user, a failed call or the clock.
Unprompted == Reconcile \/ Calls \/ Watches \/ Restart \/ (\E t \in Tokens : TimerFires(t)) \/ CollectSecret

\* A settled token is left alone: a pass over it, whatever triggered it, and a new start
\* of the cluster agent mint nothing, revoke nothing and write nothing.  (So a condition that is
\* wrong over a settled token stays as well: see ReadyWhenAvailable.)
THEOREM SettledStays == Spec => [][Settled /\ Unprompted => Settled' /\ UNCHANGED apiVars]_vars
  <1>1. ASSUME IInv, Settled, Unprompted PROVE Settled' /\ UNCHANGED apiVars
    <2>0. /\ objCache = obj /\ secretCache = secret /\ "cache" \in current /\ "secret" \in current
      BY <1>1 DEF IInv, Versions, Settled
    <2>1. ASSUME UNCHANGED apiVars, {"cache", "secret"} \subseteq current', pc' = "idle"
          PROVE  Settled' /\ UNCHANGED apiVars
      <3>1. UNCHANGED <<obj, secret, passed>>
        BY <2>1, ZenonT(40) DEF apiVars
      <3> QED
        BY <1>1, <2>1, <3>1 DEF Settled
    <2>2. ~ Calls /\ ~ Watches /\ ~ CollectSecret
      BY <1>1, <2>0 DEF Settled, Calls, AddFinalizer, MarkExpired, RemoveFinalizer, Issue, IssueCollides,
         WriteSecret, RevokePrevious, RecordToken, SetDegraded, RevokeOnDelete, Watches, CacheObject,
         CacheSecret, CollectSecret
    <2>3. CASE Reconcile
      <3>1. pc' = "idle" /\ UNCHANGED apiVars
        BY <1>1, <2>0, <2>3 DEF Reconcile, Settled
      <3>2. current' = current
        BY <2>3, <3>1 DEF Reconcile
      <3> QED
        BY <2>0, <2>1, <3>1, <3>2
    <2>4. CASE Restart
      BY <2>1, <2>4 DEF Restart
    <2>5. CASE \E t \in Tokens : TimerFires(t)
      BY <1>1, <2>1, <2>5 DEF TimerFires, Settled
    <2> QED
      BY <1>1, <2>2, <2>3, <2>4, <2>5 DEF Unprompted
  <1> QED
    BY <1>1, Invariance, PTL DEF Spec
=============================================================================
