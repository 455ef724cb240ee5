------------------------- MODULE ResettableKeystore -------------------------
(***************************************************************************)
(* provider/keystore: the keystore and its resettable form.  Two namespaces*)
(* of one datastore hold the keys; one is active, the other receives the   *)
(* keys of a reset.                                                        *)
(*                                                                         *)
(* Processes: the worker goroutine, which serves put, delete, empty and    *)
(* the two reset operations one at a time; callers of ResetCids, which     *)
(* write to the alternate namespace themselves, concurrently with the      *)
(* worker; a caller of Close; and the machine, which may crash.  A call    *)
(* that only reads (get, containsPrefix, Size) changes nothing and has no  *)
(* action.  What the datastore has accepted survives a crash.              *)
(***************************************************************************)
EXTENDS Integers, FiniteSets

CONSTANTS
    PutKeys,      \* the keys clients put and delete
    ResetKeys,    \* the keys a reset may bring
    Resetters,    \* callers of ResetCids
    BatchSize,    \* keystore.batchSize
    MaxFailures,  \* bound on the number of failed datastore operations
    Cancels,      \* whether callers of ResetCids cancel their context
    MaxRestarts,  \* bound on the number of restarts
    MaxResets     \* bound on the number of calls of ResetCids

Keys == PutKeys \cup ResetKeys

ASSUME KeystoreAssumption ==
    /\ IsFiniteSet(Keys)
    /\ BatchSize \in Nat \ {0}
    /\ Cancels \in BOOLEAN
    /\ MaxFailures \in Nat /\ MaxRestarts \in Nat /\ MaxResets \in Nat

Namespaces == {0, 1}

VARIABLES
    store,      \* the keys in each namespace
    savedSize,  \* the persisted size of each namespace, -1 if absent
    marker,     \* the persisted active namespace
    active,     \* activeNamespace: s.ds is store[active], s.altDs the other
    size,       \* s.size
    altSize,    \* s.altSize
    resetInProgress,
    worker,     \* where the worker goroutine is
    job,        \* the operation it serves: keys, keys to add, caller, error
    rpc,        \* where each caller of ResetCids is
    feed,       \* what keysChan has still to deliver to it
    buf,        \* its batch of keys
    toAdd,      \* the keys altPut found missing
    final,      \* its last batch is being written
    success,    \* success, and what ResetCids returns
    sem,        \* altPutSem holds its token
    closing,    \* where Close is
    restarts, resets, failures,
    incoming,   \* history: all the keys of the reset in progress
    since       \* history: keys put since it started

durable  == <<store, savedSize, marker>>
sizes    == <<size, altSize>>
resetter == <<rpc, feed, buf, toAdd, final, success>>
calls    == <<restarts, resets>>
bounds   == <<restarts, resets, failures>>
history  == <<incoming, since>>
vars == <<durable, active, sizes, resetInProgress, worker, job, resetter, sem, closing, bounds, history>>

alt == 1 - active

NoJob == [keys |-> {}, add |-> {}, caller |-> {}, err |-> FALSE]

WorkerState == {"load", "idle", "altScan", "altCommit", "put", "respondStart",
                "marker", "emptyAlt", "exited"}

ResetState == {"idle", "callStart", "waitStart", "reading", "tryAltPut", "altAdd", "altCommit",
               "cleanup", "waitCleanup"}

TypeOK ==
    /\ store \in [Namespaces -> SUBSET Keys]
    /\ savedSize \in [Namespaces -> Int]
    /\ marker \in Namespaces /\ active \in Namespaces
    /\ size \in Int /\ altSize \in Int
    /\ resetInProgress \in BOOLEAN /\ sem \in BOOLEAN
    /\ worker \in WorkerState
    /\ job \in [keys : SUBSET Keys, add : SUBSET Keys, caller : SUBSET Resetters, err : BOOLEAN]
    /\ rpc \in [Resetters -> ResetState]
    /\ feed \in [Resetters -> SUBSET Keys] /\ buf \in [Resetters -> SUBSET Keys]
    /\ toAdd \in [Resetters -> SUBSET Keys]
    /\ final \in [Resetters -> BOOLEAN] /\ success \in [Resetters -> BOOLEAN]
    /\ closing \in {"open", "closing", "persist", "closed"}
    /\ restarts \in Nat /\ resets \in Nat /\ failures \in Nat
    /\ incoming \subseteq Keys /\ since \subseteq Keys

(* A datastore operation succeeds or fails; in the second case the failure  *)
(* is counted, to bound the model.                                          *)
Outcomes == IF failures < MaxFailures THEN BOOLEAN ELSE {TRUE}

count(ok) == failures' = IF ok THEN failures ELSE failures + 1

(* The part of a batch of changes C that is applied: all of it when the     *)
(* commit succeeds, any part when it fails.                                 *)
Applied(C, ok) == IF ok THEN {C} ELSE SUBSET C

(* refreshSize after a failure, over the keys S: it counts them, or fails   *)
(* as well and leaves the old size.                                         *)
refreshSize(S, old) == {Cardinality(S), old}

(* empty deletes every entry of namespace n, its saved size included, in    *)
(* batches: a failure may leave any part of them.                           *)
empty(n, ok) ==
    /\ \E C \in Applied(store[n], ok) : store' = [store EXCEPT ![n] = @ \ C]
    /\ savedSize' \in {[savedSize EXCEPT ![n] = -1]} \cup (IF ok THEN {} ELSE {savedSize})

Init ==
    /\ store = [n \in Namespaces |-> {}] /\ savedSize = [n \in Namespaces |-> -1]
    /\ marker = 0 /\ active = 0 /\ size = 0 /\ altSize = 0
    /\ resetInProgress = FALSE /\ sem = TRUE
    /\ worker = "load" /\ job = NoJob
    /\ rpc = [r \in Resetters |-> "idle"]
    /\ feed = [r \in Resetters |-> {}] /\ buf = feed /\ toAdd = feed
    /\ final = [r \in Resetters |-> FALSE] /\ success = final
    /\ closing = "open" /\ restarts = 0 /\ resets = 0 /\ failures = 0
    /\ incoming = {} /\ since = {}

-----------------------------------------------------------------------------
(* The worker.                                                              *)

(* Mutant: the saved size is not deleted once it is loaded.                 *)
LoadSizeKeepsSaved ==
    /\ worker = "load"
    /\ size' = IF savedSize[active] = -1 THEN Cardinality(store[active]) ELSE savedSize[active]
    /\ worker' = "idle"
    /\ UNCHANGED <<durable, active, altSize, resetInProgress, job, resetter, sem, closing, bounds,
                   history>>

(* loadSize takes the saved size, or counts, and deletes what was saved.    *)
(* Any of the three may fail.                                               *)
LoadSize ==
    /\ worker = "load"
    /\ \E ok \in Outcomes :
          /\ count(ok)
          /\ \/ /\ size' = IF savedSize[active] = -1 THEN Cardinality(store[active])
                                                    ELSE savedSize[active]
                /\ savedSize' = [savedSize EXCEPT ![active] = -1]
             \/ /\ ~ok /\ savedSize[active] # -1
                /\ size' = savedSize[active] /\ UNCHANGED savedSize
             \/ /\ ~ok /\ size' \in {Cardinality(store[active]), 0}
                /\ savedSize' = [savedSize EXCEPT ![active] = -1]
    /\ worker' = "idle"
    /\ UNCHANGED <<store, marker, active, altSize, resetInProgress, job, resetter, sem, closing,
                   calls, history>>

(* Mutant: a put is not duplicated to altDs during a reset.                 *)
TakePutActiveOnly(S) ==
    /\ worker = "idle"
    /\ worker' = "put"
    /\ job' = [NoJob EXCEPT !.keys = S]
    /\ UNCHANGED <<durable, active, sizes, resetInProgress, resetter, sem, closing, bounds, history>>

(* The worker takes a put; during a reset it writes to altDs first.         *)
TakePut(S) ==
    /\ worker = "idle"
    /\ worker' = IF resetInProgress THEN "altScan" ELSE "put"
    /\ job' = [NoJob EXCEPT !.keys = S]
    /\ UNCHANGED <<durable, active, sizes, resetInProgress, resetter, sem, closing, bounds, history>>

(* altPut in the worker: look up the keys, and later commit the missing.    *)
WorkerAltScan ==
    /\ worker = "altScan"
    /\ job' = [job EXCEPT !.add = job.keys \ store[alt]]
    /\ worker' = "altCommit"
    /\ UNCHANGED <<durable, active, sizes, resetInProgress, resetter, sem, closing, bounds, history>>

(* altSize.Add and Commit; an error, before or after Add, only refreshes    *)
(* altSize.                                                                 *)
WorkerAltCommit ==
    /\ worker = "altCommit"
    /\ \E ok \in Outcomes : \E C \in Applied(job.add, ok) :
          /\ store' = [store EXCEPT ![alt] = @ \cup C]
          /\ count(ok)
          /\ IF ok THEN altSize' = altSize + Cardinality(job.add)
                   ELSE \E added \in {0, Cardinality(job.add)} :
                           altSize' \in refreshSize(store'[alt], altSize + added)
    /\ worker' = "put"
    /\ UNCHANGED <<savedSize, marker, active, size, resetInProgress, job, resetter, sem, closing,
                   calls, history>>

(* keystore.put on the active namespace, the response, and refreshSize if   *)
(* it failed.                                                               *)
Put ==
    /\ worker = "put"
    /\ \E ok \in Outcomes : \E C \in Applied(job.keys \ store[active], ok) :
          /\ store' = [store EXCEPT ![active] = @ \cup C]
          /\ count(ok)
          /\ IF ok THEN size' = size + Cardinality(job.keys \ store[active])
                   ELSE size' \in refreshSize(store'[active], size)
          /\ since' = IF ok /\ resetInProgress THEN since \cup job.keys ELSE since
    /\ worker' = "idle" /\ job' = NoJob
    /\ UNCHANGED <<savedSize, marker, active, altSize, resetInProgress, resetter, sem, closing,
                   calls, incoming>>

Delete(S) ==
    /\ worker = "idle"
    /\ \E ok \in Outcomes : \E C \in Applied(S \cap store[active], ok) :
          /\ store' = [store EXCEPT ![active] = @ \ C]
          /\ count(ok)
          /\ IF ok THEN size' = size - Cardinality(S \cap store[active])
                   ELSE size' \in refreshSize(store'[active], size)
    /\ UNCHANGED <<savedSize, marker, active, altSize, resetInProgress, worker, job, resetter, sem,
                   closing, calls, history>>

Empty ==
    /\ worker = "idle"
    /\ \E ok \in Outcomes :
          /\ empty(active, ok) /\ count(ok)
          /\ IF ok THEN size' = 0 ELSE size' \in refreshSize(store'[active], size)
    /\ UNCHANGED <<marker, active, altSize, resetInProgress, worker, job, resetter, sem, closing,
                   calls, history>>

-----------------------------------------------------------------------------
(* handleResetOp.  The response channel is unbuffered: the worker stays in  *)
(* respondStart until the caller of ResetCids receives.                     *)

Start(r) ==
    /\ worker = "idle" /\ rpc[r] = "callStart"
    /\ rpc' = [rpc EXCEPT ![r] = "waitStart"]
    /\ worker' = "respondStart"
    /\ \/ /\ resetInProgress
          /\ job' = [NoJob EXCEPT !.caller = {r}, !.err = TRUE]
          /\ UNCHANGED <<store, savedSize, altSize, resetInProgress, failures, history>>
       \/ /\ ~resetInProgress
          /\ altSize' = 0
          /\ \E ok \in Outcomes :
                /\ empty(alt, ok) /\ count(ok)
                /\ resetInProgress' = ok
                /\ job' = [NoJob EXCEPT !.caller = {r}, !.err = ~ok]
                /\ incoming' = IF ok THEN feed[r] ELSE incoming
                /\ since' = IF ok THEN {} ELSE since
    /\ UNCHANGED <<marker, active, size, feed, buf, toAdd, final, success, sem, closing, calls>>

(* op.response <- err meets err := <-opsChan.                               *)
StartReply(r) ==
    /\ worker = "respondStart" /\ job.caller = {r} /\ rpc[r] = "waitStart"
    /\ rpc' = [rpc EXCEPT ![r] = IF job.err THEN "idle" ELSE "reading"]
    /\ worker' = "idle" /\ job' = NoJob
    /\ UNCHANGED <<durable, active, sizes, resetInProgress, feed, buf, toAdd, final, success, sem,
                   closing, bounds, history>>

(* The cleanup operation up to the swap, which only this goroutine sees.    *)
Cleanup(r) ==
    /\ worker = "idle" /\ rpc[r] = "cleanup"
    /\ rpc' = [rpc EXCEPT ![r] = "waitCleanup"]
    /\ job' = [NoJob EXCEPT !.caller = {r}]
    /\ IF success[r]
       THEN active' = alt /\ size' = altSize /\ worker' = "marker"
       ELSE worker' = "emptyAlt" /\ UNCHANGED <<active, size>>
    /\ UNCHANGED <<durable, altSize, resetInProgress, feed, buf, toAdd, final, success, sem, closing,
                   bounds, history>>

(* The marker is written; an error is only logged.                          *)
PersistMarker ==
    /\ worker = "marker"
    /\ \E ok \in Outcomes : count(ok) /\ marker' = IF ok THEN active ELSE marker
    /\ worker' = "emptyAlt"
    /\ UNCHANGED <<store, savedSize, active, sizes, resetInProgress, job, resetter, sem, closing,
                   calls, history>>

(* The unused namespace is emptied and ResetCids, which waits without       *)
(* regard to its context, returns.                                          *)
EmptyAlt ==
    /\ worker = "emptyAlt"
    /\ resetInProgress' = FALSE
    /\ \E ok \in Outcomes : empty(alt, ok) /\ count(ok)
    /\ rpc' = [r \in Resetters |-> IF r \in job.caller THEN "idle" ELSE rpc[r]]
    /\ worker' = "idle" /\ job' = NoJob
    /\ UNCHANGED <<marker, active, sizes, feed, buf, toAdd, final, success, sem, closing, calls, history>>

WorkerExits ==
    /\ worker = "idle" /\ closing # "open"
    /\ worker' = "exited"
    /\ UNCHANGED <<durable, active, sizes, resetInProgress, job, resetter, sem, closing, bounds, history>>

-----------------------------------------------------------------------------
(* ResetCids                                                                *)

resetStep(r, where) == rpc' = [rpc EXCEPT ![r] = where]

notResetter == <<durable, active, sizes, resetInProgress, worker, job, closing, bounds, history>>

ResetCids(r, K) ==
    /\ rpc[r] = "idle" /\ resets < MaxResets
    /\ resetStep(r, "callStart")
    /\ feed' = [feed EXCEPT ![r] = K] /\ buf' = [buf EXCEPT ![r] = {}]
    /\ toAdd' = [toAdd EXCEPT ![r] = {}]
    /\ final' = [final EXCEPT ![r] = FALSE] /\ success' = [success EXCEPT ![r] = FALSE]
    /\ resets' = resets + 1
    /\ UNCHANGED <<durable, active, sizes, resetInProgress, worker, job, sem, closing, restarts, failures,
                   history>>

(* The call ends before the worker has taken the start operation.           *)
StartAborted(r) ==
    /\ rpc[r] = "callStart" /\ (Cancels \/ worker = "exited")
    /\ resetStep(r, "idle")
    /\ UNCHANGED <<notResetter, feed, buf, toAdd, final, success, sem>>

(* The context ends while the worker handles the start operation.           *)
StartAbandoned(r) ==
    /\ rpc[r] = "waitStart" /\ Cancels
    /\ resetStep(r, "idle")
    /\ UNCHANGED <<notResetter, feed, buf, toAdd, final, success, sem>>

(* A key arrives; a full batch is written.                                  *)
ReadKey(r) ==
    /\ rpc[r] = "reading"
    /\ \E k \in feed[r] :
          /\ feed' = [feed EXCEPT ![r] = @ \ {k}]
          /\ buf' = [buf EXCEPT ![r] = @ \cup {k}]
    /\ resetStep(r, IF Cardinality(buf'[r]) >= BatchSize THEN "tryAltPut" ELSE "reading")
    /\ UNCHANGED <<notResetter, toAdd, final, success, sem>>

(* keysChan is closed: the last batch, possibly empty, is written.          *)
KeysChanClosed(r) ==
    /\ rpc[r] = "reading" /\ feed[r] = {}
    /\ final' = [final EXCEPT ![r] = TRUE]
    /\ resetStep(r, "tryAltPut")
    /\ UNCHANGED <<notResetter, feed, buf, toAdd, success, sem>>

ReadAborted(r) ==
    /\ rpc[r] = "reading" /\ (Cancels \/ worker = "exited")
    /\ resetStep(r, "cleanup")
    /\ UNCHANGED <<notResetter, feed, buf, toAdd, final, success, sem>>

(* Mutant: the batch is written whether or not Close has the token.         *)
TryAltPutNoToken(r) ==
    /\ rpc[r] = "tryAltPut"
    /\ sem' = FALSE
    /\ toAdd' = [toAdd EXCEPT ![r] = buf[r] \ store[alt]]
    /\ resetStep(r, "altAdd")
    /\ UNCHANGED <<notResetter, feed, buf, final, success>>

(* tryAltPut takes the token, or fails, and altPut looks its keys up.       *)
TryAltPut(r) ==
    /\ rpc[r] = "tryAltPut"
    /\ \/ /\ sem
          /\ sem' = FALSE
          /\ toAdd' = [toAdd EXCEPT ![r] = buf[r] \ store[alt]]
          /\ resetStep(r, "altAdd")
       \/ /\ ~sem
          /\ resetStep(r, "cleanup")
          /\ UNCHANGED <<sem, toAdd>>
    /\ UNCHANGED <<notResetter, feed, buf, final, success>>

AltAdd(r) ==
    /\ rpc[r] = "altAdd"
    /\ altSize' = altSize + Cardinality(toAdd[r])
    /\ resetStep(r, "altCommit")
    /\ UNCHANGED <<durable, active, size, resetInProgress, worker, job, feed, buf, toAdd, final,
                   success, sem, closing, bounds, history>>

(* Mutant: a batch that failed counts as written.                           *)
AltCommitIgnoresError(r) ==
    /\ rpc[r] = "altCommit"
    /\ \E ok \in Outcomes : \E C \in Applied(toAdd[r], ok) :
          /\ store' = [store EXCEPT ![alt] = @ \cup C]
          /\ count(ok) /\ success' = [success EXCEPT ![r] = final[r]]
          /\ resetStep(r, IF ~final[r] THEN "reading" ELSE "cleanup")
    /\ buf' = [buf EXCEPT ![r] = {}]
    /\ sem' = TRUE
    /\ UNCHANGED <<savedSize, marker, active, sizes, resetInProgress, worker, job, feed, toAdd, final,
                   closing, calls, history>>

(* Mutant: the token is not returned.                                       *)
AltCommitKeepsToken(r) ==
    /\ rpc[r] = "altCommit"
    /\ \E ok \in Outcomes : \E C \in Applied(toAdd[r], ok) :
          /\ store' = [store EXCEPT ![alt] = @ \cup C]
          /\ count(ok) /\ success' = [success EXCEPT ![r] = ok /\ final[r]]
          /\ resetStep(r, IF ok /\ ~final[r] THEN "reading" ELSE "cleanup")
    /\ buf' = [buf EXCEPT ![r] = {}]
    /\ UNCHANGED <<savedSize, marker, active, sizes, sem, resetInProgress, worker, job, feed, toAdd, final,
                   closing, calls, history>>

(* The commit, the token's return, and on to the next batch or the cleanup. *)
AltCommit(r) ==
    /\ rpc[r] = "altCommit"
    /\ \E ok \in Outcomes : \E C \in Applied(toAdd[r], ok) :
          /\ store' = [store EXCEPT ![alt] = @ \cup C]
          /\ count(ok) /\ success' = [success EXCEPT ![r] = ok /\ final[r]]
          /\ resetStep(r, IF ok /\ ~final[r] THEN "reading" ELSE "cleanup")
    /\ buf' = [buf EXCEPT ![r] = {}]
    /\ sem' = TRUE
    /\ UNCHANGED <<savedSize, marker, active, sizes, resetInProgress, worker, job, feed, toAdd, final,
                   closing, calls, history>>

(* Mutant: only a reset that failed looks at done.                          *)
CleanupSkippedOnFailure(r) ==
    /\ rpc[r] = "cleanup" /\ worker = "exited" /\ ~success[r]
    /\ resetStep(r, "idle")
    /\ UNCHANGED <<notResetter, feed, buf, toAdd, final, success, sem>>

(* The worker is gone: the cleanup is skipped and ResetCids returns.        *)
CleanupSkipped(r) ==
    /\ rpc[r] = "cleanup" /\ worker = "exited"
    /\ resetStep(r, "idle")
    /\ UNCHANGED <<notResetter, feed, buf, toAdd, final, success, sem>>

-----------------------------------------------------------------------------
(* Close, called once; and a restart after it, or after a crash.            *)

CloseCalled ==
    /\ closing = "open"
    /\ closing' = "closing"
    /\ UNCHANGED <<durable, active, sizes, resetInProgress, worker, job, resetter, sem, bounds, history>>

(* <-s.done and then <-s.altPutSem                                          *)
CloseTakesToken ==
    /\ closing = "closing" /\ worker = "exited" /\ sem
    /\ sem' = FALSE
    /\ closing' = "persist"
    /\ UNCHANGED <<durable, active, sizes, resetInProgress, worker, job, resetter, bounds, history>>

PersistSize ==
    /\ closing = "persist"
    /\ \E ok \in Outcomes :
          count(ok) /\ savedSize' = IF ok THEN [savedSize EXCEPT ![active] = size] ELSE savedSize
    /\ closing' = "closed"
    /\ UNCHANGED <<store, marker, active, sizes, resetInProgress, worker, job, resetter, sem, calls, history>>

(* NewResettableKeystore on the datastore that the last process left.       *)
Restart ==
    /\ restarts < MaxRestarts
    /\ restarts' = restarts + 1
    /\ active' = marker
    /\ size' = 0 /\ altSize' = 0 /\ resetInProgress' = FALSE /\ sem' = TRUE
    /\ worker' = "load" /\ job' = NoJob /\ closing' = "open"
    /\ rpc' = [r \in Resetters |-> "idle"]
    /\ success' = [r \in Resetters |-> FALSE]
    /\ UNCHANGED <<durable, feed, buf, toAdd, final, resets, failures, history>>

-----------------------------------------------------------------------------
Worker == \/ LoadSize \/ WorkerAltScan \/ WorkerAltCommit \/ Put \/ PersistMarker \/ EmptyAlt

Client == \/ Empty \/ CloseCalled
          \/ \E S \in SUBSET PutKeys \ {{}} : TakePut(S) \/ Delete(S)
          \/ \E r \in Resetters, K \in SUBSET ResetKeys : ResetCids(r, K)

Reset(r) == \/ StartReply(r) \/ ReadKey(r) \/ KeysChanClosed(r) \/ TryAltPut(r) \/ AltAdd(r)
            \/ AltCommit(r) \/ CleanupSkipped(r)

Abort(r) == StartAborted(r) \/ StartAbandoned(r) \/ ReadAborted(r)

CloseStep == CloseTakesToken \/ PersistSize

Next == \/ Worker \/ WorkerExits \/ Client \/ CloseStep \/ Restart
        \/ \E r \in Resetters : Start(r) \/ Cleanup(r) \/ Reset(r) \/ Abort(r)

Spec == Init /\ [][Next]_vars

(* Goroutines run and keysChan delivers and closes.  The worker's select    *)
(* picks at random among the cases that are ready, so one that is ready     *)
(* again and again is picked: strong fairness.                              *)
FairSpec ==
    /\ Spec
    /\ WF_vars(Worker) /\ WF_vars(CloseStep) /\ SF_vars(WorkerExits)
    /\ \A r \in Resetters : /\ WF_vars(Reset(r)) /\ SF_vars(Start(r)) /\ SF_vars(Cleanup(r))
                            /\ WF_vars(worker = "exited" /\ (StartAborted(r) \/ ReadAborted(r)))

-----------------------------------------------------------------------------
(* The durable keys are those of the namespace the marker names; a reset    *)
(* is over when the marker is written or the alternate is to be emptied.    *)
KS == INSTANCE KeystoreSpec
      WITH keys <- store[marker], resetting <- resetInProgress /\ worker # "emptyAlt",
           replacement <- incoming \cup since

(* ResetCids "atomically replaces all stored keys"                          *)
(* (resettable_keystore.go:339): the durable keys implement KeystoreSpec,   *)
(* with a crash possible at every step.                                     *)
ImplementsKeystoreSpec == KS!Spec

(* "Once all reset keys are written, the datastores are atomically swapped" *)
(* (resettable_keystore.go:51): the namespace that becomes active holds     *)
(* every key of the reset, whatever failed before, and without failures     *)
(* nothing but them and the keys put meanwhile.                             *)
SwapInstallsReset ==
    [][active' # active /\ restarts' = restarts =>
          /\ incoming \subseteq store[active']
          /\ failures = 0 => store[active'] = incoming \cup since]_vars

(* "only one tryAltPut executes at any given time"                          *)
(* (resettable_keystore.go:269): no two calls of ResetCids are past their   *)
(* start at once.                                                           *)
OneReset ==
    \A r, q \in Resetters :
        {rpc[r], rpc[q]} \cap {"idle", "callStart", "waitStart"} = {} => r = q

(* Once Close has returned nobody writes to the datastore, which may be     *)
(* closed by then, not even a ResetCids that Close overtook.                *)
NoWriteAfterClose == [][closing = "closed" /\ closing' = "closed" => UNCHANGED durable]_vars

(* "Size returns the number of keys currently stored in the Keystore."      *)
(* (keystore.go:537): without datastore failures, and if no key is put by   *)
(* a client and a reset at the same time, the size is exact across resets,  *)
(* Close, crashes and restarts.                                             *)
SizeExact ==
    worker \in {"idle", "exited"} /\ failures = 0 /\ PutKeys \cap ResetKeys = {}
    => size = Cardinality(store[active])

(* Close returns, unless the machine crashes first.                         *)
CloseReturns == closing = "closing" ~> closing # "closing"

(* A reset returns.                                                         *)
ResetReturns == \A r \in Resetters : rpc[r] = "callStart" ~> rpc[r] = "idle"

(* "The operation can be cancelled via context, which will clean up partial *)
(* state." (resettable_keystore.go:351): after a reset has returned the     *)
(* keystore leaves the reset.                                               *)
CancelledResetIsCleanedUp ==
    (\A r \in Resetters : rpc[r] = "idle") ~> (~resetInProgress \/ closing # "open")
=============================================================================
