--------------------------- MODULE KeystoreProofs ---------------------------
(***************************************************************************)
(* Theorems about ResettableKeystore for any keys, callers and bounds: its *)
(* type, one reset at a time, silence after Close, what a swap installs,   *)
(* the sizes, and that it implements KeystoreSpec.                         *)
(***************************************************************************)
EXTENDS ResettableKeystore, TLAPS, FiniteSetTheorems

(* A set of keys has a cardinality.                                         *)
LEMMA CardinalityNat ==
    ASSUME NEW S, S \subseteq Keys
    PROVE  Cardinality(S) \in Nat
BY KeystoreAssumption, FS_Subset, FS_CardinalityType

(* The alternate namespace is the other one.                                *)
LEMMA AltNamespace == ASSUME TypeOK PROVE alt \in Namespaces /\ alt # active
BY DEF TypeOK, alt, Namespaces

(* The operations the worker serves.                                        *)
JobType == [keys : SUBSET Keys, add : SUBSET Keys, caller : SUBSET Resetters, err : BOOLEAN]

(* The jobs the worker sets itself.                                         *)
LEMMA Jobs ==
    ASSUME NEW S \in SUBSET Keys, NEW r \in Resetters, NEW b \in BOOLEAN
    PROVE  /\ NoJob \in JobType
           /\ [NoJob EXCEPT !.keys = S] \in JobType
           /\ [NoJob EXCEPT !.caller = {r}] \in JobType
           /\ [NoJob EXCEPT !.caller = {r}, !.err = b] \in JobType
BY Zenon DEF NoJob, JobType

(* The empty job is a job.                                                  *)
LEMMA NoJobType == NoJob \in JobType
BY Zenon DEF NoJob, JobType

(* The initial state has its type.                                          *)
LEMMA TypeInit == Init => TypeOK
<1> SUFFICES ASSUME Init PROVE TypeOK
  BY Zenon
<1>1. store \in [Namespaces -> SUBSET Keys] /\ savedSize \in [Namespaces -> Int]
  BY DEF Init
<1>2. job \in JobType
  BY Zenon, NoJobType DEF Init
<1>3. /\ rpc \in [Resetters -> ResetState]
      /\ feed \in [Resetters -> SUBSET Keys] /\ buf \in [Resetters -> SUBSET Keys]
      /\ toAdd \in [Resetters -> SUBSET Keys]
      /\ final \in [Resetters -> BOOLEAN] /\ success \in [Resetters -> BOOLEAN]
  BY DEF Init, ResetState
<1>4. /\ marker \in Namespaces /\ active \in Namespaces /\ size \in Int /\ altSize \in Int
      /\ worker \in WorkerState /\ closing \in {"open", "closing", "persist", "closed"}
      /\ restarts \in Nat /\ resets \in Nat /\ failures \in Nat
      /\ incoming \subseteq Keys /\ since \subseteq Keys
  BY DEF Init, Namespaces, WorkerState
<1>5. resetInProgress \in BOOLEAN /\ sem \in BOOLEAN
  BY Zenon DEF Init
<1> QED BY <1>1, <1>2, <1>3, <1>4, <1>5 DEF TypeOK, JobType

(* empty leaves namespaces of keys, and sizes.                              *)
LEMMA EmptyType ==
    ASSUME TypeOK, NEW n \in Namespaces, NEW ok \in BOOLEAN, empty(n, ok)
    PROVE  store' \in [Namespaces -> SUBSET Keys] /\ savedSize' \in [Namespaces -> Int]
<1>1. store' \in [Namespaces -> SUBSET Keys]
  BY DEF TypeOK, empty
<1>2. savedSize' \in [Namespaces -> Int]
  BY DEF TypeOK, empty
<1> QED BY <1>1, <1>2

(* The outcome of a datastore operation, counted.                           *)
LEMMA CountType ==
    ASSUME TypeOK, NEW ok \in Outcomes, count(ok)
    PROVE  ok \in BOOLEAN /\ failures' \in Nat
<1>1. ok \in BOOLEAN
  BY Zenon DEF Outcomes
<1>2. failures' \in {failures, failures + 1}
  BY DEF count
<1> QED BY <1>1, <1>2 DEF TypeOK

(* Every step preserves the type.                                           *)
LEMMA TypeStep == TypeOK /\ [Next]_vars => TypeOK'
<1> SUFFICES ASSUME TypeOK, [Next]_vars PROVE TypeOK'
  OBVIOUS
<1> USE AltNamespace
<1>1. CASE LoadSize
  <2>1. PICK ok \in Outcomes :
           /\ count(ok)
           /\ size' \in {Cardinality(store[active]), savedSize[active], 0}
           /\ savedSize' \in {savedSize, [savedSize EXCEPT ![active] = -1]}
    BY Zenon, <1>1 DEF LoadSize
  <2>2. Cardinality(store[active]) \in Int /\ savedSize[active] \in Int
    BY CardinalityNat DEF TypeOK
  <2>3. size' \in Int /\ savedSize' \in [Namespaces -> Int]
    BY <2>1, <2>2 DEF TypeOK
  <2> QED BY <1>1, <2>1, <2>3, CountType DEF LoadSize, TypeOK, WorkerState, resetter, calls, history
<1>2. CASE \E S \in SUBSET PutKeys \ {{}} : TakePut(S)
  <2>1. PICK S \in SUBSET PutKeys \ {{}} : TakePut(S)
    BY <1>2
  <2>2. job' \in JobType
    BY Zenon, <2>1 DEF TakePut, JobType, NoJob, Keys
  <2>3. worker' \in WorkerState
    BY Zenon, <2>1 DEF TakePut, WorkerState
  <2> QED BY <2>1, <2>2, <2>3 DEF TakePut, TypeOK, JobType, durable, sizes, resetter, bounds, history
<1>3. CASE WorkerAltScan
  BY ZenonT(60), <1>3 DEF WorkerAltScan, TypeOK, WorkerState, durable, sizes, resetter, bounds, history
<1>4. CASE WorkerAltCommit
  <2>1. PICK ok \in Outcomes, C \in SUBSET (job.add) :
           /\ store' = [store EXCEPT ![alt] = @ \cup C]
           /\ count(ok)
           /\ \/ altSize' = altSize + Cardinality(job.add)
              \/ \E added \in {0, Cardinality(job.add)} :
                     altSize' \in {Cardinality(store'[alt]), altSize + added}
    BY Zenon, <1>4 DEF WorkerAltCommit, refreshSize, Applied
  <2>2. job.add \subseteq Keys /\ C \subseteq Keys
    BY Zenon DEF TypeOK
  <2>3. store' \in [Namespaces -> SUBSET Keys]
    BY Zenon, <2>1, <2>2 DEF TypeOK
  <2>4. Cardinality(job.add) \in Nat /\ Cardinality(store'[alt]) \in Nat
    BY Zenon, <2>2, <2>3, CardinalityNat
  <2>5. altSize' \in Int
    BY <2>1, <2>4 DEF TypeOK
  <2> QED BY <1>4, <2>1, <2>3, <2>5, CountType
      DEF WorkerAltCommit, TypeOK, WorkerState, resetter, calls, history
<1>5. CASE Put
  <2>1. PICK ok \in Outcomes, C \in SUBSET (job.keys \ store[active]) :
           /\ store' = [store EXCEPT ![active] = @ \cup C]
           /\ count(ok)
           /\ size' \in {size + Cardinality(job.keys \ store[active]), Cardinality(store'[active]), size}
           /\ since' \in {since, since \cup job.keys}
    BY Zenon, <1>5 DEF Put, refreshSize, Applied
  <2>2. job.keys \subseteq Keys /\ C \subseteq Keys
    BY Zenon DEF TypeOK
  <2>3. store' \in [Namespaces -> SUBSET Keys] /\ active \in Namespaces
    BY Zenon, <2>1, <2>2 DEF TypeOK
  <2>4. Cardinality(job.keys \ store[active]) \in Nat /\ Cardinality(store'[active]) \in Nat
    BY Zenon, <2>2, <2>3, CardinalityNat
  <2>5. size' \in Int
    BY <2>1, <2>4 DEF TypeOK
  <2> QED BY <1>5, <2>1, <2>2, <2>3, <2>5, CountType
      DEF Put, TypeOK, NoJob, WorkerState, resetter, calls
<1>6. CASE \E S \in SUBSET PutKeys \ {{}} : Delete(S)
  <2>1. PICK S \in SUBSET PutKeys \ {{}} : Delete(S)
    BY <1>6
  <2>2. PICK ok \in Outcomes, C \in SUBSET (S \cap store[active]) :
           /\ store' = [store EXCEPT ![active] = @ \ C]
           /\ count(ok)
           /\ size' \in {size - Cardinality(S \cap store[active]), Cardinality(store'[active]), size}
    BY Zenon, <2>1 DEF Delete, refreshSize, Applied
  <2>3. store' \in [Namespaces -> SUBSET Keys] /\ active \in Namespaces
    BY Zenon, <2>2 DEF TypeOK
  <2>4. Cardinality(S \cap store[active]) \in Nat /\ Cardinality(store'[active]) \in Nat
    BY Zenon, <2>3, CardinalityNat DEF Keys
  <2>5. size' \in Int
    BY <2>2, <2>4 DEF TypeOK
  <2> QED BY <2>1, <2>2, <2>3, <2>5, CountType
      DEF Delete, TypeOK, WorkerState, resetter, calls, history
<1>7. CASE Empty
  <2>1. PICK ok \in Outcomes :
           /\ empty(active, ok) /\ count(ok)
           /\ size' \in {0, Cardinality(store'[active]), size}
    BY Zenon, <1>7 DEF Empty, refreshSize
  <2>2. active \in Namespaces
    BY Zenon DEF TypeOK
  <2>3. store' \in [Namespaces -> SUBSET Keys] /\ savedSize' \in [Namespaces -> Int]
    BY Zenon, <2>1, <2>2, CountType, EmptyType
  <2>4. Cardinality(store'[active]) \in Nat
    BY Zenon, <2>2, <2>3, CardinalityNat
  <2>5. size' \in Int
    BY <2>1, <2>4 DEF TypeOK
  <2> QED BY <1>7, <2>1, <2>3, <2>5, CountType
      DEF Empty, TypeOK, WorkerState, resetter, calls, history
<1>8. CASE \E r \in Resetters : Start(r)
  <2>1. PICK r \in Resetters : Start(r)
    BY <1>8
  <2>2. CASE resetInProgress
    <3>1. job' = [NoJob EXCEPT !.caller = {r}, !.err = TRUE]
      BY <2>1, <2>2 DEF Start
    <3>2. job' \in JobType
      BY Zenon, <3>1, Jobs
    <3> QED BY <2>1, <2>2, <3>2 DEF Start, TypeOK, JobType, WorkerState, ResetState, calls, history
  <2>3. CASE ~resetInProgress
    <3>1. PICK ok \in Outcomes :
             /\ empty(alt, ok) /\ count(ok)
             /\ resetInProgress' = ok
             /\ job' = [NoJob EXCEPT !.caller = {r}, !.err = ~ok]
             /\ incoming' \in {feed[r], incoming}
             /\ since' \in {{}, since}
      BY Zenon, <2>1, <2>3 DEF Start
    <3>2. store' \in [Namespaces -> SUBSET Keys] /\ savedSize' \in [Namespaces -> Int]
      BY <3>1, CountType, EmptyType
    <3>3. altSize' = 0
      BY Zenon, <2>1, <2>3 DEF Start
    <3>4. ok \in BOOLEAN /\ failures' \in Nat
      BY <3>1, CountType
    <3>5. job' \in JobType
      BY Zenon, <3>1, <3>4, Jobs
    <3>6. incoming' \subseteq Keys /\ since' \subseteq Keys
      BY Zenon, <3>1 DEF TypeOK
    <3>7. worker' \in WorkerState /\ rpc' \in [Resetters -> ResetState]
      BY Zenon, <2>1 DEF Start, TypeOK, WorkerState, ResetState
    <3>8. resetInProgress' \in BOOLEAN
      BY <3>1, <3>4
    <3>9. UNCHANGED <<marker, active, size, feed, buf, toAdd, final, success, sem, closing, restarts, resets>>
      BY Zenon, <2>1 DEF Start, calls
    <3> QED BY <3>2, <3>3, <3>4, <3>5, <3>6, <3>7, <3>8, <3>9 DEF TypeOK, JobType
  <2> QED BY <2>2, <2>3
<1>9. CASE \E r \in Resetters : Cleanup(r)
  <2>1. PICK r \in Resetters : Cleanup(r)
    BY <1>9
  <2>2. job' \in JobType
    BY Zenon, <2>1, Jobs DEF Cleanup
  <2>3. active' \in Namespaces /\ size' \in Int /\ worker' \in WorkerState
    BY Zenon, <2>1 DEF Cleanup, TypeOK, WorkerState
  <2> QED BY <2>1, <2>2, <2>3 DEF Cleanup, TypeOK, JobType, ResetState, durable, bounds, history
<1>10. CASE PersistMarker
  <2>1. PICK ok \in Outcomes : count(ok) /\ marker' \in {active, marker}
    BY Zenon, <1>10 DEF PersistMarker
  <2> QED BY <1>10, <2>1, CountType
      DEF PersistMarker, TypeOK, WorkerState, sizes, resetter, calls, history
<1>11. CASE EmptyAlt
  <2>1. PICK ok \in Outcomes : empty(alt, ok) /\ count(ok)
    BY Zenon, <1>11 DEF EmptyAlt
  <2>2. store' \in [Namespaces -> SUBSET Keys] /\ savedSize' \in [Namespaces -> Int]
    BY <2>1, CountType, EmptyType
  <2> QED BY ZenonT(60), <1>11, <2>1, <2>2, CountType
      DEF EmptyAlt, TypeOK, NoJob, WorkerState, ResetState, sizes, calls, history
<1>12. CASE \E r \in Resetters, K \in SUBSET ResetKeys : ResetCids(r, K)
  BY <1>12 DEF ResetCids, resetStep, TypeOK, Keys, ResetState, durable, sizes, history
<1>13. CASE \E r \in Resetters : StartReply(r)
  BY <1>13 DEF StartReply, TypeOK, NoJob, WorkerState, ResetState, durable, sizes, bounds, history
<1>14. CASE \E r \in Resetters : ReadKey(r)
  <2>1. PICK r \in Resetters : ReadKey(r)
    BY <1>14
  <2>2. PICK k \in feed[r] : /\ feed' = [feed EXCEPT ![r] = @ \ {k}]
                            /\ buf' = [buf EXCEPT ![r] = @ \cup {k}]
    BY Zenon, <2>1 DEF ReadKey
  <2>3. feed' \in [Resetters -> SUBSET Keys] /\ buf' \in [Resetters -> SUBSET Keys]
    BY <2>2 DEF TypeOK
  <2> QED BY <2>1, <2>3 DEF ReadKey, resetStep, notResetter, TypeOK, ResetState, durable, sizes, bounds,
                            history
<1>15. CASE \E r \in Resetters : AltCommit(r)
  <2>1. PICK r \in Resetters : AltCommit(r)
    BY <1>15
  <2>2. PICK ok \in Outcomes, C \in SUBSET (toAdd[r]) :
           /\ store' = [store EXCEPT ![alt] = @ \cup C]
           /\ count(ok) /\ success' = [success EXCEPT ![r] = ok /\ final[r]]
           /\ rpc' = [rpc EXCEPT ![r] = IF ok /\ ~final[r] THEN "reading" ELSE "cleanup"]
    BY Zenon, <2>1 DEF AltCommit, resetStep, Applied
  <2>3. C \subseteq Keys
    BY Zenon DEF TypeOK
  <2>4. store' \in [Namespaces -> SUBSET Keys] /\ success' \in [Resetters -> BOOLEAN]
    BY Zenon, <2>2, <2>3, CountType DEF TypeOK
  <2> QED BY <2>1, <2>2, <2>4, CountType DEF AltCommit, TypeOK, ResetState, sizes, calls, history
<1>16. CASE \E r \in Resetters : AltAdd(r)
  <2>1. PICK r \in Resetters : AltAdd(r)
    BY <1>16
  <2>2. Cardinality(toAdd[r]) \in Nat
    BY Zenon, CardinalityNat DEF TypeOK
  <2> QED BY <2>1, <2>2 DEF AltAdd, resetStep, TypeOK, ResetState, durable, bounds, history
<1>17. CASE \E r \in Resetters : \/ KeysChanClosed(r) \/ TryAltPut(r) \/ CleanupSkipped(r) \/ Abort(r)
  <2>1. PICK r \in Resetters : \/ KeysChanClosed(r) \/ TryAltPut(r) \/ CleanupSkipped(r) \/ Abort(r)
    BY <1>17
  <2>2. UNCHANGED <<notResetter, feed, buf, success>>
    BY Zenon, <2>1 DEF KeysChanClosed, TryAltPut, CleanupSkipped, Abort, StartAborted, StartAbandoned, ReadAborted
  <2>3. rpc' \in {[rpc EXCEPT ![r] = "tryAltPut"], [rpc EXCEPT ![r] = "altAdd"],
                  [rpc EXCEPT ![r] = "cleanup"], [rpc EXCEPT ![r] = "idle"]}
    BY Zenon, <2>1 DEF KeysChanClosed, TryAltPut, CleanupSkipped, Abort, StartAborted, StartAbandoned,
                ReadAborted, resetStep
  <2>4. /\ toAdd' \in {toAdd, [toAdd EXCEPT ![r] = buf[r] \ store[alt]]}
        /\ final' \in {final, [final EXCEPT ![r] = TRUE]}
        /\ sem' \in {sem, FALSE}
    BY Zenon, <2>1 DEF KeysChanClosed, TryAltPut, CleanupSkipped, Abort, StartAborted, StartAbandoned, ReadAborted
  <2>5. rpc' \in [Resetters -> ResetState]
    BY Zenon, <2>3 DEF TypeOK, ResetState
  <2>6. toAdd' \in [Resetters -> SUBSET Keys] /\ final' \in [Resetters -> BOOLEAN] /\ sem' \in BOOLEAN
    BY ZenonT(60), <2>4 DEF TypeOK
  <2> QED BY <2>2, <2>5, <2>6 DEF notResetter, TypeOK, durable, sizes, bounds, history
<1>18. CASE WorkerExits \/ CloseCalled \/ CloseTakesToken
  BY ZenonT(60), <1>18 DEF WorkerExits, CloseCalled, CloseTakesToken, TypeOK, WorkerState, durable, sizes, resetter,
               bounds, history
<1>19. CASE PersistSize
  <2>1. PICK ok \in Outcomes :
           count(ok) /\ savedSize' \in {[savedSize EXCEPT ![active] = size], savedSize}
    BY Zenon, <1>19 DEF PersistSize
  <2>2. savedSize' \in [Namespaces -> Int]
    BY Zenon, <2>1 DEF TypeOK
  <2> QED BY <1>19, <2>1, <2>2, CountType DEF PersistSize, TypeOK, sizes, resetter, calls, history
<1>20. CASE Restart
  <2>1. job' \in JobType
    BY Zenon, <1>20, NoJobType DEF Restart
  <2>2. rpc' \in [Resetters -> ResetState] /\ success' \in [Resetters -> BOOLEAN]
    BY Zenon, <1>20 DEF Restart, ResetState
  <2>3. /\ active' \in Namespaces /\ size' \in Int /\ altSize' \in Int
        /\ worker' \in WorkerState /\ closing' \in {"open", "closing", "persist", "closed"}
        /\ restarts' \in Nat
    BY <1>20 DEF Restart, TypeOK, WorkerState
  <2>4. UNCHANGED <<store, savedSize, marker, feed, buf, toAdd, final, resets, failures, incoming, since>>
    BY Zenon, <1>20 DEF Restart, durable, history
  <2>5. resetInProgress' \in BOOLEAN /\ sem' \in BOOLEAN
    BY <1>20, ZenonT(60) DEF Restart
  <2> QED BY <2>1, <2>2, <2>3, <2>4, <2>5 DEF TypeOK, JobType
<1>21. CASE UNCHANGED vars
  BY Zenon, <1>21 DEF vars, TypeOK, durable, sizes, resetter, bounds, history
<1> QED
  BY Zenon, <1>1, <1>2, <1>3, <1>4, <1>5, <1>6, <1>7, <1>8, <1>9, <1>10, <1>11, <1>12, <1>13, <1>14, <1>15,
     <1>16, <1>17, <1>18, <1>19, <1>20, <1>21
  DEF Next, Worker, Client, Reset, Abort, CloseStep

(* Every variable of the keystore keeps its type, in every instance of      *)
(* keys, callers and bounds.                                                *)
THEOREM KeystoreTypeCorrect == Spec => []TypeOK
BY TypeInit, TypeStep, PTL DEF Spec

-----------------------------------------------------------------------------
(* Control.                                                                 *)

(* Past its start: between the worker's answer and the return of ResetCids. *)
Past(r) == rpc[r] \notin {"idle", "callStart", "waitStart"}

(* Who may be where: a reset past its start is the only one, and the        *)
(* keystore is in it; the token is out while it writes; Close holds the     *)
(* token and has seen the worker exit before it goes on.                    *)
Control ==
    /\ \A r \in Resetters : Past(r) => resetInProgress
    /\ \A r, q \in Resetters : Past(r) /\ Past(q) => r = q
    /\ worker = "respondStart" /\ ~job.err => resetInProgress /\ \A r \in Resetters : ~Past(r)
    /\ worker \in {"marker", "emptyAlt"} =>
          \E r \in Resetters : job.caller = {r} /\ rpc[r] = "waitCleanup"
    /\ \A r \in Resetters : rpc[r] = "waitCleanup" => worker \in {"marker", "emptyAlt"}
    /\ \A r \in Resetters : rpc[r] \in {"altAdd", "altCommit"} => ~sem
    /\ closing \in {"persist", "closed"} =>
          worker = "exited" /\ ~sem /\ \A r \in Resetters : rpc[r] \notin {"altAdd", "altCommit"}

(* What Control reads.                                                      *)
LEMMA ControlFrame ==
    ASSUME Control, UNCHANGED <<rpc, resetInProgress, worker, job, sem, closing>>
    PROVE  Control'
BY Zenon DEF Control, Past

(* The worker's own operations.                                             *)
LEMMA ControlServe ==
    ASSUME Control, UNCHANGED <<rpc, resetInProgress, sem, closing>>,
           worker \in {"load", "idle", "altScan", "altCommit", "put"},
           worker' \in {"idle", "altScan", "altCommit", "put"}
    PROVE  Control'
BY Zenon DEF Control, Past

(* A caller that is not answered yet moves.                                 *)
LEMMA ControlBefore ==
    ASSUME TypeOK, Control, NEW r \in Resetters, NEW to \in {"idle", "callStart"},
           rpc[r] \in {"idle", "callStart", "waitStart"},
           rpc' = [rpc EXCEPT ![r] = to],
           UNCHANGED <<resetInProgress, worker, job, sem, closing>>
    PROVE  Control'
<1>1. \A q \in Resetters : rpc'[q] = IF q = r THEN to ELSE rpc[q]
  BY Zenon DEF TypeOK
<1>2. \A q \in Resetters : Past(q)' <=> Past(q)
  BY Zenon, <1>1 DEF Past
<1> QED BY <1>1, <1>2 DEF Control

(* A reset moves on without the worker.                                     *)
LEMMA ControlOn ==
    ASSUME TypeOK, Control, NEW r \in Resetters,
           NEW to \in {"idle", "reading", "tryAltPut", "altAdd", "altCommit", "cleanup"},
           rpc[r] \in {"reading", "tryAltPut", "altAdd", "altCommit", "cleanup"},
           rpc' = [rpc EXCEPT ![r] = to],
           to \in {"altAdd", "altCommit"} =>
              ~sem' /\ (sem \/ rpc[r] \in {"altAdd", "altCommit"}),
           to \notin {"altAdd", "altCommit"} =>
              sem' = sem \/ rpc[r] \in {"altAdd", "altCommit"},
           UNCHANGED <<resetInProgress, worker, job, closing>>
    PROVE  Control'
<1>1. \A q \in Resetters : rpc'[q] = IF q = r THEN to ELSE rpc[q]
  BY Zenon DEF TypeOK
<1>2. Past(r) /\ \A q \in Resetters : Past(q)' => Past(q)
  BY Zenon, <1>1 DEF Past
<1>3. \A q \in Resetters : rpc[q] \in {"altAdd", "altCommit", "waitCleanup"} => q = r
  BY Zenon, <1>2 DEF Control, Past
<1> QED BY <1>1, <1>2, <1>3 DEF Control

(* No reset is past its start at first.                                     *)
LEMMA ControlInit == Init => Control
BY Zenon DEF Init, Control, Past

(* Every step preserves Control.  The worker serves one operation at a      *)
(* time, and opStart refuses a second reset.                                *)
LEMMA ControlStep == TypeOK /\ Control /\ [Next]_vars => Control'
<1> SUFFICES ASSUME TypeOK, Control, [Next]_vars PROVE Control'
  OBVIOUS
<1>1. CASE LoadSize \/ WorkerAltScan \/ WorkerAltCommit \/ Put \/ Empty
  BY Zenon, <1>1, ControlServe DEF LoadSize, WorkerAltScan, WorkerAltCommit, Put, Empty, resetter
<1>2. CASE \E S \in SUBSET PutKeys \ {{}} : TakePut(S) \/ Delete(S)
  BY Zenon, <1>2, ControlServe DEF TakePut, Delete, resetter
<1>3. CASE \E r \in Resetters : Start(r)
  <2>1. PICK r \in Resetters : Start(r)
    BY <1>3
  <2>2. \A q \in Resetters : rpc'[q] = IF q = r THEN "waitStart" ELSE rpc[q]
    BY Zenon, <2>1 DEF Start, TypeOK
  <2>3. \A q \in Resetters : Past(q)' <=> Past(q)
    BY Zenon, <2>1, <2>2 DEF Past, Start
  <2>4. worker = "idle" /\ worker' = "respondStart" /\ UNCHANGED <<sem, closing>>
    BY Zenon, <2>1 DEF Start
  <2>5. resetInProgress => resetInProgress' /\ job'.err
    BY Zenon, <2>1 DEF Start, NoJob
  <2>6. ASSUME ~resetInProgress PROVE ~job'.err => resetInProgress'
    <3>1. PICK ok \in Outcomes : /\ resetInProgress' = ok
                                 /\ job' = [NoJob EXCEPT !.caller = {r}, !.err = ~ok]
      BY Zenon, <2>1, <2>6 DEF Start
    <3> QED BY Zenon, <3>1 DEF NoJob
  <2> QED BY <2>2, <2>3, <2>4, <2>5, <2>6 DEF Control
<1>4. CASE \E r \in Resetters : StartReply(r)
  <2>1. PICK r \in Resetters : StartReply(r)
    BY <1>4
  <2>2. \A q \in Resetters : rpc'[q] = IF q = r THEN (IF job.err THEN "idle" ELSE "reading") ELSE rpc[q]
    BY Zenon, <2>1 DEF StartReply, TypeOK
  <2>3. \A q \in Resetters : Past(q)' => Past(q) \/ (q = r /\ ~job.err)
    BY Zenon, <2>2 DEF Past
  <2>4. /\ worker = "respondStart" /\ worker' = "idle" /\ UNCHANGED <<sem, closing, resetInProgress>>
    BY Zenon, <2>1 DEF StartReply
  <2> QED BY <2>2, <2>3, <2>4 DEF Control
<1>5. CASE \E r \in Resetters : Cleanup(r)
  <2>1. PICK r \in Resetters : Cleanup(r)
    BY <1>5
  <2>2. \A q \in Resetters : rpc'[q] = IF q = r THEN "waitCleanup" ELSE rpc[q]
    BY Zenon, <2>1 DEF Cleanup, TypeOK
  <2>3. \A q \in Resetters : Past(q)' <=> Past(q)
    BY <2>1, <2>2 DEF Past, Cleanup
  <2>4. /\ worker = "idle" /\ worker' \in {"marker", "emptyAlt"} /\ job'.caller = {r}
        /\ UNCHANGED <<sem, closing, resetInProgress>>
    BY <2>1 DEF Cleanup, NoJob
  <2> QED BY <2>2, <2>3, <2>4 DEF Control
<1>6. CASE PersistMarker
  BY Zenon, <1>6 DEF PersistMarker, resetter, Control, Past
<1>7. CASE EmptyAlt
  <2>1. PICK r \in Resetters : job.caller = {r} /\ rpc[r] = "waitCleanup"
    BY Zenon, <1>7 DEF EmptyAlt, Control
  <2>2. \A q \in Resetters : rpc'[q] = IF q = r THEN "idle" ELSE rpc[q]
    BY Zenon, <1>7, <2>1 DEF EmptyAlt
  <2>3. \A q \in Resetters : ~Past(q)'
    BY Zenon, <2>1, <2>2 DEF Past, Control
  <2>4. /\ worker = "emptyAlt" /\ worker' = "idle" /\ ~resetInProgress' /\ UNCHANGED <<sem, closing>>
    BY Zenon, <1>7 DEF EmptyAlt
  <2> QED BY <2>2, <2>3, <2>4 DEF Control, Past
<1>8. CASE \E r \in Resetters, K \in SUBSET ResetKeys : ResetCids(r, K)
  BY Zenon, <1>8, ControlBefore DEF ResetCids, resetStep
<1>9. CASE \E r \in Resetters : StartAborted(r) \/ StartAbandoned(r)
  BY Zenon, <1>9, ControlBefore DEF StartAborted, StartAbandoned, resetStep, notResetter
<1>10. CASE \E r \in Resetters : ReadKey(r) \/ KeysChanClosed(r) \/ ReadAborted(r) \/ CleanupSkipped(r)
  <2>1. PICK r \in Resetters : ReadKey(r) \/ KeysChanClosed(r) \/ ReadAborted(r) \/ CleanupSkipped(r)
    BY <1>10
  <2>2. PICK to \in {"idle", "reading", "tryAltPut", "cleanup"} : rpc' = [rpc EXCEPT ![r] = to]
    BY Zenon, <2>1 DEF ReadKey, KeysChanClosed, ReadAborted, CleanupSkipped, resetStep
  <2>3. rpc[r] \in {"reading", "cleanup"} /\ UNCHANGED <<resetInProgress, worker, job, closing, sem>>
    BY Zenon, <2>1 DEF ReadKey, KeysChanClosed, ReadAborted, CleanupSkipped, notResetter
  <2> QED BY Zenon, <2>2, <2>3, ControlOn
<1>11. CASE \E r \in Resetters : TryAltPut(r)
  BY Zenon, <1>11, ControlOn DEF TryAltPut, resetStep, notResetter
<1>12. CASE \E r \in Resetters : AltAdd(r)
  <2>1. PICK r \in Resetters : AltAdd(r)
    BY <1>12
  <2>2. /\ rpc[r] = "altAdd" /\ ~sem
        /\ UNCHANGED <<resetInProgress, worker, job, closing, sem>>
        /\ rpc' = [rpc EXCEPT ![r] = "altCommit"]
    BY Zenon, <2>1 DEF AltAdd, resetStep, Control
  <2> QED BY ZenonT(60), <2>2, ControlOn
<1>13. CASE \E r \in Resetters : AltCommit(r)
  <2>1. PICK r \in Resetters : AltCommit(r)
    BY <1>13
  <2>2. PICK to \in {"reading", "cleanup"} : rpc' = [rpc EXCEPT ![r] = to]
    BY Zenon, <2>1 DEF AltCommit, resetStep
  <2>3. rpc[r] = "altCommit" /\ UNCHANGED <<resetInProgress, worker, job, closing>>
    BY ZenonT(60), <2>1 DEF AltCommit
  <2> QED BY Zenon, <2>2, <2>3, ControlOn
<1>14. CASE WorkerExits \/ CloseCalled \/ CloseTakesToken \/ PersistSize
  BY <1>14 DEF WorkerExits, CloseCalled, CloseTakesToken, PersistSize, resetter, Control, Past
<1>15. CASE Restart
  BY Zenon, <1>15 DEF Restart, Control, Past
<1>16. CASE UNCHANGED vars
  BY Zenon, <1>16, ControlFrame DEF vars, resetter
<1> QED
  BY Zenon, <1>1, <1>2, <1>3, <1>4, <1>5, <1>6, <1>7, <1>8, <1>9, <1>10, <1>11, <1>12, <1>13, <1>14, <1>15, <1>16
  DEF Next, Worker, Client, Reset, Abort, CloseStep

(* Type and Control together.                                               *)
LEMMA ControlHolds == Spec => [](TypeOK /\ Control)
BY TypeInit, TypeStep, ControlInit, ControlStep, PTL DEF Spec

(* "only one tryAltPut executes at any given time": of any number of        *)
(* callers of ResetCids at most one is past its start, whatever crashes,    *)
(* failures and cancellations happen.                                       *)
THEOREM OneResetHolds == Spec => []OneReset
<1>1. Control => OneReset
  BY Zenon DEF Control, OneReset, Past
<1> QED BY <1>1, ControlHolds, PTL

(* A step taken after Close has returned writes nothing: the worker has     *)
(* exited and no reset is in the middle of a batch.                         *)
LEMMA QuietWhenClosed ==
    ASSUME TypeOK, Control, [Next]_vars, closing = "closed", closing' = "closed"
    PROVE  UNCHANGED durable
<1>1. worker = "exited" /\ \A r \in Resetters : rpc[r] \notin {"altAdd", "altCommit"}
  BY Zenon DEF Control
<1>2. CASE \E r \in Resetters : Start(r) \/ Cleanup(r) \/ Reset(r) \/ Abort(r)
  BY Zenon, <1>1, <1>2 DEF Start, Cleanup, Reset, Abort, StartReply, ReadKey, KeysChanClosed, TryAltPut, AltAdd,
                    AltCommit, CleanupSkipped, StartAborted, StartAbandoned, ReadAborted, notResetter
<1>3. CASE Worker \/ WorkerExits \/ CloseStep \/ Restart
  BY Zenon, <1>1, <1>3 DEF Worker, LoadSize, WorkerAltScan, WorkerAltCommit, Put, PersistMarker, EmptyAlt,
                    WorkerExits, CloseStep, CloseTakesToken, PersistSize, Restart
<1>4. CASE Client
  BY Zenon, <1>1, <1>4 DEF Client, Empty, CloseCalled, TakePut, Delete, ResetCids
<1>5. CASE UNCHANGED vars
  BY Zenon, <1>5 DEF vars, durable
<1> QED BY <1>2, <1>3, <1>4, <1>5 DEF Next

(* After Close has returned the datastore, which its owner may close, is    *)
(* never written, not even by a ResetCids that Close overtook.              *)
THEOREM NoWriteAfterCloseHolds == Spec => NoWriteAfterClose
<1>1. TypeOK /\ Control /\ [Next]_vars => [closing = "closed" /\ closing' = "closed" => UNCHANGED durable]_vars
  BY QuietWhenClosed
<1> QED BY <1>1, ControlHolds, PTL DEF Spec, NoWriteAfterClose

-----------------------------------------------------------------------------
(* What a swap installs.                                                    *)

(* Where the keys of the reset of r are.                                    *)
Fed(r) ==
    /\ rpc[r] \in {"callStart", "waitStart"} => buf[r] = {} /\ toAdd[r] = {}
    /\ rpc[r] \in {"callStart", "waitStart", "reading"} => ~final[r]
    /\ rpc[r] \notin {"idle", "cleanup", "waitCleanup"} => ~success[r]
    /\ worker = "respondStart" /\ ~job.err /\ job.caller = {r} /\ rpc[r] = "waitStart" =>
          incoming = feed[r]
    /\ Past(r) => feed[r] \cup buf[r] \cup toAdd[r] \subseteq incoming
    /\ Past(r) /\ final[r] => feed[r] = {}
    /\ rpc[r] \in {"reading", "tryAltPut", "altAdd", "altCommit"} =>
          incoming \subseteq store[alt] \cup feed[r] \cup buf[r]
    /\ rpc[r] \in {"altAdd", "altCommit"} => buf[r] \subseteq toAdd[r] \cup store[alt]
    /\ rpc[r] = "cleanup" /\ success[r] => incoming \subseteq store[alt]

AllFed == \A r \in Resetters : Fed(r)

(* Without failures the alternate namespace has the keys put since the      *)
(* start, and nothing else but keys of the reset.                           *)
Exact ==
    /\ worker \in {"altScan", "altCommit"} => resetInProgress
    /\ worker = "altCommit" => job.add \subseteq job.keys /\ job.keys \subseteq job.add \cup store[alt]
    /\ failures = 0 =>
          /\ resetInProgress /\ worker \notin {"marker", "emptyAlt"} =>
                /\ since \subseteq store[alt]
                /\ store[alt] \subseteq incoming \cup since \cup (IF worker = "put" THEN job.keys ELSE {})
                /\ worker = "put" => job.keys \subseteq store[alt]
          /\ worker = "marker" => store[active] = incoming \cup since

-----------------------------------------------------------------------------
(* The keys of a reset.                                                     *)

(* The state of one call of ResetCids.                                      *)
call(r) == <<rpc[r], feed[r], buf[r], toAdd[r], final[r], success[r]>>

(* The worker's answer to r is not a new one.                               *)
NoNewAnswer(r) == worker' = "respondStart" /\ job'.caller = {r} => worker = worker' /\ job = job'

(* The call of r stands still while keys are added to the namespace it      *)
(* writes to.                                                               *)
LEMMA FedFrame ==
    ASSUME NEW r \in Resetters, Fed(r), call(r)' = call(r), NoNewAnswer(r), incoming' = incoming,
           store[alt] \subseteq (store[alt])'
    PROVE  Fed(r)'
BY Zenon DEF Fed, Past, call, NoNewAnswer

(* The call of r stands still before its start, whatever the store does.    *)
LEMMA FedWaiting ==
    ASSUME NEW r \in Resetters, Fed(r), ~Past(r), call(r)' = call(r),
           ~(worker' = "respondStart" /\ job'.caller = {r})
    PROVE  Fed(r)'
BY Zenon DEF Fed, Past, call

(* A call that has returned owes nothing.                                   *)
LEMMA FedIdle ==
    ASSUME NEW r \in Resetters, rpc'[r] = "idle"
    PROVE  Fed(r)'
BY Zenon DEF Fed, Past

(* No call has been made at first.                                          *)
LEMMA FedInit == Init => AllFed
BY Zenon DEF Init, AllFed, Fed, Past

(* The steps of the worker that neither start nor end a reset.              *)
LEMMA FedServe ==
    ASSUME TypeOK, AllFed,
           \/ LoadSize \/ WorkerAltScan \/ WorkerAltCommit \/ Put \/ PersistMarker \/ WorkerExits \/ Empty
           \/ \E S \in SUBSET PutKeys \ {{}} : TakePut(S) \/ Delete(S)
    PROVE  AllFed'
<1>1. UNCHANGED <<rpc, feed, buf, toAdd, final, success, incoming, active>> /\ worker' # "respondStart"
  BY Zenon DEF LoadSize, WorkerAltScan, WorkerAltCommit, Put, PersistMarker, WorkerExits, Empty, TakePut, Delete,
         resetter, history
<1>2. store[alt] \subseteq store'[alt]
  <2>1. \/ store' = store
        \/ \E C \in SUBSET Keys : store' = [store EXCEPT ![alt] = @ \cup C]
        \/ \E C \in SUBSET Keys : store' = [store EXCEPT ![active] = C]
    <3>1. CASE LoadSize \/ WorkerAltScan \/ PersistMarker \/ WorkerExits
      BY Zenon, <3>1 DEF LoadSize, WorkerAltScan, PersistMarker, WorkerExits, durable
    <3>2. CASE WorkerAltCommit
      BY Zenon, <3>2 DEF WorkerAltCommit, Applied, TypeOK
    <3>3. CASE Put
      BY Zenon, <3>3 DEF Put, Applied, TypeOK
    <3>4. CASE Empty
      BY Zenon, <3>4 DEF Empty, empty, TypeOK
    <3>5. CASE \E S \in SUBSET PutKeys \ {{}} : TakePut(S) \/ Delete(S)
      BY Zenon, <3>5 DEF TakePut, Delete, durable, TypeOK
    <3> QED BY ZenonT(60), <3>1, <3>2, <3>3, <3>4, <3>5
  <2> QED BY <2>1, AltNamespace DEF TypeOK
<1>3. (store[alt])' = store'[alt]
  BY Zenon, <1>1 DEF alt
<1> QED BY <1>1, <1>2, <1>3, FedFrame DEF AllFed, call, NoNewAnswer

(* opStart of r: the call of r waits for its answer; any other is before    *)
(* its start or, if a reset is in progress, untouched.                      *)
LEMMA FedStart ==
    ASSUME TypeOK, Control, AllFed, NEW r \in Resetters, Start(r)
    PROVE  AllFed'
<1>1. /\ worker = "idle" /\ rpc[r] = "callStart" /\ rpc' = [rpc EXCEPT ![r] = "waitStart"]
      /\ UNCHANGED <<active, feed, buf, toAdd, final, success>>
      /\ job'.caller = {r}
  BY Zenon DEF Start, NoJob
<1>2. ~Past(r) /\ ~Past(r)' /\ rpc'[r] = "waitStart"
  BY ZenonT(60), <1>1 DEF Past, TypeOK
<1>3. Fed(r)'
  <2>1. ~job'.err => incoming' = feed[r]
    <3>1. CASE resetInProgress
      BY Zenon, <3>1 DEF Start, NoJob
    <3>2. CASE ~resetInProgress
      <4>1. PICK ok \in Outcomes : /\ job' = [NoJob EXCEPT !.caller = {r}, !.err = ~ok]
                                   /\ incoming' = IF ok THEN feed[r] ELSE incoming
        BY Zenon, <3>2 DEF Start
      <4> QED BY Zenon, <4>1 DEF NoJob
    <3> QED BY <3>1, <3>2
  <2> QED BY <1>1, <1>2, <2>1 DEF AllFed, Fed
<1>4. ASSUME NEW q \in Resetters, q # r PROVE Fed(q)'
  <2>1. call(q)' = call(q)
    BY Zenon, <1>1, <1>4 DEF call, TypeOK
  <2>2. CASE Past(q)
    <3>1. UNCHANGED <<store, incoming>>
      BY Zenon, <2>2 DEF Start, Control, history
    <3>2. UNCHANGED store[alt] /\ NoNewAnswer(q)
      BY Zenon, <1>1, <1>4, <3>1 DEF alt, NoNewAnswer
    <3> QED BY <2>1, <3>1, <3>2, FedFrame DEF AllFed
  <2>3. CASE ~Past(q)
    BY Zenon, <1>1, <1>4, <2>1, <2>3, FedWaiting DEF AllFed
  <2> QED BY <2>2, <2>3
<1> QED BY <1>3, <1>4 DEF AllFed

(* The answer to r: its reset has all of its keys still to read.            *)
LEMMA FedReply ==
    ASSUME TypeOK, Control, AllFed, NEW r \in Resetters, StartReply(r)
    PROVE  AllFed'
<1>1. /\ worker = "respondStart" /\ worker' = "idle" /\ job.caller = {r} /\ rpc[r] = "waitStart"
      /\ UNCHANGED <<store, active, feed, buf, toAdd, final, success, incoming>>
      /\ rpc'[r] = IF job.err THEN "idle" ELSE "reading"
  BY Zenon DEF StartReply, durable, history, TypeOK
<1>2. UNCHANGED store[alt]
  BY Zenon, <1>1 DEF alt
<1>3. Fed(r)'
  <2>1. CASE job.err
    BY ZenonT(60), <1>1, <2>1, FedIdle
  <2>2. CASE ~job.err
    BY <1>1, <1>2, <2>2 DEF AllFed, Fed, Past
  <2> QED BY <2>1, <2>2
<1>4. ASSUME NEW q \in Resetters, q # r PROVE Fed(q)'
  BY Zenon, <1>1, <1>2, <1>4, FedFrame DEF StartReply, AllFed, call, NoNewAnswer, TypeOK
<1> QED BY <1>3, <1>4 DEF AllFed

(* The cleanup of r, up to its swap and from its end: r is the only call    *)
(* past its start.                                                          *)
LEMMA FedEnd ==
    ASSUME TypeOK, Control, AllFed, NEW r \in Resetters,
           \/ Cleanup(r)
           \/ EmptyAlt /\ job.caller = {r} /\ rpc[r] = "waitCleanup"
    PROVE  AllFed'
<1>1. /\ worker' # "respondStart" /\ Past(r)
      /\ UNCHANGED <<feed, buf, toAdd, final, success, incoming>>
  BY Zenon DEF Cleanup, EmptyAlt, Past, history
<1>2. ASSUME NEW q \in Resetters, q # r PROVE Fed(q)'
  <2>1. call(q)' = call(q)
    BY Zenon, <1>1, <1>2 DEF call, TypeOK, Cleanup, EmptyAlt
  <2>2. ~Past(q)
    BY Zenon, <1>1, <1>2 DEF Control
  <2> QED BY <1>1, <2>1, <2>2, FedWaiting DEF AllFed
<1>3. Fed(r)'
  <2>1. CASE EmptyAlt /\ job.caller = {r}
    BY ZenonT(60), <2>1, FedIdle DEF EmptyAlt
  <2>2. CASE Cleanup(r)
    <3>1. rpc[r] = "cleanup" /\ rpc'[r] = "waitCleanup"
      BY Zenon, <2>2 DEF Cleanup, TypeOK
    <3> QED BY <1>1, <3>1 DEF AllFed, Fed, Past
  <2> QED BY <2>1, <2>2
<1> QED BY <1>2, <1>3 DEF AllFed

(* The steps a call of ResetCids takes by itself.                           *)
LEMMA FedOwn ==
    ASSUME TypeOK, Control, AllFed, NEW r \in Resetters,
           \/ ReadKey(r) \/ KeysChanClosed(r) \/ TryAltPut(r) \/ AltAdd(r) \/ AltCommit(r)
           \/ CleanupSkipped(r) \/ Abort(r)
           \/ \E K \in SUBSET ResetKeys : ResetCids(r, K)
    PROVE  AllFed'
<1>1. UNCHANGED <<active, worker, job, incoming>>
  BY Zenon DEF ReadKey, KeysChanClosed, TryAltPut, AltAdd, AltCommit, CleanupSkipped, Abort, StartAborted,
         StartAbandoned, ReadAborted, ResetCids, notResetter, history
<1>2. (store[alt])' = store'[alt]
  BY Zenon, <1>1 DEF alt
<1>3. store[alt] \subseteq store'[alt]
  <2>1. CASE AltCommit(r)
    BY <2>1, AltNamespace DEF AltCommit, TypeOK
  <2>2. CASE ~AltCommit(r)
    BY Zenon, <2>2 DEF ReadKey, KeysChanClosed, TryAltPut, AltAdd, CleanupSkipped, Abort, StartAborted,
                StartAbandoned, ReadAborted, ResetCids, notResetter, durable
  <2> QED BY <2>1, <2>2
<1>4. ASSUME NEW q \in Resetters, q # r PROVE Fed(q)'
  <2>1. call(q)' = call(q)
    <3>1. CASE ReadKey(r) \/ KeysChanClosed(r) \/ TryAltPut(r) \/ AltAdd(r) \/ AltCommit(r)
      BY Zenon, <1>4, <3>1 DEF ReadKey, KeysChanClosed, TryAltPut, AltAdd, AltCommit, resetStep, call, TypeOK
    <3>2. CASE CleanupSkipped(r) \/ Abort(r)
      <4>1. /\ UNCHANGED <<feed, buf, toAdd, final, success>>
            /\ \E to \in {"idle", "cleanup"} : rpc' = [rpc EXCEPT ![r] = to]
        BY ZenonT(60), <3>2 DEF CleanupSkipped, Abort, StartAborted, StartAbandoned, ReadAborted, resetStep
      <4> QED BY <1>4, <4>1 DEF call, TypeOK
    <3>3. CASE \E K \in SUBSET ResetKeys : ResetCids(r, K)
      BY <1>4, <3>3 DEF ResetCids, resetStep, call, TypeOK
    <3> QED BY <3>1, <3>2, <3>3
  <2> QED BY ZenonT(60), <1>1, <1>2, <1>3, <2>1, FedFrame DEF AllFed, NoNewAnswer
<1>5. Fed(r)'
  <2>1. CASE ReadKey(r)
    <3>1. PICK k \in feed[r] : feed'[r] = feed[r] \ {k} /\ buf'[r] = buf[r] \cup {k}
      BY Zenon, <2>1 DEF ReadKey, TypeOK
    <3>2. /\ rpc[r] = "reading" /\ rpc'[r] \in {"reading", "tryAltPut"}
          /\ UNCHANGED <<toAdd, final, success>>
      BY Zenon, <2>1 DEF ReadKey, resetStep, TypeOK
    <3>3. /\ feed[r] \cup buf[r] \cup toAdd[r] \subseteq incoming
          /\ incoming \subseteq store[alt] \cup feed[r] \cup buf[r]
          /\ ~final[r] /\ ~success[r]
      BY Zenon, <3>2 DEF AllFed, Fed, Past
    <3>4. /\ feed'[r] \cup buf'[r] \cup toAdd'[r] \subseteq incoming'
          /\ incoming' \subseteq (store[alt])' \cup feed'[r] \cup buf'[r]
          /\ ~final'[r] /\ ~success'[r]
      BY ZenonT(60), <1>1, <1>2, <1>3, <3>1, <3>2, <3>3
    <3> QED BY <3>2, <3>4 DEF Fed, Past
  <2>2. CASE KeysChanClosed(r)
    <3>1. /\ rpc[r] = "reading" /\ rpc'[r] = "tryAltPut" /\ feed[r] = {}
          /\ UNCHANGED <<feed, buf, toAdd, success>>
      BY Zenon, <2>2 DEF KeysChanClosed, resetStep, TypeOK
    <3> QED BY <1>1, <1>2, <1>3, <3>1 DEF AllFed, Fed, Past
  <2>3. CASE TryAltPut(r)
    <3>1. /\ rpc[r] = "tryAltPut" /\ UNCHANGED <<store, feed, buf, final, success>>
          /\ \/ rpc'[r] = "cleanup" /\ toAdd' = toAdd
             \/ rpc'[r] = "altAdd" /\ toAdd'[r] = buf[r] \ store[alt]
      BY ZenonT(60), <2>3 DEF TryAltPut, resetStep, notResetter, durable, TypeOK
    <3> QED BY ZenonT(60), <1>1, <1>2, <3>1 DEF AllFed, Fed, Past
  <2>4. CASE AltAdd(r)
    <3>1. /\ rpc[r] = "altAdd" /\ rpc'[r] = "altCommit" /\ UNCHANGED <<feed, buf, toAdd, final, success>>
      BY Zenon, <2>4 DEF AltAdd, resetStep, TypeOK
    <3> QED BY <1>1, <1>2, <1>3, <3>1 DEF AllFed, Fed, Past
  <2>5. CASE AltCommit(r)
    <3>1. PICK ok \in Outcomes : \E C \in Applied(toAdd[r], ok) :
             /\ store' = [store EXCEPT ![alt] = @ \cup C]
             /\ count(ok) /\ success' = [success EXCEPT ![r] = ok /\ final[r]]
             /\ rpc' = [rpc EXCEPT ![r] = IF ok /\ ~final[r] THEN "reading" ELSE "cleanup"]
      BY Zenon, <2>5 DEF AltCommit, resetStep
    <3>2. /\ rpc[r] = "altCommit" /\ buf'[r] = {} /\ UNCHANGED <<feed, toAdd, final>>
      BY ZenonT(60), <2>5 DEF AltCommit, TypeOK
    <3>3. ok => store'[alt] = store[alt] \cup toAdd[r]
      BY <3>1, AltNamespace DEF Applied, TypeOK
    <3>4. CASE ok /\ ~final[r]
      <4>1. rpc'[r] = "reading" /\ ~success'[r]
        BY Zenon, <3>1, <3>4 DEF TypeOK
      <4> QED BY ZenonT(60), <1>1, <1>2, <3>2, <3>3, <3>4, <4>1 DEF AllFed, Fed, Past
    <3>5. CASE ~(ok /\ ~final[r])
      <4>1. rpc'[r] = "cleanup" /\ (success'[r] => ok /\ final[r])
        BY Zenon, <3>1, <3>5 DEF TypeOK
      <4> QED BY ZenonT(60), <1>1, <1>2, <3>2, <3>3, <4>1 DEF AllFed, Fed, Past
    <3> QED BY <3>4, <3>5
  <2>6. CASE ReadAborted(r)
    <3>1. rpc[r] = "reading" /\ rpc'[r] = "cleanup" /\ UNCHANGED <<feed, buf, toAdd, final, success>>
      BY Zenon, <2>6 DEF ReadAborted, resetStep, TypeOK
    <3> QED BY ZenonT(60), <1>1, <3>1 DEF AllFed, Fed, Past
  <2>7. CASE CleanupSkipped(r) \/ StartAborted(r) \/ StartAbandoned(r)
    BY Zenon, <2>7, FedIdle DEF CleanupSkipped, StartAborted, StartAbandoned, resetStep, TypeOK
  <2>8. CASE \E K \in SUBSET ResetKeys : ResetCids(r, K)
    <3>1. /\ rpc'[r] = "callStart" /\ buf'[r] = {} /\ toAdd'[r] = {} /\ ~final'[r] /\ ~success'[r]
      BY ZenonT(60), <2>8 DEF ResetCids, resetStep, TypeOK
    <3> QED BY ZenonT(60), <3>1 DEF Fed, Past
  <2> QED BY <2>1, <2>2, <2>3, <2>4, <2>5, <2>6, <2>7, <2>8 DEF Abort
<1> QED BY <1>4, <1>5 DEF AllFed

(* Every step preserves AllFed.                                             *)
LEMMA FedStep == TypeOK /\ Control /\ AllFed /\ [Next]_vars => AllFed'
<1> SUFFICES ASSUME TypeOK, Control, AllFed, [Next]_vars PROVE AllFed'
  OBVIOUS
<1>1. CASE EmptyAlt
  <2>1. PICK r \in Resetters : job.caller = {r} /\ rpc[r] = "waitCleanup"
    BY Zenon, <1>1 DEF EmptyAlt, Control
  <2> QED BY <1>1, <2>1, FedEnd
<1>2. CASE Restart
  BY Zenon, <1>2, FedIdle DEF Restart, AllFed
<1>3. CASE CloseCalled \/ CloseStep \/ UNCHANGED vars
  <2>1. UNCHANGED <<rpc, feed, buf, toAdd, final, success, incoming, active, store, worker, job>>
    BY Zenon, <1>3 DEF CloseCalled, CloseStep, CloseTakesToken, PersistSize, vars, durable, resetter, history
  <2> QED BY <2>1, FedFrame DEF AllFed, call, NoNewAnswer, alt
<1> QED BY ZenonT(60), <1>1, <1>2, <1>3, FedServe, FedStart, FedReply, FedEnd, FedOwn
        DEF Next, Worker, Client, Reset

-----------------------------------------------------------------------------
(* The keys put meanwhile.                                                  *)

(* As long as no failure is counted every operation has succeeded.          *)
LEMMA CountZero ==
    ASSUME TypeOK, NEW ok \in Outcomes, count(ok), failures' = 0
    PROVE  failures = 0 /\ ok
BY DEF TypeOK, count

(* What Exact reads.                                                        *)
LEMMA ExactFrame ==
    ASSUME Exact, UNCHANGED <<store, active, resetInProgress, worker, job, incoming, since>>,
           failures' = 0 => failures = 0
    PROVE  Exact'
BY ZenonT(60) DEF Exact, alt

(* The worker comes to rest, or rests, and leaves the alternate alone.      *)
LEMMA ExactRest ==
    ASSUME TypeOK, Exact, UNCHANGED <<active, resetInProgress, incoming, since>>, store'[alt] = store[alt],
           failures' = 0 => failures = 0,
           worker \notin {"put", "marker", "emptyAlt"},
           worker' \in {"idle", "respondStart", "exited"}
    PROVE  Exact'
<1>1. (store[alt])' = store[alt]
  BY Zenon DEF alt
<1> QED BY <1>1 DEF Exact

(* Nothing is stored at first.                                              *)
LEMMA ExactInit == Init => Exact
BY Zenon DEF Init, Exact

(* Every step preserves Exact.                                              *)
LEMMA ExactStep == TypeOK /\ Control /\ AllFed /\ Exact /\ [Next]_vars => Exact'
<1> SUFFICES ASSUME TypeOK, Control, AllFed, Exact, [Next]_vars PROVE Exact'
  OBVIOUS
<1> USE AltNamespace
<1>1. CASE LoadSize
  <2>1. failures' = 0 => failures = 0
    BY Zenon, <1>1, CountZero DEF LoadSize
  <2> QED BY Zenon, <1>1, <2>1, ExactRest DEF LoadSize, history
<1>2. CASE \E S \in SUBSET PutKeys \ {{}} : TakePut(S)
  <2>1. /\ worker = "idle" /\ worker' = IF resetInProgress THEN "altScan" ELSE "put"
        /\ UNCHANGED <<store, active, resetInProgress, incoming, since, failures>>
    BY Zenon, <1>2 DEF TakePut, durable, bounds, history
  <2>2. UNCHANGED store[alt]
    BY Zenon, <2>1 DEF alt
  <2> QED BY <2>1, <2>2 DEF Exact
<1>3. CASE WorkerAltScan
  <2>1. /\ worker = "altScan" /\ worker' = "altCommit"
        /\ job'.keys = job.keys /\ job'.add = job.keys \ store[alt]
        /\ UNCHANGED <<store, active, resetInProgress, incoming, since, failures>>
    BY Zenon, <1>3 DEF WorkerAltScan, TypeOK, durable, bounds, history
  <2>2. UNCHANGED store[alt]
    BY Zenon, <2>1 DEF alt
  <2> QED BY <2>1, <2>2 DEF Exact
<1>4. CASE WorkerAltCommit
  <2>1. PICK ok \in Outcomes : /\ count(ok)
                               /\ \E C \in Applied(job.add, ok) : store' = [store EXCEPT ![alt] = @ \cup C]
    BY Zenon, <1>4 DEF WorkerAltCommit
  <2>2. ok => store'[alt] = store[alt] \cup job.add
    BY Zenon, <2>1 DEF Applied, TypeOK
  <2>3. /\ worker = "altCommit" /\ worker' = "put"
        /\ UNCHANGED <<active, resetInProgress, incoming, since, job>>
    BY Zenon, <1>4 DEF WorkerAltCommit, history
  <2>4. (store[alt])' = store'[alt]
    BY Zenon, <2>3 DEF alt
  <2>5. failures' = 0 => failures = 0 /\ ok
    BY ZenonT(60), <2>1, CountZero
  <2> QED BY <2>2, <2>3, <2>4, <2>5 DEF Exact
<1>5. CASE Put
  <2>1. PICK ok \in Outcomes :
           /\ count(ok)
           /\ \E C \in SUBSET Keys : store' = [store EXCEPT ![active] = C]
           /\ since' = IF ok /\ resetInProgress THEN since \cup job.keys ELSE since
    BY Zenon, <1>5 DEF Put, Applied, TypeOK
  <2>2. worker = "put" /\ worker' = "idle" /\ UNCHANGED <<active, resetInProgress, incoming>>
    BY Zenon, <1>5 DEF Put
  <2>3. (store[alt])' = store[alt]
    BY Zenon, <2>1, <2>2 DEF alt, TypeOK
  <2>4. failures' = 0 => failures = 0 /\ ok
    BY Zenon, <2>1, CountZero
  <2> QED BY <2>1, <2>2, <2>3, <2>4 DEF Exact
<1>6. CASE Empty \/ \E S \in SUBSET PutKeys \ {{}} : Delete(S)
  <2>1. PICK ok \in Outcomes : count(ok) /\ \E C \in SUBSET Keys : store' = [store EXCEPT ![active] = C]
    <3>1. CASE Empty
      BY Zenon, <3>1 DEF Empty, empty, TypeOK
    <3>2. CASE \E S \in SUBSET PutKeys \ {{}} : Delete(S)
      BY Zenon, <3>2 DEF Delete, TypeOK
    <3> QED BY <1>6, <3>1, <3>2
  <2>2. store'[alt] = store[alt]
    BY Zenon, <2>1 DEF TypeOK
  <2>3. failures' = 0 => failures = 0
    BY Zenon, <2>1, CountZero
  <2> QED BY Zenon, <1>6, <2>2, <2>3, ExactRest DEF Empty, Delete, history
<1>7. CASE \E r \in Resetters : Start(r)
  <2>1. PICK r \in Resetters : Start(r)
    BY <1>7
  <2>2. CASE resetInProgress
    BY ZenonT(60), <2>1, <2>2, ExactRest DEF Start, history
  <2>3. CASE ~resetInProgress
    <3>1. PICK ok \in Outcomes :
             /\ empty(alt, ok) /\ count(ok) /\ resetInProgress' = ok
             /\ since' = IF ok THEN {} ELSE since
      BY Zenon, <2>1, <2>3 DEF Start
    <3>2. worker' = "respondStart" /\ active' = active
      BY ZenonT(60), <2>1 DEF Start
    <3>3. ok => (store[alt])' = {}
      BY <3>1, <3>2 DEF empty, Applied, alt, TypeOK
    <3> QED BY <3>1, <3>2, <3>3 DEF Exact
  <2> QED BY <2>2, <2>3
<1>8. CASE \E r \in Resetters : StartReply(r)
  BY ZenonT(60), <1>8, ExactRest DEF StartReply, durable, bounds, history
<1>9. CASE \E r \in Resetters : Cleanup(r)
  <2>1. PICK r \in Resetters : Cleanup(r)
    BY <1>9
  <2>2. /\ worker = "idle" /\ rpc[r] = "cleanup" /\ worker' \in {"marker", "emptyAlt"}
        /\ worker' = "marker" => success[r] /\ active' = alt
        /\ UNCHANGED <<store, failures, incoming, since>>
    BY <2>1 DEF Cleanup, durable, bounds, history
  <2>3. resetInProgress
    BY Zenon, <2>2 DEF Control, Past
  <2>4. success[r] => incoming \subseteq store[alt]
    BY Zenon, <2>2 DEF AllFed, Fed
  <2>5. worker' = "marker" => store'[active'] = store[alt]
    BY Zenon, <2>2
  <2> QED BY <2>2, <2>3, <2>4, <2>5 DEF Exact
<1>10. CASE PersistMarker \/ EmptyAlt
  BY Zenon, <1>10 DEF PersistMarker, EmptyAlt, Exact
<1>11. CASE \E r \in Resetters : AltCommit(r)
  <2>1. PICK r \in Resetters : AltCommit(r)
    BY <1>11
  <2>2. PICK ok \in Outcomes, C \in SUBSET (toAdd[r]) :
           count(ok) /\ store' = [store EXCEPT ![alt] = @ \cup C]
    BY Zenon, <2>1 DEF AltCommit, Applied
  <2>3. rpc[r] = "altCommit" /\ UNCHANGED <<active, resetInProgress, worker, job, incoming, since>>
    BY Zenon, <2>1 DEF AltCommit, history
  <2>4. toAdd[r] \subseteq incoming /\ worker # "marker"
    BY Zenon, <2>3 DEF AllFed, Fed, Past, Control
  <2>5. (store[alt])' = store[alt] \cup C
    BY Zenon, <2>2, <2>3 DEF alt, TypeOK
  <2>6. failures' = 0 => failures = 0
    BY Zenon, <2>2, CountZero
  <2> QED BY Zenon, <2>3, <2>4, <2>5, <2>6 DEF Exact
<1>12. CASE \E r \in Resetters :
              \/ ReadKey(r) \/ KeysChanClosed(r) \/ TryAltPut(r) \/ AltAdd(r) \/ CleanupSkipped(r) \/ Abort(r)
              \/ \E K \in SUBSET ResetKeys : ResetCids(r, K)
  <2>1. UNCHANGED <<store, active, resetInProgress, worker, job, incoming, since, failures>>
    BY ZenonT(60), <1>12 DEF ReadKey, KeysChanClosed, TryAltPut, AltAdd, CleanupSkipped, Abort, StartAborted,
                 StartAbandoned, ReadAborted, ResetCids, notResetter, durable, bounds, history
  <2> QED BY <2>1, ExactFrame
<1>13. CASE WorkerExits
  BY Zenon, <1>13, ExactRest DEF WorkerExits, durable, bounds, history
<1>14. CASE CloseCalled \/ CloseTakesToken \/ UNCHANGED vars
  BY Zenon, <1>14, ExactFrame DEF CloseCalled, CloseTakesToken, vars, durable, bounds, history
<1>15. CASE PersistSize
  <2>1. failures' = 0 => failures = 0
    BY Zenon, <1>15, CountZero DEF PersistSize
  <2> QED BY <1>15, <2>1, ExactFrame DEF PersistSize, history
<1>16. CASE Restart
  BY Zenon, <1>16 DEF Restart, Exact
<1> QED
  BY Zenon, <1>1, <1>2, <1>3, <1>4, <1>5, <1>6, <1>7, <1>8, <1>9, <1>10, <1>11, <1>12, <1>13, <1>14, <1>15, <1>16
  DEF Next, Worker, Client, Reset, CloseStep

(* The inductive invariant of the keystore.                                 *)
KeystoreInv == TypeOK /\ Control /\ AllFed /\ Exact

(* Type, control, and where the keys of a reset and of concurrent puts are, *)
(* hold together in every reachable state.                                  *)
THEOREM KeystoreInvariant == Spec => []KeystoreInv
<1>1. Init => KeystoreInv
  BY TypeInit, ControlInit, FedInit, ExactInit DEF KeystoreInv
<1>2. KeystoreInv /\ [Next]_vars => KeystoreInv'
  BY ZenonT(60), TypeStep, ControlStep, FedStep, ExactStep DEF KeystoreInv
<1> QED BY <1>1, <1>2, PTL DEF Spec

(* Only the cleanup of a successful reset, or a restart, changes the active *)
(* namespace.                                                               *)
LEMMA Swap ==
    ASSUME TypeOK, [Next]_vars, active' # active, restarts' = restarts
    PROVE  \E r \in Resetters :
              /\ worker = "idle" /\ rpc[r] = "cleanup" /\ success[r] /\ active' = alt
<1>1. CASE \E r \in Resetters : Cleanup(r)
  BY <1>1 DEF Cleanup
<1>2. CASE Restart
  BY <1>2 DEF Restart, TypeOK
<1>3. CASE Worker \/ WorkerExits \/ Client \/ CloseStep
  BY Zenon, <1>3 DEF Worker, LoadSize, WorkerAltScan, WorkerAltCommit, Put, PersistMarker, EmptyAlt, WorkerExits,
              Client, Empty, CloseCalled, TakePut, Delete, ResetCids, CloseStep, CloseTakesToken, PersistSize
<1>4. CASE \E r \in Resetters : Start(r) \/ Reset(r) \/ Abort(r)
  BY ZenonT(60), <1>4 DEF Start, Reset, StartReply, ReadKey, KeysChanClosed, TryAltPut, AltAdd, AltCommit,
              CleanupSkipped, Abort, StartAborted, StartAbandoned, ReadAborted, notResetter
<1>5. CASE UNCHANGED vars
  BY Zenon, <1>5 DEF vars
<1> QED BY <1>1, <1>2, <1>3, <1>4, <1>5 DEF Next

(* A swap installs a namespace with every key of the reset, whatever        *)
(* failed, crashed or was cancelled before, and, if nothing failed, with    *)
(* exactly these and the keys put since the reset began.                    *)
THEOREM SwapInstallsResetHolds == Spec => SwapInstallsReset
<1>1. ASSUME KeystoreInv, [Next]_vars, active' # active, restarts' = restarts
      PROVE  /\ incoming \subseteq store[active']
             /\ failures = 0 => store[active'] = incoming \cup since
  <2>1. PICK r \in Resetters : worker = "idle" /\ rpc[r] = "cleanup" /\ success[r] /\ active' = alt
    BY Zenon, <1>1, Swap DEF KeystoreInv
  <2>2. incoming \subseteq store[alt]
    BY Zenon, <1>1, <2>1 DEF KeystoreInv, AllFed, Fed
  <2>3. resetInProgress
    BY Zenon, <1>1, <2>1 DEF KeystoreInv, Control, Past
  <2> QED BY <1>1, <2>1, <2>2, <2>3 DEF KeystoreInv, Exact
<1>2. KeystoreInv /\ [Next]_vars =>
         [active' # active /\ restarts' = restarts =>
             /\ incoming \subseteq store[active']
             /\ failures = 0 => store[active'] = incoming \cup since]_vars
  BY Zenon, <1>1
<1> QED BY <1>2, KeystoreInvariant, PTL DEF Spec, SwapInstallsReset

-----------------------------------------------------------------------------
(* The sizes.                                                               *)

(* Whose keys the worker and the resets handle.                             *)
KeysFrom ==
    /\ job.keys \subseteq PutKeys
    /\ \A r \in Resetters : feed[r] \cup buf[r] \cup toAdd[r] \subseteq ResetKeys

(* The marker names the active namespace, but between the swap and the      *)
(* write of the marker.                                                     *)
Marks == marker = IF worker = "marker" THEN alt ELSE active

(* The keys a reset has counted in altSize and not committed yet.           *)
Pending == UNION {toAdd[r] : r \in {q \in Resetters : rpc[q] = "altCommit"}}

(* A saved size is that of the active namespace, and is right; it is there  *)
(* between the end of Close and the next load.                              *)
Saved ==
    /\ savedSize[alt] = -1
    /\ savedSize[active] # -1 =>
          /\ worker = "load" \/ closing = "closed"
          /\ savedSize[active] = Cardinality(store[active])

(* s.size is right from the load on.                                        *)
Counted == worker # "load" => size = Cardinality(store[active])

(* What is about to be added to the alternate namespace is not there yet.   *)
Missing ==
    /\ worker = "altCommit" => job.add \cap store[alt] = {}
    /\ \A r \in Resetters : rpc[r] \in {"altAdd", "altCommit"} => toAdd[r] \cap store[alt] = {}

(* s.altSize is right up to what is pending.                                *)
AltCounted ==
    resetInProgress /\ worker \notin {"marker", "emptyAlt"} =>
       altSize = Cardinality(store[alt] \cup Pending)

Sized == Saved /\ Counted /\ Missing /\ AltCounted

SizeInv ==
    /\ KeysFrom
    /\ failures = 0 => Marks
    /\ failures = 0 /\ PutKeys \cap ResetKeys = {} => Sized

-----------------------------------------------------------------------------
(* Adding keys that are not there adds up their numbers.                    *)
LEMMA CardinalityAdd ==
    ASSUME NEW S, S \subseteq Keys, NEW T, T \subseteq Keys, S \cap T = {}
    PROVE  Cardinality(S \cup T) = Cardinality(S) + Cardinality(T)
<1>1. IsFiniteSet(S) /\ IsFiniteSet(T)
  BY Zenon, KeystoreAssumption, FS_Subset
<1>2. Cardinality(S \cup T) = Cardinality(S) + Cardinality(T) - Cardinality(S \cap T)
  BY Zenon, <1>1, FS_Union
<1>3. Cardinality(S \cap T) = 0
  BY Zenon, FS_EmptySet
<1>4. Cardinality(S) \in Nat /\ Cardinality(T) \in Nat
  BY Zenon, CardinalityNat
<1> QED BY <1>2, <1>3, <1>4

(* Removing keys that are there subtracts their number.                     *)
LEMMA CardinalityRemove ==
    ASSUME NEW S, S \subseteq Keys, NEW T
    PROVE  Cardinality(S \ (T \cap S)) = Cardinality(S) - Cardinality(T \cap S)
<1>1. IsFiniteSet(S)
  BY Zenon, KeystoreAssumption, FS_Subset
<1>2. S \cap (T \cap S) = T \cap S
  BY Zenon
<1>3. Cardinality(S \ (T \cap S)) = Cardinality(S) - Cardinality(S \cap (T \cap S))
  BY Zenon, <1>1, FS_Difference
<1> QED BY Zenon, <1>2, <1>3

(* The keys of a reset are those of its feed, the keys of a put a client's. *)
LEMMA KeysFromInit == Init => KeysFrom
<1> SUFFICES ASSUME Init PROVE KeysFrom
  BY Zenon
<1>1. job.keys = {}
  BY DEF Init, NoJob
<1>2. \A r \in Resetters : feed[r] = {} /\ buf[r] = {} /\ toAdd[r] = {}
  BY Zenon DEF Init
<1> QED BY Zenon, <1>1, <1>2 DEF KeysFrom

(* Every step preserves KeysFrom.                                           *)
LEMMA KeysFromStep == ASSUME TypeOK, KeysFrom, [Next]_vars PROVE KeysFrom'
<1>2. job'.keys \subseteq PutKeys
  <2>1. \/ job' = job \/ job' = NoJob \/ \E S \in SUBSET PutKeys : job' = [NoJob EXCEPT !.keys = S]
        \/ \E C \in SUBSET Resetters, b \in BOOLEAN : job' = [NoJob EXCEPT !.caller = C, !.err = b]
        \/ \E C \in SUBSET Resetters : job' = [NoJob EXCEPT !.caller = C]
        \/ \E A \in SUBSET Keys : job' = [job EXCEPT !.add = A]
    <3>1. CASE Worker
      BY Zenon, <3>1 DEF Worker, LoadSize, WorkerAltScan, WorkerAltCommit, Put, PersistMarker, EmptyAlt, TypeOK
    <3>2. CASE WorkerExits \/ Client \/ CloseStep \/ Restart
      BY Zenon, <3>2 DEF WorkerExits, Client, Empty, CloseCalled, TakePut, Delete, ResetCids, CloseStep,
                  CloseTakesToken, PersistSize, Restart
    <3>3. CASE \E r \in Resetters : Start(r)
      <4>1. PICK r \in Resetters : Start(r)
        BY <3>3
      <4>2. PICK b \in BOOLEAN : job' = [NoJob EXCEPT !.caller = {r}, !.err = b]
        BY Zenon, <4>1 DEF Start
      <4> QED BY Zenon, <4>2
    <3>4. CASE \E r \in Resetters : Cleanup(r)
      BY ZenonT(60), <3>4 DEF Cleanup
    <3>6. CASE \E r \in Resetters : Reset(r) \/ Abort(r)
      <4>1. job' = job \/ job' = NoJob
        BY ZenonT(60), <3>6 DEF Reset, StartReply, ReadKey, KeysChanClosed, TryAltPut, AltAdd, AltCommit,
                    CleanupSkipped, Abort, StartAborted, StartAbandoned, ReadAborted, notResetter
      <4> QED BY ZenonT(60), <4>1
    <3>5. CASE UNCHANGED vars
      BY <3>5 DEF vars
    <3> QED BY ZenonT(60), <3>1, <3>2, <3>3, <3>4, <3>5, <3>6 DEF Next
  <2>2. NoJob.keys = {}
    BY DEF NoJob
  <2>3. ASSUME NEW S \in SUBSET PutKeys, job' = [NoJob EXCEPT !.keys = S] PROVE job'.keys = S
    BY <2>3 DEF NoJob
  <2>4. ASSUME NEW C, NEW b, job' = [NoJob EXCEPT !.caller = C, !.err = b] PROVE job'.keys = {}
    BY <2>4 DEF NoJob
  <2>5. ASSUME NEW C, job' = [NoJob EXCEPT !.caller = C] PROVE job'.keys = {}
    BY <2>5 DEF NoJob
  <2>6. ASSUME NEW A \in SUBSET Keys, job' = [job EXCEPT !.add = A] PROVE job'.keys = job.keys
    BY Zenon, <2>6 DEF TypeOK
  <2>7. job.keys \subseteq PutKeys
    BY Zenon DEF KeysFrom
  <2> QED BY ZenonT(60), <2>1, <2>2, <2>3, <2>4, <2>5, <2>6, <2>7
<1>3. ASSUME NEW q \in Resetters PROVE feed'[q] \cup buf'[q] \cup toAdd'[q] \subseteq ResetKeys
  <2>0. feed[q] \subseteq ResetKeys /\ buf[q] \subseteq ResetKeys /\ toAdd[q] \subseteq ResetKeys
    BY Zenon DEF KeysFrom
  <2>1. CASE UNCHANGED <<feed, buf, toAdd>>
    BY Zenon, <2>0, <2>1
  <2>2. CASE Worker \/ WorkerExits \/ CloseStep \/ Restart \/ UNCHANGED vars
    BY Zenon, <2>1, <2>2 DEF Worker, LoadSize, WorkerAltScan, WorkerAltCommit, Put, PersistMarker, EmptyAlt,
                  WorkerExits, CloseStep, CloseTakesToken, PersistSize, Restart, vars, resetter
  <2>3. CASE Empty \/ CloseCalled \/ \E S \in SUBSET PutKeys \ {{}} : TakePut(S) \/ Delete(S)
    BY ZenonT(60), <2>1, <2>3 DEF Empty, CloseCalled, TakePut, Delete, resetter
  <2>4. CASE \E r \in Resetters, K \in SUBSET ResetKeys : ResetCids(r, K)
    <3>1. PICK r \in Resetters, K \in SUBSET ResetKeys : ResetCids(r, K)
      BY Zenon, <2>4
    <3>2. /\ feed'[q] = IF q = r THEN K ELSE feed[q]
          /\ buf'[q] = IF q = r THEN {} ELSE buf[q]
          /\ toAdd'[q] = IF q = r THEN {} ELSE toAdd[q]
      BY Zenon, <3>1 DEF ResetCids, TypeOK
    <3> QED BY <2>0, <3>2
  <2>5. CASE \E r \in Resetters : ReadKey(r)
    <3>1. PICK r \in Resetters : ReadKey(r)
      BY Zenon, <2>5
    <3>2. PICK k \in feed[r] : feed' = [feed EXCEPT ![r] = @ \ {k}] /\ buf' = [buf EXCEPT ![r] = @ \cup {k}]
      BY Zenon, <3>1 DEF ReadKey
    <3>3. toAdd' = toAdd
      BY Zenon, <3>1 DEF ReadKey
    <3>4. feed'[q] \subseteq feed[q] /\ buf'[q] \subseteq buf[q] \cup feed[q]
      BY Zenon, <3>2 DEF TypeOK
    <3> QED BY Zenon, <2>0, <3>3, <3>4
  <2>6. CASE \E r \in Resetters : TryAltPut(r)
    <3>1. PICK r \in Resetters : TryAltPut(r)
      BY Zenon, <2>6
    <3>2. UNCHANGED <<feed, buf>> /\ (toAdd' = toAdd \/ toAdd' = [toAdd EXCEPT ![r] = buf[r] \ store[alt]])
      BY Zenon, <3>1 DEF TryAltPut
    <3>3. toAdd'[q] = toAdd[q] \/ toAdd'[q] = buf[q] \ store[alt]
      BY Zenon, <3>2 DEF TypeOK
    <3>4. feed'[q] = feed[q] /\ buf'[q] = buf[q]
      BY Zenon, <3>2
    <3> QED BY <2>0, <3>3, <3>4
  <2>7. CASE \E r \in Resetters : AltCommit(r)
    <3>1. PICK r \in Resetters : AltCommit(r)
      BY Zenon, <2>7
    <3>2. UNCHANGED <<feed, toAdd>> /\ buf' = [buf EXCEPT ![r] = {}]
      BY Zenon, <3>1 DEF AltCommit
    <3>3. buf'[q] \subseteq buf[q]
      BY Zenon, <3>2 DEF TypeOK
    <3> QED BY Zenon, <2>0, <3>2, <3>3
  <2>8. CASE \E r \in Resetters : \/ Start(r) \/ Cleanup(r) \/ Abort(r) \/ StartReply(r) \/ KeysChanClosed(r)
                                  \/ AltAdd(r) \/ CleanupSkipped(r)
    BY Zenon, <2>1, <2>8 DEF Start, Cleanup, StartReply, KeysChanClosed, AltAdd, CleanupSkipped, Abort,
                  StartAborted, StartAbandoned, ReadAborted
  <2> QED BY Zenon, <2>2, <2>3, <2>4, <2>5, <2>6, <2>7, <2>8 DEF Next, Client, Reset
<1> QED BY Zenon, <1>2, <1>3 DEF KeysFrom

(* As long as no failure is counted none has been.                          *)
LEMMA CleanBefore == ASSUME TypeOK, [Next]_vars, failures' = 0 PROVE failures = 0
<1>1. CASE Worker
  BY Zenon, <1>1, CountZero DEF Worker, LoadSize, WorkerAltScan, WorkerAltCommit, Put, PersistMarker, EmptyAlt,
                           bounds
<1>2. CASE WorkerExits \/ Client \/ CloseStep \/ Restart
  BY Zenon, <1>2, CountZero DEF WorkerExits, Client, Empty, CloseCalled, TakePut, Delete, ResetCids, CloseStep,
                           CloseTakesToken, PersistSize, Restart, bounds
<1>3. CASE \E r \in Resetters : Start(r) \/ Cleanup(r)
  BY Zenon, <1>3, CountZero DEF Start, Cleanup, bounds
<1>4. CASE \E r \in Resetters : Reset(r) \/ Abort(r)
  <2>1. CASE \E r \in Resetters : AltCommit(r)
    BY Zenon, <2>1, CountZero DEF AltCommit
  <2>2. CASE \E r \in Resetters : (Reset(r) /\ ~AltCommit(r)) \/ Abort(r)
    BY Zenon, <2>2 DEF Reset, StartReply, ReadKey, KeysChanClosed, TryAltPut, AltAdd,
                           CleanupSkipped, Abort, StartAborted, StartAbandoned, ReadAborted, notResetter, bounds
  <2> QED BY Zenon, <1>4, <2>1, <2>2
<1>5. CASE UNCHANGED vars
  BY Zenon, <1>5 DEF vars, bounds
<1> QED BY Zenon, <1>1, <1>2, <1>3, <1>4, <1>5 DEF Next

(* Every step without a failure keeps the marker right.                     *)
LEMMA MarksStep == ASSUME TypeOK, Marks, [Next]_vars, failures' = 0 PROVE Marks'
<1>1. CASE \E r \in Resetters : Cleanup(r)
  <2>1. /\ worker = "idle" /\ marker' = marker
        /\ \/ worker' = "marker" /\ active' = alt
           \/ worker' = "emptyAlt" /\ active' = active
    BY Zenon, <1>1 DEF Cleanup, durable
  <2> QED BY <2>1 DEF Marks, alt, TypeOK, Namespaces
<1>2. CASE PersistMarker
  BY Zenon, <1>2, CountZero DEF PersistMarker, Marks
<1>3. CASE Restart
  BY Zenon, <1>3 DEF Restart, durable, Marks
<1>4. CASE Worker /\ ~PersistMarker
  BY Zenon, <1>4 DEF Worker, LoadSize, WorkerAltScan, WorkerAltCommit, Put, EmptyAlt, durable, Marks
<1>5. CASE WorkerExits \/ Client \/ CloseStep
  BY Zenon, <1>5 DEF WorkerExits, Client, Empty, CloseCalled, TakePut, Delete, ResetCids, CloseStep,
              CloseTakesToken, PersistSize, durable, Marks, alt
<1>6. CASE \E r \in Resetters : Start(r) \/ Reset(r) \/ Abort(r)
  BY Zenon, <1>6 DEF Start, Reset, StartReply, ReadKey, KeysChanClosed, TryAltPut, AltAdd, AltCommit,
              CleanupSkipped, Abort, StartAborted, StartAbandoned, ReadAborted, notResetter, durable, Marks, alt
<1>7. CASE UNCHANGED vars
  BY Zenon, <1>7 DEF vars, durable, Marks, alt
<1> QED BY Zenon, <1>1, <1>2, <1>3, <1>4, <1>5, <1>6, <1>7 DEF Next

-----------------------------------------------------------------------------
(* Who changes what the sizes speak of.                                     *)

(* The active namespace and its sizes are left alone.                       *)
LEMMA ActiveFrame ==
    ASSUME Saved, Counted, UNCHANGED <<store, savedSize, active, size>>,
           worker' = "load" <=> worker = "load", closing = "closed" => closing' = "closed"
    PROVE  Saved' /\ Counted'
BY Zenon DEF Saved, Counted, alt

(* The active namespace changes and is counted.                             *)
LEMMA ActiveCounted ==
    ASSUME Saved, savedSize[active] = -1, UNCHANGED <<savedSize, active>>,
           size' = Cardinality(store'[active])
    PROVE  Saved' /\ Counted'
BY Zenon DEF Saved, Counted, alt

(* The alternate namespace and its size are left alone, and no reset begins *)
(* or ends a write to it.                                                   *)
LEMMA AltFrame ==
    ASSUME Missing, AltCounted, UNCHANGED <<active, altSize>>, store'[alt] = store[alt],
           resetInProgress' => resetInProgress /\ worker \notin {"marker", "emptyAlt"},
           worker' = "altCommit" => worker = "altCommit" /\ job' = job,
           \A r \in Resetters : /\ rpc'[r] \in {"altAdd", "altCommit"} => rpc'[r] = rpc[r] /\ toAdd'[r] = toAdd[r]
                                /\ rpc[r] = "altCommit" => rpc'[r] = "altCommit"
    PROVE  Missing' /\ AltCounted'
<1>1. alt' = alt /\ (store[alt])' = store[alt]
  BY Zenon DEF alt
<1>2. Missing'
  BY Zenon, <1>1 DEF Missing
<1>3. Pending' = Pending
  <2>1. \A r \in Resetters : rpc'[r] = "altCommit" <=> rpc[r] = "altCommit"
    BY Zenon
  <2>2. \A r \in Resetters : rpc'[r] = "altCommit" => toAdd'[r] = toAdd[r]
    BY Zenon
  <2> QED BY Zenon, <2>1, <2>2 DEF Pending
<1>4. AltCounted'
  BY Zenon, <1>1, <1>3 DEF AltCounted
<1> QED BY Zenon, <1>2, <1>4

-----------------------------------------------------------------------------
(* The worker.                                                              *)

(* Between the load and the end of Close nothing is saved.                  *)
LEMMA Unsaved ==
    ASSUME Control, Saved, worker \notin {"load", "exited"}
    PROVE  savedSize[active] = -1
BY Zenon DEF Control, Saved

(* The size that is loaded is right.                                        *)
LEMMA SizedLoad == ASSUME KeystoreInv, Sized, LoadSize, failures' = 0 PROVE Sized'
<1>0. TypeOK /\ Control /\ Saved /\ Counted /\ Missing /\ AltCounted
  BY Zenon DEF KeystoreInv, Sized
<1>1. PICK ok \in Outcomes :
         /\ count(ok)
         /\ \/ /\ size' = IF savedSize[active] = -1 THEN Cardinality(store[active]) ELSE savedSize[active]
               /\ savedSize' = [savedSize EXCEPT ![active] = -1]
            \/ ~ok
  BY Zenon DEF LoadSize
<1>2. ok
  BY Zenon, <1>0, <1>1, CountZero
<1>3. /\ worker = "load" /\ worker' = "idle"
      /\ UNCHANGED <<store, active, altSize, resetInProgress, job, rpc, toAdd>>
  BY Zenon DEF LoadSize, resetter
<1>4. size' = Cardinality(store[active])
  BY Zenon, <1>0, <1>1, <1>2 DEF Saved
<1>5. savedSize'[active] = -1 /\ savedSize'[alt] = -1
  BY Zenon, <1>0, <1>1, <1>2, AltNamespace DEF Saved, TypeOK
<1>6. Saved' /\ Counted'
  BY Zenon, <1>3, <1>4, <1>5 DEF Saved, Counted, alt
<1>7. Missing' /\ AltCounted'
  BY Zenon, <1>0, <1>3, AltFrame
<1> QED BY Zenon, <1>6, <1>7 DEF Sized

(* A put counts the keys it adds.                                           *)
LEMMA SizedPut == ASSUME KeystoreInv, Sized, Put, failures' = 0 PROVE Sized'
<1>0. TypeOK /\ Control /\ Saved /\ Counted /\ Missing /\ AltCounted
  BY Zenon DEF KeystoreInv, Sized
<1>1. PICK C : /\ C = job.keys \ store[active] /\ store' = [store EXCEPT ![active] = @ \cup C]
               /\ size' = size + Cardinality(job.keys \ store[active])
  <2>1. PICK ok \in Outcomes : \E C \in Applied(job.keys \ store[active], ok) :
           /\ store' = [store EXCEPT ![active] = @ \cup C] /\ count(ok)
           /\ ok => size' = size + Cardinality(job.keys \ store[active])
    BY Zenon DEF Put
  <2>2. ok
    BY Zenon, <1>0, <2>1, CountZero
  <2> QED BY Zenon, <2>1, <2>2 DEF Applied
<1>3. /\ worker = "put" /\ worker' = "idle"
      /\ UNCHANGED <<savedSize, active, altSize, resetInProgress, rpc, toAdd>>
  BY Zenon DEF Put, resetter
<1>4. store'[active] = store[active] \cup C /\ store'[alt] = store[alt]
  BY ZenonT(60), <1>0, <1>1, AltNamespace DEF TypeOK
<1>5. store[active] \subseteq Keys /\ C \subseteq Keys /\ store[active] \cap C = {}
  BY <1>0, <1>1 DEF TypeOK
<1>6. size' = Cardinality(store'[active])
  <2>1. size = Cardinality(store[active])
    BY Zenon, <1>0, <1>3 DEF Counted
  <2>2. Cardinality(store'[active]) = Cardinality(store[active]) + Cardinality(C)
    BY Zenon, <1>4, <1>5, CardinalityAdd
  <2> QED BY Zenon, <1>1, <2>1, <2>2
<1>7. Saved' /\ Counted'
  BY Zenon, <1>0, <1>3, <1>6, Unsaved, ActiveCounted
<1>8. Missing' /\ AltCounted'
  BY Zenon, <1>0, <1>3, <1>4, AltFrame
<1> QED BY Zenon, <1>7, <1>8 DEF Sized

(* A delete counts the keys it removes.                                     *)
LEMMA SizedDelete == ASSUME KeystoreInv, Sized, NEW S, Delete(S), failures' = 0 PROVE Sized'
<1>0. TypeOK /\ Control /\ Saved /\ Counted /\ Missing /\ AltCounted
  BY Zenon DEF KeystoreInv, Sized
<1>1. PICK C : /\ C = S \cap store[active] /\ store' = [store EXCEPT ![active] = @ \ C]
               /\ size' = size - Cardinality(S \cap store[active])
  <2>1. PICK ok \in Outcomes : \E C \in Applied(S \cap store[active], ok) :
           /\ store' = [store EXCEPT ![active] = @ \ C] /\ count(ok)
           /\ ok => size' = size - Cardinality(S \cap store[active])
    BY Zenon DEF Delete
  <2>2. ok
    BY Zenon, <1>0, <2>1, CountZero
  <2> QED BY Zenon, <2>1, <2>2 DEF Applied
<1>3. /\ worker = "idle" /\ worker' = "idle"
      /\ UNCHANGED <<savedSize, active, altSize, resetInProgress, rpc, toAdd>>
  BY Zenon DEF Delete, resetter
<1>4. store'[active] = store[active] \ C /\ store'[alt] = store[alt]
  BY Zenon, <1>0, <1>1, AltNamespace DEF TypeOK
<1>5. size' = Cardinality(store'[active])
  <2>1. size = Cardinality(store[active])
    BY Zenon, <1>0, <1>3 DEF Counted
  <2>2. store[active] \subseteq Keys
    BY Zenon, <1>0 DEF TypeOK
  <2>3. Cardinality(store'[active]) = Cardinality(store[active]) - Cardinality(C)
    BY Zenon, <1>1, <1>4, <2>2, CardinalityRemove
  <2> QED BY Zenon, <1>1, <2>1, <2>3
<1>6. Saved' /\ Counted'
  BY Zenon, <1>0, <1>3, <1>5, Unsaved, ActiveCounted
<1>7. Missing' /\ AltCounted'
  BY Zenon, <1>0, <1>3, <1>4, AltFrame
<1> QED BY Zenon, <1>6, <1>7 DEF Sized

(* What emptying a namespace leaves.                                        *)
LEMMA Emptied ==
    ASSUME TypeOK, NEW n \in Namespaces, empty(n, TRUE)
    PROVE  /\ store'[n] = {} /\ savedSize'[n] = -1
           /\ \A m \in Namespaces : m # n => store'[m] = store[m] /\ savedSize'[m] = savedSize[m]
<1>1. store' = [store EXCEPT ![n] = @ \ store[n]] /\ savedSize' = [savedSize EXCEPT ![n] = -1]
  BY Zenon DEF empty, Applied
<1>2. store'[n] = store[n] \ store[n]
  BY Zenon, <1>1 DEF TypeOK
<1> QED BY Zenon, <1>1, <1>2 DEF TypeOK

(* Empty leaves nothing to count.                                           *)
LEMMA SizedEmpty == ASSUME KeystoreInv, Sized, Empty, failures' = 0 PROVE Sized'
<1>0. TypeOK /\ Control /\ Saved /\ Counted /\ Missing /\ AltCounted
  BY Zenon DEF KeystoreInv, Sized
<1>1. PICK ok \in Outcomes : empty(active, ok) /\ count(ok) /\ (ok => size' = 0)
  BY Zenon DEF Empty
<1>2. ok /\ ok \in BOOLEAN
  BY Zenon, <1>0, <1>1, CountZero DEF Outcomes
<1>3. /\ worker = "idle" /\ worker' = "idle"
      /\ UNCHANGED <<active, altSize, resetInProgress, rpc, toAdd>>
  BY Zenon DEF Empty, resetter
<1>4. /\ store'[active] = {} /\ savedSize'[active] = -1
      /\ store'[alt] = store[alt] /\ savedSize'[alt] = savedSize[alt]
  <2>1. active \in Namespaces
    BY Zenon, <1>0 DEF TypeOK
  <2>2. empty(active, TRUE)
    BY Zenon, <1>1, <1>2
  <2> QED BY Zenon, <1>0, <2>1, <2>2, Emptied, AltNamespace
<1>5. size' = Cardinality(store'[active])
  BY Zenon, <1>1, <1>2, <1>4, FS_EmptySet
<1>6. Saved' /\ Counted'
  BY Zenon, <1>0, <1>3, <1>4, <1>5 DEF Saved, Counted, alt
<1>7. Missing' /\ AltCounted'
  BY Zenon, <1>0, <1>3, <1>4, AltFrame
<1> QED BY Zenon, <1>6, <1>7 DEF Sized

(* The keys the worker has found missing are missing.                       *)
LEMMA SizedAltScan == ASSUME KeystoreInv, Sized, WorkerAltScan PROVE Sized'
<1>0. TypeOK /\ Saved /\ Counted /\ Missing /\ AltCounted
  BY Zenon DEF KeystoreInv, Sized
<1>1. /\ worker = "altScan" /\ worker' = "altCommit" /\ job' = [job EXCEPT !.add = job.keys \ store[alt]]
      /\ UNCHANGED <<store, savedSize, active, size, altSize, resetInProgress, rpc, toAdd, closing>>
  BY Zenon DEF WorkerAltScan, resetter, durable, sizes
<1>2. Saved' /\ Counted'
  BY Zenon, <1>0, <1>1, ActiveFrame
<1>3. alt' = alt /\ Pending' = Pending
  BY Zenon, <1>1 DEF alt, Pending
<1>4. job'.add = job.keys \ store[alt]
  BY Zenon, <1>0, <1>1 DEF TypeOK
<1>5. job'.add \cap store[alt] = {}
  BY <1>4
<1>6. Missing'
  BY Zenon, <1>0, <1>1, <1>3, <1>5 DEF Missing
<1>7. AltCounted'
  BY Zenon, <1>0, <1>1, <1>3 DEF AltCounted
<1> QED BY Zenon, <1>2, <1>6, <1>7 DEF Sized

(* The pending keys are keys of resets.                                     *)
LEMMA PendingKeys ==
    ASSUME KeysFrom
    PROVE  Pending \subseteq ResetKeys /\ Pending \subseteq Keys
BY Zenon DEF KeysFrom, Pending, Keys

(* No other reset has keys pending while one is past its start.             *)
LEMMA PendingOf ==
    ASSUME Control, NEW r \in Resetters, Past(r)
    PROVE  Pending = IF rpc[r] = "altCommit" THEN toAdd[r] ELSE {}
<1>1. \A q \in Resetters : rpc[q] = "altCommit" => q = r
  BY Zenon DEF Control, Past
<1> QED BY Zenon, <1>1 DEF Pending

(* The worker's copy of a put to the alternate namespace is counted: the    *)
(* keys a reset brings at the same time are others.                         *)
LEMMA SizedWorkerAltCommit ==
    ASSUME KeystoreInv, KeysFrom, Sized, PutKeys \cap ResetKeys = {}, WorkerAltCommit, failures' = 0
    PROVE  Sized'
<1>0. TypeOK /\ Control /\ Exact /\ Saved /\ Counted /\ Missing /\ AltCounted
  BY Zenon DEF KeystoreInv, Sized
<1>1. store' = [store EXCEPT ![alt] = @ \cup job.add] /\ altSize' = altSize + Cardinality(job.add)
  <2>1. PICK ok \in Outcomes : \E C \in Applied(job.add, ok) :
           /\ store' = [store EXCEPT ![alt] = @ \cup C] /\ count(ok)
           /\ ok => altSize' = altSize + Cardinality(job.add)
    BY Zenon DEF WorkerAltCommit
  <2>2. ok
    BY Zenon, <1>0, <2>1, CountZero
  <2> QED BY Zenon, <2>1, <2>2 DEF Applied
<1>2. /\ worker = "altCommit" /\ worker' = "put"
      /\ UNCHANGED <<savedSize, active, size, resetInProgress, rpc, toAdd, closing>>
  BY Zenon DEF WorkerAltCommit, resetter
<1>3. store'[alt] = store[alt] \cup job.add /\ store'[active] = store[active]
  BY Zenon, <1>0, <1>1, AltNamespace DEF TypeOK
<1>4. alt' = alt /\ Pending' = Pending
  BY Zenon, <1>2 DEF alt, Pending
<1>5. job.add \subseteq PutKeys /\ resetInProgress /\ job.add \cap store[alt] = {}
  BY Zenon, <1>0, <1>2 DEF Exact, KeysFrom, Missing
<1>6. Saved' /\ Counted'
  BY Zenon, <1>0, <1>2, <1>3, <1>4 DEF Saved, Counted
<1>7. Missing'
  <2> SUFFICES ASSUME NEW r \in Resetters, rpc[r] \in {"altAdd", "altCommit"}
               PROVE  toAdd[r] \cap store'[alt] = {}
    BY Zenon, <1>2, <1>4 DEF Missing
  <2>1. toAdd[r] \cap store[alt] = {} /\ toAdd[r] \subseteq ResetKeys
    BY Zenon, <1>0 DEF Missing, KeysFrom
  <2> QED BY <1>3, <1>5, <2>1
<1>8. AltCounted'
  <2> DEFINE S == store[alt] \cup Pending
  <2>1. altSize = Cardinality(S)
    BY Zenon, <1>0, <1>2, <1>5 DEF AltCounted
  <2>2. Pending \subseteq ResetKeys /\ S \subseteq Keys /\ job.add \subseteq Keys
    BY Zenon, <1>0, PendingKeys, AltNamespace DEF TypeOK
  <2>3. S \cap job.add = {}
    BY <1>5, <2>2
  <2>4. store'[alt] \cup Pending = S \cup job.add
    BY Zenon, <1>3
  <2> HIDE DEF S
  <2>5. Cardinality(S \cup job.add) = altSize + Cardinality(job.add)
    BY Zenon, <2>1, <2>2, <2>3, CardinalityAdd
  <2> QED BY Zenon, <1>1, <1>4, <2>4, <2>5 DEF AltCounted
<1> QED BY Zenon, <1>6, <1>7, <1>8 DEF Sized

(* The alternate namespace is emptied, at the end of a reset or at the      *)
(* start of one: nothing is pending, or the reset is over.                  *)
LEMMA SizedAltEmptied ==
    ASSUME TypeOK, Saved, Counted, empty(alt, TRUE), UNCHANGED <<active, size, toAdd>>,
           worker # "load", closing = "closed" => closing' = "closed",
           worker' \notin {"load", "altCommit"},
           resetInProgress' => altSize' = 0 /\ \A r \in Resetters : rpc'[r] # "altCommit"
    PROVE  Sized'
<1>1. /\ store'[alt] = {} /\ savedSize'[alt] = -1
      /\ store'[active] = store[active] /\ savedSize'[active] = savedSize[active]
  <2>1. active \in Namespaces
    BY Zenon DEF TypeOK
  <2> QED BY Zenon, <2>1, Emptied, AltNamespace
<1>2. alt' = alt
  BY Zenon DEF alt
<1>3. Saved' /\ Counted'
  BY Zenon, <1>1, <1>2 DEF Saved, Counted
<1>4. Missing'
  BY Zenon, <1>1, <1>2 DEF Missing
<1>5. AltCounted'
  <2> SUFFICES ASSUME resetInProgress' PROVE altSize' = Cardinality(store'[alt] \cup Pending')
    BY Zenon, <1>2 DEF AltCounted
  <2>1. Pending' = {}
    BY Zenon DEF Pending
  <2>2. store'[alt] \cup Pending' = {}
    BY Zenon, <1>1, <2>1
  <2> QED BY Zenon, <2>2, FS_EmptySet
<1> QED BY Zenon, <1>3, <1>4, <1>5 DEF Sized

(* The end of a reset.                                                      *)
LEMMA SizedEmptyAlt == ASSUME KeystoreInv, Sized, EmptyAlt, failures' = 0 PROVE Sized'
<1>0. TypeOK /\ Saved /\ Counted
  BY Zenon DEF KeystoreInv, Sized
<1>1. PICK ok \in Outcomes : empty(alt, ok) /\ count(ok)
  BY Zenon DEF EmptyAlt
<1>2. ok /\ ok \in BOOLEAN
  BY Zenon, <1>0, <1>1, CountZero DEF Outcomes
<1>3. empty(alt, TRUE)
  BY Zenon, <1>1, <1>2
<1>4. /\ worker = "emptyAlt" /\ worker' = "idle" /\ ~resetInProgress'
      /\ UNCHANGED <<active, size, toAdd, closing>>
  BY Zenon DEF EmptyAlt, sizes
<1> QED BY Zenon, <1>0, <1>3, <1>4, SizedAltEmptied

(* The start of a reset, or its refusal.                                    *)
LEMMA SizedStart == ASSUME KeystoreInv, Sized, NEW r \in Resetters, Start(r), failures' = 0 PROVE Sized'
<1>0. TypeOK /\ Control /\ Saved /\ Counted /\ Missing /\ AltCounted
  BY Zenon DEF KeystoreInv, Sized
<1>1. /\ worker = "idle" /\ worker' = "respondStart" /\ rpc[r] = "callStart"
      /\ rpc' = [rpc EXCEPT ![r] = "waitStart"]
      /\ UNCHANGED <<active, size, toAdd, closing>>
  BY Zenon DEF Start
<1>2. \A q \in Resetters : rpc'[q] = IF q = r THEN "waitStart" ELSE rpc[q]
  BY Zenon, <1>0, <1>1 DEF TypeOK
<1>3. CASE resetInProgress
  <2>1. UNCHANGED <<store, savedSize, altSize, resetInProgress>>
    BY Zenon, <1>3 DEF Start
  <2>2. Saved' /\ Counted'
    BY Zenon, <1>0, <1>1, <2>1, ActiveFrame
  <2>3. \A q \in Resetters : /\ rpc'[q] \in {"altAdd", "altCommit"} => rpc'[q] = rpc[q] /\ toAdd'[q] = toAdd[q]
                             /\ rpc[q] = "altCommit" => rpc'[q] = "altCommit"
    BY <1>1, <1>2
  <2>4. store'[alt] = store[alt] /\ worker \notin {"marker", "emptyAlt"} /\ worker' # "altCommit"
    BY Zenon, <1>1, <2>1
  <2>5. Missing' /\ AltCounted'
    BY Zenon, <1>0, <1>1, <1>3, <2>1, <2>3, <2>4, AltFrame
  <2> QED BY Zenon, <2>2, <2>5 DEF Sized
<1>4. CASE ~resetInProgress
  <2>1. PICK ok \in Outcomes : empty(alt, ok) /\ count(ok)
    BY Zenon, <1>4 DEF Start
  <2>2. ok /\ ok \in BOOLEAN
    BY Zenon, <1>0, <2>1, CountZero DEF Outcomes
  <2>3. empty(alt, TRUE) /\ altSize' = 0
    BY Zenon, <1>4, <2>1, <2>2 DEF Start
  <2>4. \A q \in Resetters : rpc'[q] # "altCommit"
    BY Zenon, <1>0, <1>2, <1>4 DEF Control, Past
  <2> QED BY Zenon, <1>0, <1>1, <2>3, <2>4, SizedAltEmptied
<1> QED BY Zenon, <1>3, <1>4

(* The swap: the size of the alternate namespace, with nothing pending, is  *)
(* that of the namespace that becomes active.                               *)
LEMMA SizedCleanup == ASSUME KeystoreInv, Sized, NEW r \in Resetters, Cleanup(r) PROVE Sized'
<1>0. TypeOK /\ Control /\ Saved /\ Counted /\ Missing /\ AltCounted
  BY Zenon DEF KeystoreInv, Sized
<1>1. /\ worker = "idle" /\ rpc[r] = "cleanup" /\ rpc' = [rpc EXCEPT ![r] = "waitCleanup"]
      /\ worker' \in {"marker", "emptyAlt"}
      /\ UNCHANGED <<store, savedSize, altSize, toAdd, closing>>
  BY Zenon DEF Cleanup, durable
<1>2. \A q \in Resetters : rpc'[q] \notin {"altAdd", "altCommit"}
  <2>1. \A q \in Resetters : Past(q) => q = r
    BY Zenon, <1>0, <1>1 DEF Control, Past
  <2>2. \A q \in Resetters : rpc'[q] = IF q = r THEN "waitCleanup" ELSE rpc[q]
    BY Zenon, <1>0, <1>1 DEF TypeOK
  <2> QED BY Zenon, <2>1, <2>2 DEF Past
<1>3. Missing' /\ AltCounted'
  BY Zenon, <1>1, <1>2 DEF Missing, AltCounted
<1>4. savedSize[active] = -1 /\ savedSize[alt] = -1
  BY Zenon, <1>0, <1>1, Unsaved DEF Saved
<1>5. CASE success[r]
  <2>1. active' = alt /\ size' = altSize
    BY Zenon, <1>5 DEF Cleanup
  <2>2. alt' = active
    BY <1>0, <2>1 DEF alt, TypeOK, Namespaces
  <2>3. altSize = Cardinality(store[alt])
    <3>1. Past(r) /\ resetInProgress
      BY Zenon, <1>0, <1>1 DEF Control, Past
    <3>2. Pending = {}
      BY Zenon, <1>0, <1>1, <3>1, PendingOf
    <3>3. store[alt] \cup Pending = store[alt]
      BY Zenon, <3>2
    <3> QED BY Zenon, <1>0, <1>1, <3>1, <3>3 DEF AltCounted
  <2>4. Saved' /\ Counted'
    BY Zenon, <1>1, <1>4, <2>1, <2>2, <2>3 DEF Saved, Counted
  <2> QED BY Zenon, <1>3, <2>4 DEF Sized
<1>6. CASE ~success[r]
  <2>1. UNCHANGED <<active, size>>
    BY Zenon, <1>6 DEF Cleanup
  <2>2. Saved' /\ Counted'
    BY Zenon, <1>0, <1>1, <2>1, ActiveFrame
  <2> QED BY Zenon, <1>3, <2>2 DEF Sized
<1> QED BY Zenon, <1>5, <1>6

-----------------------------------------------------------------------------
(* The resets and Close.                                                    *)

(* A step that only moves calls, and not into or out of a write.            *)
LEMMA SizedMoves ==
    ASSUME Sized, UNCHANGED <<store, savedSize, active, size, altSize, resetInProgress>>,
           worker' = "load" <=> worker = "load", closing = "closed" => closing' = "closed",
           resetInProgress' /\ worker' \notin {"marker", "emptyAlt"} => worker \notin {"marker", "emptyAlt"},
           worker' = "altCommit" => worker = "altCommit" /\ job' = job,
           \A r \in Resetters : /\ rpc'[r] \in {"altAdd", "altCommit"} => rpc'[r] = rpc[r] /\ toAdd'[r] = toAdd[r]
                                /\ rpc[r] = "altCommit" => rpc'[r] = "altCommit"
    PROVE  Sized'
<1>0. Saved /\ Counted /\ Missing /\ AltCounted
  BY Zenon DEF Sized
<1>1. Saved' /\ Counted'
  BY Zenon, <1>0, ActiveFrame
<1>2. CASE worker' \in {"marker", "emptyAlt"}
  <2>1. alt' = alt
    BY Zenon DEF alt
  <2> QED BY Zenon, <1>0, <1>1, <1>2, <2>1 DEF Missing, AltCounted, Sized
<1>3. CASE worker' \notin {"marker", "emptyAlt"}
  <2>1. Missing' /\ AltCounted'
    BY Zenon, <1>0, <1>3, AltFrame
  <2> QED BY Zenon, <1>1, <2>1 DEF Sized
<1> QED BY Zenon, <1>2, <1>3

(* A reset is given its keys, moves on, or returns.                         *)
LEMMA SizedCall ==
    ASSUME KeystoreInv, Sized, NEW r \in Resetters, NEW to, rpc' = [rpc EXCEPT ![r] = to],
           rpc[r] # "altCommit", to \notin {"altAdd", "altCommit"},
           \A q \in Resetters : q # r => toAdd'[q] = toAdd[q],
           UNCHANGED <<store, savedSize, active, size, altSize, resetInProgress, closing>>,
           \/ worker' = worker /\ job' = job
           \/ worker \notin {"load", "marker", "emptyAlt"} /\ worker' \notin {"load", "altCommit"}
    PROVE  Sized'
<1>1. \A q \in Resetters : rpc'[q] = IF q = r THEN to ELSE rpc[q]
  BY Zenon DEF KeystoreInv, TypeOK
<1>2. \A q \in Resetters : /\ rpc'[q] \in {"altAdd", "altCommit"} => rpc'[q] = rpc[q] /\ toAdd'[q] = toAdd[q]
                           /\ rpc[q] = "altCommit" => rpc'[q] = "altCommit"
  BY Zenon, <1>1
<1> QED BY Zenon, <1>2, SizedMoves

(* altPut of a reset finds the keys that are missing.                       *)
LEMMA SizedTryAltPut == ASSUME KeystoreInv, Sized, NEW r \in Resetters, TryAltPut(r) PROVE Sized'
<1>0. TypeOK /\ Saved /\ Counted /\ Missing /\ AltCounted
  BY Zenon DEF KeystoreInv, Sized
<1>1. /\ rpc[r] = "tryAltPut"
      /\ UNCHANGED <<store, savedSize, active, size, altSize, resetInProgress, worker, job, closing>>
  BY Zenon DEF TryAltPut, notResetter, durable, sizes
<1>2. CASE rpc' = [rpc EXCEPT ![r] = "cleanup"] /\ toAdd' = toAdd
  <2>1. rpc[r] # "altCommit" /\ "cleanup" \notin {"altAdd", "altCommit"}
    BY Zenon, <1>1
  <2>2. \A q \in Resetters : q # r => toAdd'[q] = toAdd[q]
    BY Zenon, <1>2
  <2> QED BY Zenon, <1>1, <1>2, <2>1, <2>2, SizedCall
<1>3. CASE rpc' = [rpc EXCEPT ![r] = "altAdd"] /\ toAdd' = [toAdd EXCEPT ![r] = buf[r] \ store[alt]]
  <2>1. \A q \in Resetters : /\ rpc'[q] = IF q = r THEN "altAdd" ELSE rpc[q]
                             /\ toAdd'[q] = IF q = r THEN buf[r] \ store[alt] ELSE toAdd[q]
    BY Zenon, <1>0, <1>3 DEF TypeOK
  <2>2. alt' = alt /\ Pending' = Pending
    <3>1. \A q \in Resetters : rpc'[q] = "altCommit" <=> rpc[q] = "altCommit"
      BY Zenon, <1>1, <2>1
    <3>2. \A q \in Resetters : rpc'[q] = "altCommit" => toAdd'[q] = toAdd[q]
      BY Zenon, <1>1, <2>1
    <3> QED BY Zenon, <1>1, <3>1, <3>2 DEF Pending, alt
  <2>3. (buf[r] \ store[alt]) \cap store[alt] = {}
    OBVIOUS
  <2>4. Missing'
    BY Zenon, <1>0, <1>1, <2>1, <2>2, <2>3 DEF Missing
  <2>5. AltCounted'
    BY Zenon, <1>0, <1>1, <2>2 DEF AltCounted
  <2>6. Saved' /\ Counted'
    BY Zenon, <1>0, <1>1, ActiveFrame
  <2> QED BY Zenon, <2>4, <2>5, <2>6 DEF Sized
<1> QED BY Zenon, <1>2, <1>3 DEF TryAltPut, resetStep

(* altSize.Add before the commit: the keys are pending.                     *)
LEMMA SizedAltAdd == ASSUME KeystoreInv, KeysFrom, Sized, NEW r \in Resetters, AltAdd(r) PROVE Sized'
<1>0. TypeOK /\ Control /\ Saved /\ Counted /\ Missing /\ AltCounted
  BY Zenon DEF KeystoreInv, Sized
<1>1. /\ rpc[r] = "altAdd" /\ rpc' = [rpc EXCEPT ![r] = "altCommit"]
      /\ altSize' = altSize + Cardinality(toAdd[r])
      /\ UNCHANGED <<store, savedSize, active, size, resetInProgress, worker, job, toAdd, closing>>
  BY Zenon DEF AltAdd, durable, resetStep
<1>2. \A q \in Resetters : rpc'[q] = IF q = r THEN "altCommit" ELSE rpc[q]
  BY Zenon, <1>0, <1>1 DEF TypeOK
<1>3. Past(r) /\ resetInProgress
  BY Zenon, <1>0, <1>1 DEF Control, Past
<1>4. Pending = {}
  BY Zenon, <1>0, <1>1, <1>3, PendingOf
<1>5. Pending' = toAdd[r]
  <2>1. \A q \in Resetters : rpc'[q] = "altCommit" <=> q = r
    BY Zenon, <1>0, <1>2, <1>3 DEF Control, Past
  <2> QED BY Zenon, <1>1, <2>1 DEF Pending
<1>6. alt' = alt
  BY Zenon, <1>1 DEF alt
<1>7. Saved' /\ Counted'
  BY Zenon, <1>0, <1>1, ActiveFrame
<1>8. toAdd[r] \cap store[alt] = {}
  BY Zenon, <1>0, <1>1 DEF Missing
<1>9. Missing'
  BY Zenon, <1>0, <1>1, <1>2, <1>6, <1>8 DEF Missing
<1>10. AltCounted'
  <2> SUFFICES ASSUME worker \notin {"marker", "emptyAlt"}
               PROVE  altSize' = Cardinality(store[alt] \cup toAdd[r])
    BY Zenon, <1>1, <1>5, <1>6 DEF AltCounted
  <2>1. store[alt] \cup Pending = store[alt]
    BY Zenon, <1>4
  <2>2. altSize = Cardinality(store[alt])
    BY Zenon, <1>0, <1>3, <2>1 DEF AltCounted
  <2>3. store[alt] \subseteq Keys /\ toAdd[r] \subseteq Keys
    BY Zenon, <1>0, AltNamespace DEF TypeOK
  <2>4. store[alt] \cap toAdd[r] = {}
    BY Zenon, <1>8
  <2>5. Cardinality(store[alt] \cup toAdd[r]) = Cardinality(store[alt]) + Cardinality(toAdd[r])
    BY Zenon, <2>3, <2>4, CardinalityAdd
  <2> QED BY Zenon, <1>1, <2>2, <2>5
<1> QED BY Zenon, <1>7, <1>9, <1>10 DEF Sized

(* The commit: what was pending is there.                                   *)
LEMMA SizedAltCommit ==
    ASSUME KeystoreInv, KeysFrom, Sized, PutKeys \cap ResetKeys = {}, NEW r \in Resetters, AltCommit(r),
           failures' = 0
    PROVE  Sized'
<1>0. TypeOK /\ Control /\ Exact /\ Saved /\ Counted /\ Missing /\ AltCounted
  BY Zenon DEF KeystoreInv, Sized
<1>1. store' = [store EXCEPT ![alt] = @ \cup toAdd[r]]
  <2>1. PICK ok \in Outcomes : \E C \in Applied(toAdd[r], ok) :
           store' = [store EXCEPT ![alt] = @ \cup C] /\ count(ok)
    BY Zenon DEF AltCommit
  <2>2. ok
    BY Zenon, <1>0, <2>1, CountZero
  <2> QED BY Zenon, <2>1, <2>2 DEF Applied
<1>2. /\ rpc[r] = "altCommit" /\ \E to \in {"reading", "cleanup"} : rpc' = [rpc EXCEPT ![r] = to]
      /\ UNCHANGED <<savedSize, active, size, altSize, resetInProgress, worker, job, toAdd, closing>>
  BY Zenon DEF AltCommit, resetStep, sizes
<1>3. \A q \in Resetters : rpc'[q] \notin {"altAdd", "altCommit"}
  <2>1. \A q \in Resetters : rpc[q] \in {"altAdd", "altCommit"} => q = r
    BY Zenon, <1>0, <1>2 DEF Control, Past
  <2>2. rpc'[r] \in {"reading", "cleanup"} /\ \A q \in Resetters : q # r => rpc'[q] = rpc[q]
    BY Zenon, <1>0, <1>2 DEF TypeOK
  <2> QED BY Zenon, <2>1, <2>2
<1>4. store'[alt] = store[alt] \cup toAdd[r] /\ store'[active] = store[active]
  BY Zenon, <1>0, <1>1, AltNamespace DEF TypeOK
<1>5. alt' = alt /\ Pending' = {}
  BY Zenon, <1>2, <1>3 DEF alt, Pending
<1>6. Pending = toAdd[r]
  <2>1. Past(r)
    BY Zenon, <1>2 DEF Past
  <2> QED BY Zenon, <1>0, <1>2, <2>1, PendingOf
<1>7. Saved' /\ Counted'
  BY Zenon, <1>0, <1>2, <1>4, <1>5 DEF Saved, Counted
<1>8. Missing'
  <2>1. worker = "altCommit" => job.add \cap store'[alt] = {}
    <3> SUFFICES ASSUME worker = "altCommit" PROVE job.add \cap store'[alt] = {}
      BY Zenon
    <3>1. job.add \cap store[alt] = {} /\ job.add \subseteq PutKeys /\ toAdd[r] \subseteq ResetKeys
      BY Zenon, <1>0 DEF Missing, Exact, KeysFrom
    <3> QED BY <1>4, <3>1
  <2> QED BY Zenon, <1>2, <1>3, <1>5, <2>1 DEF Missing
<1>9. AltCounted'
  <2>1. store'[alt] \cup Pending' = store[alt] \cup Pending
    BY Zenon, <1>4, <1>5, <1>6
  <2> QED BY Zenon, <1>0, <1>2, <1>5, <2>1 DEF AltCounted
<1> QED BY Zenon, <1>7, <1>8, <1>9 DEF Sized

(* A step of a reset that writes nothing.                                   *)
LEMMA SizedReset ==
    ASSUME KeystoreInv, Sized, NEW r \in Resetters,
           \/ StartReply(r) \/ ReadKey(r) \/ KeysChanClosed(r) \/ CleanupSkipped(r) \/ Abort(r)
           \/ \E K \in SUBSET ResetKeys : ResetCids(r, K)
    PROVE  Sized'
<1>1. /\ UNCHANGED <<store, savedSize, active, size, altSize, resetInProgress, closing>>
      /\ rpc[r] # "altCommit"
      /\ \E to \in {"idle", "callStart", "reading", "tryAltPut", "cleanup"} : rpc' = [rpc EXCEPT ![r] = to]
  BY Zenon DEF StartReply, ReadKey, KeysChanClosed, CleanupSkipped, Abort, StartAborted, StartAbandoned,
               ReadAborted, ResetCids, resetStep, notResetter, durable, sizes
<1>2. \/ worker' = worker /\ job' = job
      \/ worker \notin {"load", "marker", "emptyAlt"} /\ worker' \notin {"load", "altCommit"}
  BY Zenon DEF StartReply, ReadKey, KeysChanClosed, CleanupSkipped, Abort, StartAborted, StartAbandoned,
               ReadAborted, ResetCids, notResetter
<1>3. \A q \in Resetters : q # r => toAdd'[q] = toAdd[q]
  <2>1. toAdd' = toAdd \/ toAdd' = [toAdd EXCEPT ![r] = {}]
    BY Zenon DEF StartReply, ReadKey, KeysChanClosed, CleanupSkipped, Abort, StartAborted, StartAbandoned,
                 ReadAborted, ResetCids
  <2> QED BY Zenon, <2>1 DEF KeystoreInv, TypeOK
<1>4. PICK to \in {"idle", "callStart", "reading", "tryAltPut", "cleanup"} : rpc' = [rpc EXCEPT ![r] = to]
  BY Zenon, <1>1
<1>5. to \notin {"altAdd", "altCommit"}
  BY Zenon
<1> HIDE DEF resetStep
<1> QED BY Zenon, <1>1, <1>2, <1>3, <1>4, <1>5, SizedCall

(* The worker takes a put, writes the marker or exits; Close is called or   *)
(* takes the token.                                                         *)
LEMMA SizedQuiet ==
    ASSUME Sized,
           \/ PersistMarker \/ WorkerExits \/ CloseCalled \/ CloseTakesToken \/ UNCHANGED vars
           \/ \E S \in SUBSET PutKeys \ {{}} : TakePut(S)
    PROVE  Sized'
<1>1. UNCHANGED <<store, savedSize, active, size, altSize, resetInProgress, rpc, toAdd>>
  BY Zenon DEF PersistMarker, WorkerExits, CloseCalled, CloseTakesToken, TakePut, vars, durable, sizes, resetter
<1>2. /\ worker' = "load" <=> worker = "load"
      /\ worker' = "altCommit" => worker = "altCommit" /\ job' = job
      /\ worker' \notin {"marker", "emptyAlt"} => worker \notin {"marker", "emptyAlt"}
      /\ closing = "closed" => closing' = "closed"
  BY Zenon DEF PersistMarker, WorkerExits, CloseCalled, CloseTakesToken, TakePut, vars
<1> QED BY Zenon, <1>1, <1>2, SizedMoves

(* Close saves the size.                                                    *)
LEMMA SizedPersist == ASSUME KeystoreInv, Sized, PersistSize PROVE Sized'
<1>0. TypeOK /\ Control /\ Saved /\ Counted /\ Missing /\ AltCounted
  BY Zenon DEF KeystoreInv, Sized
<1>1. /\ closing = "persist" /\ closing' = "closed"
      /\ savedSize' = savedSize \/ savedSize' = [savedSize EXCEPT ![active] = size]
      /\ UNCHANGED <<store, active, size, altSize, resetInProgress, worker, job, rpc, toAdd>>
  BY Zenon DEF PersistSize, sizes, resetter
<1>2. worker = "exited"
  BY Zenon, <1>0, <1>1 DEF Control
<1>3. size = Cardinality(store[active])
  BY Zenon, <1>0, <1>2 DEF Counted
<1>4. savedSize'[alt] = savedSize[alt] /\ savedSize'[active] \in {savedSize[active], size}
  BY Zenon, <1>0, <1>1, AltNamespace DEF TypeOK
<1>5. Saved' /\ Counted'
  BY Zenon, <1>0, <1>1, <1>3, <1>4 DEF Saved, Counted, alt
<1>6. Missing' /\ AltCounted'
  BY Zenon, <1>0, <1>1, <1>2, AltFrame
<1> QED BY Zenon, <1>5, <1>6 DEF Sized

(* A restart finds no saved size, or a right one.                           *)
LEMMA SizedRestart == ASSUME KeystoreInv, Marks, Sized, Restart PROVE Sized'
<1>0. TypeOK /\ Control /\ Saved
  BY Zenon DEF KeystoreInv, Sized
<1>1. /\ UNCHANGED <<store, savedSize>> /\ active' = marker /\ worker' = "load" /\ ~resetInProgress'
      /\ \A r \in Resetters : rpc'[r] = "idle"
  BY Zenon DEF Restart, durable
<1>2. Counted' /\ Missing' /\ AltCounted'
  BY Zenon, <1>1 DEF Counted, Missing, AltCounted
<1>3. CASE worker = "marker"
  <2>1. savedSize[active] = -1 /\ savedSize[alt] = -1
    BY ZenonT(60), <1>0, <1>3, Unsaved DEF Saved
  <2>2. active' = alt /\ alt' = active
    BY <1>0, <1>1, <1>3 DEF Marks, alt, TypeOK, Namespaces
  <2> QED BY Zenon, <1>1, <1>2, <2>1, <2>2 DEF Saved, Sized
<1>4. CASE worker # "marker"
  <2>1. active' = active /\ alt' = alt
    BY Zenon, <1>1, <1>4 DEF Marks, alt
  <2> QED BY Zenon, <1>0, <1>1, <1>2, <2>1 DEF Saved, Sized
<1> QED BY Zenon, <1>3, <1>4

(* Every step without a failure keeps the sizes right.                      *)
LEMMA SizedStep ==
    ASSUME KeystoreInv, KeysFrom, Marks, Sized, PutKeys \cap ResetKeys = {}, [Next]_vars, failures' = 0
    PROVE  Sized'
<1>1. CASE Worker
  BY Zenon, <1>1, SizedLoad, SizedAltScan, SizedWorkerAltCommit, SizedPut, SizedQuiet, SizedEmptyAlt DEF Worker
<1>2. CASE WorkerExits \/ UNCHANGED vars
  BY Zenon, <1>2, SizedQuiet
<1>3. CASE Client
  BY Zenon, <1>3, SizedEmpty, SizedQuiet, SizedDelete, SizedReset DEF Client
<1>4. CASE CloseStep
  BY Zenon, <1>4, SizedQuiet, SizedPersist DEF CloseStep
<1>5. CASE Restart
  BY Zenon, <1>5, SizedRestart
<1>6. ASSUME NEW r \in Resetters, Start(r) \/ Cleanup(r) \/ Reset(r) \/ Abort(r) PROVE Sized'
  BY Zenon, <1>6, SizedStart, SizedCleanup, SizedReset, SizedTryAltPut, SizedAltAdd, SizedAltCommit DEF Reset
<1> QED BY Zenon, <1>1, <1>2, <1>3, <1>4, <1>5, <1>6 DEF Next

(* The sizes are right at first.                                            *)
LEMMA SizeInit == Init => SizeInv
<1> SUFFICES ASSUME Init PROVE SizeInv
  BY Zenon
<1>1. KeysFrom
  BY Zenon, KeysFromInit
<1>2. Marks /\ Counted /\ AltCounted
  BY Zenon DEF Init, Marks, Counted, AltCounted
<1>3. \A r \in Resetters : rpc[r] = "idle"
  BY Zenon DEF Init
<1>4. Missing
  BY Zenon, <1>3 DEF Init, Missing
<1>5. Saved
  <2>1. TypeOK
    BY Zenon, TypeInit
  <2>2. alt \in Namespaces /\ active \in Namespaces
    BY Zenon, <2>1, AltNamespace DEF TypeOK
  <2> QED BY Zenon, <2>2 DEF Init, Saved
<1> QED BY Zenon, <1>1, <1>2, <1>4, <1>5 DEF SizeInv, Sized

(* SizeInv is inductive, given the invariant of the keystore.               *)
LEMMA SizeStep == ASSUME KeystoreInv, SizeInv, [Next]_vars PROVE SizeInv'
<1>1. TypeOK /\ KeysFrom
  BY Zenon DEF KeystoreInv, SizeInv
<1>2. KeysFrom'
  BY Zenon, <1>1, KeysFromStep
<1>3. ASSUME failures' = 0 PROVE failures = 0 /\ Marks
  BY Zenon, <1>1, <1>3, CleanBefore DEF SizeInv
<1>4. ASSUME failures' = 0 PROVE Marks'
  BY Zenon, <1>1, <1>3, <1>4, MarksStep
<1>5. ASSUME failures' = 0, PutKeys \cap ResetKeys = {} PROVE Sized'
  <2>1. Sized
    BY Zenon, <1>3, <1>5 DEF SizeInv
  <2> QED BY Zenon, <1>1, <1>3, <1>5, <2>1, SizedStep
<1> QED BY Zenon, <1>2, <1>4, <1>5 DEF SizeInv

(* The sizes that are kept in memory and saved by Close are right, as long  *)
(* as no datastore operation has failed.                                    *)
THEOREM SizeInvariant == Spec => []SizeInv
<1>1. KeystoreInv /\ SizeInv /\ [Next]_vars => SizeInv'
  BY Zenon, SizeStep
<1> QED BY <1>1, SizeInit, KeystoreInvariant, PTL DEF Spec

(* "Size returns the number of keys currently stored in the Keystore": with *)
(* any keys, callers of ResetCids, crashes, restarts and calls of Close,    *)
(* the size is that of the active namespace whenever the worker is idle or  *)
(* gone, if no datastore operation has failed and no key is put both by a   *)
(* client and by a reset.                                                   *)
THEOREM SizeExactHolds == Spec => []SizeExact
<1>1. SizeInv => SizeExact
  BY Zenon DEF SizeInv, Sized, Counted, SizeExact
<1> QED BY <1>1, SizeInvariant, PTL

-----------------------------------------------------------------------------
(* ResettableKeystore implements KeystoreSpec, as long as no datastore      *)
(* operation fails.                                                         *)

(* No datastore operation has failed, and then the marker names the active  *)
(* namespace, but between the swap and the write of the marker.             *)
Unfailed == failures = 0
Marked == Unfailed /\ Marks /\ KeysFrom

(* Where no datastore operation fails, each has the outcome TRUE.           *)
LEMMA NoFailure ==
    ASSUME MaxFailures = 0, TypeOK, NEW ok \in Outcomes
    PROVE  ok = TRUE
<1>1. ~(failures < MaxFailures)
  BY DEF TypeOK
<1>2. Outcomes = {TRUE}
  BY <1>1 DEF Outcomes
<1> QED BY <1>2, ZenonT(60)

(* No failure is counted then.                                              *)
LEMMA NoneCounted ==
    ASSUME MaxFailures = 0, TypeOK, failures = 0, NEW ok \in Outcomes, count(ok)
    PROVE  failures' = 0
BY Zenon, NoFailure DEF count

(* No step counts a failure.                                                *)
LEMMA MarkedFailures ==
    ASSUME MaxFailures = 0, TypeOK, failures = 0, [Next]_vars
    PROVE  failures' = 0
<1>1. CASE Worker
  BY Zenon, <1>1, NoneCounted DEF Worker, LoadSize, WorkerAltScan, WorkerAltCommit, Put, PersistMarker, EmptyAlt,
                           bounds
<1>2. CASE WorkerExits \/ Client \/ CloseStep \/ Restart
  BY Zenon, <1>2, NoneCounted DEF WorkerExits, Client, Empty, CloseCalled, TakePut, Delete, ResetCids, CloseStep,
                           CloseTakesToken, PersistSize, Restart, bounds
<1>3. CASE \E r \in Resetters : Start(r) \/ Cleanup(r)
  BY Zenon, <1>3, NoneCounted DEF Start, Cleanup, bounds
<1>4. CASE \E r \in Resetters : Reset(r) \/ Abort(r)
  BY ZenonT(60), <1>4, NoneCounted DEF Reset, StartReply, ReadKey, KeysChanClosed, TryAltPut, AltAdd, AltCommit,
                           CleanupSkipped, Abort, StartAborted, StartAbandoned, ReadAborted, notResetter, bounds
<1>5. CASE UNCHANGED vars
  BY <1>5 DEF vars, bounds
<1> QED BY <1>1, <1>2, <1>3, <1>4, <1>5 DEF Next

(* The state of the abstract keystore.                                      *)
abstract == <<store[marker], resetInProgress /\ worker # "emptyAlt", incoming \cup since>>

(* A step of the keystore its abstraction does not see.                     *)
LEMMA Stutter ==
    ASSUME UNCHANGED <<resetInProgress, incoming, since>>, store'[marker'] = store[marker],
           worker' = "emptyAlt" <=> worker = "emptyAlt"
    PROVE  UNCHANGED abstract
BY DEF abstract

(* Every step is a step of the abstract keystore or leaves it unchanged: a  *)
(* put and a delete are themselves, opStart begins, the marker's write      *)
(* replaces, a failed cleanup or a restart gives up.                        *)
LEMMA ImplementsStep ==
    ASSUME MaxFailures = 0, KeystoreInv, Marked, [Next]_vars
    PROVE  KS!Next \/ UNCHANGED abstract
<1> USE AltNamespace DEF KeystoreInv
<1>1. CASE LoadSize \/ WorkerAltScan \/ WorkerExits
  BY ZenonT(60), <1>1, Stutter DEF LoadSize, WorkerAltScan, WorkerExits, durable, history
<1>2. CASE WorkerAltCommit
  <2>1. /\ \E C \in SUBSET Keys : store' = [store EXCEPT ![alt] = C]
        /\ worker = "altCommit" /\ worker' = "put" /\ UNCHANGED <<marker, resetInProgress, incoming, since>>
    BY Zenon, <1>2 DEF WorkerAltCommit, Applied, TypeOK, history
  <2> QED BY <2>1, Stutter DEF Marked, Marks, TypeOK
<1>3. CASE Put
  <2>1. /\ store' = [store EXCEPT ![active] = @ \cup (job.keys \ store[active])]
        /\ since' = IF resetInProgress THEN since \cup job.keys ELSE since
    BY Zenon, <1>3, NoFailure DEF Put, Applied
  <2>2. worker = "put" /\ worker' = "idle" /\ UNCHANGED <<marker, resetInProgress, incoming>> /\ marker = active
    BY Zenon, <1>3 DEF Put, Marked, Marks
  <2>3. store'[marker'] = store[marker] \cup job.keys
    BY Zenon, <2>1, <2>2 DEF TypeOK
  <2>4. KS!Put(job.keys)
    BY Zenon, <2>1, <2>2, <2>3 DEF KS!Put
  <2> QED BY <2>4 DEF KS!Next, Marked, KeysFrom
<1>4. CASE PersistMarker
  <2>1. /\ marker' = active /\ worker = "marker" /\ worker' = "emptyAlt"
        /\ UNCHANGED <<store, resetInProgress, incoming, since>>
    BY Zenon, <1>4, NoFailure DEF PersistMarker, history
  <2>2. resetInProgress
    BY Zenon, <2>1 DEF Control, Past
  <2>3. store[active] = incoming \cup since
    BY Zenon, <2>1 DEF Exact, Marked, Unfailed
  <2>4. KS!Replace
    BY Zenon, <2>1, <2>2, <2>3 DEF KS!Replace
  <2> QED BY <2>4 DEF KS!Next
<1>5. CASE EmptyAlt
  <2>1. /\ \E C \in SUBSET Keys : store' = [store EXCEPT ![alt] = C]
        /\ worker = "emptyAlt" /\ ~resetInProgress' /\ UNCHANGED <<marker, incoming, since>>
    BY Zenon, <1>5 DEF EmptyAlt, empty, TypeOK, history
  <2>2. store'[marker'] = store[marker]
    BY Zenon, <2>1 DEF Marked, Marks, TypeOK
  <2> QED BY <2>1, <2>2 DEF abstract
<1>6. CASE Empty
  <2>1. /\ store' = [store EXCEPT ![active] = @ \ store[active]] /\ worker = "idle"
        /\ UNCHANGED <<marker, resetInProgress, worker, incoming, since>>
    BY Zenon, <1>6, NoFailure DEF Empty, empty, Applied, history
  <2>2. store'[marker'] = store[marker] \ store[marker] /\ store[marker] \subseteq PutKeys \cup ResetKeys
    BY Zenon, <2>1 DEF Marked, Marks, TypeOK, Keys
  <2>3. KS!Delete(store[marker])
    BY Zenon, <2>1, <2>2 DEF KS!Delete
  <2> QED BY <2>2, <2>3 DEF KS!Next
<1>7. CASE \E S \in SUBSET PutKeys \ {{}} : Delete(S)
  <2>1. PICK S \in SUBSET PutKeys \ {{}} : Delete(S)
    BY <1>7
  <2>2. /\ store' = [store EXCEPT ![active] = @ \ (S \cap store[active])] /\ worker = "idle"
        /\ UNCHANGED <<marker, resetInProgress, worker, incoming, since>>
    BY Zenon, <2>1, NoFailure DEF Delete, Applied, history
  <2>3. store'[marker'] = store[marker] \ S
    BY Zenon, <2>2 DEF Marked, Marks, TypeOK
  <2>4. KS!Delete(S)
    BY Zenon, <2>2, <2>3 DEF KS!Delete
  <2> QED BY <2>4 DEF KS!Next
<1>8. CASE \E S \in SUBSET PutKeys \ {{}} : TakePut(S)
  BY Zenon, <1>8, Stutter DEF TakePut, durable, history
<1>9. CASE \E r \in Resetters : Start(r)
  <2>1. PICK r \in Resetters : Start(r)
    BY <1>9
  <2>2. CASE resetInProgress
    BY ZenonT(60), <2>1, <2>2, Stutter DEF Start, history
  <2>3. CASE ~resetInProgress
    <3>1. /\ \E C \in SUBSET Keys : store' = [store EXCEPT ![alt] = C]
          /\ resetInProgress' /\ incoming' = feed[r] /\ since' = {}
      <4>1. PICK ok \in Outcomes : /\ empty(alt, ok) /\ resetInProgress' = ok
                                   /\ incoming' = IF ok THEN feed[r] ELSE incoming
                                   /\ since' = IF ok THEN {} ELSE since
        BY Zenon, <2>1, <2>3 DEF Start
      <4>2. ok = TRUE
        BY Zenon, NoFailure
      <4>3. \E C \in SUBSET Keys : store' = [store EXCEPT ![alt] = C]
        BY Zenon, <4>1 DEF empty, TypeOK
      <4> QED BY Zenon, <4>1, <4>2, <4>3
    <3>2. worker = "idle" /\ worker' = "respondStart" /\ marker' = marker
      BY Zenon, <2>1 DEF Start
    <3>3. store'[marker'] = store[marker]
      BY Zenon, <3>1, <3>2 DEF Marked, Marks, TypeOK
    <3>4. KS!Begin(feed[r])
      BY Zenon, <2>3, <3>1, <3>2, <3>3 DEF KS!Begin
    <3> QED BY <3>4 DEF KS!Next, Marked, KeysFrom
  <2> QED BY <2>2, <2>3
<1>10. CASE \E r \in Resetters : Cleanup(r)
  <2>1. PICK r \in Resetters : Cleanup(r)
    BY <1>10
  <2>2. /\ worker = "idle" /\ rpc[r] = "cleanup" /\ worker' \in {"marker", "emptyAlt"}
        /\ UNCHANGED <<store, marker, resetInProgress, incoming, since>>
    BY Zenon, <2>1 DEF Cleanup, durable, history
  <2>3. resetInProgress
    BY Zenon, <2>2 DEF Control, Past
  <2>4. CASE worker' = "marker"
    BY Zenon, <2>2, <2>4, Stutter
  <2>5. CASE worker' = "emptyAlt"
    <3>1. KS!GiveUp
      BY ZenonT(60), <2>2, <2>3, <2>5 DEF KS!GiveUp
    <3> QED BY <3>1 DEF KS!Next
  <2> QED BY <2>2, <2>4, <2>5
<1>11. CASE \E r \in Resetters : AltCommit(r)
  <2>1. PICK r \in Resetters : AltCommit(r)
    BY <1>11
  <2>2. /\ \E C \in SUBSET Keys : store' = [store EXCEPT ![alt] = C]
        /\ rpc[r] = "altCommit" /\ UNCHANGED <<marker, resetInProgress, worker, incoming, since>>
    <3>1. PICK C \in SUBSET (toAdd[r]) : store' = [store EXCEPT ![alt] = @ \cup C]
      BY Zenon, <2>1 DEF AltCommit, Applied
    <3>2. store[alt] \cup C \in SUBSET Keys
      BY Zenon DEF TypeOK
    <3> QED BY Zenon, <2>1, <3>1, <3>2 DEF AltCommit, history
  <2>3. marker = active
    BY Zenon, <2>2 DEF Control, Past, Marked, Marks
  <2> QED BY <2>2, <2>3, Stutter DEF TypeOK
<1>12. CASE \E r \in Resetters : \/ StartReply(r) \/ ReadKey(r) \/ KeysChanClosed(r) \/ TryAltPut(r)
                                 \/ AltAdd(r) \/ CleanupSkipped(r) \/ Abort(r)
                                 \/ \E K \in SUBSET ResetKeys : ResetCids(r, K)
  <2>1. /\ UNCHANGED <<store, marker, resetInProgress, incoming, since>>
        /\ worker' = "emptyAlt" <=> worker = "emptyAlt"
    BY Zenon, <1>12 DEF StartReply, ReadKey, KeysChanClosed, TryAltPut, AltAdd, CleanupSkipped, Abort, StartAborted,
                 StartAbandoned, ReadAborted, ResetCids, notResetter, durable, history
  <2> QED BY <2>1, Stutter
<1>13. CASE CloseCalled \/ CloseStep \/ UNCHANGED vars
  BY Zenon, <1>13, Stutter DEF CloseCalled, CloseStep, CloseTakesToken, PersistSize, vars, durable, history
<1>14. CASE Restart
  <2>1. UNCHANGED <<store, marker, incoming, since>> /\ ~resetInProgress'
    BY Zenon, <1>14 DEF Restart, durable, history
  <2>2. CASE resetInProgress /\ worker # "emptyAlt"
    <3>1. KS!GiveUp
      BY Zenon, <2>1, <2>2 DEF KS!GiveUp
    <3> QED BY <3>1 DEF KS!Next
  <2>3. CASE ~(resetInProgress /\ worker # "emptyAlt")
    BY Zenon, <2>1, <2>3 DEF abstract
  <2> QED BY <2>2, <2>3
<1> QED
  BY Zenon, <1>1, <1>2, <1>3, <1>4, <1>5, <1>6, <1>7, <1>8, <1>9, <1>10, <1>11, <1>12, <1>13, <1>14
  DEF Next, Worker, Client, Reset

(* ResetCids "atomically replaces all stored keys": with any number of      *)
(* keys, callers, resets and restarts, and a crash possible at every step,  *)
(* the durable keys behave as KeystoreSpec says, as long as no datastore    *)
(* operation fails.                                                         *)
THEOREM RefinesKeystoreSpec == MaxFailures = 0 => (Spec => ImplementsKeystoreSpec)
<1> SUFFICES ASSUME MaxFailures = 0 PROVE Spec => ImplementsKeystoreSpec
  OBVIOUS
<1>1. Init => KS!Init
  BY Zenon DEF Init, KS!Init, Namespaces
<1>2. Spec => []Marked
  <2>1. Init => Unfailed
    BY Zenon DEF Init, Unfailed
  <2>2. TypeOK /\ Unfailed /\ [Next]_vars => Unfailed'
    BY Zenon, MarkedFailures DEF Unfailed
  <2>3. Unfailed /\ SizeInv => Marked
    BY Zenon DEF SizeInv, Marked, Unfailed
  <2> QED BY <2>1, <2>2, <2>3, KeystoreTypeCorrect, SizeInvariant, PTL DEF Spec
<1>3. KeystoreInv /\ Marked /\ [Next]_vars =>
         [KS!Next]_<<store[marker], resetInProgress /\ worker # "emptyAlt", incoming \cup since>>
  BY Zenon, ImplementsStep DEF abstract
<1> QED BY <1>1, <1>2, <1>3, KeystoreInvariant, PTL DEF Spec, ImplementsKeystoreSpec, KS!Spec
=============================================================================
