------------------------- MODULE ProvideLoopProofs -------------------------
(***************************************************************************)
(* Proofs about the provide loop: the provide queue stays well formed, no  *)
(* key is lost and nothing runs once Close has waited, for any keys,       *)
(* workers, lengths of prefixes and bounds.                                *)
(***************************************************************************)
EXTENDS ProvideLoop, ProvideQueueProofs

(* The provide queue and the entries in the datastore: keys under the      *)
(* prefixes of regions.                                                    *)
QueueInv == QueueOK(q, RegionPrefixes, Keys)

DiskInv ==
    /\ disk \in [entries : Seq(Entry(RegionPrefixes, Keys)), avgPrefixLen : {"unknown", "known"}]
    /\ EntriesOK(disk.entries, RegionPrefixes, Keys)

(* What a worker has before it has explored the region is under its        *)
(* prefix; afterwards it is under one of the regions.                      *)
JobOK(j) ==
    /\ j \in Job
    /\ j.st # "idle" => j.prefix \in RegionPrefixes
    /\ j.st \in {"start", "individual"} => \A k \in j.keys : Covers(j.prefix, k)
    /\ j.st = "send" => \A k \in j.keys : \E r \in j.regions : Covers(r, k)

JobInv == job \in [Workers -> Job] /\ \A w \in Workers : JobOK(job[w])

ReprovideInv == reprovide \in Job /\ (reprovide.st # "idle" => reprovide.prefix \in RegionPrefixes)

(* The client has regions of the keys it groups.                           *)
ClientInv ==
    client \in [st : {"idle", "check", "group", "enqueue", "stop"}, keys : SUBSET Keys,
                regions : SUBSET RegionPrefixes]

(* Nothing runs once Close has waited.                                     *)
CloseInv ==
    close \in {"persist", "connectivity", "closed"} =>
       /\ pending = 0 /\ loop = "none" /\ late = FALSE
       /\ reprovide = Idle /\ \A w \in Workers : job[w] = Idle

ConnInv ==
    /\ online \in BOOLEAN /\ avgPrefixLen \in {"unknown", "known"} /\ bootstrapped \in BOOLEAN
    /\ checker \in {"start", "idle", "check", "disconnected", "clearing", "offline",
                    "onOnline", "measure", "catchup", "closed"}

LoopTypes ==
    /\ pending \in 0..MaxPending /\ loop \in {"none", "test", "dequeue", "exit"} /\ late \in BOOLEAN
    /\ close \in {"open", "wait", "persist", "connectivity", "closed"}
    /\ \A x \in DOMAIN left : left[x] \in Nat

HistoryInv ==
    keystore \subseteq Keys /\ owed \subseteq Keys /\ dropped \subseteq Keys /\ abandoned \subseteq Keys

LoopInv ==
    /\ QueueInv /\ DiskInv /\ JobInv /\ ReprovideInv /\ ClientInv
    /\ ConnInv /\ LoopTypes /\ HistoryInv /\ CloseInv

-----------------------------------------------------------------------------
(* Constants.                                                              *)

(* Keys and region prefixes are bit strings.                               *)
LEMMA BitsOfRegions == Keys \subseteq Bits /\ RegionPrefixes \subseteq Bits
<1>1. Keys \subseteq Bits
  BY ProvideLoopAssumption DEF Bits
<1>2. ASSUME NEW p \in RegionPrefixes PROVE p \in Bits
  <2>1. PICK n \in 0..MaxLen : p \in [1..n -> {0, 1}]
    BY DEF RegionPrefixes, BitStrings
  <2>2. n \in Nat
    BY ProvideLoopAssumption
  <2> QED
    BY <2>1, <2>2, SeqDef DEF Bits
<1> QED
  BY <1>1, <1>2

(* A worker without a region.                                              *)
LEMMA IdleJob == JobOK(Idle) /\ Idle.st = "idle" /\ Idle.keys = {}
<1>1. <<>> \in BitStrings(MaxLen)
  <2>1. <<>> \in [1..0 -> {0, 1}] /\ 0 \in 0..MaxLen
    BY ProvideLoopAssumption
  <2> QED
    BY <2>1 DEF BitStrings
<1>2. Idle \in Job
  BY <1>1 DEF Idle, Job
<1> QED
  BY <1>2 DEF JobOK, Idle

(* What exploreSwarm finds: a prefix and regions that have all keys under  *)
(* it.                                                                     *)
LEMMA Explored ==
  ASSUME NEW p, NEW x \in exploreSwarm(p)
  PROVE  /\ x[1] \in RegionPrefixes /\ x[2] \in SUBSET RegionPrefixes
         /\ ~Sparse => Covers(x[1], p)
         /\ \A k \in Under(Keys, x[1]) : \E r \in x[2] : Covers(r, k)
<1>1. PICK c \in {c \in RegionPrefixes : Covers(c, p) \/ (Sparse /\ Covers(p, c))} :
         x \in {c} \X Partitions(Under(Keys, c), {r \in RegionPrefixes : Covers(c, r)})
  BY DEF exploreSwarm
<1>2. x[1] = c /\ x[2] \in Partitions(Under(Keys, c), {r \in RegionPrefixes : Covers(c, r)})
  BY <1>1
<1>3. /\ x[2] \in SUBSET {r \in RegionPrefixes : Covers(c, r)}
      /\ \A k \in Under(Keys, c) : \E r \in x[2] : Covers(r, k)
  BY <1>2, Zenon DEF Partitions
<1> QED
  BY <1>1, <1>2, <1>3

-----------------------------------------------------------------------------
(* The steps that touch the queue, the workers' keys, what is persisted or *)
(* the progress of Close; all others leave these alone.                    *)
KeyStep ==
    \/ Clear \/ Restart \/ EnqueueGroup \/ StopQueued \/ OnOffline
    \/ \E w \in Workers : DequeueRegion(w) \/ Provide(w)
    \/ DropQueued \/ Close \/ CloseWaited \/ PersistQueue \/ CloseConnectivity

(* Every step is one of these or leaves them alone.                        *)
LEMMA KeySteps ==
  ASSUME [Next]_vars PROVE KeyStep \/ UNCHANGED <<q, disk, job, owed, dropped, abandoned, close>>
<1> DEFINE same == UNCHANGED <<q, disk, job, owed, dropped, abandoned, close>>
<1>1. CASE Calls
  <2>1. ASSUME NEW keys \in CallKeys, NEW force \in BOOLEAN, StartProviding(keys, force) PROVE same
    BY <2>1, Zenon DEF StartProviding, api
  <2>2. ASSUME NEW keys \in CallKeys, ProvideOnce(keys) \/ StopProviding(keys) PROVE same
    BY <2>2, Zenon DEF ProvideOnce, StopProviding, api
  <2> QED
    BY <1>1, <2>1, <2>2, Zenon DEF Calls, KeyStep
<1>2. CASE Client
  <2>1. CASE CheckOffline \/ Group
    BY <2>1, Zenon DEF CheckOffline, Group, api
  <2>2. CASE StartLoop
    BY <2>2, Zenon DEF StartLoop, queues, history
  <2> QED
    BY <1>2, <2>1, <2>2, Zenon DEF Client, KeyStep
<1>3. CASE Checker
  <2>1. CASE Check \/ Probe \/ OnOfflineForget
    BY <2>1, Zenon DEF Check, Probe, OnOfflineForget, queues, history
  <2>2. CASE OnOnline \/ Measure \/ Catchup \/ StopProbing
    BY <2>2, Zenon DEF OnOnline, Measure, Catchup, StopProbing, queues, history
  <2> QED
    BY <1>3, <2>1, <2>2, Zenon DEF Checker
<1>4. CASE Outage
  BY <1>4, Zenon DEF Outage, StartProbing, queues, history, KeyStep
<1>5. CASE TryLock \/ Test \/ Unlock
  BY <1>5, Zenon DEF TryLock, Test, Unlock, loopStep
<1>6. CASE RetryTick \/ LateDone
  BY <1>6, Zenon DEF RetryTick, LateDone, queues, history
<1>7. CASE StartReprovide
  BY <1>7, Zenon DEF StartReprovide, LoadKeys, reprovideStep
<1>8. CASE ExploreReprovide
  BY <1>8, Zenon DEF ExploreReprovide, reprovideStep
<1>9. CASE UNCHANGED vars
  BY <1>9, Zenon DEF vars, queues, history
<1> QED
  BY <1>1, <1>2, <1>3, <1>4, <1>5, <1>6, <1>7, <1>8, <1>9, Zenon
     DEF Next, Loop, Reprovide, Closing, KeyStep

-----------------------------------------------------------------------------
(* The provide queue.                                                      *)

(* A failed region goes back to the queue.                                 *)
LEMMA FailedQueue ==
  ASSUME QueueInv, NEW p \in RegionPrefixes, NEW K \in SUBSET Keys, \A k \in K : Covers(p, k),
         failedProvide(p, K)
  PROVE  QueueInv' /\ q'.keys = q.keys \cup K
<1>1. q' = Enqueue(q, p, K)
  BY DEF failedProvide
<1>2. QueueOK(Enqueue(q, p, K), RegionPrefixes, Keys) /\ Enqueue(q, p, K).keys = q.keys \cup K
  BY EnqueueQueue DEF QueueInv
<1>3. QueueOK(q', RegionPrefixes, Keys)
  BY <1>1, <1>2
<1> QED
  BY <1>1, <1>2, <1>3 DEF QueueInv

-----------------------------------------------------------------------------
(* The workers.                                                            *)

(* What a step of a worker does to the keys: those it has, or takes from   *)
(* the queue, it keeps, puts back, provides or, when the provider closes,  *)
(* abandons.                                                               *)
Moves(w) ==
    /\ \A v \in Workers \ {w} : job'[v] = job[v]
    /\ UNCHANGED <<disk, close, dropped>> /\ abandoned \subseteq abandoned' /\ owed' \subseteq owed
    /\ ~Sparse => \A k \in owed' : k \in q.keys \cup job[w].keys
                                      => k \in q'.keys \cup job'[w].keys \cup abandoned'

(* A worker that goes on with job j.                                       *)
LEMMA JobUpdate ==
  ASSUME JobInv, NEW w \in Workers, NEW j, JobOK(j), job' = [job EXCEPT ![w] = j]
  PROVE  JobInv' /\ job'[w] = j /\ \A v \in Workers \ {w} : job'[v] = job[v]
<1>1. j \in Job /\ job \in [Workers -> Job]
  BY DEF JobOK, JobInv
<1>2. /\ job' \in [Workers -> Job] /\ job'[w] = j
      /\ \A v \in Workers \ {w} : job'[v] = job[v]
  BY <1>1
<1>3. \A v \in Workers : JobOK(job'[v])
  BY <1>2, Zenon DEF JobInv
<1> QED
  BY <1>2, <1>3 DEF JobInv, JobOK

(* The loop takes the first region for a worker, with all its keys.        *)
LEMMA DequeueStep ==
  ASSUME QueueInv, JobInv, NEW w \in Workers, DequeueRegion(w)
  PROVE  QueueInv' /\ JobInv' /\ Moves(w)
<1>0. UNCHANGED <<disk, close, dropped, owed>> /\ job[w] = Idle
  BY Zenon DEF DequeueRegion, loopStep
<1>1. CASE UNCHANGED <<q, job, abandoned>>
  BY <1>0, <1>1 DEF QueueInv, JobInv, Moves
<1>2. CASE q.prefixes # <<>> /\ q' = Dequeue(q).rest
  <2> DEFINE d == Dequeue(q)
  <2>1. /\ d.prefix \in RegionPrefixes /\ d.keys = Under(q.keys, d.prefix)
        /\ QueueOK(d.rest, RegionPrefixes, Keys) /\ d.rest.keys = q.keys \ d.keys
    BY <1>2, DequeueQueue DEF QueueInv
  <2>2. q' = d.rest
    BY <1>2
  <2> HIDE DEF d
  <2>3. QueueOK(q', RegionPrefixes, Keys) /\ q'.keys = q.keys \ d.keys /\ q.keys \subseteq Keys
    BY <2>1, <2>2 DEF QueueInv, QueueOK
  <2>4. QueueInv'
    BY <2>3 DEF QueueInv
  <2>5. CASE abandoned' = abandoned \cup Dequeue(q).keys /\ UNCHANGED job
    <3>1. abandoned' = abandoned \cup d.keys
      BY <2>5 DEF d
    <3>2. JobInv'
      BY <2>5 DEF JobInv
    <3> QED
      BY <1>0, <2>3, <2>4, <2>5, <3>1, <3>2 DEF Moves
  <2>6. CASE /\ UNCHANGED abandoned
             /\ job' = [job EXCEPT ![w] = [Idle EXCEPT !.st = "start", !.prefix = Dequeue(q).prefix,
                                                       !.keys = Dequeue(q).keys]]
    <3> DEFINE j == [Idle EXCEPT !.st = "start", !.prefix = d.prefix, !.keys = d.keys]
    <3>1. job' = [job EXCEPT ![w] = j]
      BY <2>6, Zenon DEF d
    <3>2. j.st = "start" /\ j.prefix = d.prefix /\ j.keys = d.keys
      BY DEF Idle
    <3>3. j \in Job
      <4>1. d.prefix \in BitStrings(MaxLen) /\ d.keys \in SUBSET Keys
        BY <2>1, <2>3 DEF RegionPrefixes, Under
      <4>2. Idle \in Job
        BY IdleJob DEF JobOK
      <4> QED
        BY <4>1, <4>2 DEF Job
    <3> HIDE DEF j
    <3>4. JobOK(j)
      BY <2>1, <3>2, <3>3 DEF JobOK, Under
    <3>5. JobInv' /\ job'[w] = j /\ \A v \in Workers \ {w} : job'[v] = job[v]
      BY <3>1, <3>4, JobUpdate
    <3>6. job[w].keys = {}
      BY <1>0, IdleJob
    <3> QED
      BY <1>0, <2>3, <2>4, <2>6, <3>2, <3>5, <3>6 DEF Moves
  <2> QED
    BY <1>2, <2>5, <2>6, Zenon DEF DequeueRegion
<1> QED
  BY <1>1, <1>2, Zenon DEF DequeueRegion

(* A worker without addresses gives up its keys.                           *)
LEMMA NoSelfAddrsStep ==
  ASSUME QueueInv, JobInv, NEW w \in Workers, NoSelfAddrs(w)
  PROVE  QueueInv' /\ JobInv' /\ Moves(w)
<1>1. /\ UNCHANGED <<q, disk, close, dropped, abandoned>>
      /\ job' = [job EXCEPT ![w] = Idle] /\ owed' = owed \ job[w].keys
  BY Zenon DEF NoSelfAddrs, jobStep
<1>2. JobInv' /\ job'[w] = Idle /\ \A v \in Workers \ {w} : job'[v] = job[v]
  BY <1>1, IdleJob, JobUpdate
<1> QED
  BY <1>1, <1>2 DEF Moves, QueueInv

(* individualProvide: one key is provided, or goes back to the queue.      *)
LEMMA IndividualStep ==
  ASSUME QueueInv, JobInv, NEW w \in Workers, individualProvide(w)
  PROVE  QueueInv' /\ JobInv' /\ Moves(w)
<1>1. UNCHANGED <<disk, close, dropped, abandoned>> /\ job[w].st \in {"start", "individual"}
  BY Zenon DEF individualProvide, jobStep
<1>2. PICK k \in job[w].keys :
         /\ job' = [job EXCEPT ![w] = IF job[w].keys = {k} THEN Idle
                                      ELSE [job[w] EXCEPT !.st = "individual", !.keys = @ \ {k}]]
         /\ \/ owed' = owed \ {k} /\ UNCHANGED q
            \/ failedProvide(job[w].prefix, {k}) /\ UNCHANGED owed
  BY Zenon DEF individualProvide
<1> DEFINE i == job[w]
           j == IF i.keys = {k} THEN Idle ELSE [i EXCEPT !.st = "individual", !.keys = @ \ {k}]
<1>3. JobOK(i) /\ i \in Job
  BY DEF JobInv, JobOK
<1>4. job' = [job EXCEPT ![w] = j]
  BY <1>2, Zenon
<1>5. i.prefix \in RegionPrefixes /\ i.keys \subseteq Keys /\ \A m \in i.keys : Covers(i.prefix, m)
  BY <1>1, <1>3 DEF JobOK, Job
<1>6. JobOK(j) /\ i.keys \ {k} \subseteq j.keys
  <2>1. CASE i.keys = {k}
    BY <2>1, IdleJob
  <2>2. CASE i.keys # {k}
    <3> HIDE DEF i
    <3>1. /\ j.st = "individual" /\ j.keys = i.keys \ {k} /\ j.prefix = i.prefix
          /\ j \in Job
      BY <1>3, <2>2 DEF Job
    <3> HIDE DEF j
    <3> QED
      BY <1>5, <3>1 DEF JobOK
  <2> QED
    BY <2>1, <2>2
<1> HIDE DEF j
<1>7. JobInv' /\ job'[w] = j /\ \A v \in Workers \ {w} : job'[v] = job[v]
  BY <1>4, <1>6, JobUpdate
<1>8. CASE owed' = owed \ {k} /\ UNCHANGED q
  BY <1>1, <1>6, <1>7, <1>8 DEF Moves, QueueInv
<1>9. CASE failedProvide(i.prefix, {k}) /\ UNCHANGED owed
  <2>1. QueueInv' /\ q'.keys = q.keys \cup {k}
    <3>1. {k} \in SUBSET Keys /\ \A m \in {k} : Covers(i.prefix, m)
      BY <1>5
    <3> QED
      BY <1>5, <1>9, <3>1, FailedQueue
  <2> QED
    BY <1>1, <1>6, <1>7, <1>9, <2>1 DEF Moves
<1> QED
  BY <1>2, <1>8, <1>9

(* Exploring a region: the worker takes what is queued under the prefix    *)
(* covered, and drops no key unless all peers share a longer prefix.       *)
LEMMA ExploreStep ==
  ASSUME QueueInv, JobInv, NEW w \in Workers, Explore(w)
  PROVE  QueueInv' /\ JobInv' /\ Moves(w)
<1> DEFINE i == job[w]
<1>1. UNCHANGED <<disk, close, dropped, owed, abandoned>> /\ i.st = "start"
  BY Zenon DEF Explore, jobStep
<1>2. i \in Job /\ i.prefix \in RegionPrefixes /\ i.keys \subseteq Keys /\ \A k \in i.keys : Covers(i.prefix, k)
  <2>1. JobOK(i)
    BY Zenon DEF JobInv
  <2> HIDE DEF i
  <2> QED
    BY <1>1, <2>1 DEF JobOK, Job
<1>3. CASE failedProvide(i.prefix, i.keys) /\ job' = [job EXCEPT ![w] = Idle]
  <2>1. QueueInv' /\ q'.keys = q.keys \cup i.keys
    BY <1>2, <1>3, FailedQueue
  <2>2. JobInv' /\ job'[w] = Idle /\ \A v \in Workers \ {w} : job'[v] = job[v]
    BY <1>3, IdleJob, JobUpdate
  <2> QED
    BY <1>1, <2>1, <2>2 DEF Moves
<1>4. ASSUME NEW x \in exploreSwarm(i.prefix), NEW keys, keys = i.keys \cup Under(q.keys, x[1]),
             q' = DequeueMatching(q, x[1]),
             job' = [job EXCEPT ![w] =
                       [i EXCEPT !.st = "send", !.regions = {r \in x[2] : Under(keys, r) # {}},
                                 !.keys = {k \in keys : \E r \in x[2] : Covers(r, k)}]]
      PROVE  QueueInv' /\ JobInv' /\ Moves(w)
  <2> DEFINE c == x[1]
             R == x[2]
             regions == {r \in R : Under(keys, r) # {}}
             kept == {k \in keys : \E r \in R : Covers(r, k)}
             j == [i EXCEPT !.st = "send", !.regions = regions, !.keys = kept]
  <2>1. /\ c \in RegionPrefixes /\ R \in SUBSET RegionPrefixes
        /\ ~Sparse => Covers(c, i.prefix)
        /\ \A k \in Under(Keys, c) : \E r \in R : Covers(r, k)
    BY <1>4, Explored
  <2>2. job' = [job EXCEPT ![w] = j]
    BY <1>4, Zenon
  <2>3. q' = DequeueMatching(q, c) /\ keys = i.keys \cup Under(q.keys, c)
    BY <1>4, Zenon
  <2> HIDE DEF c, R, i
  <2>4. QueueOK(q', RegionPrefixes, Keys) /\ q'.keys = q.keys \ Under(q.keys, c) /\ q.keys \subseteq Keys
    <3>1. QueueOK(q', RegionPrefixes, Keys) /\ q'.keys = q.keys \ Under(q.keys, c)
      BY <2>1, <2>3, DequeueMatchingQueue DEF QueueInv
    <3>2. q.keys \subseteq Keys
      BY DEF QueueInv, QueueOK
    <3> QED
      BY <3>1, <3>2
  <2>5. QueueInv'
    BY <2>4 DEF QueueInv
  <2>6. keys \subseteq Keys
    BY <1>2, <2>3, <2>4 DEF Under
  <2>7. regions \in SUBSET RegionPrefixes /\ kept \in SUBSET Keys
    BY <2>1, <2>6
  <2>8. \A k \in kept : \E r \in regions : Covers(r, k)
    BY DEF Under
  <2> HIDE DEF regions, kept
  <2>9. j.st = "send" /\ j.regions = regions /\ j.keys = kept /\ j.prefix = i.prefix /\ j \in Job
    BY <1>2, <2>7 DEF Job
  <2> HIDE DEF j
  <2>10. JobOK(j)
    BY <1>2, <2>8, <2>9 DEF JobOK
  <2>11. JobInv' /\ job'[w] = j /\ \A v \in Workers \ {w} : job'[v] = job[v]
    BY <2>2, <2>10, JobUpdate
  <2>12. ASSUME ~Sparse, NEW k \in q.keys \cup i.keys PROVE k \in q'.keys \cup kept
    <3>1. k \in Keys /\ k \in Bits
      BY <1>2, <2>4, BitsOfRegions
    <3>2. CASE Covers(c, k)
      <4>1. k \in keys
        BY <2>3, <3>2 DEF Under
      <4>2. \E r \in R : Covers(r, k)
        BY <2>1, <3>1, <3>2 DEF Under
      <4> QED
        BY <4>1, <4>2 DEF kept
    <3>3. CASE ~Covers(c, k)
      <4>1. k \notin i.keys
        <5>1. c \in Bits /\ i.prefix \in Bits
          BY <1>2, <2>1, BitsOfRegions
        <5> QED
          BY <1>2, <2>1, <2>12, <3>1, <3>3, <5>1, CoversTransitive
      <4> QED
        BY <2>4, <3>3, <4>1 DEF Under
    <3> QED
      BY <3>2, <3>3
  <2> QED
    BY <1>1, <2>5, <2>9, <2>11, <2>12 DEF Moves, i
<1> QED
  BY <1>3, <1>4, Zenon DEF Explore

(* One region is sent, goes back to the queue, or is abandoned.            *)
LEMMA SendStep ==
  ASSUME QueueInv, JobInv, NEW w \in Workers, SendRegion(w)
  PROVE  QueueInv' /\ JobInv' /\ Moves(w)
<1> DEFINE i == job[w]
<1>1. UNCHANGED <<disk, close, dropped>> /\ i.st = "send"
  BY Zenon DEF SendRegion, jobStep
<1>2. i \in Job /\ JobOK(i)
  BY Zenon DEF JobInv, JobOK
<1>3. PICK r \in i.regions :
         /\ job' = [job EXCEPT ![w] = IF i.regions = {r} THEN Idle
                                      ELSE [i EXCEPT !.keys = @ \ Under(i.keys, r), !.regions = @ \ {r}]]
         /\ \/ owed' = owed \ Under(i.keys, r) /\ UNCHANGED <<q, abandoned>>
            \/ failedProvide(r, Under(i.keys, r)) /\ UNCHANGED <<owed, abandoned>>
            \/ abandoned' = abandoned \cup Under(i.keys, r) /\ UNCHANGED <<q, owed>>
  BY Zenon DEF SendRegion
<1> DEFINE K == Under(i.keys, r)
           j == IF i.regions = {r} THEN Idle ELSE [i EXCEPT !.keys = @ \ K, !.regions = @ \ {r}]
<1>4. job' = [job EXCEPT ![w] = j]
  BY <1>3, Zenon
<1> HIDE DEF i
<1>5. /\ r \in RegionPrefixes /\ i.regions \subseteq RegionPrefixes
      /\ i.prefix \in RegionPrefixes /\ i.keys \subseteq Keys
      /\ \A k \in i.keys : \E s \in i.regions : Covers(s, k)
  BY <1>1, <1>2, <1>3 DEF JobOK, Job
<1>6. K \in SUBSET Keys /\ \A k \in K : Covers(r, k)
  BY <1>5 DEF Under
<1>7. JobOK(j) /\ i.keys \ K \subseteq j.keys
  <2>1. CASE i.regions = {r}
    <3>1. i.keys \ K = {}
      BY <1>5, <2>1 DEF Under
    <3> QED
      BY <2>1, <3>1, IdleJob
  <2>2. CASE i.regions # {r}
    <3>1. \A k \in i.keys \ K : \E s \in i.regions \ {r} : Covers(s, k)
      BY <1>5 DEF Under
    <3> HIDE DEF K
    <3>2. /\ j.st = "send" /\ j.keys = i.keys \ K /\ j.regions = i.regions \ {r} /\ j.prefix = i.prefix
          /\ j \in Job
      BY <1>1, <1>2, <2>2 DEF Job
    <3> HIDE DEF j
    <3> QED
      BY <1>5, <3>1, <3>2 DEF JobOK
  <2> QED
    BY <2>1, <2>2
<1> HIDE DEF K, j
<1>8. JobInv' /\ job'[w] = j /\ \A v \in Workers \ {w} : job'[v] = job[v]
  BY <1>4, <1>7, JobUpdate
<1>9. CASE owed' = owed \ K /\ UNCHANGED <<q, abandoned>>
  BY <1>1, <1>7, <1>8, <1>9 DEF Moves, QueueInv, i
<1>10. CASE failedProvide(r, K) /\ UNCHANGED <<owed, abandoned>>
  <2>1. QueueInv' /\ q'.keys = q.keys \cup K
    BY <1>5, <1>6, <1>10, FailedQueue
  <2> QED
    BY <1>1, <1>7, <1>8, <1>10, <2>1 DEF Moves, i
<1>11. CASE abandoned' = abandoned \cup K /\ UNCHANGED <<q, owed>>
  BY <1>1, <1>7, <1>8, <1>11 DEF Moves, QueueInv, i
<1> QED
  BY <1>3, <1>9, <1>10, <1>11 DEF K

(* A step of any worker.                                                   *)
LEMMA WorkerStep ==
  ASSUME QueueInv, JobInv, NEW w \in Workers, DequeueRegion(w) \/ Provide(w)
  PROVE  QueueInv' /\ JobInv' /\ Moves(w)
  BY DequeueStep, NoSelfAddrsStep, IndividualStep, ExploreStep, SendStep, Zenon DEF Provide

-----------------------------------------------------------------------------
(* The other steps that touch the queue or what is persisted.              *)

(* A group of keys joins the queue.                                        *)
LEMMA EnqueueGroupStep ==
  ASSUME QueueInv, ClientInv, HistoryInv, EnqueueGroup
  PROVE  /\ QueueInv' /\ ClientInv' /\ HistoryInv' /\ UNCHANGED <<disk, job, close>>
         /\ \E K : /\ q'.keys = q.keys \cup K
                   /\ owed' \subseteq owed \cup K
                   /\ \A k \in owed' \ K : /\ k \in dropped => k \in dropped'
                                           /\ k \in abandoned => k \in abandoned'
<1>1. UNCHANGED <<keystore, disk, job, close>>
  BY Zenon DEF EnqueueGroup
<1>2. PICK r \in client.regions :
         /\ q' = Enqueue(q, r, Under(client.keys, r))
         /\ client' = [client EXCEPT !.keys = @ \ Under(client.keys, r), !.regions = @ \ {r}]
         /\ \/ UNCHANGED history
            \/ /\ owed' = owed \cup Under(client.keys, r) /\ dropped' = dropped \ Under(client.keys, r)
               /\ abandoned' = abandoned \ Under(client.keys, r)
  BY Zenon DEF EnqueueGroup
<1> DEFINE K == Under(client.keys, r)
<1>3. r \in RegionPrefixes /\ K \in SUBSET Keys /\ \A k \in K : Covers(r, k)
  BY <1>2 DEF ClientInv, Under
<1>4. /\ q' = Enqueue(q, r, K)
      /\ client' = [client EXCEPT !.keys = @ \ K, !.regions = @ \ {r}]
      /\ \/ UNCHANGED history
         \/ owed' = owed \cup K /\ dropped' = dropped \ K /\ abandoned' = abandoned \ K
  BY <1>2, Zenon
<1> HIDE DEF K
<1>5. QueueOK(q', RegionPrefixes, Keys) /\ q'.keys = q.keys \cup K
  BY <1>3, <1>4, EnqueueQueue DEF QueueInv
<1>6. QueueInv'
  BY <1>5 DEF QueueInv
<1>7. ClientInv'
  BY <1>4 DEF ClientInv
<1>8. HistoryInv'
  BY <1>1, <1>3, <1>4 DEF HistoryInv, history
<1>9. /\ owed' \subseteq owed \cup K
      /\ \A k \in owed' \ K : (k \in dropped => k \in dropped') /\ (k \in abandoned => k \in abandoned')
  BY <1>4 DEF history
<1> QED
  BY <1>1, <1>5, <1>6, <1>7, <1>8, <1>9

(* Keys that are no longer to be provided leave the queue.                 *)
LEMMA StopQueuedStep ==
  ASSUME QueueInv, StopQueued
  PROVE  /\ QueueInv' /\ UNCHANGED <<disk, job, close, dropped, abandoned>>
         /\ \A k \in owed' : k \in owed /\ (k \in q.keys => k \in q'.keys)
<1>1. /\ UNCHANGED <<disk, job, close, dropped, abandoned>>
      /\ q' = RemoveKeys(q, client.keys) /\ owed' = owed \ client.keys
  BY Zenon DEF StopQueued, api
<1>2. QueueOK(q', RegionPrefixes, Keys) /\ q'.keys = q.keys \ client.keys
  BY <1>1, RemoveKeysQueue DEF QueueInv
<1> QED
  BY <1>1, <1>2 DEF QueueInv

(* The queue is emptied, by Clear or when the node is offline.             *)
LEMMA EmptyStep ==
  ASSUME Clear \/ OnOffline
  PROVE  /\ QueueInv' /\ UNCHANGED <<disk, job, close, dropped, abandoned>>
         /\ owed' = owed \ q.keys
<1>1. /\ UNCHANGED <<disk, job, close, dropped, abandoned>>
      /\ q' = NewProvideQueue /\ owed' = owed \ q.keys
  BY Zenon DEF Clear, OnOffline, api
<1>2. QueueOK(NewProvideQueue, RegionPrefixes, Keys)
  BY BitsOfRegions, NewQueue
<1> QED
  BY <1>1, <1>2 DEF QueueInv

(* A reprovide takes the queued keys of its region.                        *)
LEMMA DropStep ==
  ASSUME QueueInv, ReprovideInv, DropQueued
  PROVE  /\ QueueInv' /\ UNCHANGED <<disk, job, close, abandoned>>
         /\ dropped \subseteq dropped' /\ dropped' \subseteq dropped \cup owed /\ owed' \subseteq owed
         /\ \A k \in owed' : k \in q.keys => k \in q'.keys \cup dropped'
<1> DEFINE p == reprovide.prefix
           taken == Under(q.keys, p)
<1>1. /\ UNCHANGED <<disk, job, close, abandoned>> /\ reprovide.st = "drop"
      /\ q' = DequeueMatching(q, p) /\ owed' = owed \ (taken \cap reprovide.keys)
      /\ dropped' = dropped \cup ((owed \cap taken) \ reprovide.keys)
  BY Zenon DEF DropQueued, reprovideStep
<1>2. p \in RegionPrefixes
  BY <1>1 DEF ReprovideInv
<1> HIDE DEF p
<1>3. QueueOK(q', RegionPrefixes, Keys) /\ q'.keys = q.keys \ taken
  BY <1>1, <1>2, DequeueMatchingQueue DEF QueueInv
<1> HIDE DEF taken
<1> QED
  BY <1>1, <1>3 DEF QueueInv

(* What Close persists is the queue.                                       *)
LEMMA PersistStep ==
  ASSUME QueueInv, DiskInv, PersistQueue
  PROVE  DiskInv' /\ Persisted' = q.keys
<1>1. disk' = [disk EXCEPT !.entries = Persist(q)]
  BY Zenon DEF PersistQueue
<1> DEFINE e == Persist(q)
<1>2. EntriesOK(e, RegionPrefixes, Keys) /\ KeysOf(e) = q.keys
  BY PersistEntries DEF QueueInv
<1>3. e \in Seq(Entry(RegionPrefixes, Keys))
  BY <1>2 DEF EntriesOK
<1> HIDE DEF e
<1>4. /\ disk'.entries = e
      /\ disk' \in [entries : Seq(Entry(RegionPrefixes, Keys)), avgPrefixLen : {"unknown", "known"}]
  BY <1>1, <1>3 DEF DiskInv, e
<1>5. DiskInv'
  BY <1>2, <1>4 DEF DiskInv
<1>6. Persisted' = KeysOf(e)
  BY <1>4, Zenon DEF Persisted, KeysOf
<1> QED
  BY <1>2, <1>5, <1>6

(* A restart has the queue that was persisted, as long as no region's      *)
(* prefix is the empty one.                                                *)
LEMMA RestartStep ==
  ASSUME DiskInv, Restart
  PROVE  /\ QueueInv' /\ DiskInv' /\ UNCHANGED job
         /\ close = "closed" /\ owed' = owed \ (dropped \cup abandoned)
         /\ dropped' = {} /\ abandoned' = {}
         /\ MinLen > 0 => Persisted \subseteq q'.keys
<1>1. /\ close = "closed" /\ owed' = owed \ (dropped \cup abandoned)
      /\ dropped' = {} /\ abandoned' = {} /\ UNCHANGED job
      /\ q' = DrainDatastore(NewProvideQueue, disk.entries)
      /\ disk' = [disk EXCEPT !.entries = Undrained(@)]
  BY Zenon DEF Restart
<1> DEFINE e == disk.entries
           u == Undrained(e)
<1>2. EntriesOK(e, RegionPrefixes, Keys)
  BY DEF DiskInv
<1>3. disk' = [disk EXCEPT !.entries = u] /\ q' = DrainDatastore(NewProvideQueue, e)
  BY <1>1, Zenon
<1> HIDE DEF e
<1>4. EntriesOK(u, RegionPrefixes, Keys)
  BY <1>2, UndrainedEntries
<1>5. u \in Seq(Entry(RegionPrefixes, Keys))
  BY <1>4 DEF EntriesOK
<1> HIDE DEF u
<1>6. DiskInv'
  <2>1. /\ disk'.entries = u
        /\ disk' \in [entries : Seq(Entry(RegionPrefixes, Keys)), avgPrefixLen : {"unknown", "known"}]
    BY <1>3, <1>5 DEF DiskInv
  <2> QED
    BY <1>4, <2>1 DEF DiskInv
<1>7. /\ QueueOK(q', RegionPrefixes, Keys)
      /\ \A i \in DOMAIN e : Readable(e[i]) => e[i].keys \subseteq q'.keys
  BY <1>2, <1>3, DrainQueue
<1>8. ASSUME MinLen > 0, NEW i \in DOMAIN e PROVE e[i].keys \subseteq q'.keys
  <2>1. e[i] \in Entry(RegionPrefixes, Keys)
    BY <1>2, LenProperties, ElementOfSeq DEF EntriesOK
  <2>2. e[i].prefix \in RegionPrefixes
    BY <2>1 DEF Entry
  <2>3. Len(e[i].prefix) >= MinLen
    BY <2>2 DEF RegionPrefixes
  <2>4. Len(<<>>) = 0
    BY EmptySeq
  <2>5. e[i].prefix # <<>>
    BY <1>8, <2>3, <2>4, ProvideLoopAssumption
  <2> QED
    BY <1>7, <2>5 DEF Readable
<1>9. MinLen > 0 => Persisted \subseteq q'.keys
  BY <1>8 DEF Persisted, e
<1> QED
  BY <1>1, <1>6, <1>7, <1>9 DEF QueueInv

-----------------------------------------------------------------------------
(* The queue, what is persisted and the workers, in every step.            *)
LEMMA KeysNext ==
  ASSUME LoopInv, [Next]_vars PROVE QueueInv' /\ DiskInv' /\ JobInv'
<1>0. QueueInv /\ DiskInv /\ JobInv /\ ReprovideInv /\ ClientInv /\ HistoryInv
  BY Zenon DEF LoopInv
<1>1. CASE UNCHANGED <<q, disk, job>>
  BY <1>0, <1>1, Zenon DEF QueueInv, DiskInv, JobInv
<1>2. ASSUME NEW w \in Workers, DequeueRegion(w) \/ Provide(w) PROVE QueueInv' /\ DiskInv' /\ JobInv'
  BY <1>0, <1>2, WorkerStep DEF DiskInv, Moves
<1>3. CASE EnqueueGroup
  BY <1>0, <1>3, EnqueueGroupStep, Zenon DEF DiskInv, JobInv
<1>4. CASE StopQueued
  BY <1>0, <1>4, StopQueuedStep, Zenon DEF DiskInv, JobInv
<1>5. CASE Clear \/ OnOffline
  BY <1>0, <1>5, EmptyStep, Zenon DEF DiskInv, JobInv
<1>6. CASE DropQueued
  BY <1>0, <1>6, DropStep, Zenon DEF DiskInv, JobInv
<1>7. CASE Close \/ CloseConnectivity
  <2>1. UNCHANGED <<q, disk, job>>
    BY <1>7, Zenon DEF Close, CloseConnectivity, queues, closing
  <2> QED
    BY <1>1, <2>1
<1>8. CASE CloseWaited
  <2>1. UNCHANGED <<q, job>> /\ (disk' = disk \/ disk' = [disk EXCEPT !.avgPrefixLen = "known"])
    BY <1>8, Zenon DEF CloseWaited, PersistAvgPrefixLen, closing
  <2>2. /\ disk'.entries = disk.entries
        /\ disk' \in [entries : Seq(Entry(RegionPrefixes, Keys)), avgPrefixLen : {"unknown", "known"}]
    BY <1>0, <2>1 DEF DiskInv
  <2> QED
    BY <1>0, <2>1, <2>2, Zenon DEF QueueInv, DiskInv, JobInv
<1>9. CASE PersistQueue
  <2>1. UNCHANGED <<q, job>>
    BY <1>9, Zenon DEF PersistQueue, closing
  <2> QED
    BY <1>0, <1>9, <2>1, PersistStep, Zenon DEF QueueInv, JobInv
<1>10. CASE Restart
  BY <1>0, <1>10, RestartStep, Zenon DEF JobInv
<1> QED
  BY <1>1, <1>2, <1>3, <1>4, <1>5, <1>6, <1>7, <1>8, <1>9, <1>10, KeySteps, Zenon DEF KeyStep

-----------------------------------------------------------------------------
(* The client, the reprovide, connectivity, bounds and histories.          *)

(* The steps that change the client's call.                                *)
LEMMA ClientNext ==
  ASSUME LoopInv, [Next]_vars PROVE ClientInv'
<1>0. ClientInv /\ QueueInv /\ HistoryInv
  BY Zenon DEF LoopInv
<1>1. CASE UNCHANGED client
  BY <1>0, <1>1 DEF ClientInv
<1>2. NoCall \in [st : {"idle", "check", "group", "enqueue", "stop"}, keys : SUBSET Keys,
                  regions : SUBSET RegionPrefixes]
  BY DEF NoCall
<1>3. ASSUME NEW K \in SUBSET Keys, NEW s \in {"check", "stop"},
             client' = client \/ client' = [NoCall EXCEPT !.st = s, !.keys = K]
      PROVE  ClientInv'
  BY <1>0, <1>2, <1>3 DEF ClientInv
<1>4. CASE Calls
  <2>1. \A keys \in CallKeys : keys \in SUBSET Keys
    BY ProvideLoopAssumption
  <2>2. ASSUME NEW keys \in CallKeys, NEW force \in BOOLEAN, StartProviding(keys, force) PROVE ClientInv'
    <3> DEFINE K == IF force THEN keys ELSE keys \ keystore
    <3>1. client' = client \/ client' = [NoCall EXCEPT !.st = "check", !.keys = K]
      BY <2>2, Zenon DEF StartProviding
    <3>2. K \in SUBSET Keys
      BY <2>1
    <3> HIDE DEF K
    <3> QED
      BY <1>3, <3>1, <3>2
  <2>3. ASSUME NEW keys \in CallKeys, ProvideOnce(keys) PROVE ClientInv'
    <3>1. client' = [NoCall EXCEPT !.st = "check", !.keys = keys]
      BY <2>3, Zenon DEF ProvideOnce
    <3> QED
      BY <1>3, <2>1, <3>1
  <2>4. ASSUME NEW keys \in CallKeys, StopProviding(keys) PROVE ClientInv'
    <3>1. client' = [NoCall EXCEPT !.st = "stop", !.keys = keys]
      BY <2>4, Zenon DEF StopProviding
    <3> QED
      BY <1>3, <2>1, <3>1
  <2>5. Clear \/ Close \/ Restart => UNCHANGED client
    BY Zenon DEF Clear, Close, Restart
  <2> QED
    BY <1>1, <1>4, <2>2, <2>3, <2>4, <2>5, Zenon DEF Calls
<1>5. CASE CheckOffline
  <2>1. client' = NoCall \/ client' = [client EXCEPT !.st = "group"]
    BY <1>5, Zenon DEF CheckOffline
  <2> QED
    BY <1>0, <1>2, <2>1 DEF ClientInv
<1>6. CASE Group
  <2>1. \/ \E R \in SUBSET RegionPrefixes : client' = [client EXCEPT !.st = "enqueue", !.regions = R]
        \/ client' = NoCall
    BY <1>6, Zenon DEF Group, Partitions
  <2> QED
    BY <1>0, <1>2, <2>1 DEF ClientInv
<1>7. CASE EnqueueGroup
  BY <1>0, <1>7, EnqueueGroupStep
<1>8. CASE StartLoop \/ StopQueued
  <2>1. client' = NoCall
    BY <1>8, Zenon DEF StartLoop, StopQueued
  <2> QED
    BY <1>2, <2>1 DEF ClientInv
<1>9. CASE Checker \/ Outage
  <2>1. UNCHANGED client
    BY <1>9, Zenon DEF Checker, Outage, Check, Probe, OnOfflineForget, OnOnline, Measure, Catchup, StopProbing,
                       StartProbing, OnOffline
  <2> QED
    BY <1>1, <2>1
<1>10. CASE TryLock \/ Loop \/ RetryTick \/ LateDone
  <2>1. UNCHANGED client
    BY <1>10, Zenon DEF TryLock, Loop, Test, Unlock, DequeueRegion, RetryTick, LateDone, loopStep
  <2> QED
    BY <1>1, <2>1
<1>11. CASE \E w \in Workers : Provide(w)
  <2>1. UNCHANGED client
    BY <1>11, Zenon DEF Provide, NoSelfAddrs, individualProvide, Explore, SendRegion, jobStep
  <2> QED
    BY <1>1, <2>1
<1>12. CASE StartReprovide \/ Reprovide
  <2>1. UNCHANGED client
    BY <1>12, Zenon DEF StartReprovide, LoadKeys, Reprovide, ExploreReprovide, DropQueued, reprovideStep
  <2> QED
    BY <1>1, <2>1
<1>13. CASE Closing \/ UNCHANGED vars
  <2>1. UNCHANGED client
    BY <1>13, Zenon DEF Closing, CloseWaited, PersistAvgPrefixLen, PersistQueue, CloseConnectivity, closing, vars
  <2> QED
    BY <1>1, <2>1
<1> QED
  BY <1>4, <1>5, <1>6, <1>7, <1>8, <1>9, <1>10, <1>11, <1>12, <1>13, Zenon DEF Next, Client

(* The steps that change the reprovide under way.                          *)
LEMMA ReprovideSteps ==
  ASSUME [Next]_vars PROVE StartReprovide \/ Reprovide \/ UNCHANGED reprovide
<1>1. CASE Calls
  BY <1>1, Zenon DEF Calls, StartProviding, ProvideOnce, StopProviding, Clear, Close, Restart, api
<1>2. CASE Client
  BY <1>2, Zenon DEF Client, CheckOffline, Group, EnqueueGroup, StartLoop, StopQueued, api
<1>3. CASE Checker \/ Outage
  BY <1>3, Zenon DEF Checker, Outage, Check, Probe, OnOfflineForget, OnOnline, Measure, Catchup, StopProbing,
                     StartProbing, OnOffline
<1>4. CASE TryLock \/ Loop \/ RetryTick \/ LateDone
  BY <1>4, Zenon DEF TryLock, Loop, Test, Unlock, DequeueRegion, RetryTick, LateDone, loopStep
<1>5. CASE \E w \in Workers : Provide(w)
  BY <1>5, Zenon DEF Provide, NoSelfAddrs, individualProvide, Explore, SendRegion, jobStep
<1>6. CASE Closing \/ UNCHANGED vars
  BY <1>6, Zenon DEF Closing, CloseWaited, PersistAvgPrefixLen, PersistQueue, CloseConnectivity, closing, vars
<1> QED
  BY <1>1, <1>2, <1>3, <1>4, <1>5, <1>6, Zenon DEF Next

(* What a reprovide has is under the prefix of a region.                   *)
LEMMA ReprovideNext ==
  ASSUME LoopInv, [Next]_vars PROVE ReprovideInv'
<1>0. ReprovideInv /\ keystore \subseteq Keys
  BY DEF LoopInv, HistoryInv
<1>1. CASE UNCHANGED reprovide
  BY <1>0, <1>1 DEF ReprovideInv
<1>2. Idle \in Job /\ Idle.st = "idle"
  BY IdleJob DEF JobOK
<1>3. ASSUME NEW p \in RegionPrefixes, LoadKeys(p) PROVE ReprovideInv'
  <2> DEFINE K == Under(keystore, p)
  <2>1. reprovide' = [Idle EXCEPT !.st = "explore", !.prefix = p, !.keys = K]
    BY <1>3, Zenon DEF LoadKeys
  <2>2. K \in SUBSET Keys /\ p \in BitStrings(MaxLen)
    BY <1>0 DEF Under, RegionPrefixes
  <2> HIDE DEF K
  <2> QED
    BY <1>2, <2>1, <2>2 DEF ReprovideInv, Job
<1>4. CASE ExploreReprovide
  <2>1. CASE reprovide' = Idle
    BY <1>2, <2>1 DEF ReprovideInv
  <2>2. ASSUME NEW x \in exploreSwarm(reprovide.prefix),
               \/ reprovide' = [reprovide EXCEPT !.st = "drop", !.prefix = x[1], !.keys = Under(keystore, x[1])]
               \/ reprovide' = [reprovide EXCEPT !.st = "drop"]
        PROVE  ReprovideInv'
    <3> DEFINE c == x[1]
               K == Under(keystore, c)
    <3>1. reprovide.st = "explore"
      BY <1>4, Zenon DEF ExploreReprovide
    <3>2. c \in RegionPrefixes /\ c \in BitStrings(MaxLen)
      BY <2>2, Explored DEF RegionPrefixes
    <3>3. \/ reprovide' = [reprovide EXCEPT !.st = "drop", !.prefix = c, !.keys = K]
          \/ reprovide' = [reprovide EXCEPT !.st = "drop"]
      BY <2>2, Zenon
    <3> HIDE DEF c
    <3>4. K \in SUBSET Keys
      BY <1>0 DEF Under
    <3> HIDE DEF K
    <3> QED
      BY <1>0, <3>1, <3>2, <3>3, <3>4 DEF ReprovideInv, Job
  <2> QED
    BY <1>4, <2>1, <2>2, Zenon DEF ExploreReprovide
<1>5. CASE DropQueued
  <2>1. reprovide' = Idle
    BY <1>5, Zenon DEF DropQueued
  <2> QED
    BY <1>2, <2>1 DEF ReprovideInv
<1> QED
  BY <1>1, <1>3, <1>4, <1>5, ReprovideSteps, Zenon DEF StartReprovide, Reprovide

-----------------------------------------------------------------------------
(* Connectivity, the provide loop and the bounds.                          *)

(* A step spends at most one of the environment's actions.                 *)
LEMMA SpendSteps ==
  ASSUME [Next]_vars PROVE UNCHANGED left \/ \E x : Spend(x)
<1>1. CASE Calls
  BY <1>1, Zenon DEF Calls, StartProviding, ProvideOnce, StopProviding, Clear, Close, Restart
<1>2. CASE Client
  BY <1>2, Zenon DEF Client, CheckOffline, Group, EnqueueGroup, StartLoop, StopQueued
<1>3. CASE Checker \/ Outage
  BY <1>3, Zenon DEF Checker, Outage, Check, Probe, OnOfflineForget, OnOnline, Measure, Catchup, StopProbing,
                     StartProbing, OnOffline
<1>4. CASE TryLock \/ Loop \/ RetryTick \/ LateDone
  BY <1>4, Zenon DEF TryLock, Loop, Test, Unlock, DequeueRegion, RetryTick, LateDone, loopStep
<1>5. CASE \E w \in Workers : Provide(w)
  BY <1>5, Zenon DEF Provide, NoSelfAddrs, individualProvide, Explore, SendRegion, Fails
<1>6. CASE StartReprovide \/ Reprovide
  BY <1>6, Zenon DEF StartReprovide, LoadKeys, Reprovide, ExploreReprovide, DropQueued, Fails
<1>7. CASE Closing \/ UNCHANGED vars
  BY <1>7, Zenon DEF Closing, CloseWaited, PersistAvgPrefixLen, PersistQueue, CloseConnectivity, closing, vars
<1> QED
  BY <1>1, <1>2, <1>3, <1>4, <1>5, <1>6, <1>7, Zenon DEF Next

(* The goroutines that Close waits for: the steps that change them.        *)
LEMMA RunSteps ==
  ASSUME [Next]_vars
  PROVE  \/ StartLoop \/ TryLock \/ Loop \/ RetryTick \/ LateDone \/ Catchup
         \/ \E w \in Workers : Provide(w)
         \/ StartReprovide \/ Reprovide
         \/ UNCHANGED <<pending, loop, late, job, reprovide>>
<1>1. CASE Calls
  BY <1>1, Zenon DEF Calls, StartProviding, ProvideOnce, StopProviding, Clear, Close, Restart, api, loops
<1>2. CASE Client
  BY <1>2, Zenon DEF Client, CheckOffline, Group, EnqueueGroup, StopQueued, api, loops
<1>3. CASE Checker \/ Outage
  BY <1>3, Zenon DEF Checker, Outage, Check, Probe, OnOfflineForget, OnOnline, Measure, StopProbing,
                     StartProbing, OnOffline, loops
<1>4. CASE Closing \/ UNCHANGED vars
  BY <1>4, Zenon DEF Closing, CloseWaited, PersistAvgPrefixLen, PersistQueue, CloseConnectivity, closing, vars,
                     loops
<1> QED
  BY <1>1, <1>2, <1>3, <1>4, Zenon DEF Next

(* The steps of Close.                                                     *)
LEMMA CloseSteps ==
  ASSUME [Next]_vars PROVE Close \/ Restart \/ Closing \/ UNCHANGED close
  BY KeySteps, WorkerStep, Zenon DEF KeyStep, Closing, Clear, EnqueueGroup, StopQueued, OnOffline, DequeueRegion,
     Provide, NoSelfAddrs, individualProvide, Explore, SendRegion, DropQueued, api, loopStep, jobStep,
     reprovideStep

(* The counters and the states of the loop stay in their ranges.           *)
LEMMA LoopTypesNext ==
  ASSUME LoopInv, [Next]_vars PROVE LoopTypes'
<1>0. LoopTypes
  BY Zenon DEF LoopInv
<1>1. \A x \in DOMAIN left' : left'[x] \in Nat
  <2>1. CASE UNCHANGED left
    BY <1>0, <2>1 DEF LoopTypes
  <2>2. ASSUME NEW x, Spend(x) PROVE \A y \in DOMAIN left' : left'[y] \in Nat
    BY <1>0, <2>2 DEF LoopTypes, Spend
  <2> QED
    BY <2>1, <2>2, SpendSteps
<1>2. close' \in {"open", "wait", "persist", "connectivity", "closed"}
  <2>1. Close \/ Restart \/ Closing => close' \in {"open", "wait", "persist", "connectivity", "closed"}
    BY Zenon DEF Close, Restart, Closing, CloseWaited, PersistAvgPrefixLen, PersistQueue, CloseConnectivity
  <2> QED
    BY <1>0, <2>1, CloseSteps, Zenon DEF LoopTypes
<1>3. /\ pending' \in 0..MaxPending /\ loop' \in {"none", "test", "dequeue", "exit"} /\ late' \in BOOLEAN
  <2>0. /\ pending \in 0..MaxPending /\ loop \in {"none", "test", "dequeue", "exit"} /\ late \in BOOLEAN
        /\ MaxPending \in Nat
    BY <1>0, ProvideLoopAssumption DEF LoopTypes
  <2>1. CASE StartLoop
    <3>1. pending < MaxPending /\ (pending' = pending \/ pending' = pending + 1) /\ UNCHANGED <<loop, late>>
      BY <2>1, Zenon DEF StartLoop
    <3> QED
      BY <2>0, <3>1
  <2>2. CASE TryLock
    <3>1. pending > 0 /\ pending' = pending - 1 /\ (loop' = "test" \/ loop' = loop) /\ UNCHANGED late
      BY <2>2, Zenon DEF TryLock, loopStep
    <3> QED
      BY <2>0, <3>1
  <2>3. CASE Loop
    <3>1. UNCHANGED <<pending, late>> /\ loop' \in {"none", "test", "dequeue", "exit"}
      BY <2>3, Zenon DEF Loop, Test, Unlock, DequeueRegion, loopStep
    <3> QED
      BY <2>0, <3>1
  <2>4. CASE RetryTick \/ Catchup
    <3>1. UNCHANGED <<pending, loop>> /\ late' = (late \/ ~done)
      BY <2>4, Zenon DEF RetryTick, Catchup, catchupPendingWork
    <3> QED
      BY <2>0, <3>1
  <2>5. CASE LateDone
    <3>1. pending < MaxPending /\ pending' = pending + 1 /\ UNCHANGED loop /\ late' = FALSE
      BY <2>5, Zenon DEF LateDone
    <3>2. pending' \in 0..MaxPending
      BY <2>0, <3>1
    <3> QED
      BY <2>0, <3>1, <3>2, Zenon
  <2>6. CASE \/ \E w \in Workers : Provide(w)
             \/ StartReprovide \/ Reprovide
             \/ UNCHANGED <<pending, loop, late, job, reprovide>>
    <3>1. UNCHANGED <<pending, loop, late>>
      BY <2>6, Zenon DEF Provide, NoSelfAddrs, individualProvide, Explore, SendRegion, jobStep, loops,
                         StartReprovide, LoadKeys, Reprovide, ExploreReprovide, DropQueued, reprovideStep
    <3> QED
      BY <2>0, <3>1
  <2> QED
    BY <2>1, <2>2, <2>3, <2>4, <2>5, <2>6, RunSteps, Zenon
<1> QED
  BY <1>1, <1>2, <1>3, Zenon DEF LoopTypes

(* The connectivity checker.                                               *)
LEMMA ConnNext ==
  ASSUME LoopInv, [Next]_vars PROVE ConnInv'
<1>0. ConnInv /\ disk.avgPrefixLen \in {"unknown", "known"}
  BY DEF LoopInv, DiskInv
<1>1. CASE UNCHANGED conn
  BY <1>0, <1>1 DEF ConnInv, conn
<1>2. CASE TriggerCheck
  BY <1>0, <1>2 DEF ConnInv, TriggerCheck
<1>3. CASE Calls
  <2>1. CASE Restart
    <3>1. checker' = "start" /\ online' = FALSE /\ bootstrapped' = FALSE /\ avgPrefixLen' = disk.avgPrefixLen
      BY <2>1, Zenon DEF Restart
    <3> QED
      BY <1>0, <3>1 DEF ConnInv
  <2>2. Restart \/ UNCHANGED conn
    BY <1>3, Zenon DEF Calls, StartProviding, ProvideOnce, StopProviding, Clear, Close, api
  <2> QED
    BY <1>1, <2>1, <2>2
<1>4. CASE Client
  BY <1>1, <1>4, Zenon DEF Client, CheckOffline, Group, EnqueueGroup, StartLoop, StopQueued, api
<1>5. CASE Checker \/ Outage
  <2>1. /\ online' = online \/ online' = TRUE \/ online' = FALSE
        /\ avgPrefixLen' = avgPrefixLen \/ avgPrefixLen' = "known" \/ avgPrefixLen' = "unknown"
        /\ bootstrapped' = bootstrapped \/ bootstrapped' = TRUE
    BY <1>5, Zenon DEF Checker, Outage, Check, Probe, OnOfflineForget, OnOnline, Measure, Catchup, StopProbing,
                       StartProbing, OnOffline
  <2>2. checker' \in {"idle", "disconnected", "clearing", "offline", "onOnline", "measure", "catchup"}
    BY <1>5, Zenon DEF Checker, Outage, Check, Probe, OnOfflineForget, OnOnline, Measure, Catchup, StopProbing,
                       StartProbing, OnOffline
  <2> QED
    BY <1>0, <2>1, <2>2 DEF ConnInv
<1>6. CASE TryLock \/ Loop \/ RetryTick \/ LateDone
  BY <1>1, <1>6, Zenon DEF TryLock, Loop, Test, Unlock, DequeueRegion, RetryTick, LateDone, loopStep
<1>7. CASE \E w \in Workers : Provide(w)
  BY <1>1, <1>2, <1>7, Zenon DEF Provide, NoSelfAddrs, individualProvide, Explore, SendRegion, failedProvide
<1>8. CASE StartReprovide \/ Reprovide
  BY <1>1, <1>2, <1>8, Zenon DEF StartReprovide, LoadKeys, Reprovide, ExploreReprovide, DropQueued
<1>9. CASE Closing \/ UNCHANGED vars
  <2>1. UNCHANGED conn \/ (checker' = "closed" /\ UNCHANGED <<online, avgPrefixLen, bootstrapped>>)
    BY <1>9, Zenon DEF Closing, CloseWaited, PersistAvgPrefixLen, PersistQueue, CloseConnectivity, vars
  <2>2. CASE checker' = "closed" /\ UNCHANGED <<online, avgPrefixLen, bootstrapped>>
    BY <1>0, <2>2 DEF ConnInv
  <2> QED
    BY <1>1, <2>1, <2>2
<1> QED
  BY <1>3, <1>4, <1>5, <1>6, <1>7, <1>8, <1>9, Zenon DEF Next

-----------------------------------------------------------------------------
(* Close and the histories.                                                *)

(* Nothing starts once Close has waited: what it waited for is idle, and   *)
(* all that starts something looks at done first.                          *)
LEMMA CloseNext ==
  ASSUME LoopInv, [Next]_vars PROVE CloseInv'
<1> DEFINE Waited == {"persist", "connectivity", "closed"}
           Quiet == /\ pending = 0 /\ loop = "none" /\ late = FALSE
                    /\ reprovide = Idle /\ \A w \in Workers : job[w] = Idle
<1>0. (close \in Waited => Quiet) /\ Idle.st = "idle"
  BY IdleJob, Zenon DEF LoopInv, CloseInv
<1>1. CASE close' \notin Waited
  BY <1>1, Zenon DEF CloseInv
<1>2. CASE CloseWaited
  <2>1. /\ pending = 0 /\ loop = "none" /\ ~late /\ reprovide = Idle /\ \A w \in Workers : job[w] = Idle
        /\ UNCHANGED <<pending, loop, late, job, reprovide>>
    BY <1>2, Zenon DEF CloseWaited, PersistAvgPrefixLen, closing, loops
  <2>2. late = FALSE
    BY <2>1, Zenon DEF LoopInv, LoopTypes
  <2> QED
    BY <2>1, <2>2, Zenon DEF CloseInv
<1>3. CASE close \in Waited /\ UNCHANGED <<pending, loop, late, job, reprovide>>
  BY <1>0, <1>3, Zenon DEF CloseInv
<1>4. CASE close \in Waited
  <2>1. done /\ Quiet
    <3>1. done
      BY <1>4 DEF done
    <3> QED
      BY <1>0, <1>4, <3>1, Zenon
  <2>2. StartLoop => UNCHANGED <<pending, loop, late, job, reprovide>>
    BY <2>1, Zenon DEF StartLoop
  <2>3. ~TryLock
    BY <2>1 DEF TryLock
  <2>4. ~Loop
    <3>1. ~(loop = "test") /\ ~(loop = "exit") /\ ~(loop = "dequeue")
      BY <2>1
    <3> QED
      BY <3>1, Zenon DEF Loop, Test, Unlock, DequeueRegion
  <2>5. ~RetryTick /\ ~LateDone
    BY <2>1, Zenon DEF RetryTick, LateDone
  <2>6. Catchup => UNCHANGED <<pending, loop, late, job, reprovide>>
    <3>1. Catchup => UNCHANGED <<pending, loop, job, reprovide>> /\ late' = (late \/ ~done)
      BY Zenon DEF Catchup, catchupPendingWork
    <3>2. (late \/ ~done) = late
      BY <2>1
    <3> QED
      BY <3>1, <3>2
  <2>7. ASSUME NEW w \in Workers PROVE ~Provide(w)
    <3>1. job[w].st = "idle"
      BY <1>0, <2>1, Zenon
    <3>2. ~(job[w].st = "start") /\ ~(job[w].st \in {"start", "individual"}) /\ ~(job[w].st = "send")
      BY <3>1
    <3> QED
      BY <3>2, Zenon DEF Provide, NoSelfAddrs, individualProvide, Explore, SendRegion
  <2>8. ~StartReprovide
    BY <2>1, Zenon DEF StartReprovide, LoadKeys
  <2>9. ~Reprovide
    <3>1. ~(reprovide.st = "explore") /\ ~(reprovide.st = "drop")
      BY <1>0, <2>1
    <3> QED
      BY <3>1, Zenon DEF Reprovide, ExploreReprovide, DropQueued
  <2> QED
    BY <1>3, <1>4, <2>2, <2>3, <2>4, <2>5, <2>6, <2>7, <2>8, <2>9, RunSteps, Zenon
<1>5. CASE Close \/ Restart
  <2>1. close' = "wait" \/ close' = "open"
    BY <1>5, Zenon DEF Close, Restart
  <2>2. close' \notin Waited
    BY <2>1
  <2> QED
    BY <1>1, <2>2, Zenon
<1>6. CASE PersistQueue \/ CloseConnectivity
  <2>1. close = "persist" \/ close = "connectivity"
    BY <1>6, Zenon DEF PersistQueue, CloseConnectivity
  <2>2. close \in Waited
    BY <2>1
  <2> QED
    BY <1>4, <2>2, Zenon
<1> QED
  BY <1>1, <1>2, <1>4, <1>5, <1>6, CloseSteps, Zenon DEF Closing

(* What a worker abandons it had, or took from the queue.                  *)
LEMMA AbandonedKeys ==
  ASSUME QueueInv, JobInv, NEW w \in Workers, DequeueRegion(w) \/ Provide(w)
  PROVE  abandoned' \subseteq abandoned \cup Keys
<1>0. q.keys \subseteq Keys /\ job[w].keys \subseteq Keys
  BY DEF QueueInv, QueueOK, JobInv, Job
<1>1. CASE UNCHANGED abandoned
  BY <1>1
<1>2. CASE q.prefixes # <<>> /\ abandoned' = abandoned \cup Dequeue(q).keys
  <2>1. Dequeue(q).keys = Under(q.keys, Dequeue(q).prefix)
    BY <1>2, DequeueQueue DEF QueueInv
  <2>2. Dequeue(q).keys \subseteq q.keys
    BY <2>1 DEF Under
  <2> QED
    BY <1>0, <1>2, <2>2
<1>3. ASSUME NEW r, abandoned' = abandoned \cup Under(job[w].keys, r) PROVE abandoned' \subseteq abandoned \cup Keys
  BY <1>0, <1>3 DEF Under
<1>4. CASE DequeueRegion(w)
  BY <1>1, <1>2, <1>4, Zenon DEF DequeueRegion
<1>5. CASE Provide(w)
  BY <1>1, <1>3, <1>5, Zenon DEF Provide, NoSelfAddrs, individualProvide, Explore, SendRegion
<1> QED
  BY <1>4, <1>5

(* The keystore has keys of calls only.                                    *)
LEMMA KeystoreNext ==
  ASSUME keystore \subseteq Keys, [Next]_vars PROVE keystore' \subseteq Keys
<1>0. \A keys \in CallKeys : keys \subseteq Keys
  BY ProvideLoopAssumption
<1>1. CASE UNCHANGED keystore
  BY <1>1
<1>2. CASE Calls
  <2>1. \/ \E keys \in CallKeys : keystore' = keystore \cup keys \/ keystore' = keystore \ keys
        \/ UNCHANGED keystore
    BY <1>2, Zenon DEF Calls, StartProviding, ProvideOnce, StopProviding, Clear, Close, Restart, queues
  <2> QED
    BY <1>0, <2>1
<1>3. CASE Client
  BY <1>1, <1>3, Zenon DEF Client, CheckOffline, Group, EnqueueGroup, StartLoop, StopQueued, queues
<1>4. CASE Checker \/ Outage
  BY <1>1, <1>4, Zenon DEF Checker, Outage, Check, Probe, OnOfflineForget, OnOnline, Measure, Catchup,
                           StopProbing, StartProbing, OnOffline, queues
<1>5. CASE TryLock \/ Loop \/ RetryTick \/ LateDone
  BY <1>1, <1>5, Zenon DEF TryLock, Loop, Test, Unlock, DequeueRegion, RetryTick, LateDone, loopStep, queues
<1>6. CASE \E w \in Workers : Provide(w)
  BY <1>1, <1>6, Zenon DEF Provide, NoSelfAddrs, individualProvide, Explore, SendRegion, jobStep
<1>7. CASE StartReprovide \/ Reprovide
  BY <1>1, <1>7, Zenon DEF StartReprovide, LoadKeys, Reprovide, ExploreReprovide, DropQueued, reprovideStep
<1>8. CASE Closing \/ UNCHANGED vars
  BY <1>1, <1>8, Zenon DEF Closing, CloseWaited, PersistAvgPrefixLen, PersistQueue, CloseConnectivity, closing,
                           vars, queues
<1> QED
  BY <1>2, <1>3, <1>4, <1>5, <1>6, <1>7, <1>8, Zenon DEF Next

(* The histories have keys only.                                           *)
LEMMA HistoryNext ==
  ASSUME LoopInv, [Next]_vars PROVE HistoryInv'
<1>0. QueueInv /\ DiskInv /\ JobInv /\ ReprovideInv /\ ClientInv /\ HistoryInv
  BY Zenon DEF LoopInv
<1>1. keystore' \subseteq Keys
  BY <1>0, KeystoreNext, Zenon DEF HistoryInv
<1> DEFINE Histories == owed' \subseteq Keys /\ dropped' \subseteq Keys /\ abandoned' \subseteq Keys
<1> SUFFICES Histories
  BY <1>1, Zenon DEF HistoryInv
<1>2. owed \subseteq Keys /\ dropped \subseteq Keys /\ abandoned \subseteq Keys
  BY <1>0, Zenon DEF HistoryInv
<1>3. CASE UNCHANGED <<owed, dropped, abandoned>>
  BY <1>2, <1>3
<1>4. ASSUME NEW w \in Workers, DequeueRegion(w) \/ Provide(w) PROVE Histories
  <2>1. Moves(w) /\ abandoned' \subseteq abandoned \cup Keys
    BY <1>0, <1>4, WorkerStep, AbandonedKeys, Zenon
  <2>2. UNCHANGED dropped /\ owed' \subseteq owed
    BY <2>1, Zenon DEF Moves
  <2> QED
    BY <1>2, <2>1, <2>2
<1>5. CASE EnqueueGroup
  BY <1>0, <1>5, EnqueueGroupStep, Zenon DEF HistoryInv
<1>6. CASE StopQueued
  <2>1. UNCHANGED <<dropped, abandoned>> /\ owed' = owed \ client.keys
    BY <1>6, Zenon DEF StopQueued, api
  <2> QED
    BY <1>2, <2>1
<1>7. CASE Clear \/ OnOffline
  <2>1. UNCHANGED <<dropped, abandoned>> /\ owed' = owed \ q.keys
    BY <1>7, EmptyStep, Zenon
  <2> QED
    BY <1>2, <2>1
<1>8. CASE DropQueued
  <2>1. UNCHANGED abandoned /\ dropped' \subseteq dropped \cup owed /\ owed' \subseteq owed
    BY <1>0, <1>8, DropStep, Zenon
  <2> QED
    BY <1>2, <2>1
<1>9. CASE Restart
  <2>1. owed' = owed \ (dropped \cup abandoned) /\ dropped' = {} /\ abandoned' = {}
    BY <1>9, Zenon DEF Restart
  <2> QED
    BY <1>2, <2>1
<1>10. CASE Close \/ CloseWaited \/ PersistQueue \/ CloseConnectivity
  BY <1>3, <1>10, Zenon DEF Close, CloseWaited, PersistAvgPrefixLen, PersistQueue, CloseConnectivity, closing,
                            history
<1> QED
  BY <1>3, <1>4, <1>5, <1>6, <1>7, <1>8, <1>9, <1>10, KeySteps, Zenon DEF KeyStep

-----------------------------------------------------------------------------
(* The theorems.                                                           *)

(* The initial state satisfies the invariant.                              *)
LEMMA LoopInit == Init => LoopInv
<1> SUFFICES ASSUME Init PROVE LoopInv
  OBVIOUS
<1>1. QueueInv
  <2>1. QueueOK(NewProvideQueue, RegionPrefixes, Keys)
    BY BitsOfRegions, NewQueue, Zenon
  <2> QED
    BY <2>1 DEF Init, QueueInv
<1>2. DiskInv
  BY BitsOfRegions DEF Init, DiskInv, EntriesOK
<1>3. JobInv /\ ReprovideInv /\ CloseInv
  BY IdleJob DEF Init, JobInv, JobOK, ReprovideInv, CloseInv
<1>4. ClientInv /\ ConnInv /\ HistoryInv
  BY DEF Init, ClientInv, NoCall, ConnInv, HistoryInv
<1>5. LoopTypes
  <2>1. pending \in 0..MaxPending
    BY ProvideLoopAssumption DEF Init
  <2>2. \A x \in DOMAIN left : left[x] \in Nat
    <3>1. left = [failures |-> MaxFailures, outages |-> MaxOutages, calls |-> MaxCalls,
                  reprovides |-> MaxReprovides, restarts |-> MaxRestarts]
      BY Zenon DEF Init
    <3> QED
      BY <3>1, ProvideLoopAssumption
  <2> QED
    BY <2>1, <2>2, Zenon DEF Init, LoopTypes
<1> QED
  BY <1>1, <1>2, <1>3, <1>4, <1>5, Zenon DEF LoopInv

(* The invariant of the provide loop: the queue, in memory and in the      *)
(* datastore, is well formed; what workers and a reprovide have is under   *)
(* prefixes of regions; nothing runs once Close has waited.                *)
THEOREM LoopInvariant == Spec => []LoopInv
<1>1. LoopInv /\ [Next]_vars => LoopInv'
  BY KeysNext, ReprovideNext, ClientNext, ConnNext, LoopTypesNext, HistoryNext, CloseNext, Zenon DEF LoopInv
<1> QED
  BY LoopInit, <1>1, PTL DEF Spec

(* TypeOK, with a well formed provide queue, holds for any keys, workers,  *)
(* lengths of prefixes and bounds.                                         *)
THEOREM ProvideLoopTypeCorrect == Spec => []TypeOK
<1>1. LoopInv => TypeOK
  <2> SUFFICES ASSUME LoopInv PROVE TypeOK
    OBVIOUS
  <2>1. q.keys \subseteq Keys /\ q.prefixes \in Seq(RegionPrefixes) /\ WellFormed(q)
    BY DEF LoopInv, QueueInv, QueueOK
  <2>2. disk.entries \in Seq([prefix : RegionPrefixes, keys : SUBSET Keys])
        /\ disk.avgPrefixLen \in {"unknown", "known"}
    BY DEF LoopInv, DiskInv, Entry
  <2> QED
    BY <2>1, <2>2, Zenon DEF TypeOK, LoopInv, JobInv, ReprovideInv, ClientInv, ConnInv, LoopTypes, HistoryInv
<1> QED
  BY LoopInvariant, <1>1, PTL

(* Once Close has waited nothing of the provider runs, whatever calls,     *)
(* ticks, outages and failures came between.                               *)
THEOREM NothingAfterCloseHolds == Spec => []NothingAfterClose
<1>1. LoopInv => NothingAfterClose
  <2> SUFFICES ASSUME LoopInv, close \in {"persist", "connectivity", "closed"}
               PROVE  /\ pending = 0 /\ loop = "none" /\ ~late /\ InFlight = {} /\ reprovide = Idle
    BY Zenon DEF NothingAfterClose
  <2>1. /\ pending = 0 /\ loop = "none" /\ late = FALSE /\ reprovide = Idle
        /\ \A w \in Workers : job[w] = Idle
    BY Zenon DEF LoopInv, CloseInv
  <2>2. InFlight = {}
    BY <2>1, IdleJob DEF InFlight
  <2> QED
    BY <2>1, <2>2, Zenon
<1> QED
  BY LoopInvariant, <1>1, PTL

-----------------------------------------------------------------------------
(* No key is lost.                                                         *)

(* A key a worker has is in flight, and the other way round.               *)
LEMMA InFlightKeys ==
  \A k : k \in InFlight <=> \E w \in Workers : k \in job[w].keys
  BY DEF InFlight

(* A step keeps every key that is owed in the queue, with a worker or      *)
(* persisted, or counts it as dropped or abandoned.                        *)
LEMMA NoKeyLostNext ==
  ASSUME LoopInv, NoKeyLost, [Next]_vars, MinLen > 0, ~Sparse PROVE NoKeyLost'
<1> DEFINE Running == {"open", "wait", "persist"}
<1>0. QueueInv /\ DiskInv /\ JobInv /\ ReprovideInv /\ ClientInv /\ HistoryInv /\ CloseInv
  BY Zenon DEF LoopInv
<1>1. /\ close \in Running => owed \subseteq dropped \cup abandoned \cup q.keys \cup InFlight
      /\ close \notin Running => owed \subseteq dropped \cup abandoned \cup Persisted
  BY DEF NoKeyLost
<1>2. ASSUME NEW k \in owed, close \in Running
      PROVE  k \in dropped \/ k \in abandoned \/ k \in q.keys \/ \E w \in Workers : k \in job[w].keys
  BY <1>1, <1>2, InFlightKeys
<1>3. ASSUME close' \in Running,
             \A k \in owed' : \/ k \in dropped' \/ k \in abandoned' \/ k \in q'.keys
                              \/ \E w \in Workers : k \in job'[w].keys
      PROVE  NoKeyLost'
  <2>1. \A k : (\E w \in Workers : k \in job'[w].keys) => k \in InFlight'
    BY DEF InFlight
  <2> QED
    BY <1>3, <2>1 DEF NoKeyLost
<1>4. ASSUME close' \notin Running, owed' \subseteq dropped' \cup abandoned' \cup Persisted' PROVE NoKeyLost'
  BY <1>4 DEF NoKeyLost
<1>5. UNCHANGED disk => Persisted' = Persisted
  BY DEF Persisted
<1>6. ASSUME UNCHANGED <<disk, close>>, close \notin Running, owed' \subseteq owed,
             \A k \in owed' : (k \in dropped => k \in dropped') /\ (k \in abandoned => k \in abandoned')
      PROVE  NoKeyLost'
  BY <1>1, <1>4, <1>5, <1>6
<1>7. CASE UNCHANGED <<q, disk, job, owed, dropped, abandoned, close>>
  BY <1>7 DEF NoKeyLost, InFlight, Persisted
<1>8. ASSUME NEW w \in Workers, DequeueRegion(w) \/ Provide(w) PROVE NoKeyLost'
  <2>1. Moves(w)
    BY <1>0, <1>8, WorkerStep, Zenon
  <2>2. /\ \A v \in Workers \ {w} : job'[v] = job[v]
        /\ UNCHANGED <<disk, close, dropped>> /\ abandoned \subseteq abandoned' /\ owed' \subseteq owed
        /\ \A k \in owed' : k \in q.keys \cup job[w].keys => k \in q'.keys \cup job'[w].keys \cup abandoned'
    BY <2>1, Zenon DEF Moves
  <2>3. CASE close \notin Running
    BY <1>6, <2>2, <2>3
  <2>4. CASE close \in Running
    <3>1. ASSUME NEW k \in owed'
          PROVE  \/ k \in dropped' \/ k \in abandoned' \/ k \in q'.keys
                 \/ \E v \in Workers : k \in job'[v].keys
      <4>1. k \in owed
        BY <2>2
      <4>2. ASSUME NEW v \in Workers, k \in job[v].keys, v # w PROVE k \in job'[v].keys
        BY <2>2, <4>2
      <4> QED
        BY <1>2, <2>2, <2>4, <4>1, <4>2
    <3> QED
      BY <1>3, <2>2, <2>4, <3>1, Zenon
  <2> QED
    BY <2>3, <2>4
<1>9. CASE EnqueueGroup
  <2>1. /\ UNCHANGED <<disk, job, close>>
        /\ \E K : /\ q'.keys = q.keys \cup K
                  /\ owed' \subseteq owed \cup K
                  /\ \A k \in owed' \ K : /\ k \in dropped => k \in dropped'
                                          /\ k \in abandoned => k \in abandoned'
    BY <1>0, <1>9, EnqueueGroupStep, Zenon
  <2>2. CASE close \notin Running
    <3>1. done
      BY <2>2 DEF done
    <3>2. UNCHANGED <<owed, dropped, abandoned>>
      BY <1>9, <3>1, Zenon DEF EnqueueGroup, history
    <3> QED
      BY <1>6, <2>1, <2>2, <3>2
  <2>3. CASE close \in Running
    BY <1>2, <1>3, <2>1, <2>3
  <2> QED
    BY <2>2, <2>3
<1>10. ASSUME UNCHANGED <<disk, job, close, abandoned>>, owed' \subseteq owed, dropped \subseteq dropped',
              \A k \in owed' : k \in q.keys => k \in q'.keys \cup dropped'
       PROVE  NoKeyLost'
  <2>1. CASE close \notin Running
    BY <1>6, <1>10, <2>1
  <2>2. CASE close \in Running
    BY <1>2, <1>3, <1>10, <2>2
  <2> QED
    BY <2>1, <2>2
<1>11. CASE StopQueued
  <2>1. /\ UNCHANGED <<disk, job, close, dropped, abandoned>>
        /\ \A k \in owed' : k \in owed /\ (k \in q.keys => k \in q'.keys)
    BY <1>0, <1>11, StopQueuedStep, Zenon
  <2> QED
    BY <1>10, <2>1
<1>12. CASE Clear \/ OnOffline
  <2>1. UNCHANGED <<disk, job, close, dropped, abandoned>> /\ owed' = owed \ q.keys
    BY <1>12, EmptyStep, Zenon
  <2> QED
    BY <1>10, <2>1
<1>13. CASE DropQueued
  BY <1>0, <1>10, <1>13, DropStep
<1>14. CASE Close \/ CloseWaited
  <2>1. /\ close \in Running /\ close' \in Running
        /\ UNCHANGED <<q, job, owed, dropped, abandoned>>
    BY <1>14, Zenon DEF Close, CloseWaited, PersistAvgPrefixLen, closing, queues, history
  <2> QED
    BY <1>2, <1>3, <2>1
<1>15. CASE PersistQueue
  <2>1. close = "persist" /\ close' = "connectivity" /\ UNCHANGED <<owed, dropped, abandoned>>
    BY <1>15, Zenon DEF PersistQueue, closing, history
  <2>2. InFlight = {}
    BY <1>0, <2>1, IdleJob DEF CloseInv, InFlight
  <2>3. Persisted' = q.keys
    BY <1>0, <1>15, PersistStep, Zenon
  <2> QED
    BY <1>1, <1>4, <2>1, <2>2, <2>3
<1>16. CASE CloseConnectivity
  <2>1. /\ close = "connectivity" /\ close' = "closed" /\ UNCHANGED <<disk, owed, dropped, abandoned>>
    BY <1>16, Zenon DEF CloseConnectivity, closing, history
  <2> QED
    BY <1>1, <1>4, <1>5, <2>1
<1>17. CASE Restart
  <2>1. /\ close = "closed" /\ owed' = owed \ (dropped \cup abandoned) /\ Persisted \subseteq q'.keys
    BY <1>0, <1>17, RestartStep, Zenon
  <2>2. close' = "open"
    BY <1>17, Zenon DEF Restart
  <2> QED
    BY <1>1, <1>3, <2>1, <2>2
<1> QED
  BY <1>7, <1>8, <1>9, <1>11, <1>12, <1>13, <1>14, <1>15, <1>16, <1>17, KeySteps, Zenon DEF KeyStep

(* In a network with more than one region, whose regions hold all keys     *)
(* under what was explored, no key that was enqueued is lost: through      *)
(* failures that put keys back, outages, reprovides, Close and restarts it *)
(* is in the queue, with a worker or persisted until it is provided or     *)
(* taken back, or it is one of those a reprovide dropped or Close          *)
(* interrupted.                                                            *)
THEOREM NoKeyLostHolds ==
  ASSUME MinLen > 0, ~Sparse PROVE Spec => []NoKeyLost
<1>1. Init => NoKeyLost
  BY DEF Init, NoKeyLost
<1>2. LoopInv /\ NoKeyLost /\ [Next]_vars => NoKeyLost'
  BY NoKeyLostNext, Zenon
<1> QED
  BY LoopInvariant, <1>1, <1>2, PTL DEF Spec
=============================================================================
