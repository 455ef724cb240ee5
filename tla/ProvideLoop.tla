----------------------------- MODULE ProvideLoop -----------------------------
(***************************************************************************)
(* The provide side of the SweepingProvider (provider/provider.go): keys   *)
(* that the API puts in the provide queue, the loop that takes regions     *)
(* from it, the workers that send them, the connectivity checker           *)
(* (provider/internal/connectivity) that stops and restarts the loop, a    *)
(* reprovide that takes keys from the queue, Close and restart.            *)
(*                                                                         *)
(* The reprovide schedule does not depend on the provide queue and is left *)
(* out: the prefix the schedule has for a key may be any prefix of it.     *)
(***************************************************************************)
EXTENDS ProvideQueue

CONSTANTS
    Keys,                        \* bit strings
    CallKeys,                    \* the sets of keys calls are made for
    MinLen, MaxLen,              \* the lengths of prefixes in this network
    individualProvideThreshold,  \* the constant of that name
    Workers,                     \* the workers provides may use at once
    Sparse,                      \* whether all peers of a region may share a longer prefix
    MaxPending,                  \* bound on provide loops not yet run
    MaxFailures, MaxOutages,     \* bounds on failed lookups and sends, on outages,
    MaxCalls, MaxReprovides,     \* calls of the API, reprovides
    MaxRestarts                  \* and restarts

ASSUME ProvideLoopAssumption ==
    /\ MinLen \in Nat /\ MaxLen \in Nat /\ MinLen <= MaxLen
    /\ IsFiniteSet(Keys) /\ \A k \in Keys : k \in Seq({0, 1}) /\ Len(k) >= MaxLen
    /\ CallKeys \subseteq (SUBSET Keys) \ {{}}
    /\ individualProvideThreshold \in Nat /\ MaxPending \in Nat \ {0}
    /\ MaxFailures \in Nat /\ MaxOutages \in Nat /\ MaxCalls \in Nat /\ MaxReprovides \in Nat
    /\ MaxRestarts \in Nat /\ Sparse \in BOOLEAN

RegionPrefixes == {p \in BitStrings(MaxLen) : Len(p) >= MinLen}

VARIABLES
    keystore, q, disk,             \* stored keys, provide queue, what Close persists
    online, avgPrefixLen, checker, \* connectivity; whether the prefix length is known
    bootstrapped,
    client,                        \* the call of the API under way
    pending, loop, late,           \* goroutines of provideLoop, its state, of catch-up
    job, reprovide,                \* batchProvide of each worker, a batchReprovide
    close,                         \* how far Close is
    left,                          \* how often the environment may still do things
    owed,                          \* history: the keys enqueued and not provided since,
    dropped, abandoned             \* those a reprovide, or Close, took and did not send

queues == <<keystore, q, disk>>
conn == <<online, avgPrefixLen, bootstrapped, checker>>
loops == <<pending, loop, late>>
history == <<owed, dropped, abandoned>>
vars == <<queues, conn, client, loops, job, reprovide, close, left, history>>

done == close # "open"

Idle == [st |-> "idle", prefix |-> <<>>, keys |-> {}, regions |-> {}]
Job == [st : {"idle", "start", "individual", "send", "explore", "drop"}, prefix : BitStrings(MaxLen),
        keys : SUBSET Keys, regions : SUBSET RegionPrefixes]
NoCall == [st |-> "idle", keys |-> {}, regions |-> {}]

(* The state is well typed, and the provide queue well formed through      *)
(* failures that put keys back, reprovides that take them, and a restart:  *)
(* no key without a prefix, no prefix without a key, none under another    *)
(* (provider/internal/queue).                                              *)
TypeOK ==
    /\ keystore \subseteq Keys
    /\ q.keys \subseteq Keys /\ q.prefixes \in Seq(RegionPrefixes) /\ WellFormed(q)
    /\ disk.entries \in Seq([prefix : RegionPrefixes, keys : SUBSET Keys])
    /\ disk.avgPrefixLen \in {"unknown", "known"}
    /\ online \in BOOLEAN /\ avgPrefixLen \in {"unknown", "known"} /\ bootstrapped \in BOOLEAN
    /\ checker \in {"start", "idle", "check", "disconnected", "clearing", "offline",
                    "onOnline", "measure", "catchup", "closed"}
    /\ client \in [st : {"idle", "check", "group", "enqueue", "stop"}, keys : SUBSET Keys,
                   regions : SUBSET RegionPrefixes]
    /\ pending \in 0..MaxPending /\ loop \in {"none", "test", "dequeue", "exit"}
    /\ late \in BOOLEAN
    /\ job \in [Workers -> Job] /\ reprovide \in Job
    /\ close \in {"open", "wait", "persist", "connectivity", "closed"}
    /\ \A x \in DOMAIN left : left[x] \in Nat
    /\ owed \subseteq Keys /\ dropped \subseteq Keys /\ abandoned \subseteq Keys

Init ==
    /\ keystore = {} /\ q = NewProvideQueue /\ disk = [entries |-> <<>>, avgPrefixLen |-> "unknown"]
    /\ online = FALSE /\ avgPrefixLen = "unknown" /\ bootstrapped = FALSE /\ checker = "start"
    /\ client = NoCall /\ pending = 0 /\ loop = "none" /\ late = FALSE
    /\ job = [w \in Workers |-> Idle] /\ reprovide = Idle /\ close = "open"
    /\ left = [failures |-> MaxFailures, outages |-> MaxOutages, calls |-> MaxCalls,
               reprovides |-> MaxReprovides, restarts |-> MaxRestarts]
    /\ owed = {} /\ dropped = {} /\ abandoned = {}

Spend(x) == left[x] > 0 /\ left' = [left EXCEPT ![x] = @ - 1]

-----------------------------------------------------------------------------
(* Regions.  A set of prefixes is an antichain that covers the keys.        *)

Partitions(keys, prefixes) ==
    {R \in SUBSET prefixes :
        /\ \A r, s \in R : Covers(r, s) => r = s
        /\ \A k \in keys : \E r \in R : Covers(r, k)
        /\ \A r \in R : Under(keys, r) # {}}

(* exploreSwarm, when it succeeds: the prefix it covers and the regions     *)
(* under it, which hold all keys under the prefix asked for unless all the  *)
(* peers found share a longer prefix.                                       *)
exploreSwarm(p) ==
    UNION {{c} \X Partitions(Under(Keys, c), {r \in RegionPrefixes : Covers(c, r)}) :
              c \in {c \in RegionPrefixes : Covers(c, p) \/ (Sparse /\ Covers(p, c))}}

-----------------------------------------------------------------------------
(* provider/internal/connectivity.  checker is the state of the goroutine   *)
(* that holds the checker's mutex, "idle" when nobody does.                 *)

(* TriggerCheck: nothing when a check runs, or the last one is recent.      *)
TriggerCheck == /\ checker' \in IF checker = "idle" THEN {"idle", "check"} ELSE {checker}
                /\ UNCHANGED <<online, avgPrefixLen, bootstrapped>>

Check ==
    /\ checker = "check"
    /\ \/ checker' = "idle" /\ UNCHANGED <<online, left>>
       \/ /\ Spend("outages")
          /\ online' = FALSE /\ checker' = "disconnected"
    /\ UNCHANGED <<queues, avgPrefixLen, bootstrapped, client, loops, job, reprovide, close, history>>

(* The first probe fails: probeLoop, with or without the offline timer.     *)
StartProbing ==
    /\ checker = "start"
    /\ Spend("outages")
    /\ checker' = IF avgPrefixLen = "known" THEN "disconnected" ELSE "offline"
    /\ UNCHANGED <<queues, online, avgPrefixLen, bootstrapped, client, loops, job, reprovide, close, history>>

(* The offline timer fires: onOffline clears the queue ...                  *)
OnOffline ==
    /\ checker = "disconnected"
    /\ checker' = "clearing"
    /\ q' = NewProvideQueue /\ owed' = owed \ q.keys
    /\ UNCHANGED <<keystore, disk, online, avgPrefixLen, bootstrapped, client, loops, job, reprovide,
                   close, left, dropped, abandoned>>

(* ... and then forgets the prefix length.                                  *)
OnOfflineForget ==
    /\ checker = "clearing"
    /\ checker' = "offline" /\ avgPrefixLen' = "unknown"
    /\ UNCHANGED <<queues, online, bootstrapped, client, loops, job, reprovide, close, left, history>>

(* probe finds the node online.                                             *)
Probe ==
    /\ checker \in {"start", "disconnected", "offline"} /\ close \notin {"connectivity", "closed"}
    /\ online' = TRUE /\ checker' = "onOnline"
    /\ UNCHANGED <<queues, avgPrefixLen, bootstrapped, client, loops, job, reprovide, close, left, history>>

(* Mutant: late regions are caught up with, provides are not.               *)
catchupReprovidesOnly == UNCHANGED late

(* catchupPendingWork starts its goroutine unless one runs.                 *)
catchupPendingWork == late' = (late \/ ~done)

OnOnline ==
    /\ checker = "onOnline"
    /\ checker' = IF done THEN "idle" ELSE IF avgPrefixLen = "unknown" \/ ~bootstrapped THEN "measure"
                  ELSE "catchup"
    /\ UNCHANGED <<queues, online, avgPrefixLen, bootstrapped, client, loops, job, reprovide, close, left,
                   history>>

(* approxPrefixLen, which retries until it succeeds or the provider closes: *)
(* then it takes the network for a small one.                               *)
Measure ==
    /\ checker = "measure"
    /\ checker' = "catchup" /\ avgPrefixLen' = "known"
    /\ UNCHANGED <<queues, online, bootstrapped, client, loops, job, reprovide, close, left, history>>

Catchup ==
    /\ checker = "catchup"
    /\ checker' = "idle" /\ bootstrapped' = TRUE /\ catchupPendingWork
    /\ UNCHANGED <<queues, online, avgPrefixLen, client, pending, loop, job, reprovide, close, left, history>>

-----------------------------------------------------------------------------
(* The API.  A call is made by one client at a time.                        *)

api == <<disk, conn, loops, job, reprovide, close, dropped, abandoned>>

(* StartProviding: the keys are stored; without force only new ones go on.  *)
StartProviding(keys, force) ==
    /\ client.st = "idle" /\ ~done /\ Spend("calls")
    /\ keystore' = keystore \cup keys
    /\ LET provided == IF force THEN keys ELSE keys \ keystore
       IN  client' = IF provided = {} THEN client ELSE [NoCall EXCEPT !.st = "check", !.keys = provided]
    /\ UNCHANGED <<q, owed, api>>

ProvideOnce(keys) ==
    /\ client.st = "idle" /\ ~done /\ Spend("calls")
    /\ client' = [NoCall EXCEPT !.st = "check", !.keys = keys]
    /\ UNCHANGED <<keystore, q, owed, api>>

CheckOffline ==
    /\ client.st = "check"
    /\ client' = IF avgPrefixLen = "unknown" THEN NoCall ELSE [client EXCEPT !.st = "group"]
    /\ UNCHANGED <<keystore, q, owed, left, api>>

(* groupAndScheduleKeysByPrefix: by the prefixes in the schedule, or by new *)
(* ones, for which the prefix length must (still) be known.                 *)
Group ==
    /\ client.st = "group"
    /\ \/ \E R \in Partitions(client.keys, RegionPrefixes) :
              client' = [client EXCEPT !.st = "enqueue", !.regions = R]
       \/ avgPrefixLen = "unknown" /\ client' = NoCall
    /\ UNCHANGED <<keystore, q, owed, left, api>>

(* Largest group first.                                                     *)
EnqueueGroup ==
    /\ client.st = "enqueue"
    /\ \E r \in client.regions :
          LET keys == Under(client.keys, r)
          IN  /\ \A s \in client.regions : Cardinality(Under(client.keys, s)) <= Cardinality(keys)
              /\ q' = Enqueue(q, r, keys)
              /\ client' = [client EXCEPT !.keys = @ \ keys, !.regions = @ \ {r}]
              /\ IF done THEN UNCHANGED history
                 ELSE owed' = owed \cup keys /\ dropped' = dropped \ keys /\ abandoned' = abandoned \ keys
    /\ UNCHANGED <<keystore, disk, conn, loops, job, reprovide, close, left>>

(* Mutant: the goroutine is started whether the provider is closed or not.  *)
StartLoopUnchecked ==
    /\ client.st = "enqueue" /\ client.regions = {}
    /\ pending < MaxPending
    /\ client' = NoCall /\ pending' = pending + 1
    /\ UNCHANGED <<queues, conn, loop, late, job, reprovide, close, left, history>>

(* All groups are in the queue: go s.provideLoop().                         *)
StartLoop ==
    /\ client.st = "enqueue" /\ client.regions = {}
    /\ pending < MaxPending
    /\ client' = NoCall /\ pending' = IF done THEN pending ELSE pending + 1
    /\ UNCHANGED <<queues, conn, loop, late, job, reprovide, close, left, history>>

StopProviding(keys) ==
    /\ client.st = "idle" /\ ~done /\ Spend("calls")
    /\ keystore' = keystore \ keys
    /\ client' = [NoCall EXCEPT !.st = "stop", !.keys = keys]
    /\ UNCHANGED <<q, owed, api>>

StopQueued ==
    /\ client.st = "stop"
    /\ q' = RemoveKeys(q, client.keys) /\ owed' = owed \ client.keys
    /\ client' = NoCall
    /\ UNCHANGED <<keystore, left, api>>

Clear ==
    /\ client.st = "idle" /\ ~done /\ Spend("calls")
    /\ q' = NewProvideQueue /\ owed' = owed \ q.keys
    /\ UNCHANGED <<keystore, client, api>>

-----------------------------------------------------------------------------
(* provideLoop: the goroutines that try the lock, and the one that has it.  *)

loopStep == <<keystore, disk, conn, client, late, reprovide, close, left, owed, dropped>>

TryLock ==
    /\ pending > 0 /\ pending' = pending - 1
    /\ loop' = IF loop = "none" THEN "test" ELSE loop
    /\ UNCHANGED <<q, job, abandoned, loopStep>>

Test ==
    /\ loop = "test"
    /\ loop' = IF IsEmpty(q) \/ done \/ ~online THEN "exit" ELSE "dequeue"
    /\ UNCHANGED <<q, pending, job, abandoned, loopStep>>

Unlock ==
    /\ loop = "exit" /\ loop' = "none"
    /\ UNCHANGED <<q, pending, job, abandoned, loopStep>>

(* With a worker: take a region and start its goroutine.  What is taken     *)
(* when the provider is closed is not provided.                             *)
DequeueRegion(w) ==
    /\ loop = "dequeue" /\ job[w] = Idle
    /\ \/ q.prefixes = <<>> /\ loop' = "test" /\ UNCHANGED <<q, job, abandoned>>
       \/ /\ q.prefixes # <<>> /\ q' = Dequeue(q).rest
          /\ IF done THEN /\ loop' = "exit" /\ abandoned' = abandoned \cup Dequeue(q).keys
                          /\ UNCHANGED job
             ELSE /\ loop' = "test" /\ UNCHANGED abandoned
                  /\ job' = [job EXCEPT ![w] = [Idle EXCEPT !.st = "start", !.prefix = Dequeue(q).prefix,
                                                           !.keys = Dequeue(q).keys]]
    /\ UNCHANGED <<pending, loopStep>>

(* run(): the retry ticker; and the goroutine of catchupPendingWork, after  *)
(* the late reprovides, goes on as a provide loop.                          *)
RetryTick ==
    /\ ~done /\ online
    /\ catchupPendingWork
    /\ UNCHANGED <<queues, conn, client, pending, loop, job, reprovide, close, left, history>>

LateDone ==
    /\ late /\ pending < MaxPending
    /\ late' = FALSE /\ pending' = pending + 1
    /\ UNCHANGED <<queues, conn, client, loop, job, reprovide, close, left, history>>

-----------------------------------------------------------------------------
(* batchProvide, in the goroutine of a worker.                              *)

jobStep == <<keystore, disk, client, loops, reprovide, close, dropped>>

(* A lookup or a send fails: at most MaxFailures times, and whenever the    *)
(* node is offline or the provider closes.                                  *)
Fails == \/ (done \/ ~online) /\ UNCHANGED left
         \/ Spend("failures")

(* Mutant: the keys of a failed region are forgotten.                       *)
failedProvideForgets(prefix, keys) == q' = q /\ TriggerCheck

failedProvide(prefix, keys) == q' = Enqueue(q, prefix, keys) /\ TriggerCheck

(* Without an address of its own the node does not provide: the keys are    *)
(* given up.                                                                *)
NoSelfAddrs(w) ==
    /\ job[w].st = "start"
    /\ Spend("failures")
    /\ job' = [job EXCEPT ![w] = Idle] /\ owed' = owed \ job[w].keys
    /\ TriggerCheck
    /\ UNCHANGED <<q, abandoned, jobStep>>

(* individualProvide: a few keys, each on its own.                          *)
individualProvide(w) ==
    /\ job[w].st \in {"start", "individual"}
    /\ Cardinality(job[w].keys) <= individualProvideThreshold
    /\ \E k \in job[w].keys :
          /\ job' = [job EXCEPT ![w] = IF job[w].keys = {k} THEN Idle
                                       ELSE [job[w] EXCEPT !.st = "individual", !.keys = @ \ {k}]]
          /\ \/ owed' = owed \ {k} /\ UNCHANGED <<q, conn, left>>
             \/ Fails /\ failedProvide(job[w].prefix, {k}) /\ UNCHANGED owed
    /\ UNCHANGED <<abandoned, jobStep>>

(* The region is explored; the keys queued under what was covered join in,  *)
(* and all are assigned to the regions found.                               *)
Explore(w) ==
    /\ job[w].st = "start" /\ Cardinality(job[w].keys) > individualProvideThreshold
    /\ \/ /\ Fails /\ failedProvide(job[w].prefix, job[w].keys)
          /\ job' = [job EXCEPT ![w] = Idle]
       \/ \E x \in exploreSwarm(job[w].prefix) :
             LET keys == job[w].keys \cup Under(q.keys, x[1])
             IN  /\ q' = DequeueMatching(q, x[1])
                 /\ job' = [job EXCEPT ![w] =
                              [job[w] EXCEPT !.st = "send", !.regions = {r \in x[2] : Under(keys, r) # {}},
                                             !.keys = {k \in keys : \E r \in x[2] : Covers(r, k)}]]
                 /\ UNCHANGED <<conn, left>>
    /\ UNCHANGED <<owed, abandoned, jobStep>>

(* provideRegions: one region.  sendProviderRecords stops when the provider *)
(* closes and reports what it has not sent as sent.                         *)
SendRegion(w) ==
    /\ job[w].st = "send"
    /\ \E r \in job[w].regions :
          LET keys == Under(job[w].keys, r)
          IN  /\ job' = [job EXCEPT ![w] = IF job[w].regions = {r} THEN Idle
                                           ELSE [job[w] EXCEPT !.keys = @ \ keys, !.regions = @ \ {r}]]
              /\ \/ owed' = owed \ keys /\ UNCHANGED <<q, conn, left, abandoned>>
                 \/ Fails /\ failedProvide(r, keys) /\ UNCHANGED <<owed, abandoned>>
                 \/ done /\ abandoned' = abandoned \cup keys /\ UNCHANGED <<q, conn, left, owed>>
    /\ UNCHANGED jobStep

-----------------------------------------------------------------------------
(* batchReprovide of a region, started by the timer or by the catch-up.     *)
(* With few keys it leaves the provide queue alone.                         *)

reprovideStep == <<keystore, disk, client, loops, job, close, abandoned>>

LoadKeys(p) ==
    /\ Spend("reprovides") /\ reprovide = Idle /\ ~done /\ online
    /\ Cardinality(Under(keystore, p)) > individualProvideThreshold
    /\ reprovide' = [Idle EXCEPT !.st = "explore", !.prefix = p, !.keys = Under(keystore, p)]
    /\ UNCHANGED <<q, conn, owed, dropped, reprovideStep>>

(* A shorter covered prefix takes the place of the prefix, with its keys.   *)
ExploreReprovide ==
    /\ reprovide.st = "explore"
    /\ \/ Fails /\ TriggerCheck /\ reprovide' = Idle
       \/ \E x \in exploreSwarm(reprovide.prefix) :
             /\ reprovide' = IF Len(x[1]) < Len(reprovide.prefix)
                             THEN [reprovide EXCEPT !.st = "drop", !.prefix = x[1],
                                                    !.keys = Under(keystore, x[1])]
                             ELSE [reprovide EXCEPT !.st = "drop"]
             /\ UNCHANGED <<conn, left>>
    /\ UNCHANGED <<q, owed, dropped, reprovideStep>>

(* The queued keys of the region are dropped: those that were loaded are    *)
(* sent, or stay with the region in the reprovide queue.                    *)
DropQueued ==
    /\ reprovide.st = "drop" /\ reprovide' = Idle
    /\ q' = DequeueMatching(q, reprovide.prefix)
    /\ LET taken == Under(q.keys, reprovide.prefix)
       IN  /\ owed' = owed \ (taken \cap reprovide.keys)
           /\ dropped' = dropped \cup ((owed \cap taken) \ reprovide.keys)
    /\ TriggerCheck
    /\ UNCHANGED <<left, reprovideStep>>

-----------------------------------------------------------------------------
(* Close and a new start on the same datastore.                             *)

Close ==
    /\ close = "open" /\ close' = "wait"
    /\ UNCHANGED <<queues, conn, client, loops, job, reprovide, left, history>>

closing == <<keystore, client, loops, job, reprovide, left, history>>

PersistAvgPrefixLen ==
    /\ close' = "persist"
    /\ disk' = IF avgPrefixLen = "unknown" THEN disk ELSE [disk EXCEPT !.avgPrefixLen = "known"]
    /\ UNCHANGED <<q, conn, closing>>

(* wg.Wait, the lock of approxPrefixLen, and the first cleanup function.    *)
CloseWaited ==
    /\ close = "wait"
    /\ pending = 0 /\ loop = "none" /\ ~late /\ checker # "measure"
    /\ reprovide = Idle /\ \A w \in Workers : job[w] = Idle
    /\ PersistAvgPrefixLen

PersistQueue ==
    /\ close = "persist" /\ close' = "connectivity"
    /\ disk' = [disk EXCEPT !.entries = Persist(q)]
    /\ UNCHANGED <<q, conn, closing>>

(* Mutant: probeLoop does not look at the done channel.                     *)
StopProbingAtStart ==
    /\ close = "connectivity" /\ checker = "start"
    /\ checker' = "idle"
    /\ UNCHANGED <<queues, online, avgPrefixLen, bootstrapped, client, loops, job, reprovide, close, left,
                   history>>

(* The checker's done channel is closed: its goroutine ends, ...            *)
StopProbing ==
    /\ close = "connectivity" /\ checker \in {"start", "disconnected", "offline"}
    /\ checker' = "idle"
    /\ UNCHANGED <<queues, online, avgPrefixLen, bootstrapped, client, loops, job, reprovide, close, left,
                   history>>

(* ... and its Close has the mutex.                                         *)
CloseConnectivity ==
    /\ close = "connectivity" /\ checker = "idle"
    /\ checker' = "closed" /\ close' = "closed"
    /\ UNCHANGED <<q, disk, online, avgPrefixLen, bootstrapped, closing>>

Restart ==
    /\ close = "closed" /\ client = NoCall
    /\ Spend("restarts")
    /\ close' = "open" /\ checker' = "start" /\ online' = FALSE /\ bootstrapped' = FALSE
    /\ avgPrefixLen' = disk.avgPrefixLen
    /\ q' = DrainDatastore(NewProvideQueue, disk.entries)
    /\ disk' = [disk EXCEPT !.entries = Undrained(@)]
    /\ owed' = owed \ (dropped \cup abandoned) /\ dropped' = {} /\ abandoned' = {}
    /\ UNCHANGED <<keystore, client, loops, job, reprovide>>

-----------------------------------------------------------------------------
Calls ==
    \/ \E keys \in CallKeys :
          \/ \E force \in BOOLEAN : StartProviding(keys, force)
          \/ ProvideOnce(keys)
          \/ StopProviding(keys)
    \/ Clear \/ Close \/ Restart

Client == CheckOffline \/ Group \/ EnqueueGroup \/ StartLoop \/ StopQueued

Checker ==
    \/ Check \/ Probe \/ OnOfflineForget \/ OnOnline \/ Measure \/ Catchup \/ StopProbing

(* What the environment may do and need not.                                *)
Outage == StartProbing \/ OnOffline

Loop == Test \/ Unlock \/ \E w \in Workers : DequeueRegion(w)

Provide(w) == NoSelfAddrs(w) \/ individualProvide(w) \/ Explore(w) \/ SendRegion(w)

StartReprovide == \E p \in RegionPrefixes : LoadKeys(p)

Reprovide == ExploreReprovide \/ DropQueued

Closing == CloseWaited \/ PersistQueue \/ CloseConnectivity

Next ==
    \/ Calls \/ Client \/ Checker \/ Outage \/ TryLock \/ Loop \/ RetryTick \/ LateDone
    \/ \E w \in Workers : Provide(w)
    \/ StartReprovide \/ Reprovide \/ Closing

Spec == Init /\ [][Next]_vars

(* The goroutines run, probes and lookups end (they have timeouts), and the *)
(* ticker ticks.  LateDone waits only for the bound on pending.             *)
Fairness ==
    /\ WF_vars(Client) /\ WF_vars(Checker) /\ WF_vars(TryLock) /\ WF_vars(Loop)
    /\ WF_vars(RetryTick) /\ SF_vars(LateDone) /\ WF_vars(Reprovide) /\ WF_vars(Closing)
    /\ \A w \in Workers : WF_vars(Provide(w))

FairSpec == Spec /\ Fairness

-----------------------------------------------------------------------------
InFlight == UNION {job[w].keys : w \in Workers}

Persisted == UNION {disk.entries[i].keys : i \in DOMAIN disk.entries}

(* A key that was enqueued is in the queue, with a worker, or persisted,    *)
(* until it is provided or taken back, or batchProvide gives its batch up   *)
(* because the node has no address (NoSelfAddrs); the exceptions are what a *)
(* reprovide drops and what Close interrupts.                               *)
NoKeyLost ==
    owed \subseteq dropped \cup abandoned \cup
       IF close \in {"open", "wait", "persist"} THEN q.keys \cup InFlight ELSE Persisted

(* Once Close has waited no goroutine of the provider runs: nothing is      *)
(* provided while the queue is persisted and the datastore is closed.       *)
NothingAfterClose ==
    close \in {"persist", "connectivity", "closed"} =>
       /\ pending = 0 /\ loop = "none" /\ ~late
       /\ InFlight = {} /\ reprovide = Idle

(* A queued key does not stay in the queue for ever: the loop that takes it *)
(* is restarted after outages, and after the race of a loop that finds the  *)
(* queue empty with a call that finds the loop still running.               *)
QueueDrains == \A k \in Keys : k \in q.keys ~> (k \notin q.keys \/ done)

(* Close returns.                                                           *)
CloseReturns == close = "wait" ~> close = "closed"

(* "No need to provide them anymore since they are about to be reprovided." *)
(* (provider.go:1768): what a reprovide takes from the queue it sends.      *)
ReprovideSendsWhatItDrops == dropped = {}

(* "persist the provide queue on close" (options.go:318): what was queued   *)
(* when Close was called and has not been provided is persisted.            *)
CloseKeepsQueue == close = "closed" => owed \subseteq Persisted \cup dropped
=============================================================================
