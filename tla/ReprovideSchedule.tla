------------------------- MODULE ReprovideSchedule -------------------------
(***************************************************************************)
(* The reprovide side of provider/provider.go: the schedule of regions,    *)
(* its cursor and timer, handleReprovide, the queue of late regions,       *)
(* batchReprovide, RefreshSchedule, outages and restarts.                  *)
(*                                                                         *)
(* Time is the offset in the reprovide cycle.  It runs over odd numbers    *)
(* and regions come due at even ones, for the clock is never exactly at a  *)
(* region's time.  Work takes no time: the clock ticks when there is       *)
(* nothing left to do, unless the tick is one of MaxEvents.  A lookup may  *)
(* find the network in regions of any length.                              *)
(***************************************************************************)
EXTENDS Keyspace

CONSTANTS
    Keys,                         \* bit strings as long as Order
    InitialKeys,                  \* what the keystore may hold at first
    MinLen, MaxLen,               \* lengths of the prefixes of regions
    reprovideInterval, maxReprovideDelay,
    individualProvideThreshold,
    Workers,
    MaxEvents                     \* failures, outages, restarts, calls and late ticks

(* The part of the interval that a prefix of each length stands for.       *)
span[n \in 0 .. MaxLen + 1] == IF n = 0 THEN reprovideInterval ELSE span[n - 1] \div 2

ASSUME ScheduleAssumption ==
    /\ Order \in [1 .. Len(Order) -> {0, 1}] /\ Len(Order) \in Nat
    /\ Keys \subseteq [1 .. Len(Order) -> {0, 1}] /\ InitialKeys \subseteq SUBSET Keys
    /\ MinLen \in Nat /\ MaxLen \in MinLen .. Len(Order)
    /\ reprovideInterval \in Nat \ {0} /\ \A n \in 0 .. MaxLen : span[n] = 2 * span[n + 1]
    /\ maxReprovideDelay \in Nat /\ individualProvideThreshold \in Nat /\ MaxEvents \in Nat

VARIABLES
    keystore,
    now,                          \* currentTimeOffset
    schedule, scheduleCursor,
    alarm,                        \* what is left on scheduleTimer: 0 when its tick is in the channel
    timerAge,                     \* time since scheduleTimerStartedAt
    fired,                        \* run() has the tick and is about to call handleReprovide
    reprovideQueue,
    spawned,                      \* regions that wait for a worker
    job,                          \* the batchReprovide of each worker
    activeReprovides,
    online,
    measured,                     \* cachedAvgPrefixLen is not -1
    bootstrapped,
    refresh,                      \* onOnline or RefreshSchedule, and what it is to insert
    recent,                       \* reprovide history: the age of each region's last entry
    left,                         \* what may still happen to the node
    calm,                         \* nothing went wrong so far
    age,                          \* time since each key was reprovided, while calm
    overtaken,                    \* the timer was set again between its tick and handleReprovide
    exposed                       \* keys that the code is about to lose, or has lost

timerVars == <<schedule, scheduleCursor, alarm, timerAge, overtaken>>
workVars == <<spawned, job, activeReprovides>>
netVars == <<online, measured, bootstrapped, refresh>>
pastVars == <<recent, calm, age>>
vars == <<keystore, now, timerVars, fired, reprovideQueue, workVars, netVars, pastVars, left, exposed>>

Regions == UNION {[1 .. n -> {0, 1}] : n \in MinLen .. MaxLen}
Stopped == -1
Expired == reprovideInterval     \* the age of an entry that is gone
Longest == (MaxLen - MinLen + 1) * reprovideInterval
Idle == [st |-> "idle", prefix |-> <<>>, covered |-> <<>>, keys |-> {}, regions |-> <<>>, n |-> 0, errCount |-> 0]
NoRefresh == [by |-> "none", st |-> "idle", toInsert |-> {}]

Init ==
    /\ keystore \in InitialKeys
    /\ now = 1
    /\ schedule = EmptyTrie /\ scheduleCursor = <<>>
    /\ alarm = Stopped /\ timerAge = 0 /\ fired = FALSE
    /\ reprovideQueue = <<>>
    /\ spawned = {} /\ job = [w \in Workers |-> Idle] /\ activeReprovides = {}
    /\ online = FALSE /\ measured = FALSE /\ bootstrapped = FALSE /\ refresh = NoRefresh
    /\ recent = [p \in Regions |-> Expired]
    /\ left = MaxEvents
    /\ calm = TRUE
    /\ age = [k \in Keys |-> 0]
    /\ overtaken = FALSE /\ exposed = {}

Spend == left > 0 /\ left' = left - 1

(* Something goes wrong; ages no longer count.                             *)
goesWrong == Spend /\ calm' = FALSE /\ age' = [k \in Keys |-> 0]

-----------------------------------------------------------------------------
(* Time.                                                                   *)

(* At least 1 and at most an interval.                                     *)
timeBetween(from, to) == ((to - from + reprovideInterval - 1) % reprovideInterval) + 1

timeUntil(d) == timeBetween(now, d)

(* The prefix, XORed with Order, as a binary fraction of the interval.     *)
reprovideTimeForPrefix(p) ==
    LET time[i \in 0 .. Len(p)] ==
            IF i = 0 THEN 0 ELSE IF p[i] = Order[i] THEN time[i - 1] ELSE time[i - 1] + span[i]
    IN  time[Len(p)]

-----------------------------------------------------------------------------
(* The schedule, on a record of its variables.                             *)

S0 == [trie |-> schedule, cursor |-> scheduleCursor, alarm |-> alarm, age |-> timerAge]

timerSet(s) == /\ schedule' = s.trie /\ scheduleCursor' = s.cursor
               /\ alarm' = s.alarm /\ timerAge' = s.age

(* A change of the schedule outside handleReprovide.                       *)
Becomes(s) ==
    /\ timerSet(s)
    /\ overtaken' = (overtaken \/ ((fired \/ alarm = 0) /\ s.alarm # alarm))

scheduleNextReprovide(s, p, in) == [trie |-> s.trie, cursor |-> p, alarm |-> in, age |-> 0]

unscheduleSubsumedPrefixes(s, p) ==
    LET u    == [s EXCEPT !.trie = PruneSubtrie(@, p)]
        next == NextNonEmptyLeaf(u.trie, s.cursor)
    IN  IF ~Covers(p, s.cursor) THEN u
        ELSE IF KeySet(u.trie) # {} THEN scheduleNextReprovide(u, next, timeUntil(u.trie[next]))
        ELSE scheduleNextReprovide(u, p, reprovideInterval)

(* Mutant: a prefix that comes before the cursor does not become it.       *)
schedulePrefixBehind(s, p, justReprovided) ==
    IF FindPrefixOfKey(s.trie, p) THEN s
    ELSE LET v == [unscheduleSubsumedPrefixes(s, p) EXCEPT !.trie = Add(@, p, reprovideTimeForPrefix(p))]
         IN  IF KeySet(v.trie) = {p} THEN scheduleNextReprovide(v, p, timeUntil(v.trie[p])) ELSE v

(* A prefix joins the schedule unless it is covered; it becomes the cursor *)
(* if it is alone, or comes before the cursor.                             *)
schedulePrefix(s, p, justReprovided) ==
    LET time  == reprovideTimeForPrefix(p)
        limit == now + reprovideInterval + maxReprovideDelay
        next  == IF justReprovided /\ limit < time THEN limit ELSE time
        u     == unscheduleSubsumedPrefixes(s, p)
        v     == [u EXCEPT !.trie = Add(@, p, next)]
        due   == timeUntil(v.trie[v.cursor]) % reprovideInterval
    IN  IF FindPrefixOfKey(s.trie, p) THEN s
        ELSE IF \/ KeySet(v.trie) = {p}
                \/ NextNonEmptyLeaf(v.trie, p) = v.cursor /\ timeUntil(next) < due
        THEN scheduleNextReprovide(v, p, timeUntil(next))
        ELSE v

(* The prefixes P, in order.                                               *)
schedulePrefixes(s, P, justReprovided) ==
    LET r[i \in 0 .. Cardinality(P)] ==
            IF i = 0 THEN s ELSE schedulePrefix(r[i - 1], Sorted(P)[i], justReprovided)
    IN  r[Cardinality(P)]

pushAll(q, ps) ==
    LET r[i \in 0 .. Len(ps)] == IF i = 0 THEN q ELSE Push(r[i - 1], ps[i])
    IN  r[Len(ps)]

-----------------------------------------------------------------------------
(* The timer and the run loop.                                             *)

timerFires ==
    /\ alarm = 0 /\ ~fired
    /\ fired' = TRUE /\ alarm' = Stopped
    /\ UNCHANGED <<keystore, now, schedule, scheduleCursor, timerAge, overtaken, reprovideQueue, workVars, netVars,
                   pastVars, left, exposed>>

(* The regions after the cursor, around and around.                        *)
upcoming ==
    LET n == Cardinality(KeySet(schedule))
        r[i \in 0 .. n] == NextNonEmptyLeaf(schedule, IF i = 0 THEN scheduleCursor ELSE r[i - 1])
    IN  r

(* Since the timer was set, the time of p came before the current time.    *)
past(p) ==
    LET started == (now - timerAge + 2 * reprovideInterval) % reprovideInterval
    IN  timeBetween(started, schedule[p]) < timeBetween(started, now)

(* How many of them are already past, and the queue with those.            *)
skipped == Min({i \in DOMAIN upcoming : i = Cardinality(KeySet(schedule)) \/ ~past(upcoming[i])})

skippedQueue == pushAll(reprovideQueue, [i \in 1 .. skipped |-> upcoming[i - 1]])

(* The first region after the current time, or the first one.              *)
nextEntry ==
    LET after == {p \in KeySet(schedule) : schedule[p] > now}
    IN  First(IF after # {} THEN after ELSE KeySet(schedule))

(* The tick finds an empty schedule.                                       *)
nothingToReprovide ==
    /\ KeySet(schedule) = {}
    /\ overtaken' = (alarm # Stopped)
    /\ UNCHANGED <<schedule, scheduleCursor, alarm, timerAge, reprovideQueue, spawned>>

single == NextNonEmptyLeaf(schedule, scheduleCursor) = scheduleCursor

(* The tick comes more than a cycle after the timer was set.               *)
reprovideAllLate ==
    /\ KeySet(schedule) # {} /\ ~single /\ timerAge > reprovideInterval
    /\ overtaken' = (alarm # Stopped)
    /\ reprovideQueue' = pushAll(reprovideQueue, AllKeys(schedule))
    /\ timerSet(scheduleNextReprovide(S0, nextEntry, timeUntil(schedule[nextEntry])))
    /\ UNCHANGED spawned

reprovideCursor ==
    LET n    == IF single THEN 0 ELSE skipped
        next == upcoming[n]
        q    == IF single THEN reprovideQueue ELSE skippedQueue
    IN
    /\ KeySet(schedule) # {} /\ (single \/ timerAge <= reprovideInterval)
    /\ overtaken' = (alarm # Stopped \/ n > 0)
    /\ timerSet(scheduleNextReprovide(S0, next, timeUntil(schedule[next])))
    /\ \/ /\ ~online
          /\ reprovideQueue' = Push(q, scheduleCursor)
          /\ UNCHANGED spawned
       \/ /\ online
          /\ reprovideQueue' = removeSuperstrings(q, scheduleCursor)
          /\ spawned' = spawned \cup {scheduleCursor}

handleReprovide ==
    /\ fired
    /\ fired' = FALSE
    /\ nothingToReprovide \/ reprovideAllLate \/ reprovideCursor
    /\ UNCHANGED <<keystore, now, job, activeReprovides, netVars, pastVars, left, exposed>>

-----------------------------------------------------------------------------
(* The workers: batchReprovide.                                            *)

startJob(w, p) == /\ job[w] = Idle
                  /\ job' = [job EXCEPT ![w] = [Idle EXCEPT !.st = "load", !.prefix = p]]
                  /\ UNCHANGED <<keystore, now, timerVars, fired, activeReprovides, netVars, pastVars, left,
                                 exposed>>

periodicWorker(w) ==
    \E p \in spawned : startJob(w, p) /\ spawned' = spawned \ {p} /\ UNCHANGED reprovideQueue

(* The loop that catchupPendingWork starts, when the node comes online and *)
(* every retryInterval.                                                    *)
reprovideLateRegions(w) ==
    /\ online /\ reprovideQueue # <<>>
    /\ startJob(w, Head(reprovideQueue))
    /\ reprovideQueue' = Tail(reprovideQueue) /\ UNCHANGED spawned

endJob(w) == job' = [job EXCEPT ![w] = Idle]

(* Offline, anything may fail.                                             *)
mayFail == IF online THEN goesWrong ELSE UNCHANGED <<left, calm, age>>

(* failedReprovide, with reschedulePrefix.                                 *)
failedReprovide(p) ==
    /\ reprovideQueue' = Push(reprovideQueue, p)
    /\ Becomes(schedulePrefix(S0, p, TRUE))

(* Only a restart reads the history; it is left out when none can come.    *)
persistSuccessfulReprovide(p) ==
    recent' = IF left > 0 THEN [recent EXCEPT ![p] = 0] ELSE recent

reprovided(keys) == age' = [k \in Keys |-> IF k \in keys THEN 0 ELSE age[k]]

(* Without an address the region is left to its next turn; so it is if it  *)
(* has no keys.                                                            *)
loadKeys(w) ==
    LET p == job[w].prefix
        keys == Under(keystore, p)
    IN
    /\ job[w].st = "load"
    /\ \/ /\ mayFail /\ endJob(w)
          /\ failedReprovide(p) \/ UNCHANGED <<timerVars, reprovideQueue>>
       \/ /\ keys = {} /\ endJob(w)
          /\ UNCHANGED <<timerVars, reprovideQueue, left, calm, age>>
       \/ /\ keys # {}
          /\ job' = [job EXCEPT ![w].keys = keys,
                    ![w].st = IF Cardinality(keys) \leq individualProvideThreshold THEN "individual"
                              ELSE "explore"]
          /\ UNCHANGED <<timerVars, reprovideQueue, left, calm, age>>
    /\ UNCHANGED <<keystore, now, fired, spawned, activeReprovides, netVars, recent, exposed>>

(* A single key tells which prefix its peers cover.                        *)
coveredPrefixes(p, keys) ==
    IF Cardinality(keys) = 1 THEN {SubSeq(k, 1, n) : k \in keys, n \in MinLen .. MaxLen} ELSE {p}

(* Mutant: of several keys, one is provided.                               *)
individualProvideOne(w) ==
    /\ job[w].st = "individual" /\ endJob(w)
    /\ \E k \in job[w].keys, covered \in coveredPrefixes(job[w].prefix, job[w].keys) :
         /\ reprovided({k})
         /\ Becomes(schedulePrefix(S0, covered, TRUE))
         /\ persistSuccessfulReprovide(covered)
    /\ UNCHANGED <<keystore, now, fired, reprovideQueue, spawned, activeReprovides, netVars, calm, left,
                   exposed>>

(* One success out of several is a success.                                *)
individualProvide(w) ==
    LET p == job[w].prefix
        keys == job[w].keys
    IN
    /\ job[w].st = "individual" /\ endJob(w)
    /\ \/ \E covered \in coveredPrefixes(p, keys) :
             /\ reprovided(keys)
             /\ Becomes(schedulePrefix(S0, covered, TRUE))
             /\ persistSuccessfulReprovide(covered)
             /\ UNCHANGED <<reprovideQueue, left, calm>>
       \/ /\ mayFail /\ failedReprovide(p)
          /\ UNCHANGED recent
       \/ /\ mayFail /\ Cardinality(keys) > 1
          /\ Becomes(schedulePrefix(S0, p, TRUE))
          /\ persistSuccessfulReprovide(p)
          /\ UNCHANGED reprovideQueue
    /\ UNCHANGED <<keystore, now, fired, spawned, activeReprovides, netVars, exposed>>

(* The ways the peers under a prefix may form regions: regions that do not *)
(* meet and leave nothing out.                                             *)
Splits(c) ==
    {P \in SUBSET {r \in Regions : Covers(c, r)} :
        /\ \A p, q \in P : Covers(p, q) => p = q
        /\ \A k \in ExtendBinaryPrefix(c, MaxLen) : coveredBy(P, k)}

claimed(r) == \E q \in activeReprovides : Covers(q, r)

claimRegionReprovide(regions) ==
    activeReprovides' = {q \in activeReprovides : ~\E r \in regions : Covers(r, q)} \cup regions

releaseRegionReprovide(r) == activeReprovides' = {q \in activeReprovides : ~Covers(r, q)}

(* The peers found have the common prefix c: a shorter one than was asked  *)
(* for if it has too few peers, a longer one, or one beside it, if all of  *)
(* them are there.  Their regions make up c.  A key asked for that is not  *)
(* under c is in none of them; it is not sent, but its region leaves the   *)
(* schedule with the prefix.                                               *)
exploreSwarm(w) ==
    LET p == job[w].prefix IN
    /\ job[w].st = "explore"
    /\ \/ /\ mayFail /\ endJob(w) /\ failedReprovide(p)
          /\ UNCHANGED <<activeReprovides, exposed>>
       \/ \E c \in Regions : \E split \in Splits(c) :
             LET regions == {r \in split : ~claimed(r)}
                 shorter == Len(c) < Len(p)
             IN
             /\ online
             /\ claimRegionReprovide(regions)
             /\ job' = [job EXCEPT ![w].covered = IF shorter THEN c ELSE p,
                       ![w].regions = Sorted(regions), ![w].n = Cardinality(regions),
                       ![w].st = IF shorter THEN "reload" ELSE "unschedule"]
             /\ exposed' = exposed \cup (Under(keystore, p) \ Under(keystore, c))
             /\ UNCHANGED <<timerVars, reprovideQueue, left, calm, age>>
    /\ UNCHANGED <<keystore, now, fired, spawned, netVars, recent>>

(* Mutant: the keys of the shorter prefix are not loaded.                  *)
reloadKeysSkipped(w) ==
    /\ job[w].st = "reload"
    /\ job' = [job EXCEPT ![w].st = "unschedule"]
    /\ UNCHANGED <<keystore, now, timerVars, fired, reprovideQueue, spawned, activeReprovides, netVars,
                   pastVars, left, exposed>>

(* A failure here leaves the regions claimed.                              *)
reloadKeys(w) ==
    /\ job[w].st = "reload"
    /\ \/ /\ mayFail /\ endJob(w) /\ failedReprovide(job[w].prefix)
          /\ exposed' = exposed \cup UNION {Under(Keys, r) : r \in Range(job[w].regions)}
       \/ /\ job' = [job EXCEPT ![w].keys = Under(keystore, job[w].covered), ![w].st = "unschedule"]
          /\ UNCHANGED <<timerVars, reprovideQueue, left, calm, age, exposed>>
    /\ UNCHANGED <<keystore, now, fired, spawned, activeReprovides, netVars, recent>>

(* The regions under the prefix leave the queue and the schedule.          *)
unschedule(w) ==
    /\ job[w].st = "unschedule"
    /\ reprovideQueue' = removeSuperstrings(reprovideQueue, job[w].covered)
    /\ Becomes(unscheduleSubsumedPrefixes(S0, job[w].covered))
    /\ job' = [job EXCEPT ![w] = IF @.n = 0 THEN Idle ELSE [@ EXCEPT !.st = "send"]]
    /\ UNCHANGED <<keystore, now, fired, spawned, activeReprovides, netVars, pastVars, left, exposed>>

(* The next region of provideRegions; a region without keys is released    *)
(* and does not come back to the schedule.                                 *)
provideRegion(w) ==
    LET r == Head(job[w].regions)
        keys == Under(job[w].keys, r)
        last == Len(job[w].regions) = 1
        done(errs) ==
            /\ job' = [job EXCEPT ![w] = IF last THEN Idle
                                        ELSE [job[w] EXCEPT !.regions = Tail(job[w].regions), !.errCount = errs]]
            /\ IF last /\ errs < job[w].n THEN persistSuccessfulReprovide(job[w].covered) ELSE UNCHANGED recent
    IN
    /\ job[w].st = "send"
    /\ releaseRegionReprovide(r)
    /\ \/ /\ keys = {} /\ done(job[w].errCount)
          /\ UNCHANGED <<timerVars, reprovideQueue, left, calm, age>>
       \/ /\ keys # {} /\ done(job[w].errCount)
          /\ reprovided(keys)
          /\ Becomes(schedulePrefix(S0, r, TRUE))
          /\ UNCHANGED <<reprovideQueue, left, calm>>
       \/ /\ keys # {} /\ mayFail /\ failedReprovide(r)
          /\ done(job[w].errCount + 1)
    /\ UNCHANGED <<keystore, now, fired, spawned, netVars, exposed>>

-----------------------------------------------------------------------------
(* Connectivity, restarts and calls.                                       *)

refreshIdle == refresh = NoRefresh

(* A check fails; the checker does not run one during onOnline.            *)
disconnected ==
    /\ online /\ refresh.by # "onOnline"
    /\ goesWrong
    /\ online' = FALSE
    /\ UNCHANGED <<keystore, now, timerVars, fired, reprovideQueue, workVars, measured, bootstrapped,
                   refresh, recent, exposed>>

onOffline ==
    /\ ~online /\ measured
    /\ measured' = FALSE
    /\ UNCHANGED <<keystore, now, timerVars, fired, reprovideQueue, workVars, online, bootstrapped,
                   refresh, pastVars, left, exposed>>

(* Mutant: a provider that starts with a known prefix length does not fill *)
(* its schedule.                                                           *)
onOnlineUnlessMeasured ==
    /\ ~online
    /\ online' = TRUE
    /\ \/ measured /\ UNCHANGED refresh
       \/ ~measured /\ refreshIdle /\ refresh' = [by |-> "onOnline", st |-> "measure", toInsert |-> {}]
    /\ UNCHANGED <<keystore, now, timerVars, fired, reprovideQueue, workVars, measured, bootstrapped,
                   pastVars, left, exposed>>

(* A probe succeeds.  The node measures the network unless it knew it; one *)
(* refresh of the schedule runs at a time.                                 *)
onOnline ==
    /\ ~online
    /\ online' = TRUE
    /\ \/ measured /\ bootstrapped /\ UNCHANGED refresh
       \/ /\ ~measured \/ ~bootstrapped
          /\ refreshIdle /\ refresh' = [by |-> "onOnline", st |-> "measure", toInsert |-> {}]
    /\ UNCHANGED <<keystore, now, timerVars, fired, reprovideQueue, workVars, measured, bootstrapped,
                   pastVars, left, exposed>>

(* The gaps of the schedule, cut to the length of regions, that hold keys. *)
missing(len) ==
    LET cut(p) == IF Len(p) >= len THEN {p} ELSE ExtendBinaryPrefix(p, len)
    IN  {p \in UNION {cut(g) : g \in TrieGaps(schedule)} : Under(keystore, p) # {}}

(* approxPrefixLen, and RefreshSchedule up to its second lock.  A prefix   *)
(* that cannot be looked up in the keystore is left out.                   *)
scanSchedule ==
    /\ refresh.st = "measure"
    /\ measured' = TRUE
    /\ \E len \in MinLen .. MaxLen :
         \/ /\ refresh' = [by |-> "onOnline", st |-> "insert", toInsert |-> missing(len)]
            /\ UNCHANGED <<left, calm, age, exposed>>
         \/ \E p \in missing(len) :
               /\ goesWrong
               /\ refresh' = [by |-> "onOnline", st |-> "insert", toInsert |-> missing(len) \ {p}]
               /\ exposed' = exposed \cup Under(Keys, p)
    /\ UNCHANGED <<keystore, now, timerVars, fired, reprovideQueue, workVars, online, bootstrapped, recent>>

(* The entries of the history without those that a shorter one covers.     *)
recentlyReprovided ==
    LET R == {p \in Regions : recent[p] < Expired}
    IN  {p \in R : \A q \in R : Covers(q, p) => q = p}

expiredRegions(trie) == SubtractTrie(KeySet(trie), CoalesceTrie(recentlyReprovided, MaxLen))

(* The rest of RefreshSchedule and of onOnline.  If the history cannot be  *)
(* loaded nothing is queued.                                               *)
insertMissing ==
    LET s == schedulePrefixes(S0, refresh.toInsert, FALSE)
        bootsUp == refresh.by = "onOnline" /\ ~bootstrapped
        reprovideAll == bootstrapped /\ Cardinality(refresh.toInsert) > Cardinality(KeySet(schedule))
    IN
    /\ refresh.st = "insert"
    /\ refresh' = NoRefresh
    /\ Becomes(s)
    /\ \/ /\ reprovideQueue' = IF bootsUp THEN pushAll(reprovideQueue, Sorted(expiredRegions(s.trie)))
                               ELSE IF reprovideAll THEN pushAll(reprovideQueue, AllKeys(s.trie))
                               ELSE reprovideQueue
          /\ UNCHANGED <<left, calm, age>>
       \/ bootsUp /\ goesWrong /\ UNCHANGED reprovideQueue
    /\ bootstrapped' = (bootstrapped \/ bootsUp)
    /\ recent' = IF bootsUp /\ left = 0 THEN [p \in Regions |-> Expired] ELSE recent
    /\ UNCHANGED <<keystore, now, fired, workVars, online, measured, exposed>>

(* The history and the keystore survive; so does the cycle, if it is       *)
(* resumed.                                                                *)
Restart(resumeCycle) ==
    /\ goesWrong
    /\ recent' = [p \in Regions |-> IF resumeCycle THEN recent[p] ELSE Expired]
    /\ now' = IF resumeCycle THEN now ELSE 1
    /\ schedule' = EmptyTrie /\ scheduleCursor' = <<>>
    /\ alarm' = Stopped /\ timerAge' = 0 /\ fired' = FALSE
    /\ reprovideQueue' = <<>>
    /\ spawned' = {} /\ job' = [w \in Workers |-> Idle] /\ activeReprovides' = {}
    /\ online' = FALSE /\ measured' \in BOOLEAN /\ bootstrapped' = FALSE /\ refresh' = NoRefresh
    /\ overtaken' = FALSE /\ exposed' = {}
    /\ UNCHANGED keystore

(* Mutant: the key is scheduled instead of its region.                     *)
scheduleKeyItself(k) == Becomes(IF ~measured THEN S0 ELSE schedulePrefix(S0, k, FALSE))

(* groupAndScheduleKeysByPrefix for one key.                               *)
scheduleKey(k) ==
    \E len \in MinLen .. MaxLen :
      Becomes(IF ~measured \/ FindPrefixOfKey(schedule, k) THEN S0
              ELSE schedulePrefix(S0, SubSeq(k, 1, len), FALSE))

(* The region of k is about to be unscheduled without its keys loaded again. *)
beingReprovided(k) ==
    \E w \in Workers :
      \/ job[w].st = "explore" /\ Covers(job[w].prefix, k)
      \/ job[w].st = "unschedule" /\ Covers(job[w].covered, k)

StartProviding(k) ==
    /\ Spend
    /\ keystore' = keystore \cup {k}
    /\ scheduleKey(k)
    /\ age' = [age EXCEPT ![k] = 0]
    /\ exposed' = IF beingReprovided(k) THEN exposed \cup {k} ELSE exposed
    /\ UNCHANGED <<now, fired, reprovideQueue, workVars, netVars, recent, calm>>

StopProviding(k) ==
    /\ Spend
    /\ keystore' = keystore \ {k}
    /\ UNCHANGED <<now, timerVars, fired, reprovideQueue, workVars, netVars, pastVars, exposed>>

AddToSchedule(k) ==
    /\ Spend
    /\ scheduleKey(k)
    /\ UNCHANGED <<keystore, now, fired, reprovideQueue, workVars, netVars, pastVars, exposed>>

RefreshSchedule ==
    /\ Spend
    /\ measured /\ refreshIdle
    /\ \E len \in MinLen .. MaxLen : \E lost \in {{}} \cup {{p} : p \in missing(len)} :
         refresh' = [by |-> "user", st |-> "insert", toInsert |-> missing(len) \ lost]
    /\ UNCHANGED <<keystore, now, timerVars, fired, reprovideQueue, workVars, online, measured,
                   bootstrapped, pastVars, exposed>>

-----------------------------------------------------------------------------

Quiet ==
    /\ ~fired /\ alarm # 0 /\ refreshIdle
    /\ spawned = {} /\ \A w \in Workers : job[w] = Idle
    /\ online => reprovideQueue = <<>>

(* The time between two ticks.                                             *)
Step == 2

older(a, d, max) == Min({a + d, max})

(* Time passes.  The process may be held up, for one tick or for more than *)
(* a cycle.                                                                *)
Tick ==
    \E d \in {Step, reprovideInterval + Step} :
    /\ IF Quiet /\ d = Step THEN UNCHANGED left ELSE Spend
    /\ calm' = (calm /\ Quiet /\ d = Step /\ online /\ ~overtaken)
    /\ overtaken' = (overtaken \/ fired \/ alarm = 0 \/ d > Step)
    /\ now' = (now + d) % reprovideInterval
    /\ alarm' = IF alarm > 0 THEN Max({alarm - d, 0}) ELSE alarm
    /\ timerAge' = IF alarm = Stopped /\ ~fired THEN 0 ELSE older(timerAge, d, reprovideInterval + Step)
    /\ recent' = [p \in Regions |-> older(recent[p], d, Expired)]
    /\ age' = [k \in Keys |-> IF calm' /\ k \in keystore THEN older(age[k], d, Longest + Step) ELSE 0]
    /\ UNCHANGED <<keystore, schedule, scheduleCursor, fired, reprovideQueue, workVars, netVars, exposed>>

batchReprovide(w) ==
    \/ periodicWorker(w) \/ reprovideLateRegions(w)
    \/ loadKeys(w) \/ individualProvide(w)
    \/ exploreSwarm(w) \/ reloadKeys(w) \/ unschedule(w) \/ provideRegion(w)

Progress ==
    \/ timerFires \/ handleReprovide
    \/ \E w \in Workers : batchReprovide(w)
    \/ onOnline \/ scanSchedule \/ insertMissing
    \/ Tick

Faults == disconnected \/ onOffline \/ \E resumeCycle \in BOOLEAN : Restart(resumeCycle)

Calls == RefreshSchedule \/ \E k \in Keys : StartProviding(k) \/ StopProviding(k) \/ AddToSchedule(k)

Next == Progress \/ Faults \/ Calls

Spec == Init /\ [][Next]_vars

(* Time passes: as a tick waits for the work at hand, every goroutine gets *)
(* to run.  An outage ends.                                                *)
FairSpec == Spec /\ []<><<now' # now>>_vars /\ WF_vars(onOnline)

-----------------------------------------------------------------------------
(* Properties.                                                             *)

(* The schedule, the queue of late regions and the claims hold regions,    *)
(* of the lengths that groupAndScheduleKeysByPrefix and exploreSwarm give  *)
(* them, and the timer waits at most one interval.                         *)
TypeOK ==
    /\ keystore \subseteq Keys
    /\ now \in 0 .. reprovideInterval - 1
    /\ KeySet(schedule) \subseteq Regions
    /\ alarm \in Stopped .. reprovideInterval
    /\ timerAge \in 0 .. reprovideInterval + Step
    /\ Range(reprovideQueue) \subseteq Regions /\ spawned \subseteq Regions /\ activeReprovides \subseteq Regions
    /\ recent \in [Regions -> 0 .. Expired]
    /\ age \in [Keys -> 0 .. Longest + Step]

(* The timer is set for the first region that comes due: the cursor is a   *)
(* scheduled region, the alarm is the time until it, and no other region   *)
(* comes before (schedulePrefixNoLock, unscheduleSubsumedPrefixesNoLock    *)
(* and handleReprovide agree through NextNonEmptyLeaf).  Nor does a region *)
(* cover another.                                                          *)
CursorIsNext ==
    (~fired /\ alarm # 0 /\ KeySet(schedule) # {} /\ ~overtaken) =>
        /\ scheduleCursor \in KeySet(schedule)
        /\ alarm = timeUntil(schedule[scheduleCursor])
        /\ \A p \in KeySet(schedule) : timeUntil(schedule[p]) >= alarm
        /\ \A p, q \in KeySet(schedule) : Covers(p, q) => p = q

(* When the provider has nothing left to do, every key of the keystore is  *)
(* in a scheduled region: no path through batchReprovide, RefreshSchedule  *)
(* or a restart drops the region of a key.  Four do, and the keys they     *)
(* lose are exposed: StartProviding between the load of a region's keys    *)
(* and its unschedule; a failed reload, which leaves the claims; peers     *)
(* that do not cover the prefix asked for (exploreSwarm); and a gap that   *)
(* ContainsPrefix could not look up when the node came online.             *)
KeysScheduled ==
    (Quiet /\ bootstrapped /\ measured) =>
        \A k \in keystore \ exposed : FindPrefixOfKey(schedule, k)

(* While nothing fails, batchReprovide and individualProvide send a key    *)
(* that is not exposed within one cycle for each length its region may     *)
(* have: a region that is split or merged may come due just after it was   *)
(* sent, or just before.                                                   *)
ReprovidedInTime == calm => \A k \in keystore \ exposed : age[k] <= Longest

(* What WithMaxReprovideDelay says (options.go:145-147) of keys that are   *)
(* not exposed, while nothing fails: however regions grow and shrink, two  *)
(* reprovides are at most the interval and the delay apart.                *)
ReprovidedWithinDelay ==
    calm => \A k \in keystore \ exposed : age[k] <= reprovideInterval + maxReprovideDelay

beingSent(k) == \E w \in Workers : job[w].st \in {"individual", "send"} /\ k \in job[w].keys

(* A key that is not exposed is reprovided again and again until           *)
(* StopProviding, though calls to RefreshSchedule, outages, failed sends,  *)
(* late timers and restarts come between.                                  *)
KeysReprovided == \A k \in Keys : []<>(k \in keystore \ exposed => beingSent(k))

(* What StartProviding promises (provider.go:1981), of every key.          *)
EveryKeyReprovided == \A k \in Keys : []<>(k \in keystore => beingSent(k))

=============================================================================
