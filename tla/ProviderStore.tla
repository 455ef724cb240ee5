--------------------------- MODULE ProviderStore ---------------------------
(***************************************************************************)
(* The provider records a DHT server keeps for other peers:                *)
(* records/providers_manager.go (one goroutine over a datastore and an LRU *)
(* cache, with a garbage collection that is interleaved with the requests) *)
(* behind the two handlers of handlers.go that use it.                     *)
(*                                                                         *)
(* Time is relative, so that it may pass for ever: a record has an age,    *)
(* which stops growing once it is past every comparison the code makes,    *)
(* and the GC timer counts down.                                           *)
(***************************************************************************)
EXTENDS Integers, Sequences, SequencesExt, FiniteSets

CONSTANTS
    Records,          \* the <<key, provider>> pairs that peers announce
    ProvideValidity,  \* how old a record may get
    cleanupInterval,  \* ticks between two GC rounds
    lruCacheSize,     \* sets of providers the cache holds
    MaxDelay,         \* ticks a fired timer may wait for the goroutine
    MaxFailures       \* datastore operations that fail

ASSUME StoreAssumption ==
    /\ {ProvideValidity, cleanupInterval, MaxDelay, MaxFailures} \subseteq Nat
    /\ lruCacheSize \in Nat \ {0}

Keys == {r[1] : r \in Records}
Peers == {r[2] : r \in Records}

Absent == -1
Oldest == ProvideValidity + 1 + MaxDelay
Ages == 0 .. Oldest
Fired == 0
Stopped == -1

VARIABLES
    dstore,    \* the age of each stored record, or Absent
    cache,     \* the LRU, least recently used set first
    timer,     \* ticks until gcTimer fires, or Stopped
    delay,     \* ticks since it fired
    gcRes,     \* the rest of gcQueryRes: records, and whether they had expired at gcTime
    gc,        \* a round is in progress: gcSkip is not nil
    gcSkip,    \* records added since the round began
    running,   \* the store's goroutine has not returned
    failures,
    added      \* the age of each record since it was last stored: a history variable

vars == <<dstore, cache, timer, delay, gc, gcRes, gcSkip, running, failures,
          added>>

TypeOK ==
    /\ dstore \in [Records -> Ages \cup {Absent}]
    /\ cache \in BoundedSeq([key : Keys, provs : SUBSET Peers, partial : BOOLEAN], lruCacheSize)
    /\ timer \in {Stopped} \cup 0 .. cleanupInterval
    /\ delay \in 0 .. MaxDelay
    /\ gcRes \subseteq Records \X BOOLEAN
    /\ gc \in BOOLEAN
    /\ gcSkip \subseteq Records
    /\ running \in BOOLEAN
    /\ failures \in 0 .. MaxFailures
    /\ added \in [Records -> {Absent} \cup 0 .. ProvideValidity + 1]

Init ==
    /\ dstore = [r \in Records |-> Absent]
    /\ cache = <<>>
    /\ timer = cleanupInterval
    /\ delay = 0
    /\ gcRes = {}
    /\ gc = FALSE
    /\ gcSkip = {}
    /\ running = TRUE
    /\ failures = 0
    /\ added = dstore

-----------------------------------------------------------------------------
(* Helpers.                                                                *)

expired(age) == age > ProvideValidity

live(f) == {r \in Records : f[r] # Absent /\ ~expired(f[r])}

providersOf(S, k) == {r[2] : r \in {s \in S : s[1] = k}}

mayFail(failed) == failed => failures < MaxFailures

failures_(failed) == failures' = failures + (IF failed THEN 1 ELSE 0)

(* The LRU cache: Get moves a set to the end, Add drops the first one.     *)
cached(k) == \E i \in DOMAIN cache : cache[i].key = k
index(k) == CHOOSE i \in DOMAIN cache : cache[i].key = k
cacheSet(k, e) == Append(RemoveAt(cache, index(k)), e)
cacheGet(k) == cacheSet(k, cache[index(k)])

cacheAdd(e) == Append(IF Len(cache) = lruCacheSize THEN Tail(cache) ELSE cache, e)

-----------------------------------------------------------------------------
(* The goroutine: one action per case of its select.                       *)

setVal(e, p) == [e EXCEPT !.provs = @ \cup {p}]

cacheSetVal(r) ==
    IF cached(r[1]) THEN cacheSet(r[1], setVal(cache[index(r[1])], r[2])) ELSE cache

(* Mutant: a cached set is not told of the new provider.                   *)
addProvUncached(r, failed) ==
    /\ UNCHANGED cache
    /\ dstore' = IF failed THEN dstore ELSE [dstore EXCEPT ![r] = 0]

(* addProv writes through: the cache first, then the datastore.            *)
addProv(r, failed) ==
    /\ cache' = cacheSetVal(r)
    /\ dstore' = IF failed THEN dstore ELSE [dstore EXCEPT ![r] = 0]

(* Mutant: a round in progress is not told of the record.                  *)
newprovsUnskipped(r) ==
    /\ running
    /\ \E failed \in BOOLEAN :
           /\ mayFail(failed) /\ failures_(failed)
           /\ addProv(r, failed)
           /\ added' = IF failed THEN added ELSE [added EXCEPT ![r] = 0]
    /\ UNCHANGED <<timer, delay, gc, gcRes, gcSkip, running>>

newprovs(r) ==
    /\ running
    /\ \E failed \in BOOLEAN :
           /\ mayFail(failed) /\ failures_(failed)
           /\ addProv(r, failed)
           /\ gcSkip' = IF failed \/ ~gc THEN gcSkip ELSE gcSkip \cup {r}
           /\ added' = IF failed THEN added ELSE [added EXCEPT ![r] = 0]
    /\ UNCHANGED <<timer, delay, gc, gcRes, running>>

(* The response channel is buffered: the goroutine answers and goes on, and *)
(* the handler picks the answer up or has given up.                         *)
getCached(k) ==
    /\ cached(k)
    /\ cache' = cacheGet(k)
    /\ UNCHANGED <<dstore, failures>>

(* loadProviderSet: an expired record is deleted, which may fail, a result *)
(* that comes with an error is left out of the set (lost stands for both), *)
(* and the set is cached unless it is empty.                               *)
loadProviderSet(k) ==
    /\ ~cached(k)
    /\ \E lost \in SUBSET {r \in Records : r[1] = k /\ dstore[r] # Absent} :
           LET failed  == lost # {}
               partial == lost \cap live(dstore) # {}
               provs   == providersOf(live(dstore) \ lost, k)
           IN  /\ Cardinality(lost) \leq 1
               /\ mayFail(failed) /\ failures_(failed)
               /\ dstore' = [r \in Records |->
                      IF r[1] = k /\ r \notin lost /\ expired(dstore[r]) THEN Absent ELSE dstore[r]]
               /\ cache' = IF provs = {} THEN cache
                           ELSE cacheAdd([key |-> k, provs |-> provs, partial |-> partial])

(* The query itself fails: the caller gets no provider and no error.       *)
loadFails(k) ==
    /\ ~cached(k)
    /\ mayFail(TRUE) /\ failures_(TRUE)
    /\ UNCHANGED <<dstore, cache>>

getprovs(k) ==
    /\ running
    /\ \/ getCached(k)
       \/ loadProviderSet(k)
       \/ loadFails(k)
    /\ UNCHANGED <<timer, delay, gc, gcRes, gcSkip, running, added>>

(* The two handlers.  Of the providers in a message only the sender itself, *)
(* with an address, is passed on.  AddProvider and GetProviders wait for    *)
(* the goroutine to take the request; a caller whose context ends before    *)
(* that leaves no trace.                                                    *)
handleAddProvider(k, from) == <<k, from>> \in Records /\ newprovs(<<k, from>>)

handleGetProviders(k) == getprovs(k)

(* gcTimer.C: the cache is dropped, and the datastore is queried.  When    *)
(* the query fails nothing sets the timer again.                           *)
gcStart ==
    /\ running /\ timer = Fired
    /\ cache' = <<>>
    /\ timer' = Stopped
    /\ delay' = 0
    /\ \/ /\ gcRes' = {<<r, expired(dstore[r] - delay)>> : r \in {s \in Records : dstore[s] # Absent}}
          /\ gc' = TRUE
          /\ gcSkip' = {}
          /\ UNCHANGED failures
       \/ /\ mayFail(TRUE) /\ failures_(TRUE)
          /\ UNCHANGED <<gc, gcRes, gcSkip>>
    /\ UNCHANGED <<dstore, running, added>>

(* One result of the query: an error, a record to skip, a live one, or one *)
(* to delete, which may fail.                                              *)
gcResult ==
    /\ running /\ gc
    /\ \E res \in gcRes, failed \in BOOLEAN :
           /\ mayFail(failed) /\ failures_(failed)
           /\ gcRes' = gcRes \ {res}
           /\ dstore' = IF ~failed /\ res[1] \notin gcSkip /\ res[2]
                        THEN [dstore EXCEPT ![res[1]] = Absent] ELSE dstore
    /\ UNCHANGED <<cache, timer, delay, gc, gcSkip, running, added>>

(* Mutant: the end of a round does not set the timer.                      *)
gcEndUnarmed ==
    /\ running /\ gc /\ gcRes = {}
    /\ gc' = FALSE /\ gcSkip' = {}
    /\ UNCHANGED <<dstore, cache, timer, delay, gcRes, running, failures, added>>

gcEnd ==
    /\ running /\ gc /\ gcRes = {}
    /\ timer' = cleanupInterval
    /\ gc' = FALSE /\ gcSkip' = {}
    /\ UNCHANGED <<dstore, cache, delay, gcRes, running, failures, added>>

(* Close cancels the goroutine's context and waits for it to return.       *)
Close ==
    /\ running
    /\ running' = FALSE
    /\ timer' = Stopped
    /\ gc' = FALSE /\ gcRes' = {} /\ gcSkip' = {}
    /\ UNCHANGED <<dstore, cache, delay, failures, added>>

-----------------------------------------------------------------------------
older(age, limit) == IF age \in {Absent, limit} THEN age ELSE age + 1

Tick ==
    /\ running
    /\ timer = Fired => delay < MaxDelay
    /\ dstore' = [r \in Records |-> older(dstore[r], Oldest)]
    /\ added' = [r \in Records |-> older(added[r], ProvideValidity + 1)]
    /\ delay' = IF timer = Fired THEN delay + 1 ELSE delay
    /\ timer' = IF timer \in {Fired, Stopped} THEN timer ELSE timer - 1
    /\ UNCHANGED <<cache, gc, gcRes, gcSkip, running, failures>>

Next ==
    \/ \E k \in Keys, p \in Peers : handleAddProvider(k, p)
    \/ \E k \in Keys : handleGetProviders(k)
    \/ gcStart \/ gcResult \/ gcEnd \/ Close \/ Tick

Spec == Init /\ [][Next]_vars

(* select chooses among the ready cases at random, so that a case that is  *)
(* ready again and again is chosen; time passes.                           *)
Fairness ==
    /\ SF_vars(gcStart) /\ SF_vars(gcResult) /\ SF_vars(gcEnd)
    /\ SF_vars(Tick)

FairSpec == Spec /\ Fairness

-----------------------------------------------------------------------------
(* Properties.                                                             *)

(* A record that was stored less than ProvideValidity ago is in the        *)
(* datastore with that age: neither a GC round that began before it was    *)
(* announced again, and holds its old value, nor a read deletes it.        *)
AddedSurvives ==
    \A r \in Records : added[r] # Absent /\ ~expired(added[r]) => dstore[r] = added[r]

(* What the cache answers for a key names every provider of the key whose  *)
(* record is live, through announcements, evictions, reads and GC rounds,  *)
(* unless a datastore error hid a record from the read that filled it.     *)
AnswersComplete ==
    \A i \in DOMAIN cache :
        ~cache[i].partial => providersOf(live(added), cache[i].key) \subseteq cache[i].provs

(* A provider that stops announcing itself is forgotten: once its record   *)
(* has expired, it leaves the datastore and the cache, so that it is no    *)
(* longer handed out, unless it comes back, the store is closed or a GC    *)
(* query failed, after which the timer stays stopped.                      *)
known(r) ==
    \/ dstore[r] # Absent
    \/ \E i \in DOMAIN cache : cache[i].key = r[1] /\ r[2] \in cache[i].provs

gcDisabled == timer = Stopped /\ ~gc /\ failures > 0

ExpiredForgotten ==
    \A r \in Records :
        (expired(added[r]) /\ known(r))
            ~> (~known(r) \/ ~expired(added[r]) \/ ~running \/ gcDisabled)
=============================================================================
