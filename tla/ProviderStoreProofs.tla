------------------------ MODULE ProviderStoreProofs ------------------------
(***************************************************************************)
(* Theorems about ProviderStore for any records, validity, cache size and  *)
(* number of failures: its type, that no record is deleted while it is     *)
(* valid, and that the cache hides none.                                   *)
(***************************************************************************)
EXTENDS ProviderStore, TLAPS, SequenceTheorems

(* The sets the cache holds.                                               *)
Entry == [key : Keys, provs : SUBSET Peers, partial : BOOLEAN]

(* A round that is not in progress has no results left, and one in         *)
(* progress would delete only records that are invalid, or that the skip   *)
(* list protects.                                                          *)
RoundKnows ==
    /\ ~gc => gcRes = {}
    /\ \A res \in gcRes : res[2] /\ res[1] \notin gcSkip =>
           added[res[1]] = Absent \/ expired(added[res[1]])

(* A key is cached once.                                                   *)
CachedOnce == \A i, j \in DOMAIN cache : cache[i].key = cache[j].key => i = j

IInv == TypeOK /\ AddedSurvives /\ RoundKnows /\ CachedOnce /\ AnswersComplete

-----------------------------------------------------------------------------
(* Sequences.                                                              *)

(* Bounded sequences are the sequences that are short enough.              *)
LEMMA Bounded ==
    ASSUME NEW S, NEW n \in Nat, NEW s
    PROVE  s \in BoundedSeq(S, n) <=> s \in Seq(S) /\ Len(s) \leq n
<1>1. ASSUME s \in BoundedSeq(S, n) PROVE s \in Seq(S) /\ Len(s) \leq n
  BY <1>1 DEF BoundedSeq, SeqOf
<1>2. ASSUME s \in Seq(S), Len(s) \leq n PROVE s \in BoundedSeq(S, n)
  <2>1. s \in [1 .. Len(s) -> S] /\ Len(s) \in 0 .. n
    BY <1>2
  <2> QED BY Zenon, <2>1 DEF BoundedSeq, SeqOf
<1> QED BY <1>1, <1>2

(* The cache's type, and what it means for its entries.                    *)
LEMMA CacheType ==
    ASSUME TypeOK
    PROVE  /\ cache \in BoundedSeq(Entry, lruCacheSize)
           /\ cache \in Seq(Entry) /\ Len(cache) \leq lruCacheSize
           /\ \A i \in DOMAIN cache : cache[i] \in Entry
<1>1. cache \in BoundedSeq(Entry, lruCacheSize)
  BY Zenon DEF TypeOK, Entry
<1>2. cache \in Seq(Entry) /\ Len(cache) \leq lruCacheSize
  BY <1>1, Bounded, StoreAssumption
<1> QED BY <1>1, <1>2

(* What RemoveAt leaves, and where.                                        *)
LEMMA Removed ==
    ASSUME NEW S, NEW s \in Seq(S), NEW i \in 1 .. Len(s)
    PROVE  /\ RemoveAt(s, i) \in Seq(S)
           /\ Len(RemoveAt(s, i)) = Len(s) - 1
           /\ \A j \in 1 .. Len(s) - 1 :
                RemoveAt(s, i)[j] = IF j < i THEN s[j] ELSE s[j + 1]
<1> DEFINE a == SubSeq(s, 1, i - 1)
           b == SubSeq(s, i + 1, Len(s))
<1>1. a \in Seq(S) /\ Len(a) = i - 1 /\ \A j \in 1 .. i - 1 : a[j] = s[j]
  OBVIOUS
<1>2. b \in Seq(S) /\ Len(b) = Len(s) - i /\ \A j \in 1 .. Len(s) - i : b[j] = s[i + j]
  OBVIOUS
<1>3. RemoveAt(s, i) = a \o b
  BY Zenon DEF RemoveAt
<1> HIDE DEF a, b
<1>4. a \o b \in Seq(S) /\ Len(a \o b) = Len(s) - 1
  <2>1. a \o b \in Seq(S) /\ Len(a \o b) = Len(a) + Len(b)
    BY Zenon, <1>1, <1>2, ConcatProperties
  <2> QED BY <1>1, <1>2, <2>1
<1>5. ASSUME NEW j \in 1 .. Len(s) - 1
      PROVE  (a \o b)[j] = IF j < i THEN s[j] ELSE s[j + 1]
  <2>1. CASE j < i
    BY <1>1, <1>2, <2>1
  <2>2. CASE j >= i
    <3>1. (a \o b)[j] = b[j - (i - 1)] /\ j - (i - 1) \in 1 .. Len(s) - i
      BY <1>1, <1>2, <2>2
    <3>2. i + (j - (i - 1)) = j + 1
      OBVIOUS
    <3>3. b[j - (i - 1)] = s[i + (j - (i - 1))]
      BY Zenon, <1>2, <3>1
    <3>4. (a \o b)[j] = s[j + 1]
      BY Zenon, <3>1, <3>2, <3>3
    <3>5. ~(j < i)
      BY <2>2
    <3> QED BY ZenonT(60), <3>4, <3>5
  <2>3. j < i \/ j >= i
    OBVIOUS
  <2> QED BY ZenonT(60), <2>1, <2>2, <2>3
<1> QED BY <1>3, <1>4, <1>5

(* The entry cacheSet puts at the end comes instead of the one at the      *)
(* key's index; the others keep their order.                               *)
LEMMA CacheSet ==
    ASSUME TypeOK, NEW k, cached(k), NEW e \in Entry
    PROVE  /\ index(k) \in DOMAIN cache /\ cache[index(k)].key = k
           /\ cacheSet(k, e) \in Seq(Entry)
           /\ Len(cacheSet(k, e)) = Len(cache)
           /\ \A j \in 1 .. Len(cache) :
                cacheSet(k, e)[j] = IF j = Len(cache) THEN e
                                    ELSE IF j < index(k) THEN cache[j] ELSE cache[j + 1]
<1>1. cache \in Seq(Entry)
  BY Zenon, CacheType
<1>2. index(k) \in DOMAIN cache /\ cache[index(k)].key = k
  BY Zenon DEF cached, index
<1>3. index(k) \in 1 .. Len(cache)
  BY <1>1, <1>2
<1>4. /\ RemoveAt(cache, index(k)) \in Seq(Entry)
      /\ Len(RemoveAt(cache, index(k))) = Len(cache) - 1
      /\ \A j \in 1 .. Len(cache) - 1 :
           RemoveAt(cache, index(k))[j] = IF j < index(k) THEN cache[j] ELSE cache[j + 1]
  BY Zenon, <1>1, <1>3, Removed
<1>5. /\ cacheSet(k, e) \in Seq(Entry)
      /\ Len(cacheSet(k, e)) = Len(cache)
  BY <1>3, <1>4 DEF cacheSet
<1>6. ASSUME NEW j \in 1 .. Len(cache)
      PROVE  cacheSet(k, e)[j] = IF j = Len(cache) THEN e
                                 ELSE IF j < index(k) THEN cache[j] ELSE cache[j + 1]
  BY <1>1, <1>3, <1>4 DEF cacheSet
<1> QED BY <1>2, <1>5, <1>6

(* A sequence of entries none of which is new, save a last one that is     *)
(* complete, is complete again; and it holds each key once if it did.      *)
LEMMA CacheSetKeeps ==
    ASSUME TypeOK, CachedOnce, NEW k, cached(k), NEW e \in Entry, e.key = k
    PROVE  /\ cacheSet(k, e) \in BoundedSeq(Entry, lruCacheSize)
           /\ \A i, j \in DOMAIN cacheSet(k, e) :
                cacheSet(k, e)[i].key = cacheSet(k, e)[j].key => i = j
           /\ \A i \in DOMAIN cacheSet(k, e) :
                \/ cacheSet(k, e)[i] = e
                \/ \E j \in DOMAIN cache : cacheSet(k, e)[i] = cache[j] /\ cache[j].key # k
<1> DEFINE c == cacheSet(k, e)
           x == index(k)
<1>1. cache \in Seq(Entry) /\ Len(cache) \leq lruCacheSize
  BY Zenon, CacheType
<1>2. /\ x \in 1 .. Len(cache) /\ cache[x].key = k
      /\ c \in Seq(Entry) /\ Len(c) = Len(cache)
      /\ \A j \in 1 .. Len(cache) :
           c[j] = IF j = Len(cache) THEN e ELSE IF j < x THEN cache[j] ELSE cache[j + 1]
  BY <1>1, CacheSet
<1> HIDE DEF c, x
<1>3. DOMAIN c = 1 .. Len(cache) /\ DOMAIN cache = 1 .. Len(cache)
  BY <1>1, <1>2
<1> DEFINE from(j) == IF j = Len(cache) THEN x ELSE IF j < x THEN j ELSE j + 1
<1>4. \A j \in 1 .. Len(cache) :
        /\ from(j) \in 1 .. Len(cache)
        /\ c[j].key = cache[from(j)].key
        /\ j # Len(cache) => c[j] = cache[from(j)] /\ from(j) # x
  BY <1>1, <1>2
<1>5. \A i, j \in 1 .. Len(cache) : from(i) = from(j) => i = j
  BY <1>1, <1>2
<1>6. \A i, j \in DOMAIN c : c[i].key = c[j].key => i = j
  <2> HIDE DEF from
  <2> SUFFICES ASSUME NEW i \in 1 .. Len(cache), NEW j \in 1 .. Len(cache), c[i].key = c[j].key
               PROVE  i = j
    BY Zenon, <1>3
  <2>1. from(i) \in DOMAIN cache /\ from(j) \in DOMAIN cache /\ cache[from(i)].key = cache[from(j)].key
    BY Zenon, <1>3, <1>4
  <2>2. from(i) = from(j)
    BY Zenon, <2>1 DEF CachedOnce
  <2> QED BY <1>5, <2>2
<1>7. \A i \in DOMAIN c : c[i] = e \/ \E j \in DOMAIN cache : c[i] = cache[j] /\ cache[j].key # k
  <2> SUFFICES ASSUME NEW i \in DOMAIN c, i # Len(cache)
               PROVE  c[i] = cache[from(i)] /\ cache[from(i)].key # k /\ from(i) \in DOMAIN cache
    <3> HIDE DEF from
    <3> QED BY ZenonT(60), <1>2, <1>3
  <2> HIDE DEF from
  <2> QED BY Zenon, <1>2, <1>3, <1>4 DEF CachedOnce
<1>8. c \in BoundedSeq(Entry, lruCacheSize)
  BY Zenon, <1>1, <1>2, Bounded, StoreAssumption
<1> QED BY <1>6, <1>7, <1>8 DEF c

-----------------------------------------------------------------------------
(* The steps.                                                              *)

(* The first state satisfies the invariant.                                *)
LEMMA InvInit == Init => IInv
<1> SUFFICES ASSUME Init PROVE IInv
  BY Zenon
<1>1. cache \in BoundedSeq(Entry, lruCacheSize)
  <2>1. cache = <<>> /\ lruCacheSize \in Nat
    BY Zenon, StoreAssumption DEF Init
  <2>2. <<>> \in Seq(Entry) /\ Len(<<>>) \leq lruCacheSize
    BY <2>1
  <2>3. <<>> \in BoundedSeq(Entry, lruCacheSize)
    BY Zenon, <2>1, <2>2, Bounded
  <2> QED BY <2>1, <2>3
<1>2. TypeOK
  <2>1. dstore \in [Records -> Ages \cup {Absent}] /\ added \in [Records -> {Absent} \cup 0 .. ProvideValidity + 1]
    BY Zenon DEF Init
  <2>2. /\ timer \in {Stopped} \cup 0 .. cleanupInterval /\ delay \in 0 .. MaxDelay
        /\ gcRes \subseteq Records \X BOOLEAN /\ gcSkip \subseteq Records /\ failures \in 0 .. MaxFailures
    BY StoreAssumption DEF Init
  <2>3. gc \in BOOLEAN /\ running \in BOOLEAN
    BY Zenon DEF Init
  <2> QED BY <1>1, <2>1, <2>2, <2>3 DEF TypeOK, Entry
<1>3. AddedSurvives /\ RoundKnows
  BY Zenon DEF Init, AddedSurvives, RoundKnows
<1>4. CachedOnce /\ AnswersComplete
  BY DEF Init, CachedOnce, AnswersComplete
<1> QED BY <1>2, <1>3, <1>4 DEF IInv

(* Live announcements are live in the datastore.                           *)
LEMMA LiveStored == AddedSurvives => live(added) \subseteq live(dstore)
BY Zenon DEF AddedSurvives, live

(* The failures counted stay within their bound.                           *)
LEMMA FailuresType ==
    ASSUME TypeOK, NEW failed \in BOOLEAN, mayFail(failed), failures_(failed)
    PROVE  failures' \in 0 .. MaxFailures
BY StoreAssumption DEF TypeOK, mayFail, failures_

(* An announcement reaches the datastore, the skip list and the cache.     *)
LEMMA AddStep ==
    ASSUME IInv, NEW r \in Records, newprovs(r)
    PROVE  IInv'
<1> USE DEF IInv
<1>0. PICK failed \in BOOLEAN :
        /\ mayFail(failed) /\ failures_(failed)
        /\ addProv(r, failed)
        /\ gcSkip' = IF failed \/ ~gc THEN gcSkip ELSE gcSkip \cup {r}
        /\ added' = IF failed THEN added ELSE [added EXCEPT ![r] = 0]
  BY Zenon DEF newprovs
<1>1. UNCHANGED <<timer, delay, gc, gcRes, running>>
  BY Zenon DEF newprovs
<1>2. cache' = cacheSetVal(r) /\ dstore' = IF failed THEN dstore ELSE [dstore EXCEPT ![r] = 0]
  BY Zenon, <1>0 DEF addProv
<1> DEFINE e == setVal(cache[index(r[1])], r[2])
<1>3. ASSUME cached(r[1])
      PROVE  /\ index(r[1]) \in DOMAIN cache /\ cache[index(r[1])].key = r[1]
             /\ e \in Entry /\ e.key = r[1]
             /\ e.provs = cache[index(r[1])].provs \cup {r[2]}
             /\ e.partial = cache[index(r[1])].partial
  <2>1. index(r[1]) \in DOMAIN cache /\ cache[index(r[1])].key = r[1]
    BY Zenon, <1>3 DEF cached, index
  <2>2. cache[index(r[1])] \in Entry
    BY Zenon, <2>1, CacheType
  <2>3. r[2] \in Peers
    BY Zenon DEF Peers
  <2> QED BY <2>1, <2>2, <2>3 DEF setVal, Entry
<1>4. ASSUME cached(r[1]) PROVE cache' = cacheSet(r[1], e)
  BY Zenon, <1>2, <1>4 DEF cacheSetVal
<1> HIDE DEF e
<1>5. ASSUME ~cached(r[1]) PROVE cache' = cache
  BY Zenon, <1>2, <1>5 DEF cacheSetVal
<1>6. TypeOK'
  <2>1. cache' \in BoundedSeq(Entry, lruCacheSize)
    BY <1>3, <1>4, <1>5, CacheSetKeeps, CacheType
  <2>2. failures' \in 0 .. MaxFailures
    BY Zenon, <1>0, FailuresType
  <2> QED BY <1>0, <1>1, <1>2, <2>1, <2>2, StoreAssumption DEF TypeOK, Entry, Ages, Oldest, Absent
<1>7. AddedSurvives'
  BY Zenon, <1>0, <1>2 DEF AddedSurvives, TypeOK
<1>8. RoundKnows'
  BY Zenon, <1>0, <1>1 DEF RoundKnows, TypeOK
<1>9. CachedOnce'
  BY <1>3, <1>4, <1>5, CacheSetKeeps DEF CachedOnce
<1>10. live(added') \subseteq live(added) \cup {r}
  BY Zenon, <1>0 DEF live, TypeOK
<1>11. ASSUME NEW k, k # r[1] \/ added' = added
       PROVE  providersOf(live(added'), k) \subseteq providersOf(live(added), k)
  BY Zenon, <1>10, <1>11 DEF providersOf
<1>12. providersOf(live(added'), r[1]) \subseteq providersOf(live(added), r[1]) \cup {r[2]}
  BY Zenon, <1>10 DEF providersOf
<1>13. AnswersComplete'
  <2> SUFFICES ASSUME NEW i \in DOMAIN cache', ~cache'[i].partial
               PROVE  providersOf(live(added'), cache'[i].key) \subseteq cache'[i].provs
    BY Zenon DEF AnswersComplete, live, expired
  <2>1. CASE cached(r[1])
    <3>1. CASE cache'[i] = e
      <4>1. providersOf(live(added), r[1]) \subseteq cache[index(r[1])].provs
        BY Zenon, <1>3, <2>1, <3>1 DEF AnswersComplete
      <4> QED BY <1>3, <1>12, <2>1, <3>1, <4>1
    <3>2. ASSUME NEW j \in DOMAIN cache, cache'[i] = cache[j], cache[j].key # r[1]
          PROVE  providersOf(live(added'), cache'[i].key) \subseteq cache'[i].provs
      BY Zenon, <1>11, <3>2 DEF AnswersComplete
    <3> QED BY <1>3, <1>4, <2>1, <3>1, <3>2, CacheSetKeeps
  <2>2. CASE ~cached(r[1])
    <3>1. cache'[i] = cache[i] /\ i \in DOMAIN cache /\ cache[i].key # r[1]
      BY Zenon, <1>5, <2>2 DEF cached
    <3> QED BY <1>11, <3>1 DEF AnswersComplete
  <2> QED BY <2>1, <2>2
<1> QED BY <1>6, <1>7, <1>8, <1>9, <1>13

(* A read of a cached set moves it to the end.                             *)
LEMMA CachedStep ==
    ASSUME IInv, NEW k, getCached(k), UNCHANGED <<timer, delay, gc, gcRes, gcSkip, running, added>>
    PROVE  IInv'
<1> USE DEF IInv
<1>1. cached(k) /\ cache' = cacheSet(k, cache[index(k)]) /\ UNCHANGED <<dstore, failures>>
  BY Zenon DEF getCached, cacheGet
<1>2. cache[index(k)] \in Entry /\ cache[index(k)].key = k /\ index(k) \in DOMAIN cache
  BY Zenon, <1>1, CacheType DEF cached, index
<1>3. \A i \in DOMAIN cache' : \E j \in DOMAIN cache : cache'[i] = cache[j]
  BY <1>1, <1>2, CacheSetKeeps
<1>4. TypeOK'
  BY Zenon, <1>1, <1>2, CacheSetKeeps DEF TypeOK, Entry
<1>5. CachedOnce'
  BY <1>1, <1>2, CacheSetKeeps DEF CachedOnce
<1>6. AnswersComplete'
  BY Zenon, <1>3 DEF AnswersComplete, live, expired
<1> QED BY <1>1, <1>4, <1>5, <1>6 DEF AddedSurvives, RoundKnows

(* What cacheAdd does when the key is not cached: the new set is the last, *)
(* the others come from the cache.                                         *)
LEMMA CacheAdded ==
    ASSUME TypeOK, CachedOnce, NEW e \in Entry, ~cached(e.key)
    PROVE  /\ cacheAdd(e) \in BoundedSeq(Entry, lruCacheSize)
           /\ \A i, j \in DOMAIN cacheAdd(e) : cacheAdd(e)[i].key = cacheAdd(e)[j].key => i = j
           /\ \A i \in DOMAIN cacheAdd(e) :
                cacheAdd(e)[i] = e \/ \E j \in DOMAIN cache : cacheAdd(e)[i] = cache[j]
<1> DEFINE rest == IF Len(cache) = lruCacheSize THEN Tail(cache) ELSE cache
           d == IF Len(cache) = lruCacheSize THEN 1 ELSE 0
           c == Append(rest, e)
<1>1. cache \in Seq(Entry) /\ Len(cache) \leq lruCacheSize /\ lruCacheSize \in Nat \ {0}
  BY Zenon, CacheType, StoreAssumption
<1>2. d \in {0, 1} /\ d \leq Len(cache) /\ Len(cache) - d < lruCacheSize
  BY <1>1
<1>3. rest \in Seq(Entry) /\ Len(rest) = Len(cache) - d /\ \A i \in 1 .. Len(rest) : rest[i] = cache[i + d]
  BY <1>1
<1> HIDE DEF rest, d
<1>4. /\ c \in Seq(Entry) /\ Len(c) = Len(rest) + 1
      /\ c[Len(rest) + 1] = e /\ \A i \in 1 .. Len(rest) : c[i] = rest[i]
  BY <1>3
<1>5. cacheAdd(e) = c
  BY Zenon DEF cacheAdd, rest
<1> HIDE DEF c
<1>6. DOMAIN c = 1 .. Len(rest) + 1 /\ DOMAIN cache = 1 .. Len(cache)
  BY <1>1, <1>3, <1>4
<1>7. \A i \in 1 .. Len(rest) : i + d \in DOMAIN cache /\ c[i] = cache[i + d]
  BY <1>1, <1>2, <1>3, <1>4, <1>6
<1>8. \A i \in DOMAIN c : c[i] = e \/ \E j \in DOMAIN cache : c[i] = cache[j]
  <2> SUFFICES ASSUME NEW i \in DOMAIN c PROVE c[i] = e \/ \E j \in DOMAIN cache : c[i] = cache[j]
    BY Zenon
  <2>1. i \in 1 .. Len(rest) \/ i = Len(rest) + 1
    BY <1>3, <1>6
  <2> QED BY <1>4, <1>7, <2>1
<1>9. \A i \in 1 .. Len(rest) : c[i].key # e.key
  BY Zenon, <1>7 DEF cached
<1>10. \A i, j \in DOMAIN c : c[i].key = c[j].key => i = j
  <2> SUFFICES ASSUME NEW i \in DOMAIN c, NEW j \in DOMAIN c, c[i].key = c[j].key PROVE i = j
    BY Zenon
  <2>1. /\ i \in 1 .. Len(rest) \/ i = Len(rest) + 1
        /\ j \in 1 .. Len(rest) \/ j = Len(rest) + 1
    BY <1>3, <1>6
  <2>2. CASE i \in 1 .. Len(rest) /\ j \in 1 .. Len(rest)
    <3>1. i + d = j + d
      BY Zenon, <1>7, <2>2 DEF CachedOnce
    <3> QED BY <1>2, <2>2, <3>1
  <2> QED BY <1>4, <1>9, <2>1, <2>2
<1>11. c \in BoundedSeq(Entry, lruCacheSize)
  BY <1>1, <1>2, <1>3, <1>4, Bounded
<1> QED BY <1>5, <1>8, <1>10, <1>11

(* A read of the datastore deletes only expired records, and caches every  *)
(* live one unless the set is marked partial.                              *)
LEMMA LoadStep ==
    ASSUME IInv, NEW k \in Keys, loadProviderSet(k),
           UNCHANGED <<timer, delay, gc, gcRes, gcSkip, running, added>>
    PROVE  IInv'
<1> USE DEF IInv
<1> DEFINE stored == {r \in Records : r[1] = k /\ dstore[r] # Absent}
           partial(lost) == lost \cap live(dstore) # {}
           provs(lost) == providersOf(live(dstore) \ lost, k)
           entry(lost) == [key |-> k, provs |-> provs(lost), partial |-> partial(lost)]
<1>1. PICK lost \in SUBSET stored :
        /\ mayFail(lost # {}) /\ failures_(lost # {})
        /\ dstore' = [r \in Records |->
               IF r[1] = k /\ r \notin lost /\ expired(dstore[r]) THEN Absent ELSE dstore[r]]
        /\ cache' = IF provs(lost) = {} THEN cache ELSE cacheAdd(entry(lost))
  BY Zenon DEF loadProviderSet
<1>2. ~cached(k)
  BY Zenon DEF loadProviderSet
<1> DEFINE e == entry(lost)
<1>3. e \in Entry /\ e.key = k
  <2>1. provs(lost) \subseteq Peers
    BY Zenon DEF providersOf, live, Peers
  <2>2. partial(lost) \in BOOLEAN
    BY Zenon
  <2> HIDE DEF provs, partial
  <2> QED BY <2>1, <2>2 DEF Entry
<1>4. ~e.partial => providersOf(live(added), k) \subseteq e.provs
  <2>1. e.partial = partial(lost) /\ e.provs = provs(lost)
    BY Zenon
  <2>2. ~partial(lost) => live(added) \subseteq live(dstore) \ lost
    BY Zenon, LiveStored
  <2> QED BY ZenonT(60), <2>1, <2>2 DEF providersOf
<1>5. cache' = cache \/ cache' = cacheAdd(e)
  BY Zenon, <1>1
<1> HIDE DEF e
<1>6. /\ cache' \in BoundedSeq(Entry, lruCacheSize)
      /\ \A i, j \in DOMAIN cache' : cache'[i].key = cache'[j].key => i = j
      /\ \A i \in DOMAIN cache' : cache'[i] = e \/ \E j \in DOMAIN cache : cache'[i] = cache[j]
  BY <1>2, <1>3, <1>5, CacheAdded, CacheType DEF CachedOnce
<1>7. TypeOK'
  <2>1. failures' \in 0 .. MaxFailures
    BY Zenon, <1>1, FailuresType
  <2>2. dstore' \in [Records -> Ages \cup {Absent}]
    BY Zenon, <1>1 DEF TypeOK
  <2> QED BY <1>6, <2>1, <2>2 DEF TypeOK, Entry
<1>8. AddedSurvives'
  BY Zenon, <1>1 DEF AddedSurvives
<1>9. AnswersComplete'
  BY <1>3, <1>4, <1>6 DEF AnswersComplete, live, expired
<1> QED BY <1>6, <1>7, <1>8, <1>9 DEF RoundKnows, CachedOnce

(* The timer starts a round with the records of the datastore, of which it *)
(* will delete those that had expired when it fired.                       *)
LEMMA GcStartStep ==
    ASSUME IInv, gcStart
    PROVE  IInv'
<1> USE DEF IInv
<1>1. cache' = <<>> /\ timer' = Stopped /\ delay' = 0 /\ UNCHANGED <<dstore, running, added>>
  BY Zenon DEF gcStart
<1>2. <<>> \in BoundedSeq(Entry, lruCacheSize)
  <2>1. <<>> \in Seq(Entry) /\ Len(<<>>) \leq lruCacheSize /\ lruCacheSize \in Nat
    BY StoreAssumption
  <2> QED BY ZenonT(60), <2>1, Bounded
<1>3. CASE /\ gcRes' = {<<r, expired(dstore[r] - delay)>> : r \in {s \in Records : dstore[s] # Absent}}
           /\ gc' = TRUE
           /\ gcSkip' = {}
           /\ UNCHANGED failures
  <2>1. gcRes' \subseteq Records \X BOOLEAN
    <3>1. \A r \in Records : expired(dstore[r] - delay) \in BOOLEAN
      BY StoreAssumption DEF expired, TypeOK, Ages, Oldest, Absent
    <3> QED BY <1>3, <3>1
  <2>2. TypeOK'
    BY <1>1, <1>2, <1>3, <2>1, StoreAssumption DEF TypeOK, Entry
  <2>3. ASSUME NEW res \in gcRes', res[2]
        PROVE  added[res[1]] = Absent \/ expired(added[res[1]])
    <3>1. PICK r \in Records : dstore[r] # Absent /\ res = <<r, expired(dstore[r] - delay)>>
      BY Zenon, <1>3, <2>3
    <3>2. dstore[r] - delay > ProvideValidity
      BY Zenon, <2>3, <3>1 DEF expired
    <3>3. dstore[r] \in Int /\ delay \in Nat /\ ProvideValidity \in Int
      BY StoreAssumption DEF TypeOK, Ages, Oldest, Absent
    <3>4. expired(dstore[r])
      BY <3>2, <3>3 DEF expired
    <3> QED BY <3>1, <3>4 DEF AddedSurvives
  <2> QED BY <1>1, <1>3, <2>2, <2>3 DEF AddedSurvives, RoundKnows, CachedOnce, AnswersComplete, expired
<1>4. CASE mayFail(TRUE) /\ failures_(TRUE) /\ UNCHANGED <<gc, gcRes, gcSkip>>
  <2>1. TypeOK'
    <3>1. failures' \in 0 .. MaxFailures
      BY Zenon, <1>4, FailuresType
    <3>2. timer' \in {Stopped} \cup 0 .. cleanupInterval /\ delay' \in 0 .. MaxDelay
      BY <1>1, StoreAssumption
    <3> QED BY <1>1, <1>2, <1>4, <3>1, <3>2 DEF TypeOK, Entry
  <2> QED BY <1>1, <1>4, <2>1 DEF AddedSurvives, RoundKnows, CachedOnce, AnswersComplete, expired
<1> QED BY ZenonT(60), <1>3, <1>4 DEF gcStart

(* A result of the round deletes its record only if it may.                *)
LEMMA GcResultStep ==
    ASSUME IInv, gcResult
    PROVE  IInv'
<1> USE DEF IInv
<1>1. PICK res \in gcRes, failed \in BOOLEAN :
        /\ mayFail(failed) /\ failures_(failed)
        /\ gcRes' = gcRes \ {res}
        /\ dstore' = IF ~failed /\ res[1] \notin gcSkip /\ res[2]
                     THEN [dstore EXCEPT ![res[1]] = Absent] ELSE dstore
  BY Zenon DEF gcResult
<1>2. gc /\ UNCHANGED <<cache, timer, delay, gc, gcSkip, running, added>>
  BY Zenon DEF gcResult
<1>3. dstore' \in [Records -> Ages \cup {Absent}]
  BY Zenon, <1>1 DEF TypeOK
<1>4. TypeOK'
  BY Zenon, <1>1, <1>2, <1>3, FailuresType DEF TypeOK
<1>5. AddedSurvives'
  BY Zenon, <1>1, <1>2 DEF AddedSurvives, RoundKnows, TypeOK
<1> QED BY <1>1, <1>2, <1>4, <1>5 DEF RoundKnows, CachedOnce, AnswersComplete, live, expired

(* Time passes alike for a record and for its history while it is valid.   *)
LEMMA TickStep ==
    ASSUME IInv, Tick
    PROVE  IInv'
<1> USE DEF IInv
<1>1. /\ dstore' = [r \in Records |-> older(dstore[r], Oldest)]
      /\ added' = [r \in Records |-> older(added[r], ProvideValidity + 1)]
      /\ delay' = IF timer = Fired THEN delay + 1 ELSE delay
      /\ timer' = IF timer \in {Fired, Stopped} THEN timer ELSE timer - 1
      /\ timer = Fired => delay < MaxDelay
      /\ UNCHANGED <<cache, gc, gcRes, gcSkip, running, failures>>
  BY Zenon DEF Tick
<1>2. \A r \in Records :
        /\ dstore[r] \in Int /\ added[r] \in Int
        /\ dstore[r] = -1 \/ dstore[r] \in 0 .. ProvideValidity + 1 + MaxDelay
        /\ added[r] = -1 \/ added[r] \in 0 .. ProvideValidity + 1
        /\ ProvideValidity \in Nat /\ MaxDelay \in Nat
  BY StoreAssumption DEF TypeOK, Ages, Oldest, Absent
<1>3. ASSUME NEW r \in Records
      PROVE  /\ dstore'[r] = older(dstore[r], Oldest)
             /\ added'[r] = older(added[r], ProvideValidity + 1)
             /\ dstore'[r] \in Ages \cup {Absent}
             /\ added'[r] \in {Absent} \cup 0 .. ProvideValidity + 1
             /\ added[r] = Absent => added'[r] = Absent
             /\ expired(added[r]) => expired(added'[r])
             /\ added'[r] # Absent /\ ~expired(added'[r]) =>
                  added[r] # Absent /\ ~expired(added[r]) /\ added'[r] = added[r] + 1
             /\ dstore[r] # Absent /\ ~expired(dstore[r]) => dstore'[r] = dstore[r] + 1
  BY <1>1, <1>2 DEF older, expired, Oldest, Ages, Absent
<1>4. TypeOK'
  <2>1. timer' \in {Stopped} \cup 0 .. cleanupInterval /\ delay' \in 0 .. MaxDelay
    BY <1>1, StoreAssumption DEF TypeOK, Fired, Stopped
  <2>2. dstore' \in [Records -> Ages \cup {Absent}]
    BY Zenon, <1>1, <1>3
  <2>3. added' \in [Records -> {Absent} \cup 0 .. ProvideValidity + 1]
    BY ZenonT(60), <1>1, <1>3
  <2> QED BY <1>1, <2>1, <2>2, <2>3 DEF TypeOK
<1>5. AddedSurvives'
  <2> SUFFICES ASSUME NEW r \in Records, added'[r] # Absent /\ ~expired(added'[r])
               PROVE  dstore'[r] = added'[r]
    BY ZenonT(60) DEF AddedSurvives, expired
  <2> QED BY <1>3 DEF AddedSurvives
<1>6. RoundKnows'
  <2>1. \A res \in gcRes : res[1] \in Records
    BY Zenon DEF TypeOK
  <2> QED BY <1>1, <1>3, <2>1 DEF RoundKnows, expired
<1>7. live(added') \subseteq live(added)
  BY Zenon, <1>3 DEF live
<1>8. AnswersComplete'
  <2> SUFFICES ASSUME NEW i \in DOMAIN cache, ~cache[i].partial
               PROVE  providersOf(live(added'), cache[i].key) \subseteq cache[i].provs
    BY ZenonT(60), <1>1 DEF AnswersComplete, live, expired, providersOf
  <2> QED BY <1>7 DEF AnswersComplete, providersOf
<1> QED BY <1>1, <1>4, <1>5, <1>6, <1>8 DEF CachedOnce

(* Every step keeps the invariant.                                         *)
LEMMA Inductive == IInv /\ [Next]_vars => IInv'
<1> SUFFICES ASSUME IInv, [Next]_vars PROVE IInv'
  BY Zenon
<1> USE DEF IInv
<1>1. ASSUME NEW k \in Keys, NEW p \in Peers, handleAddProvider(k, p) PROVE IInv'
  BY Zenon, <1>1, AddStep DEF handleAddProvider
<1>2. ASSUME NEW k \in Keys, handleGetProviders(k) PROVE IInv'
  <2>1. UNCHANGED <<timer, delay, gc, gcRes, gcSkip, running, added>>
    BY Zenon, <1>2 DEF handleGetProviders, getprovs
  <2>2. CASE getCached(k)
    BY Zenon, <2>1, <2>2, CachedStep
  <2>3. CASE loadProviderSet(k)
    BY ZenonT(60), <2>1, <2>3, LoadStep
  <2>4. CASE loadFails(k)
    <3>1. failures' \in 0 .. MaxFailures /\ UNCHANGED <<dstore, cache>>
      BY Zenon, <2>4, FailuresType DEF loadFails
    <3>2. TypeOK'
      BY ZenonT(60), <2>1, <3>1 DEF TypeOK
    <3> QED BY <2>1, <3>1, <3>2 DEF AddedSurvives, RoundKnows, CachedOnce, AnswersComplete, live, expired
  <2> QED BY <1>2, <2>2, <2>3, <2>4 DEF handleGetProviders, getprovs
<1>3. CASE gcEnd
  <2>1. TypeOK'
    <3>1. timer' \in {Stopped} \cup 0 .. cleanupInterval
      BY <1>3, StoreAssumption DEF gcEnd
    <3>2. gc' \in BOOLEAN
      BY ZenonT(60), <1>3 DEF gcEnd
    <3> QED BY <1>3, <3>1, <3>2 DEF gcEnd, TypeOK
  <2> QED BY <1>3, <2>1 DEF gcEnd, AddedSurvives, RoundKnows, CachedOnce, AnswersComplete, live, expired
<1>4. CASE Close
  <2>1. TypeOK'
    BY Zenon, <1>4 DEF Close, TypeOK
  <2> QED BY <1>4, <2>1 DEF Close, AddedSurvives, RoundKnows, CachedOnce, AnswersComplete, live, expired
<1>5. CASE UNCHANGED vars
  BY Zenon, <1>5 DEF vars, TypeOK, AddedSurvives, RoundKnows, CachedOnce, AnswersComplete, live, expired
<1> QED BY <1>1, <1>2, <1>3, <1>4, <1>5, GcStartStep, GcResultStep, TickStep DEF Next

(* The invariant holds in every state.                                     *)
THEOREM StoreInvariant == Spec => []IInv
BY Inductive, InvInit, PTL DEF Spec

(* The store's state is well typed; the cache never holds more sets than   *)
(* its size.                                                               *)
THEOREM ProviderStoreTypeCorrect == Spec => []TypeOK
<1>1. IInv => TypeOK
  BY Zenon DEF IInv
<1> QED BY <1>1, StoreInvariant, PTL

(* A provider record is in the datastore for as long as it is valid: a GC  *)
(* round that read its older value does not delete it, nor does a read,    *)
(* for any number of records, rounds and datastore failures.               *)
THEOREM AddedRecordsSurvive == Spec => []AddedSurvives
<1>1. IInv => AddedSurvives
  BY Zenon DEF IInv
<1> QED BY <1>1, StoreInvariant, PTL

(* The answer from the cache names every provider with a valid record,     *)
(* unless the read that filled it met an error.                            *)
THEOREM CacheAnswersComplete == Spec => []AnswersComplete
<1>1. IInv => AnswersComplete
  BY Zenon DEF IInv
<1> QED BY <1>1, StoreInvariant, PTL
=============================================================================
