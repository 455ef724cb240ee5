---------------------------- MODULE ProvideQueue ----------------------------
(***************************************************************************)
(* provider/internal/queue: the queue of keys to be provided, grouped by   *)
(* keyspace prefix, and the queue of prefixes to be reprovided.            *)
(*                                                                         *)
(* A key is the bit string of its Kademlia identifier, a prefix is a bit   *)
(* string.  A prefix queue is the sequence of its prefixes (the deque);    *)
(* its trie holds the same prefixes.  A provide queue is a record of its   *)
(* prefix queue and the set of its keys (the trie of keys).                *)
(***************************************************************************)
EXTENDS Integers, Sequences, FiniteSets, FiniteSetsExt

(* keyspace.IsPrefix, and the prefixes up to a length.                     *)
Covers(p, k) == Len(p) <= Len(k) /\ SubSeq(k, 1, Len(p)) = p

BitStrings(len) == UNION {[1..n -> {0, 1}] : n \in 0..len}

(* keyspace.FindSubtrie: the keys under a prefix.                          *)
Under(keys, p) == {k \in keys : Covers(p, k)}

-----------------------------------------------------------------------------
(* prefixQueue                                                             *)

Superstrings(queue, p) == {i \in DOMAIN queue : Covers(p, queue[i])}

(* What is left of a sequence, in order, without the elements of a set.    *)
Without(seq, S) ==
    LET kept[i \in 0..Len(seq)] ==
            IF i = 0 THEN <<>>
            ELSE IF seq[i] \in S THEN kept[i - 1] ELSE Append(kept[i - 1], seq[i])
    IN  kept[Len(seq)]

removePrefixes(queue, prefixes) == Without(queue, prefixes)

removeSuperstrings(queue, p) == Without(queue, {r \in Range(queue) : Covers(p, r)})

(* Mutant: superstrings of the prefix stay in the queue.                   *)
PushBeside(queue, p) ==
    IF \E i \in DOMAIN queue : Covers(queue[i], p) THEN queue ELSE Append(queue, p)

(* A prefix takes the place of the first of its superstrings, or joins the *)
(* end unless a prefix of it is there.                                     *)
Push(queue, p) ==
    IF Superstrings(queue, p) # {}
    THEN LET first == Min(Superstrings(queue, p))
         IN  SubSeq(queue, 1, first - 1) \o <<p>>
               \o removeSuperstrings(SubSeq(queue, first + 1, Len(queue)), p)
    ELSE IF \E i \in DOMAIN queue : Covers(queue[i], p) THEN queue
    ELSE Append(queue, p)

-----------------------------------------------------------------------------
(* ProvideQueue                                                            *)

NewProvideQueue == [prefixes |-> <<>>, keys |-> {}]

IsEmpty(q) == q.keys = {}

Enqueue(q, p, keys) ==
    IF keys = {} THEN q ELSE [prefixes |-> Push(q.prefixes, p), keys |-> q.keys \cup keys]

(* The prefix at the head, its keys, and the queue without them.           *)
Dequeue(q) ==
    LET p == Head(q.prefixes)
    IN  [prefix |-> p, keys |-> Under(q.keys, p),
         rest |-> [prefixes |-> Tail(q.prefixes), keys |-> q.keys \ Under(q.keys, p)]]

(* What is left once the keys under p are taken: the superstrings of p go, *)
(* or a shorter prefix that has lost its last key.                         *)
DequeueMatching(q, p) ==
    LET keys == q.keys \ Under(q.keys, p)
        emptied == {r \in Range(q.prefixes) : Covers(r, p) /\ Under(keys, r) = {}}
    IN  IF Under(q.keys, p) = {} THEN q
        ELSE [prefixes |-> IF Superstrings(q.prefixes, p) # {} THEN removeSuperstrings(q.prefixes, p)
                           ELSE removePrefixes(q.prefixes, emptied),
              keys |-> keys]

RemoveKeys(q, keys) ==
    LET left == q.keys \ keys
        emptied == {r \in Range(q.prefixes) : Under(keys, r) # {} /\ Under(left, r) = {}}
    IN  [prefixes |-> removePrefixes(q.prefixes, emptied), keys |-> left]

(* Mutant: the last batch is not committed.                                *)
PersistUncommitted(q) == [i \in 1..(Len(q.prefixes) - 1) |->
                             [prefix |-> q.prefixes[i], keys |-> Under(q.keys, q.prefixes[i])]]

(* Persist: one entry for each prefix, in order, replacing what was there. *)
Persist(q) == [i \in DOMAIN q.prefixes |->
                  [prefix |-> q.prefixes[i], keys |-> Under(q.keys, q.prefixes[i])]]

(* The datastore cleans the key "position/" of the empty prefix to         *)
(* "position", which DrainDatastore skips as invalid.                      *)
Readable(entry) == entry.prefix # <<>>

DrainDatastore(q, entries) ==
    LET drained[i \in 0..Len(entries)] ==
            IF i = 0 THEN q
            ELSE LET e == entries[i]
                 IN  IF Readable(e) THEN Enqueue(drained[i - 1], e.prefix, e.keys) ELSE drained[i - 1]
    IN  drained[Len(entries)]

(* What DrainDatastore leaves in the datastore.                            *)
Undrained(entries) == Without(entries, {e \in Range(entries) : Readable(e)})

-----------------------------------------------------------------------------
(* Every key in the queue is under one of its prefixes, every prefix has a *)
(* key, and no prefix is under another: a key is dequeued with its prefix  *)
(* and Dequeue of a queue with keys never comes back empty-handed, which   *)
(* would make provideLoop spin (provider.go:1570).                         *)
WellFormed(q) ==
    /\ \A k \in q.keys : \E i \in DOMAIN q.prefixes : Covers(q.prefixes[i], k)
    /\ \A i \in DOMAIN q.prefixes : Under(q.keys, q.prefixes[i]) # {}
    /\ \A i, j \in DOMAIN q.prefixes : Covers(q.prefixes[i], q.prefixes[j]) => i = j
=============================================================================
