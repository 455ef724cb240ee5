----------------------- MODULE KeyspaceTrieReference -----------------------
(***************************************************************************)
(* The recursion of KeyspaceTrie computes what Keyspace says of the keys   *)
(* of a trie: checked for every set of prefixes of up to RefLen bits none  *)
(* of which covers another, and for the tries that lost keys.              *)
(***************************************************************************)
EXTENDS Keyspace

CONSTANT RefLen

T == INSTANCE KeyspaceTrie

(* The sets of prefixes under p of up to n bits, none of which covers      *)
(* another.                                                                *)
RECURSIVE KeySetsUnder(_, _)
KeySetsUnder(p, n) ==
    {{}, {p}} \cup IF Len(p) = n THEN {}
                   ELSE {a \cup b : a \in KeySetsUnder(Append(p, 0), n), b \in KeySetsUnder(Append(p, 1), n)}

KeySets == KeySetsUnder(<<>>, RefLen)

(* The trie of the keys K, each with its length as its data, both ways.    *)
Lengths(K) == [k \in K |-> Len(k)]

trieOf(K) == FoldSet(LAMBDA k, t : T!Add(t, k, Len(k)), T!EmptyTrie, K)

apart(K) == {s \in BitStrings(RefLen) : \A q \in K : ~comparable(s, q)}

(* A trie with the keys K, and one that had k as well.                     *)
triesOf(K) == {trieOf(K)} \cup {T!PruneSubtrie(trieOf(K \cup {k}), k) : k \in apart(K)}

(* The iterators give each key once, in the order of the schedule, and the *)
(* data it was added with; FindPrefixOfKey finds the one that covers k.    *)
(* A trie without keys is the empty leaf, and one with a single key that   *)
(* was added to it is a leaf.                                              *)
ASSUME EntriesSorted ==
    \A K \in KeySets : \A t \in triesOf(K) :
        /\ T!AllKeys(t) = Sorted(K)
        /\ \A i \in DOMAIN T!AllEntries(t) : T!AllEntries(t)[i].data = Len(T!AllEntries(t)[i].key)
        /\ \A k \in BitStrings(RefLen) : LET e == T!FindPrefixOfKey(t, k) IN
              /\ e.has = FindPrefixOfKey(Lengths(K), k)
              /\ e.has => e.key \in K /\ Covers(e.key, k) /\ e.data = Len(e.key)
        /\ K = {} => t = T!EmptyTrie
        /\ \A k \in apart(K) : LET u == T!Add(t, k, Len(k)) IN
              /\ T!KeySet(u) = DOMAIN Add(Lengths(K), k, Len(k))
              /\ u.has <=> K = {}

(* NextNonEmptyLeaf, for a key of the trie or a prefix next to its keys.   *)
ASSUME NextIsSuccessor ==
    \A K \in KeySets \ {{}} : \A t \in triesOf(K) :
        \A k \in {s \in BitStrings(RefLen) : \A q \in K \ {s} : ~comparable(s, q)} :
            LET next == T!NextNonEmptyLeaf(t, k)
            IN  next.has /\ next.key = NextNonEmptyLeaf(Lengths(K), k)

(* PruneSubtrie removes the keys under k and no others.                    *)
ASSUME PruneRemovesUnder ==
    \A K \in KeySets : \A t \in triesOf(K) : \A k \in BitStrings(RefLen) :
        T!KeySet(T!PruneSubtrie(t, k)) = DOMAIN PruneSubtrie(Lengths(K), k)

(* TrieGaps, and what it is for: with the keys the gaps cover every        *)
(* string, and no gap meets a key or another gap.                          *)
ASSUME GapsAreTheRest ==
    \A K \in KeySets : \A t \in triesOf(K) :
        LET G == TrieGaps(Lengths(K)) IN
        /\ T!TrieGaps(t) = G
        /\ \A k \in [1..RefLen -> {0, 1}] : coveredBy(K, k) # coveredBy(G, k)
        /\ \A g \in G : \A q \in (K \cup G) \ {g} : ~comparable(g, q)

(* CoalesceTrie.                                                           *)
ASSUME CoalesceFills ==
    \A K \in KeySets : T!KeySet(T!CoalesceTrie(trieOf(K))) = CoalesceTrie(K, RefLen)

(* SubtractTrie; the pairs of tries have one bit less.                     *)
ASSUME SubtractLeavesUncovered ==
    \A K, L \in KeySetsUnder(<<>>, RefLen - 1) :
        T!SubtractTrie(trieOf(K), trieOf(L)) = SubtractTrie(K, L)

=============================================================================
