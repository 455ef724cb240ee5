------------------------------ MODULE Keyspace ------------------------------
(***************************************************************************)
(* What the tries of provider/internal/keyspace stand for: a trie is here  *)
(* the function from its keys, prefixes none of which covers another, to   *)
(* their data.  KeyspaceTrie is the recursion of trie.go over branches,    *)
(* and KeyspaceTrieReference checks that it computes what is defined here. *)
(* Order is the key that prefixes are sorted by.                           *)
(***************************************************************************)
EXTENDS ProvideQueue

CONSTANT Order

EmptyTrie == [p \in {} |-> 0]

KeySet(t) == DOMAIN t

Add(t, p, d) == [q \in DOMAIN t \cup {p} |-> IF q \in DOMAIN t THEN t[q] ELSE d]

coveredBy(P, k) == \E p \in P : Covers(p, k)

comparable(p, q) == Covers(p, q) \/ Covers(q, p)

(* Whether some key of the trie is a prefix of k.                          *)
FindPrefixOfKey(t, k) == coveredBy(KeySet(t), k)

(* p comes before q: where they part, p goes the way of Order.             *)
Precedes(p, q) ==
    \E i \in DOMAIN p \cap DOMAIN q :
        p[i] # q[i] /\ p[i] = Order[i] /\ \A j \in 1..(i - 1) : p[j] = q[j]

First(P) == CHOOSE p \in P : \A q \in P \ {p} : Precedes(p, q)

(* The prefixes in the order of the iterators.                             *)
Sorted(P) ==
    LET sorted[i \in 0..Cardinality(P)] ==
            IF i = 0 THEN <<>> ELSE Append(sorted[i - 1], First(P \ Range(sorted[i - 1])))
    IN  sorted[Cardinality(P)]

AllKeys(t) == Sorted(KeySet(t))

(* The key after k, around the end.                                        *)
NextNonEmptyLeaf(t, k) ==
    LET after == {q \in KeySet(t) : Precedes(k, q)}
    IN  First(IF after # {} THEN after ELSE KeySet(t))

PruneSubtrie(t, k) == [q \in {p \in KeySet(t) : ~Covers(k, p)} |-> t[q]]

(* The prefixes all of whose extensions to n bits a set covers; the        *)
(* shortest of them take the place of the set.                             *)
Filled(P, n) == {p \in BitStrings(n) : \A s \in [1..(n - Len(p)) -> {0, 1}] : coveredBy(P, p \o s)}

CoalesceTrie(P, n) ==
    {p \in Filled(P, n) : \A q \in Filled(P, n) : Covers(q, p) => q = p}

SubtractTrie(P, Q) == {p \in P : ~coveredBy(Q, p)}

SiblingPrefixes(k) == {Append(SubSeq(k, 1, i - 1), 1 - k[i]) : i \in DOMAIN k}

(* The prefixes that meet no key, none longer than need be.                *)
TrieGaps(t) ==
    IF KeySet(t) = {} THEN {<<>>}
    ELSE {g \in UNION {SiblingPrefixes(p) : p \in KeySet(t)} : \A p \in KeySet(t) : ~comparable(g, p)}

(* The prefixes of length l under p.                                       *)
ExtendBinaryPrefix(p, l) == {p \o s : s \in [1..(l - Len(p)) -> {0, 1}]}

=============================================================================
