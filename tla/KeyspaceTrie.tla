---------------------------- MODULE KeyspaceTrie ----------------------------
(***************************************************************************)
(* provider/internal/keyspace/trie.go: what the reprovide schedule does    *)
(* with binary tries.  A key is a sequence of bits.  A trie is a leaf,     *)
(* empty or with a key and its data, or two branches; as in the code, a    *)
(* trie that lost keys keeps its branches, so one set of keys has several  *)
(* tries.  Order is the key that leaves are sorted by.                     *)
(***************************************************************************)
EXTENDS Integers, Sequences, SequencesExt

CONSTANT Order

K == INSTANCE Keyspace

EmptyTrie == [has |-> FALSE, key |-> <<>>, data |-> 0, branch |-> <<>>]

Leaf(k, d) == [has |-> TRUE, key |-> k, data |-> d, branch |-> <<>>]

Node(t0, t1) == [has |-> FALSE, key |-> <<>>, data |-> 0, branch |-> <<t0, t1>>]

IsLeaf(t) == t.branch = <<>>

IsEmptyLeaf(t) == IsLeaf(t) /\ ~t.has

(* Bits, depths and branches count from 0.                                 *)
Bit(k, depth) == k[depth + 1]

Branch(t, b) == t.branch[b + 1]

WithBranch(t, b, u) == IF b = 0 THEN Node(u, Branch(t, 1)) ELSE Node(Branch(t, 0), u)

CommonPrefixLength(k, l) == Len(LongestCommonPrefix({k, l}))

IsBitstrPrefix(p, k) == K!Covers(p, k)

-----------------------------------------------------------------------------

RECURSIVE addAtDepth(_, _, _, _)
addAtDepth(t, k, d, depth) ==
    IF IsEmptyLeaf(t) THEN Leaf(k, d)
    ELSE IF IsLeaf(t)
    THEN IF t.key = k THEN t
         ELSE addAtDepth(addAtDepth(Node(EmptyTrie, EmptyTrie), t.key, t.data, depth), k, d, depth)
    ELSE LET b == Bit(k, depth) IN WithBranch(t, b, addAtDepth(Branch(t, b), k, d, depth + 1))

Add(t, k, d) == addAtDepth(t, k, d, 0)

(* The leaves, sorted by their keys in Order.                              *)
RECURSIVE entriesAtDepth(_, _)
entriesAtDepth(t, depth) ==
    IF IsEmptyLeaf(t) THEN <<>>
    ELSE IF IsLeaf(t) THEN << t >>
    ELSE LET b == Bit(Order, depth) IN
         entriesAtDepth(Branch(t, b), depth + 1) \o entriesAtDepth(Branch(t, 1 - b), depth + 1)

AllEntries(t) == entriesAtDepth(t, 0)

AllKeys(t) == [i \in DOMAIN AllEntries(t) |-> AllEntries(t)[i].key]

KeySet(t) == Range(AllKeys(t))

(* The leaf whose key is a prefix of k, or the empty one.                  *)
RECURSIVE findPrefixOfKeyAtDepth(_, _, _)
findPrefixOfKeyAtDepth(t, k, depth) ==
    IF IsLeaf(t) THEN IF t.has /\ IsBitstrPrefix(t.key, k) THEN t ELSE EmptyTrie
    ELSE IF depth = Len(k) THEN EmptyTrie
    ELSE findPrefixOfKeyAtDepth(Branch(t, Bit(k, depth)), k, depth + 1)

FindPrefixOfKey(t, k) == findPrefixOfKeyAtDepth(t, k, 0)

-----------------------------------------------------------------------------

(* The first leaf in Order, or the empty one.                              *)
RECURSIVE firstLeaf(_, _)
firstLeaf(t, depth) ==
    IF IsLeaf(t) THEN t
    ELSE LET b == Bit(Order, depth)
             l == firstLeaf(Branch(t, b), depth + 1)
         IN  IF l.has THEN l ELSE firstLeaf(Branch(t, 1 - b), depth + 1)

(* The leaf after k in Order, around the end: down to k or where it would  *)
(* be, up to the first node that has another branch to go, and down to its *)
(* first leaf (the calls of the code with hitBottom).                      *)
RECURSIVE nextNonEmptyLeafAtDepth(_, _, _)
nextNonEmptyLeafAtDepth(t, k, depth) ==
    IF IsLeaf(t)
    THEN LET cpl == CommonPrefixLength(k, t.key) IN
         IF /\ t.has
            /\ \/ depth = 0
               \/ cpl < Len(k) /\ cpl < Len(Order) /\ Bit(Order, cpl) = Bit(k, cpl)
         THEN t ELSE EmptyTrie
    ELSE LET kBit  == Bit(k, depth)
             below == nextNonEmptyLeafAtDepth(Branch(t, kBit), k, depth + 1)
             after == firstLeaf(Branch(t, 1 - kBit), depth + 1)
         IN  IF below.has THEN below
             ELSE IF depth # 0 /\ kBit # Bit(Order, depth) THEN EmptyTrie
             ELSE IF after.has \/ depth # 0 THEN after
             ELSE firstLeaf(Branch(t, kBit), depth + 1)

NextNonEmptyLeaf(t, k) == nextNonEmptyLeafAtDepth(t, k, 0)

(* The trie without the keys under k.  A node whose last key goes becomes  *)
(* an empty leaf.                                                          *)
RECURSIVE pruneSubtrieAtDepth(_, _, _)
pruneSubtrieAtDepth(t, k, depth) ==
    IF IsLeaf(t) THEN IF t.has /\ IsBitstrPrefix(k, t.key) THEN EmptyTrie ELSE t
    ELSE IF depth = Len(k) THEN EmptyTrie
    ELSE LET b == Bit(k, depth)
             u == pruneSubtrieAtDepth(Branch(t, b), k, depth + 1)
         IN  IF u # Branch(t, b) /\ IsEmptyLeaf(u) /\ IsEmptyLeaf(Branch(t, 1 - b)) THEN EmptyTrie
             ELSE WithBranch(t, b, u)

PruneSubtrie(t, k) == pruneSubtrieAtDepth(t, k, 0)

-----------------------------------------------------------------------------

(* Siblings become their parent.                                           *)
RECURSIVE CoalesceTrie(_)
CoalesceTrie(t) ==
    IF IsLeaf(t) THEN t
    ELSE LET t0 == CoalesceTrie(Branch(t, 0))
             t1 == CoalesceTrie(Branch(t, 1))
         IN  IF t0.has /\ t1.has /\ Len(t0.key) = Len(t1.key)
                /\ CommonPrefixLength(t0.key, t1.key) = Len(t0.key) - 1
             THEN Leaf(Front(t0.key), 0)
             ELSE Node(t0, t1)

(* The keys of t0 that no key of t1 covers.                                *)
RECURSIVE subtractAtDepth(_, _, _)
subtractAtDepth(t0, t1, depth) ==
    IF IsEmptyLeaf(t0) THEN {}
    ELSE IF IsEmptyLeaf(t1) THEN KeySet(t0)
    ELSE IF t0.has /\ t1.has THEN IF IsBitstrPrefix(t1.key, t0.key) THEN {} ELSE {t0.key}
    ELSE IF t0.has
    THEN IF Len(t0.key) \leq depth THEN {t0.key}
         ELSE subtractAtDepth(t0, Branch(t1, Bit(t0.key, depth)), depth + 1)
    ELSE IF t1.has
    THEN IF Len(t1.key) \leq depth THEN {}
         ELSE LET b == Bit(t1.key, depth) IN
              KeySet(Branch(t0, 1 - b)) \cup subtractAtDepth(Branch(t0, b), t1, depth + 1)
    ELSE UNION {subtractAtDepth(Branch(t0, b), Branch(t1, b), depth + 1) : b \in {0, 1}}

SubtractTrie(t0, t1) == subtractAtDepth(t0, t1, 0)

(* The prefixes that no key covers, none longer than need be: path leads   *)
(* to t.                                                                   *)
RECURSIVE gapsAtDepth(_, _)
gapsAtDepth(t, path) ==
    IF IsEmptyLeaf(t) THEN {path}
    ELSE IF IsLeaf(t) THEN {s \in K!SiblingPrefixes(t.key) : Len(s) > Len(path)}
    ELSE UNION {gapsAtDepth(Branch(t, b), Append(path, b)) : b \in {0, 1}}

TrieGaps(t) == gapsAtDepth(t, <<>>)

=============================================================================
