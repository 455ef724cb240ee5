------------------------------ MODULE MCLookup ------------------------------
(***************************************************************************)
(* Small networks for Lookup: peers are distances 1..n, the closest one    *)
(* may be faulty and Self is next.  A faulty peer answers with any list, a *)
(* good one with any list that makes progress.                             *)
(***************************************************************************)
EXTENDS Lookup

CONSTANT NPeers, FaultyPeers

MCPeers == 1..NPeers

(* Every list of up to K peers, for faulty peers; for the others, those     *)
(* that name a good peer closer than themselves if there is one.            *)
MCGood == MCPeers \ (FaultyPeers \cup {Self})

MCResponses ==
    [p \in MCPeers |->
        {r \in SUBSET MCPeers :
            /\ Cardinality(r) <= K
            /\ p \in MCGood /\ (\E g \in MCGood : g < p) => \E g \in MCGood : g \in r /\ g < p}]
=============================================================================
