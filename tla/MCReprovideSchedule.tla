------------------------ MODULE MCReprovideSchedule ------------------------
EXTENDS ReprovideSchedule, KeyspaceTrieReference

MCOrder == <<0, 0, 0>>

MCKeys == {<<0, 0, 0>>, <<0, 0, 1>>, <<0, 1, 0>>, <<1, 0, 0>>}

(* Enough keys under one bit to explore it, or single keys of regions.     *)
MCInitialKeys == {MCKeys \ {<<1, 0, 0>>}, {<<0, 1, 0>>, <<1, 0, 0>>}}

=============================================================================
