---------------------------- MODULE MCProvideLoop ----------------------------
(* The provide loop on two keys of two bits, or three of three. *)
EXTENDS ProvideLoop, TLC

TwoKeys == {<<0, 0>>, <<0, 1>>}

OneAndBoth == {{<<0, 1>>}, TwoKeys}

ThreeKeys == {<<0, 0, 0>>, <<0, 0, 1>>, <<0, 1, 0>>}

TwoAndOne == {{<<0, 0, 0>>, <<0, 0, 1>>}, {<<0, 1, 0>>}}

WorkerSymmetry == Permutations(Workers)
=============================================================================
