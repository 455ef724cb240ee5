---------------------------- MODULE KeystoreSpec ----------------------------
(***************************************************************************)
(* What a resettable keystore promises about the keys it would hold if the *)
(* machine crashed now.  They change when keys are put or deleted, and     *)
(* when a reset takes effect: then, in one step, they become the keys of   *)
(* the reset together with the keys put since it began.  Nothing else      *)
(* changes them: not a reset under way, one that fails or is overtaken by  *)
(* a Close, a crash or a restart.                                          *)
(***************************************************************************)
CONSTANTS PutKeys, ResetKeys

VARIABLES
    keys,         \* the keys of the keystore
    resetting,    \* a reset is in progress
    replacement   \* the keys the last reset begun leaves if it succeeds

Init == keys = {} /\ ~resetting /\ replacement = {}

Put(S) == /\ keys' = keys \cup S
          /\ replacement' = IF resetting THEN replacement \cup S ELSE replacement
          /\ UNCHANGED resetting

Delete(S) == keys' = keys \ S /\ UNCHANGED <<resetting, replacement>>

Begin(S) == /\ ~resetting /\ resetting'
            /\ replacement' = S
            /\ UNCHANGED keys

Replace == /\ resetting /\ ~resetting'
           /\ keys' = replacement
           /\ UNCHANGED replacement

(* The reset failed, was cancelled, or ended with the process.              *)
GiveUp == resetting /\ ~resetting' /\ UNCHANGED <<keys, replacement>>

Next == \/ \E S \in SUBSET PutKeys : Put(S)
        \/ \E S \in SUBSET (PutKeys \cup ResetKeys) : Delete(S)
        \/ \E S \in SUBSET ResetKeys : Begin(S)
        \/ Replace
        \/ GiveUp

Spec == Init /\ [][Next]_<<keys, resetting, replacement>>
=============================================================================
