---------------------------- MODULE ValueRecords ----------------------------
(***************************************************************************)
(* The value records that DHT servers keep for a key, and the handlers     *)
(* that read and write them (handlers.go, getLocal and putLocal of dht.go).*)
(* A value is its rank under Validator.Select, 0 standing for no record,   *)
(* and only values that pass Validator.Validate are considered: the code   *)
(* treats the others as no record.                                         *)
(***************************************************************************)
EXTENDS Integers, FiniteSets

CONSTANTS
    Nodes,       \* the servers, the local one included
    Writers,     \* who may have a PUT_VALUE under way at a node
    Free,        \* no writer
    Best,        \* the highest rank
    InitialRanks \* what the nodes may hold to begin with: functions from nodes to ranks

Ranks == 1 .. Best

ASSUME RecordsAssumption ==
    /\ IsFiniteSet(Nodes) /\ Free \notin Writers
    /\ Best \in Nat \ {0} /\ InitialRanks \subseteq [Nodes -> 0 .. Best]

VARIABLES
    store,       \* the record of each node: its rank and whether its receive time is too old
    lock,        \* the writer that holds the node's striped lock, or Free
    put,         \* where the PUT_VALUE of a writer is at a node
    seen,        \* the existing record that it read
    deleting     \* nodes whose GET_VALUE handler read a record that is too old

recordVars == <<store, lock, put, seen, deleting>>

PutState == {"idle", "sent", "read", "failed"}

RecordsTypeOK ==
    /\ store \in [Nodes -> [rank : 0 .. Best, old : BOOLEAN]]
    /\ lock \in [Nodes -> Writers \cup {Free}]
    /\ put \in [Writers -> [Nodes -> PutState]]
    /\ seen \in [Writers -> [Nodes -> 0 .. Best]]
    /\ deleting \subseteq Nodes

record(rank) == [rank |-> rank, old |-> FALSE]

noRecord == record(0)

RecordsInit ==
    /\ \E f \in InitialRanks : store = [n \in Nodes |-> record(f[n])]
    /\ lock = [n \in Nodes |-> Free]
    /\ put = [w \in Writers |-> [n \in Nodes |-> "idle"]]
    /\ seen = [w \in Writers |-> [n \in Nodes |-> 0]]
    /\ deleting = {}

setPut(w, n, st) == put' = [put EXCEPT ![w][n] = st]

(* Mutant: the striped lock is not taken.                                  *)
putReadUnlocked(w, n) ==
    /\ put[w][n] = "sent"
    /\ seen' = [seen EXCEPT ![w][n] = store[n].rank]
    /\ setPut(w, n, "read")
    /\ UNCHANGED <<store, lock, deleting>>

(* handlePutValue takes the lock of the key and reads the existing record, *)
(* whatever its age.                                                       *)
putRead(w, n) ==
    /\ put[w][n] = "sent" /\ lock[n] = Free
    /\ lock' = [lock EXCEPT ![n] = w]
    /\ seen' = [seen EXCEPT ![w][n] = store[n].rank]
    /\ setPut(w, n, "read")
    /\ UNCHANGED <<store, deleting>>

(* Then it stores the new one, with its receive time, unless Select        *)
(* prefers the old one, and the deferred Unlock runs.  The datastore may   *)
(* fail.                                                                   *)
putWrite(w, n, rank) ==
    /\ put[w][n] = "read"
    /\ lock' = [lock EXCEPT ![n] = Free]
    /\ setPut(w, n, "idle")
    /\ store' = IF rank \geq seen[w][n] THEN [store EXCEPT ![n] = record(rank)] ELSE store
    /\ seen' = [seen EXCEPT ![w][n] = 0]
    /\ UNCHANGED deleting

(* The request or its response is lost, or the datastore fails.            *)
putFails(w, n) ==
    /\ put[w][n] \in {"sent", "read"}
    /\ lock' = [lock EXCEPT ![n] = IF @ = w THEN Free ELSE @]
    /\ setPut(w, n, "failed")
    /\ seen' = [seen EXCEPT ![w][n] = 0]
    /\ UNCHANGED <<store, deleting>>

(* checkLocalDatastore: what a GET_VALUE finds.  A record that is too old  *)
(* counts as none and is deleted afterwards, without the lock.             *)
getFinds(n) == IF store[n].old THEN 0 ELSE store[n].rank

getRead(n) ==
    /\ deleting' = IF store[n].old THEN deleting \cup {n} ELSE deleting
    /\ UNCHANGED <<store, lock, put, seen>>

getDelete(n) ==
    /\ n \in deleting
    /\ store' = [store EXCEPT ![n] = noRecord]
    /\ deleting' = deleting \ {n}
    /\ UNCHANGED <<lock, put, seen>>

(* maxRecordAge passes.                                                    *)
Ages(n) ==
    /\ store[n].rank # 0 /\ ~store[n].old
    /\ store' = [store EXCEPT ![n].old = TRUE]
    /\ UNCHANGED <<lock, put, seen, deleting>>

(* getLocal and putLocal, which the node itself uses without the lock.     *)
getLocal(n) == store[n].rank

putLocal(n, rank) == store' = [store EXCEPT ![n] = record(rank)]
=============================================================================
