---------------------------- MODULE ValueSearch ----------------------------
(***************************************************************************)
(* PutValue, GetValue and SearchValue of routing.go, run by one node over  *)
(* the servers of ValueRecords.  The lookup is abstracted to what its      *)
(* query function sees (the module Lookup has the rest): up to Alpha       *)
(* queries at a time, each peer once, no new one after the stop function   *)
(* has answered true to an update, the end of the run only when no query   *)
(* is under way, and a followup that asks some peers again.                *)
(***************************************************************************)
EXTENDS ValueRecords, Sequences

CONSTANTS
    Self,
    Alpha,
    Quorums,     \* the values of the Quorum option: 0 asks for every value
    ClosestPeers, \* what the lookup of PutValue finds
    MaxAged,     \* records that grow too old
    MaxFailures  \* requests that fail

Servers == Nodes \ {Self}

ASSUME SearchAssumption ==
    /\ Self \in Nodes /\ ClosestPeers \subseteq Servers /\ Alpha \in Nat \ {0} /\ Quorums \subseteq Nat
    /\ MaxAged \in Nat /\ MaxFailures \in Nat
    /\ Writers = {"user", "fix"}

VARIABLES
    user,        \* PutValue: where it is, what it writes, what getLocal found
    aged,        \* how many records have grown too old
    failures,    \* how many requests have failed
    ctxDone,     \* the search's context
    quorum,      \* responsesNeeded
    search,      \* where the goroutine of SearchValue is
    best, peersWithBest, numResponses,
    out,         \* the values streamed to the caller
    stopCh,      \* closed
    valCh,       \* the channel between the queries and the search
    worker,      \* the query of each peer
    val,         \* the value it found
    lookup,      \* "run", "followup", with "Stopped" after stopFn was true; "ended" when
                 \* the result is sent and valCh closed, "noPeers" when there is no result
    lookupRes    \* the peers of the result

searchVars == <<ctxDone, quorum, search, best, peersWithBest, numResponses, out, stopCh, valCh,
                worker, val, lookup, lookupRes>>
vars == <<store, lock, put, seen, deleting, user, aged, failures, ctxDone, quorum, search,
          best, peersWithBest, numResponses, out, stopCh, valCh, worker, val, lookup, lookupRes>>

Message == [val : Ranks, from : Nodes]

TypeOK ==
    /\ RecordsTypeOK
    /\ user \in [pc : {"idle", "compare", "lookup", "done"}, rank : Ranks, old : 0 .. Best]
    /\ aged \in 0 .. MaxAged /\ failures \in 0 .. MaxFailures
    /\ ctxDone \in BOOLEAN /\ stopCh \in BOOLEAN
    /\ quorum \in Quorums \cup {0}
    /\ search \in {"idle", "loop", "emit", "emitQuorum", "await", "fix", "done"}
    /\ best \in 0 .. Best
    /\ peersWithBest \subseteq Nodes
    /\ numResponses \in 0 .. 2 * Cardinality(Nodes)
    /\ out \in Seq(Ranks)
    /\ valCh \in Seq(Message) /\ Len(valCh) \leq 1
    /\ worker \in [Servers -> {"idle", "asked", "send", "done", "failed"}]
    /\ val \in [Servers -> 0 .. Best]
    /\ lookup \in {"run", "runStopped", "followup", "followupStopped", "ended", "noPeers"}
    /\ lookupRes \subseteq Servers

Init ==
    /\ RecordsInit
    /\ user = [pc |-> "idle", rank |-> 1, old |-> 0]
    /\ aged = 0 /\ failures = 0
    /\ ctxDone = FALSE /\ stopCh = FALSE
    /\ search = "idle" /\ quorum = 0
    /\ best = 0 /\ peersWithBest = {} /\ numResponses = 0
    /\ out = <<>> /\ valCh = <<>>
    /\ worker = [s \in Servers |-> "idle"]
    /\ val = [s \in Servers |-> 0]
    /\ lookup = "run"
    /\ lookupRes = {}

-----------------------------------------------------------------------------
(* PutValue.                                                               *)

PutValue ==
    /\ user.pc = "idle"
    /\ \E r \in Ranks : user' = [pc |-> "compare", rank |-> r, old |-> getLocal(Self)]
    /\ UNCHANGED <<recordVars, aged, failures, searchVars>>

(* An older value than the local one is refused; else the new one is       *)
(* stored locally, by a second access that the read above is not tied to.  *)
PutCompare ==
    /\ user.pc = "compare"
    /\ \/ /\ user.rank < user.old
          /\ user' = [user EXCEPT !.pc = "done", !.old = 0]
          /\ UNCHANGED store
       \/ /\ user.rank \geq user.old
          /\ putLocal(Self, user.rank)
          /\ user' = [user EXCEPT !.pc = "lookup", !.old = 0]
    /\ UNCHANGED <<lock, put, seen, deleting, aged, failures, searchVars>>

(* GetClosestPeers, which may fail, and one goroutine per peer; PutValue   *)
(* returns when they are done.                                             *)
PutToPeers ==
    /\ user.pc = "lookup"
    /\ user' = [user EXCEPT !.pc = "done"]
    /\ \/ UNCHANGED put
       \/ put' = [put EXCEPT !["user"] =
                      [n \in Nodes |-> IF n \in ClosestPeers THEN "sent" ELSE "idle"]]
    /\ UNCHANGED <<store, lock, seen, deleting, aged, failures, searchVars>>

-----------------------------------------------------------------------------
(* The servers: every PUT_VALUE goes through handlePutValue.               *)

rankOf(w, n) == IF w = "user" THEN user.rank ELSE best

handlePutValue(w, n) ==
    /\ \/ putRead(w, n) /\ UNCHANGED failures
       \/ putWrite(w, n, rankOf(w, n)) /\ UNCHANGED failures
       \/ putFails(w, n) /\ failures < MaxFailures /\ failures' = failures + 1
    /\ UNCHANGED <<user, aged, searchVars>>

handleGetValueDeletes(n) ==
    /\ getDelete(n)
    /\ UNCHANGED <<user, aged, failures, searchVars>>

RecordAges(n) ==
    /\ aged < MaxAged
    /\ aged' = aged + 1
    /\ Ages(n)
    /\ UNCHANGED <<user, failures, searchVars>>

-----------------------------------------------------------------------------
(* getValues: the local value goes into the channel's buffer first, then   *)
(* the lookup runs.                                                        *)
SearchValue ==
    /\ search = "idle"
    /\ search' = "loop"
    /\ quorum' \in Quorums
    /\ valCh' = IF getLocal(Self) = 0 THEN <<>> ELSE <<[val |-> getLocal(Self), from |-> Self]>>
    /\ UNCHANGED <<recordVars, user, aged, failures, ctxDone, best, peersWithBest, numResponses, out,
                   stopCh, worker, val, lookup, lookupRes>>

active(s) == worker[s] \in {"asked", "send"}

Ask(s) ==
    /\ search # "idle" /\ lookup = "run" /\ ~ctxDone
    /\ worker[s] = "idle"
    /\ Cardinality({t \in Servers : active(t)}) < Alpha
    /\ worker' = [worker EXCEPT ![s] = "asked"]
    /\ UNCHANGED <<quorum, recordVars, user, aged, failures, ctxDone, search, best, peersWithBest,
                   numResponses, out, stopCh, valCh, val, lookup, lookupRes>>

(* A query has ended: the lookup takes its update and asks stopFn.         *)
ends(s, st) ==
    /\ worker' = [worker EXCEPT ![s] = st]
    /\ lookup' = CASE lookup = "run" /\ stopCh -> "runStopped"
                   [] lookup = "followup" /\ stopCh -> "followupStopped"
                   [] OTHER -> lookup

(* The server answers: with its record, which the query sends on, or with  *)
(* none.                                                                   *)
Answer(s) ==
    /\ worker[s] = "asked"
    /\ getRead(s)
    /\ val' = [val EXCEPT ![s] = getFinds(s)]
    /\ IF getFinds(s) = 0 THEN ends(s, "done")
       ELSE worker' = [worker EXCEPT ![s] = "send"] /\ UNCHANGED lookup
    /\ UNCHANGED <<quorum, user, aged, failures, ctxDone, search, best, peersWithBest, numResponses, out,
                   stopCh, valCh, lookupRes>>

(* A query fails, or a send is given up because the context has ended: the *)
(* caller's in the run, whose queries do not see the lookup's termination, *)
(* and in the followup also the one that is cancelled after stopFn.        *)
AskFails(s) ==
    /\ \/ worker[s] = "asked" /\ failures < MaxFailures /\ failures' = failures + 1
       \/ active(s) /\ (ctxDone \/ lookup = "followupStopped") /\ UNCHANGED failures
    /\ ends(s, "failed")
    /\ UNCHANGED <<quorum, recordVars, user, aged, ctxDone, search, best, peersWithBest,
                   numResponses, out, stopCh, valCh, val, lookupRes>>

(* Mutant: the send does not wait for room in the channel.                 *)
SendValUnblocked(s) ==
    /\ worker[s] = "send"
    /\ valCh' = Append(valCh, [val |-> val[s], from |-> s])
    /\ ends(s, "done")
    /\ UNCHANGED <<quorum, recordVars, user, aged, failures, ctxDone, search, best, peersWithBest,
                   numResponses, out, stopCh, val, lookupRes>>

SendVal(s) ==
    /\ worker[s] = "send"
    /\ valCh = <<>>
    /\ valCh' = <<[val |-> val[s], from |-> s]>>
    /\ ends(s, "done")
    /\ UNCHANGED <<quorum, recordVars, user, aged, failures, ctxDone, search, best, peersWithBest,
                   numResponses, out, stopCh, val, lookupRes>>

noneActive == \A s \in Servers : ~active(s)

(* The run is over: stopped, cancelled, or enough peers have answered.     *)
(* The result holds the peers that did not fail.  A followup asks those    *)
(* that were only heard of, and again those whose query the run did not    *)
(* wait for before it terminated.                                          *)
RunEnds ==
    /\ search # "idle" /\ lookup \in {"run", "runStopped"} /\ noneActive
    /\ lookupRes' = {s \in Servers : worker[s] # "failed"}
    /\ \/ /\ stopCh \/ ctxDone
          /\ lookup' = "ended"
          /\ UNCHANGED worker
       \/ /\ ~stopCh /\ ~ctxDone
          /\ \E s \in Servers : worker[s] # "idle"
          /\ \E again \in SUBSET {s \in Servers : worker[s] = "done"} :
                 LET F == again \cup {s \in Servers : worker[s] = "idle"} IN
                 /\ lookup' = IF F = {} THEN "ended" ELSE "followup"
                 /\ worker' = [s \in Servers |-> IF s \in F THEN "asked" ELSE worker[s]]
    /\ UNCHANGED <<quorum, recordVars, user, aged, failures, ctxDone, search, best, peersWithBest,
                   numResponses, out, stopCh, valCh, val>>

FollowupEnds ==
    /\ lookup \in {"followup", "followupStopped"} /\ noneActive
    /\ lookup' = "ended"
    /\ UNCHANGED <<quorum, recordVars, user, aged, failures, ctxDone, search, best, peersWithBest,
                   numResponses, out, stopCh, valCh, worker, val, lookupRes>>

(* The routing table is empty: the lookup fails at once.                   *)
LookupFails ==
    /\ search # "idle" /\ lookup = "run"
    /\ \A s \in Servers : worker[s] = "idle"
    /\ lookup' = "noPeers"
    /\ UNCHANGED <<quorum, recordVars, user, aged, failures, ctxDone, search, best, peersWithBest,
                   numResponses, out, stopCh, valCh, worker, val, lookupRes>>

-----------------------------------------------------------------------------
(* processValues with the callback of searchValueQuorum.                   *)

(* Mutant: a value that is not better replaces the best one.               *)
betterAny(v) == best = 0 \/ v # best

better(v) == best = 0 \/ v > best

quorumReached == quorum > 0 /\ numResponses' > quorum

(* Mutant: a better value does not reset the set of peers that have it.    *)
peersWithKept(m) == peersWithBest \cup {m.from}

peersWith(m) ==
    IF better(m.val) THEN {m.from}
    ELSE IF m.val = best THEN peersWithBest \cup {m.from} ELSE peersWithBest

Receive ==
    /\ search = "loop" /\ valCh # <<>>
    /\ LET m == Head(valCh) IN
           /\ numResponses' = numResponses + 1
           /\ best' = IF better(m.val) THEN m.val ELSE best
           /\ peersWithBest' = peersWith(m)
           /\ \/ /\ better(m.val)
                 /\ search' = IF quorumReached THEN "emitQuorum" ELSE "emit"
                 /\ UNCHANGED stopCh
              \/ /\ ~better(m.val)
                 /\ search' = IF quorumReached THEN "done" ELSE "loop"
                 /\ stopCh' = quorumReached
    /\ valCh' = <<>>
    /\ UNCHANGED <<quorum, recordVars, user, aged, failures, ctxDone, out, worker, val, lookup, lookupRes>>

(* The caller takes a better value; then the quorum is checked.            *)
Emit ==
    /\ search \in {"emit", "emitQuorum"}
    /\ out' = Append(out, best)
    /\ search' = IF search = "emitQuorum" THEN "done" ELSE "loop"
    /\ stopCh' = (search = "emitQuorum")
    /\ UNCHANGED <<quorum, recordVars, user, aged, failures, ctxDone, best, peersWithBest, numResponses,
                   valCh, worker, val, lookup, lookupRes>>

(* Mutant: a lookup that fails does not close valCh.                       *)
ValuesEndOfResult ==
    /\ search = "loop"
    /\ ctxDone \/ (valCh = <<>> /\ lookup = "ended")
    /\ search' = IF best = 0 THEN "done" ELSE "await"
    /\ UNCHANGED <<quorum, recordVars, user, aged, failures, ctxDone, best, peersWithBest, numResponses, out,
                   stopCh, valCh, worker, val, lookup, lookupRes>>

(* Every value is in, or the context has ended: the search goes on to the  *)
(* lookup's result.                                                        *)
ValuesEnd ==
    /\ search = "loop"
    /\ ctxDone \/ (valCh = <<>> /\ lookup \in {"ended", "noPeers"})
    /\ search' = IF best = 0 THEN "done" ELSE "await"
    /\ UNCHANGED <<quorum, recordVars, user, aged, failures, ctxDone, best, peersWithBest, numResponses, out,
                   stopCh, valCh, worker, val, lookup, lookupRes>>

(* updatePeerValues: a goroutine per peer that is not known to have the    *)
(* best value.                                                             *)
updatePeerValues ==
    /\ search = "await" /\ lookup = "ended"
    /\ search' = "fix"
    /\ put' = [put EXCEPT !["fix"] =
                  [n \in Nodes |-> IF n \in lookupRes \ peersWithBest THEN "sent" ELSE "idle"]]
    /\ UNCHANGED <<quorum, store, lock, seen, deleting, user, aged, failures, ctxDone, best, peersWithBest,
                   numResponses, out, stopCh, valCh, worker, val, lookup, lookupRes>>

(* out is closed: nothing to update, or the updates have been started.     *)
OutCloses ==
    /\ \/ search = "fix"
       \/ search = "await" /\ (ctxDone \/ lookup = "noPeers")
    /\ search' = "done"
    /\ UNCHANGED <<quorum, recordVars, user, aged, failures, ctxDone, best, peersWithBest, numResponses, out,
                   stopCh, valCh, worker, val, lookup, lookupRes>>

(* The context ends while the caller does not take a value: the value is   *)
(* dropped, and the quorum is not checked.                                 *)
EmitAborted ==
    /\ search \in {"emit", "emitQuorum"} /\ ctxDone
    /\ search' = "loop"
    /\ UNCHANGED <<quorum, recordVars, user, aged, failures, ctxDone, best, peersWithBest, numResponses, out,
                   stopCh, valCh, worker, val, lookup, lookupRes>>

Cancel ==
    /\ search # "idle" /\ ~ctxDone
    /\ ctxDone' = TRUE
    /\ UNCHANGED <<quorum, recordVars, user, aged, failures, search, best, peersWithBest, numResponses, out,
                   stopCh, valCh, worker, val, lookup, lookupRes>>

-----------------------------------------------------------------------------
UserPut == PutValue \/ PutCompare \/ PutToPeers

Lookup ==
    \/ \E s \in Servers : Ask(s) \/ Answer(s) \/ AskFails(s) \/ SendVal(s)
    \/ RunEnds \/ FollowupEnds \/ LookupFails

Search == Receive \/ Emit \/ EmitAborted \/ ValuesEnd \/ updatePeerValues \/ OutCloses

Next ==
    \/ UserPut \/ SearchValue \/ Lookup \/ Search \/ Cancel
    \/ \E n \in Nodes :
           \/ \E w \in Writers : handlePutValue(w, n)
           \/ handleGetValueDeletes(n) \/ RecordAges(n)

Spec == Init /\ [][Next]_vars

(* Goroutines that can run do run, every request is answered or fails, and *)
(* the caller reads what is streamed to it.                                *)
FairSpec ==
    /\ Spec
    /\ WF_vars(Search)
    /\ WF_vars(RunEnds \/ FollowupEnds)
    /\ \A s \in Servers : WF_vars(Ask(s)) /\ WF_vars(Answer(s) \/ AskFails(s) \/ SendVal(s))

-----------------------------------------------------------------------------
(* Properties.                                                             *)

(* Among concurrent PUT_VALUE requests to a server, of users and of        *)
(* corrections, a record is never replaced by a worse one: the striped     *)
(* lock holds from the read of the existing record to the write.           *)
neverWorse(n) == store'[n].rank # 0 => store'[n].rank \geq store[n].rank

NewestStays == [][\A s \in Servers : neverWorse(s)]_vars

(* What the caller of SearchValue reads gets better and better, and when   *)
(* the search ends on its own the last value is the best one that any      *)
(* server answered with.                                                   *)
BestReturned ==
    /\ \A i, j \in DOMAIN out : i < j => out[i] < out[j]
    /\ search = "done" /\ ~ctxDone /\ ~stopCh /\ best # 0 =>
           /\ out # <<>> /\ out[Len(out)] = best
           /\ \A s \in Servers : worker[s] = "done" => val[s] \leq best

(* When a search ends on its own, every peer of the lookup's result ends   *)
(* up with the best value or a better one, unless the correction that it   *)
(* is sent fails or its record has grown too old.                          *)
Corrected ==
    search = "done" /\ ~ctxDone /\ ~stopCh /\ aged = 0 =>
        \A s \in lookupRes : put["fix"][s] = "idle" => store[s].rank \geq best

(* SearchValue closes its channel, also when the quorum ends it while      *)
(* queries are still sending and when the context is cancelled.            *)
SearchReturns == search # "idle" ~> search = "done"
=============================================================================
