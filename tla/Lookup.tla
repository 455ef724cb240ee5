------------------------------- MODULE Lookup -------------------------------
(***************************************************************************)
(* One iterative Kademlia lookup with its followup: query.go (the query    *)
(* type and runLookupWithFollowup) over qpeerset/qpeerset.go.              *)
(*                                                                         *)
(* Processes: the goroutine that calls runLookupWithFollowup (the run loop *)
(* and then the followup loop), one queryPeer goroutine per spawned query, *)
(* one goroutine per followup, and an environment that may cancel the      *)
(* caller's context or change what the stop function answers.              *)
(*                                                                         *)
(* A peer is represented by its XOR distance to the target key.  XOR       *)
(* distance to a fixed key is injective, so peers and distances are in     *)
(* bijection and "closer" is < on naturals.                                *)
(***************************************************************************)
EXTENDS Integers, FiniteSets, Sequences

CONSTANTS
    Peers,       \* distances of the peers that exist in the network
    Self,        \* the local peer (it may show up in responses)
    Target,      \* the peer whose ID is the lookup key, if there is one
    Allowed,     \* the peers that pass dht.queryPeerFilter
    Responses,   \* Responses[p]: the lists of closer peers p may answer with
    Faulty,      \* peers that may fail to dial or answer, or answer anything
    Alpha,       \* dht.alpha, the concurrency
    Beta,        \* dht.beta, the resiliency
    K            \* dht.bucketSize

(* dht.New validates none of Alpha, Beta and K; Alpha = 0 would block the  *)
(* very first send of run() (query.go:285).                                *)
ASSUME PeersAssumption ==
    /\ Peers \subseteq Nat
    /\ IsFiniteSet(Peers)
    /\ Allowed \subseteq Peers
    /\ Faulty \subseteq Peers
    /\ Responses \in [Peers -> SUBSET SUBSET Peers]

ASSUME ParametersAssumption ==
    /\ Alpha \in Nat \ {0}
    /\ Beta \in Nat
    /\ K \in Nat \ {0}

(* The peers a lookup can use.                                             *)
Usable == {p \in Peers : p # Self /\ (p = Target \/ p \in Allowed)}

Good == Peers \ (Faulty \cup {Self})

(* Peers that a lookup would never follow count as faulty, and the others  *)
(* have Kademlia's routing property: a peer that is not the closest good   *)
(* one names a good peer closer than itself.                               *)
ASSUME ProgressAssumption ==
    /\ Good \subseteq Usable
    /\ \A p \in Good : (\E g \in Good : g < p) =>
           \A r \in Responses[p] : \E g \in Good : g \in r /\ g < p

VARIABLES
    ctxDone,     \* the caller's context has been cancelled
    stop,        \* what stopFn answers now
    rt,          \* the routing table's peers
    seeds,       \* q.seedPeers
    qps,         \* q.queryPeers: peer -> state, "Unknown" if not in the set
    ch,          \* the buffered update channel of run()
    pc,          \* queryPeer goroutine of each peer
    msg,         \* the update a goroutine is about to send
    reason,      \* "none" while the lookup runs, else why it terminated
    phase,       \* where runLookupWithFollowup is
    panicked,    \* updateState hit one of its panics
    peers,       \* lookupRes.peers
    completed,   \* lookupRes.completed
    fu,          \* followup goroutine of each peer
    doneCh,      \* tokens in the followup's doneCh
    received     \* followupsCompleted, which is also the loop index

vars == <<ctxDone, stop, rt, seeds, qps, ch, pc, msg, reason, phase, panicked,
          peers, completed, fu, doneCh, received>>

loopVars   == <<seeds, qps, ch, reason, panicked>>
resultVars == <<peers, completed, fu, doneCh, received>>

PeerState == {"Unknown", "Heard", "Waiting", "Queried", "Unreachable"}

(* cause, the peers heard of, and what became of the peer queried.         *)
Update == [cause : Peers \cup {Self}, heard : SUBSET Peers,
           outcome : {"seed", "Queried", "Unreachable"}]

noUpdate == [cause |-> Self, heard |-> {}, outcome |-> "seed"]

GoroutineState == {"idle", "dial", "dialFailed", "dialAborted", "query",
                   "queryFailed", "queryAborted", "send", "done"}

TypeOK ==
    /\ ctxDone \in BOOLEAN /\ stop \in BOOLEAN /\ panicked \in BOOLEAN
    /\ rt \subseteq Peers /\ seeds \subseteq Peers
    /\ qps \in [Peers -> PeerState]
    /\ ch \in Seq(Update)
    /\ pc \in [Peers -> GoroutineState]
    /\ msg \in [Peers -> Update]
    /\ reason \in {"none", "LookupStopped", "LookupCancelled",
                   "LookupStarvation", "LookupCompleted"}
    /\ phase \in {"start", "run", "wait", "result", "followup", "drain", "returned", "noPeers"}
    /\ peers \subseteq Peers
    /\ completed \in BOOLEAN
    /\ fu \in [Peers -> {"idle", "query", "done"}]
    /\ doneCh \in Nat /\ received \in Nat

-----------------------------------------------------------------------------
(* qpeerset.go.  The set of peers returned stands for the sorted slice: its *)
(* order is the order of the naturals.                                      *)

InStates(f, states) == {p \in Peers : f[p] \in states}

ClosestN(n, S) == {p \in S : Cardinality({q \in S : q < p}) < n}

GetClosestNInStates(f, n, states) == ClosestN(n, InStates(f, states))

NumWaiting(f) == Cardinality(InStates(f, {"Waiting"}))

(* Mutant: TryAdd without the check that the peer is already in the set.    *)
TryAddAllOverwrites(f, heard) ==
    [p \in Peers |-> IF p \in heard \ {Self} THEN "Heard" ELSE f[p]]

TryAddAll(f, heard) ==
    [p \in Peers |-> IF p \in heard \ {Self} /\ f[p] = "Unknown" THEN "Heard" ELSE f[p]]

SetState(f, S, st) == [p \in Peers |-> IF p \in S THEN st ELSE f[p]]

-----------------------------------------------------------------------------
(* The termination conditions.                                              *)

(* Mutant: one peer fewer than beta must have answered.                     *)
isLookupTerminationOneShort(f) ==
    \A p \in GetClosestNInStates(f, Beta - 1, {"Heard", "Waiting", "Queried"}) : f[p] = "Queried"

isLookupTermination(f) ==
    \A p \in GetClosestNInStates(f, Beta, {"Heard", "Waiting", "Queried"}) : f[p] = "Queried"

isStarvationTermination(f) == InStates(f, {"Heard", "Waiting"}) = {}

(* isReadyToTerminate: "none" stands for ready = false.                     *)
readyReason(f) ==
    IF stop THEN "LookupStopped"
    ELSE IF isStarvationTermination(f) THEN "LookupStarvation"
    ELSE IF isLookupTermination(f) THEN "LookupCompleted"
    ELSE "none"

(* updateState.  heard is applied before the queried or unreachable peer is *)
(* looked up, and both panics need that peer in state Waiting.              *)
stateAfter(up) ==
    LET f == TryAddAll(qps, up.heard)
    IN  IF up.outcome = "seed" \/ up.cause = Self THEN f ELSE SetState(f, {up.cause}, up.outcome)

updatePanics(up) ==
    /\ up.outcome # "seed" /\ up.cause # Self
    /\ TryAddAll(qps, up.heard)[up.cause] # "Waiting"

-----------------------------------------------------------------------------
Init ==
    /\ ctxDone = FALSE /\ stop = FALSE /\ panicked = FALSE
    /\ rt \in SUBSET (Peers \ {Self})
    /\ seeds = {} /\ peers = {} /\ completed = FALSE
    /\ qps = [p \in Peers |-> "Unknown"]
    /\ ch = <<>>
    /\ pc = [p \in Peers |-> "idle"]
    /\ msg = [p \in Peers |-> noUpdate]
    /\ reason = "none" /\ phase = "start"
    /\ fu = [p \in Peers |-> "idle"]
    /\ doneCh = 0 /\ received = 0

(* The caller cancels its context.                                          *)
Cancel ==
    /\ ~ctxDone
    /\ ctxDone' = TRUE
    /\ UNCHANGED <<stop, rt, loopVars, pc, msg, phase, resultVars>>

(* The stop function is the caller's, and need not be sticky.               *)
ChangeStop ==
    /\ stop' = ~stop
    /\ UNCHANGED <<ctxDone, rt, loopVars, pc, msg, phase, resultVars>>

-----------------------------------------------------------------------------
(* runQuery picks the seeds; run() puts them in its channel first.          *)
StartQuery ==
    /\ phase = "start"
    /\ seeds' = ClosestN(K, rt)
    /\ IF rt = {}
       THEN phase' = "noPeers" /\ ch' = ch
       ELSE phase' = "run" /\ ch' = <<[cause |-> Self, heard |-> seeds', outcome |-> "seed"]>>
    /\ UNCHANGED <<ctxDone, stop, rt, qps, reason, panicked, pc, msg, resultVars>>

(* pathCtx is done when the caller's context is, or once terminate has      *)
(* called cancelPath.                                                       *)
pathDone == ctxDone \/ reason # "none"

(* The second half of an iteration of run(): terminate and wait for the     *)
(* goroutines, or spawn queries to the closest heard peers.  f is the       *)
(* peerset after the first half and early the reason it terminated for.     *)
finishIteration(f, early) ==
    LET why == IF early # "none" THEN early ELSE readyReason(f)
        new == GetClosestNInStates(f, Alpha - NumWaiting(f), {"Heard"})
    IN  /\ reason' = why
        /\ \/ /\ why # "none"
              /\ phase' = "wait" /\ qps' = f /\ pc' = pc
           \/ /\ why = "none"
              /\ phase' = phase
              /\ qps' = SetState(f, new, "Waiting")
              /\ pc' = [p \in Peers |-> IF p \in new THEN "dial" ELSE pc[p]]

(* case update := <-ch.  A panic ends the process: what the step does to    *)
(* the other variables then has no meaning, and the loop takes no other.    *)
ReceiveUpdate ==
    /\ phase = "run" /\ ~panicked /\ ch # <<>>
    /\ ch' = Tail(ch)
    /\ panicked' = updatePanics(Head(ch))
    /\ finishIteration(stateAfter(Head(ch)), "none")
    /\ UNCHANGED <<ctxDone, stop, rt, seeds, msg, resultVars>>

(* case <-pathCtx.Done()                                                    *)
PathCancelled ==
    /\ phase = "run" /\ ~panicked /\ pathDone
    /\ finishIteration(qps, "LookupCancelled")
    /\ UNCHANGED <<ctxDone, stop, rt, seeds, ch, msg, panicked, resultVars>>

-----------------------------------------------------------------------------
(* queryPeer(p)                                                             *)

goTo(p, where) == pc' = [pc EXCEPT ![p] = where]

unreachable(p) == [cause |-> p, heard |-> {}, outcome |-> "Unreachable"]

(* dialPeer runs under pathCtx: it succeeds, fails, or is aborted.          *)
Dial(p) ==
    /\ pc[p] = "dial"
    /\ \/ goTo(p, "query")
       \/ p \in Faulty /\ goTo(p, "dialFailed")
       \/ pathDone /\ goTo(p, "dialAborted")
    /\ UNCHANGED <<ctxDone, stop, rt, loopVars, msg, phase, resultVars>>

(* Mutant: no return after the update that reports a dial error.            *)
DialErrorFallsThrough(p) ==
    /\ pc[p] \in {"dialFailed", "dialAborted"}
    /\ rt' = IF pathDone THEN rt ELSE rt \ {p}
    /\ ch' = Append(ch, unreachable(p))
    /\ goTo(p, "query")
    /\ UNCHANGED <<ctxDone, stop, qps, seeds, msg, reason, panicked, phase, resultVars>>

(* Mutant: a dial error evicts the peer whatever caused it.                 *)
DialErrorAlwaysEvicts(p) ==
    /\ pc[p] \in {"dialFailed", "dialAborted"}
    /\ rt' = rt \ {p}
    /\ msg' = [msg EXCEPT ![p] = unreachable(p)]
    /\ goTo(p, "send")
    /\ UNCHANGED <<ctxDone, stop, loopVars, phase, resultVars>>

(* Mutant: a goroutine that fails to dial returns without an update.        *)
DialErrorUnreported(p) ==
    /\ pc[p] \in {"dialFailed", "dialAborted"}
    /\ rt' = IF pathDone THEN rt ELSE rt \ {p}
    /\ goTo(p, "done")
    /\ UNCHANGED <<ctxDone, stop, loopVars, msg, phase, resultVars>>

(* Only a failure seen while dialCtx is live removes p from the table.      *)
DialError(p) ==
    /\ pc[p] \in {"dialFailed", "dialAborted"}
    /\ rt' = IF pathDone THEN rt ELSE rt \ {p}
    /\ msg' = [msg EXCEPT ![p] = unreachable(p)]
    /\ goTo(p, "send")
    /\ UNCHANGED <<ctxDone, stop, loopVars, phase, resultVars>>

(* queryFn runs under q.ctx, which cancelPath does not cancel.              *)
QueryFails(p) ==
    /\ pc[p] = "query"
    /\ \/ p \in Faulty /\ goTo(p, "queryFailed")
       \/ ctxDone /\ goTo(p, "queryAborted")
    /\ UNCHANGED <<ctxDone, stop, rt, loopVars, msg, phase, resultVars>>

QueryError(p) ==
    /\ pc[p] \in {"queryFailed", "queryAborted"}
    /\ rt' = IF ctxDone THEN rt ELSE rt \ {p}
    /\ msg' = [msg EXCEPT ![p] = unreachable(p)]
    /\ goTo(p, "send")
    /\ UNCHANGED <<ctxDone, stop, loopVars, phase, resultVars>>

(* A response.  validPeerFound offers p to the routing table, whose bucket  *)
(* may be full; of the closer peers only the usable ones are reported.      *)
QueryAnswers(p) ==
    /\ pc[p] = "query"
    /\ rt' \in {rt, rt \cup {p}}
    /\ \E newPeers \in Responses[p] :
          msg' = [msg EXCEPT ![p] = [cause |-> p, heard |-> newPeers \cap Usable,
                                     outcome |-> "Queried"]]
    /\ goTo(p, "send")
    /\ UNCHANGED <<ctxDone, stop, loopVars, phase, resultVars>>

(* ch <- update blocks while the channel is full, whoever reads it.         *)
SendUpdate(p) ==
    /\ pc[p] = "send" /\ Len(ch) < Alpha
    /\ ch' = Append(ch, msg[p])
    /\ msg' = [msg EXCEPT ![p] = noUpdate]
    /\ goTo(p, "done")
    /\ UNCHANGED <<ctxDone, stop, rt, seeds, qps, reason, panicked, phase, resultVars>>

-----------------------------------------------------------------------------
(* waitGroup.Wait(), then constructLookupResult, which computes completed   *)
(* from the peerset alone and not from the reason the lookup ended.         *)
ConstructLookupResult ==
    /\ phase = "wait"
    /\ \A p \in Peers : pc[p] \in {"idle", "done"}
    /\ peers' = GetClosestNInStates(qps, K, {"Heard", "Waiting", "Queried"})
    /\ completed' = (isLookupTermination(qps) \/ isStarvationTermination(qps))
    /\ phase' = "result"
    /\ UNCHANGED <<ctxDone, stop, rt, loopVars, pc, msg, fu, doneCh, received>>

(* Mutant: a peer whose query was outstanding counts as queried.            *)
queryPeersHeardOnly == {p \in peers : qps[p] = "Heard"}

(* The results that have not been queried successfully.                     *)
queryPeers == {p \in peers : qps[p] \in {"Heard", "Waiting"}}

StartFollowup ==
    /\ phase = "result"
    /\ \/ /\ queryPeers = {}
          /\ phase' = "returned"
          /\ UNCHANGED <<completed, fu>>
       \/ /\ queryPeers # {} /\ (ctxDone \/ stop)
          /\ phase' = "returned"
          /\ completed' = FALSE
          /\ UNCHANGED fu
       \/ /\ queryPeers # {} /\ ~ctxDone /\ ~stop
          /\ phase' = "followup"
          /\ fu' = [p \in Peers |-> IF p \in queryPeers THEN "query" ELSE "idle"]
          /\ UNCHANGED completed
    /\ UNCHANGED <<ctxDone, stop, rt, loopVars, pc, msg, peers, doneCh, received>>

(* queryFn returns, with or without an answer, and doneCh has room for all. *)
FollowupReturns(p) ==
    /\ fu[p] = "query" /\ doneCh < Cardinality(queryPeers)
    /\ fu' = [fu EXCEPT ![p] = "done"]
    /\ doneCh' = doneCh + 1
    /\ UNCHANGED <<ctxDone, stop, rt, loopVars, pc, msg, phase, peers, completed, received>>

(* One iteration of processFollowUp that takes a token of doneCh.           *)
FollowupDone ==
    /\ phase = "followup" /\ doneCh > 0
    /\ doneCh' = doneCh - 1
    /\ received' = received + 1
    /\ completed' = (completed /\ (stop => received' = Cardinality(queryPeers)))
    /\ phase' = IF ~stop /\ received' < Cardinality(queryPeers) THEN phase
                ELSE IF completed' THEN "returned" ELSE "drain"
    /\ UNCHANGED <<ctxDone, stop, rt, loopVars, pc, msg, peers, fu>>

(* Mutant: the cancelled followup returns without draining doneCh.          *)
FollowupCancelledReturns ==
    /\ phase = "followup" /\ ctxDone
    /\ completed' = FALSE
    /\ phase' = "returned"
    /\ UNCHANGED <<ctxDone, stop, rt, loopVars, pc, msg, peers, fu, doneCh, received>>

FollowupCancelled ==
    /\ phase = "followup" /\ ctxDone
    /\ completed' = FALSE
    /\ phase' = "drain"
    /\ UNCHANGED <<ctxDone, stop, rt, loopVars, pc, msg, peers, fu, doneCh, received>>

(* The loop that takes the remaining tokens after an early exit.            *)
Drain ==
    /\ phase = "drain"
    /\ \/ /\ received = Cardinality(queryPeers)
          /\ phase' = "returned"
          /\ UNCHANGED <<doneCh, received>>
       \/ /\ received < Cardinality(queryPeers) /\ doneCh > 0
          /\ doneCh' = doneCh - 1 /\ received' = received + 1
          /\ UNCHANGED phase
    /\ UNCHANGED <<ctxDone, stop, rt, loopVars, pc, msg, peers, completed, fu>>

-----------------------------------------------------------------------------
Caller == \/ StartQuery \/ ReceiveUpdate \/ PathCancelled \/ ConstructLookupResult
          \/ StartFollowup \/ FollowupDone \/ FollowupCancelled \/ Drain

queryPeer(p) == \/ Dial(p) \/ DialError(p) \/ QueryFails(p) \/ QueryError(p)
                \/ QueryAnswers(p) \/ SendUpdate(p)

(* The environment moves even when the lookup is over.                      *)
Next == \/ Caller
        \/ \E p \in Peers : queryPeer(p) \/ FollowupReturns(p)
        \/ Cancel
        \/ ChangeStop

Spec == Init /\ [][Next]_vars

(* Goroutines run, and dials and RPCs end: both have timeouts.              *)
FairSpec == /\ Spec
            /\ WF_vars(Caller)
            /\ \A p \in Peers : WF_vars(queryPeer(p)) /\ WF_vars(FollowupReturns(p))

-----------------------------------------------------------------------------
(* Queries in flight: spawned, and their update not yet in the channel.     *)
inFlight == {p \in Peers : pc[p] \notin {"idle", "done"}}

(* run() leaves its channel unread once the lookup has terminated, and      *)
(* then waits for every queryPeer goroutine.  It returns because the        *)
(* updates in the channel and those still to come never exceed its capacity *)
(* alpha, so that no goroutine is ever stuck in "ch <- update".             *)
ChannelHasRoom == Cardinality(inFlight) + Len(ch) <= Alpha

(* Neither panic of updateState is reachable: no update arrives for a peer  *)
(* that is not Waiting.                                                     *)
NoPanic == ~panicked

(* peerStoppedDHT is called only for peers that really failed: neither the  *)
(* end of the lookup (cancelPath) nor the caller's cancellation evicts the  *)
(* peers whose dials and RPCs it aborts.                                    *)
EvictionsAreFailures ==
    [][\A p \in rt \ rt' : pc[p] \in {"dialFailed", "queryFailed"}]_vars

(* "This ensures that all of the top K results have been queried"           *)
(* (query.go:102): a lookup that reports completed has queried, in the      *)
(* lookup or in the followup, every peer it returns.                        *)
TopKQueried ==
    phase = "returned" /\ completed => \A p \in peers : qps[p] = "Queried" \/ fu[p] = "done"

(* When runLookupWithFollowup returns, no goroutine it started still runs   *)
(* the caller's query function, whichever way the two loops were left.      *)
NothingLeftRunning ==
    phase = "returned" => inFlight = {} /\ doneCh = 0 /\ \A p \in Peers : fu[p] # "query"

(* What beta is for (dht_options.go:191): if fewer than beta peers are      *)
(* faulty, and one of the seeds is not, a lookup that was not cut short has *)
(* found and queried the closest good peer of the whole network.            *)
ClosestGoodFound ==
    /\ Cardinality(Faulty) < Beta /\ seeds \cap Good # {}
    /\ ~ctxDone /\ reason \in {"LookupCompleted", "LookupStarvation"}
    => \A c \in Good : (\A g \in Good : c <= g) => qps[c] = "Queried"

(* runLookupWithFollowup returns, cancelled or not.                         *)
LookupReturns == <>(phase \in {"returned", "noPeers"})
=============================================================================
