---------------------------- MODULE LookupProofs ----------------------------
(***************************************************************************)
(* Proofs about Lookup, for every network, alpha, beta and bucket size.    *)
(*                                                                         *)
(*   QuerySafety   the run loop never panics and its channel never fills   *)
(*   Evictions     only peers that failed leave the routing table          *)
(*   FollowupSafe  what runLookupWithFollowup guarantees when it returns   *)
(*   Resilience    fewer than beta faulty peers cannot hide the closest    *)
(***************************************************************************)
EXTENDS Lookup, FiniteSetTheorems, WellFoundedInduction, TLAPS

-----------------------------------------------------------------------------
(* Sets of distances.                                                      *)

(* A finite nonempty set of distances has a largest element.               *)
LEMMA FiniteMax ==
  ASSUME NEW T, T \subseteq Nat, IsFiniteSet(T), T # {}
  PROVE  \E m \in T : \A q \in T : q <= m
<1> DEFINE Above(p) == {q \in T : p < q}
           Family   == {Above(p) : p \in T}
<1>0. FiniteSubsetsOf(T) = SUBSET T
  BY FS_FiniteSubsetsOfFinite
<1>1. Family \subseteq FiniteSubsetsOf(T) /\ Family # {}
  <2>1. \A p \in T : Above(p) \in SUBSET T
    OBVIOUS
  <2>2. Family \subseteq SUBSET T
    BY <2>1, Zenon
  <2>3. Family # {}
    BY Zenon
  <2> QED
    BY <1>0, <2>2, <2>3
<1>2. PICK A \in Family : \A B \in Family : <<B, A>> \notin StrictSubsetOrdering(T)
  BY Zenon, <1>1, FS_StrictSubsetOrderingWellFounded, WFMin
<1>3. PICK m \in T : A = Above(m)
  BY <1>2
<1>4. ASSUME NEW q \in T, m < q PROVE FALSE
  <2>0. m \in Nat /\ q \in Nat /\ \A x \in T : x \in Nat
    BY <1>3
  <2>1. Above(q) \subseteq Above(m) /\ Above(q) # Above(m)
    <3>1. ASSUME NEW x \in Above(q) PROVE x \in Above(m)
      BY <1>4, <2>0, <3>1
    <3>2. q \in Above(m) /\ q \notin Above(q)
      BY <1>4, <2>0
    <3> QED
      BY <3>1, <3>2, Zenon
  <2>2. <<Above(q), A>> \in StrictSubsetOrdering(T)
    BY <2>1, <1>3 DEF StrictSubsetOrdering
  <2> QED
    BY <2>2, <1>2, Zenon
<1> QED
  BY <1>4

(* A nonempty set of distances has a smallest element.                     *)
LEMMA FiniteMin ==
  ASSUME NEW T, T \subseteq Nat, IsFiniteSet(T), T # {}
  PROVE  \E m \in T : \A q \in T : m <= q
<1> DEFINE Below(p) == {q \in T : q < p}
           Family   == {Below(p) : p \in T}
<1>0. FiniteSubsetsOf(T) = SUBSET T
  BY FS_FiniteSubsetsOfFinite
<1>1. Family \subseteq FiniteSubsetsOf(T) /\ Family # {}
  <2>1. \A p \in T : Below(p) \in SUBSET T
    OBVIOUS
  <2>2. Family \subseteq SUBSET T
    BY <2>1, Zenon
  <2>3. Family # {}
    BY Zenon
  <2> QED
    BY <1>0, <2>2, <2>3
<1>2. PICK A \in Family : \A B \in Family : <<B, A>> \notin StrictSubsetOrdering(T)
  BY <1>1, FS_StrictSubsetOrderingWellFounded, WFMin, Zenon
<1>3. PICK m \in T : A = Below(m)
  BY <1>2
<1>4. ASSUME NEW q \in T, q < m PROVE FALSE
  <2>0. m \in Nat /\ q \in Nat /\ \A x \in T : x \in Nat
    BY <1>3, Zenon
  <2>1. Below(q) \subseteq Below(m) /\ Below(q) # Below(m)
    <3>1. ASSUME NEW x \in Below(q) PROVE x \in Below(m)
      BY <1>4, <2>0, <3>1
    <3>2. q \in Below(m) /\ q \notin Below(q)
      BY <1>4, <2>0
    <3> QED
      BY Zenon, <3>1, <3>2
  <2>2. <<Below(q), A>> \in StrictSubsetOrdering(T)
    BY Zenon, <2>1, <1>3 DEF StrictSubsetOrdering
  <2> QED
    BY <2>2, <1>2, Zenon
<1> QED
  BY <1>4

(* GetClosestNInStates returns at most n peers.                            *)
LEMMA ClosestNBound ==
  ASSUME NEW S, S \subseteq Nat, IsFiniteSet(S), NEW n \in Nat
  PROVE  /\ IsFiniteSet(ClosestN(n, S))
         /\ ClosestN(n, S) \subseteq S
         /\ Cardinality(ClosestN(n, S)) <= n
<1> DEFINE C == ClosestN(n, S)
<1>1. C \subseteq S /\ IsFiniteSet(C)
  BY FS_Subset, Zenon DEF ClosestN
<1>2. CASE C = {}
  BY <1>2, FS_EmptySet
<1>3. CASE C # {}
  <2>1. PICK m \in C : \A q \in C : q <= m
    BY Zenon, <1>1, <1>3, FiniteMax
  <2> DEFINE B == {q \in S : q < m}
  <2>2. IsFiniteSet(B) /\ Cardinality(B) < n /\ Cardinality(B) \in Nat
    BY <2>1, FS_Subset, FS_CardinalityType DEF ClosestN
  <2>3. C \ {m} \subseteq B
    <3>1. \A q \in C : q \in Nat /\ q \in S
      BY <1>1, Zenon
    <3> HIDE DEF C
    <3> QED
      BY <2>1, <3>1
  <2>4. Cardinality(C \ {m}) <= Cardinality(B)
    BY <2>2, <2>3, FS_Subset
  <2>5. Cardinality(C \ {m}) = Cardinality(C) - 1 /\ Cardinality(C) \in Nat
    BY Zenon, <1>1, <2>1, FS_RemoveElement, FS_CardinalityType
  <2> QED
    BY <1>1, <2>2, <2>4, <2>5
<1> QED
  BY Zenon, <1>1, <1>2, <1>3

-----------------------------------------------------------------------------
(* The two halves of an iteration of run().                                 *)

Reasons == {"none", "LookupStopped", "LookupCancelled", "LookupStarvation", "LookupCompleted"}

(* What updateState does to each peer: the peers heard of for the first time *)
(* become Heard, the peer queried leaves Waiting, the others are untouched.  *)
LEMMA StateAfterEffect ==
  ASSUME TypeOK, NEW up \in Update
  PROVE  /\ stateAfter(up) \in [Peers -> PeerState]
         /\ \A p \in Peers :
              \/ p = up.cause /\ p # Self /\ up.outcome # "seed" /\ stateAfter(up)[p] = up.outcome
              \/ /\ p # up.cause \/ p = Self \/ up.outcome = "seed"
                 /\ stateAfter(up)[p] = IF p \in up.heard /\ p # Self /\ qps[p] = "Unknown"
                                        THEN "Heard" ELSE qps[p]
  BY Zenon DEF TypeOK, Update, stateAfter, TryAddAll, SetState, PeerState

(* The end of an iteration either terminates the lookup, leaving the peerset *)
(* as it is, or moves some Heard peers to Waiting and starts their goroutine *)
(* without exceeding alpha.                                                  *)
LEMMA IterationEffect ==
  ASSUME NEW f \in [Peers -> PeerState], NEW early \in Reasons, NumWaiting(f) <= Alpha,
         pc \in [Peers -> GoroutineState], finishIteration(f, early)
  PROVE  /\ qps' \in [Peers -> PeerState] /\ pc' \in [Peers -> GoroutineState]
         /\ reason' \in Reasons
         /\ early # "none" => reason' # "none"
         /\ \/ reason' = "none" /\ phase' = phase
            \/ reason' # "none" /\ phase' = "wait" /\ qps' = f /\ pc' = pc
         /\ \A p \in Peers :
              \/ f[p] = "Heard" /\ qps'[p] = "Waiting" /\ pc'[p] = "dial"
              \/ qps'[p] = f[p] /\ pc'[p] = pc[p]
         /\ NumWaiting(qps') <= Alpha
<1> DEFINE W   == InStates(f, {"Waiting"})
           H   == InStates(f, {"Heard"})
           new == ClosestN(Alpha - NumWaiting(f), H)
           why == IF early # "none" THEN early ELSE readyReason(f)
<1>1. /\ IsFiniteSet(W) /\ IsFiniteSet(H) /\ H \subseteq Nat /\ H \subseteq Peers
      /\ NumWaiting(f) \in Nat /\ NumWaiting(f) = Cardinality(W)
      /\ \A p \in H : f[p] = "Heard"
  BY Zenon, PeersAssumption, FS_Subset, FS_CardinalityType DEF InStates, NumWaiting
<1>2. Alpha - NumWaiting(f) \in Nat
  BY <1>1, ParametersAssumption
<1>3. /\ IsFiniteSet(new) /\ new \subseteq H
      /\ Cardinality(new) <= Alpha - NumWaiting(f) /\ Cardinality(new) \in Nat
  BY <1>1, <1>2, ClosestNBound, FS_CardinalityType
<1>4. why \in Reasons
  BY DEF readyReason, Reasons
<1>5. CASE why # "none"
  <2>1. reason' = why /\ phase' = "wait" /\ qps' = f /\ pc' = pc
    BY <1>5 DEF finishIteration, GetClosestNInStates
  <2> QED
    BY <1>4, <1>5, <2>1
<1>6. CASE why = "none"
  <2>1. /\ reason' = why /\ phase' = phase
        /\ qps' = [p \in Peers |-> IF p \in new THEN "Waiting" ELSE f[p]]
        /\ pc' = [p \in Peers |-> IF p \in new THEN "dial" ELSE pc[p]]
    BY Zenon, <1>6 DEF finishIteration, GetClosestNInStates, SetState
  <2> HIDE DEF new, why
  <2>2. InStates(qps', {"Waiting"}) = W \cup new
    BY Zenon, <1>1, <1>3, <2>1 DEF InStates
  <2>3. /\ Cardinality(W \cup new) = Cardinality(W) + Cardinality(new) - Cardinality(W \cap new)
        /\ Cardinality(W \cap new) \in Nat
    BY Zenon, <1>1, <1>3, FS_Union, FS_Subset, FS_CardinalityType
  <2>4. NumWaiting(qps') <= Alpha
    <3>1. NumWaiting(qps') = Cardinality(W \cup new)
      BY Zenon, <2>2 DEF NumWaiting
    <3> HIDE DEF W
    <3> QED
      BY <1>1, <1>3, <2>3, <3>1, ParametersAssumption
  <2>5. early = "none"
    BY <1>6 DEF why
  <2> QED
    BY Zenon, <1>1, <1>3, <1>4, <1>6, <2>1, <2>4, <2>5 DEF PeerState, GoroutineState
<1> QED
  BY Zenon, <1>5, <1>6

-----------------------------------------------------------------------------
(* The inductive invariant of the run loop.                                 *)

SeedUpdate == [cause |-> Self, heard |-> seeds, outcome |-> "seed"]

Untouched == \A p \in Peers : pc[p] = "idle" /\ qps[p] = "Unknown"

(* Until the first iteration the channel holds the seeds alone.             *)
SeedPending == ch = <<SeedUpdate>> /\ Untouched

(* After it, every update in the channel is the last word of a goroutine    *)
(* about a peer that is still Waiting, and no two are about the same peer.  *)
QueryUpdate(u) == /\ u.cause \in Peers /\ u.cause # Self /\ u.outcome # "seed"
                  /\ pc[u.cause] = "done" /\ qps[u.cause] = "Waiting"

QueryUpdates == /\ \A i \in 1..Len(ch) : QueryUpdate(ch[i])
                /\ \A i, j \in 1..Len(ch) : ch[i].cause = ch[j].cause => i = j

(* Goroutines and peer states agree: a peer has none before it is Waiting,  *)
(* and stays Waiting for as long as its goroutine runs.                     *)
GoroutinesMatch ==
    \A p \in Peers :
        /\ pc[p] = "idle" <=> qps[p] \in {"Unknown", "Heard"}
        /\ pc[p] \notin {"idle", "done"} => qps[p] = "Waiting"
        /\ pc[p] = "send" => msg[p].cause = p /\ msg[p].outcome # "seed"

LoopInv ==
    /\ ~panicked
    /\ rt \subseteq Peers \ {Self}
    /\ Self \in Peers => qps[Self] = "Unknown"
    /\ phase = "start" => ch = <<>> /\ Untouched /\ seeds = {}
    /\ phase \in {"start", "run"} => reason = "none"
    /\ SeedPending \/ QueryUpdates
    /\ GoroutinesMatch
    /\ NumWaiting(qps) <= Alpha

QueryInv == TypeOK /\ LoopInv

(* A lookup starts with nothing known and an empty channel.                 *)
LEMMA QueryInit == Init => QueryInv
<1> SUFFICES ASSUME Init PROVE QueryInv
  OBVIOUS
<1>1. TypeOK
  <2>1. noUpdate \in Update
    BY Zenon DEF noUpdate, Update
  <2>2. rt \subseteq Peers /\ seeds \subseteq Peers /\ peers \subseteq Peers
    BY Zenon DEF Init
  <2>3. /\ qps \in [Peers -> PeerState] /\ pc \in [Peers -> GoroutineState]
        /\ msg \in [Peers -> Update] /\ fu \in [Peers -> {"idle", "query", "done"}]
    BY <2>1 DEF Init, PeerState, GoroutineState
  <2>4. ch \in Seq(Update) /\ doneCh \in Nat /\ received \in Nat
    BY DEF Init
  <2>5. ctxDone \in BOOLEAN /\ stop \in BOOLEAN /\ panicked \in BOOLEAN /\ completed \in BOOLEAN
    BY Zenon DEF Init
  <2> QED
    BY Zenon, <2>2, <2>3, <2>4, <2>5 DEF Init, TypeOK
<1>2. Cardinality(InStates(qps, {"Waiting"})) = 0
  <2>1. InStates(qps, {"Waiting"}) = {}
    BY Zenon DEF Init, InStates
  <2> QED
    BY Zenon, <2>1, FS_EmptySet
<1>3. LoopInv
  BY <1>2, ParametersAssumption, PeersAssumption
  DEF Init, LoopInv, Untouched, QueryUpdates, GoroutinesMatch, NumWaiting
<1> QED
  BY <1>1, <1>3 DEF QueryInv

(* The effect of taking an update: no panic, and the invariant survives the *)
(* peerset after updateState, before the end of the iteration.              *)
LEMMA TakeUpdate ==
  ASSUME QueryInv, ch # <<>>
  PROVE  /\ Head(ch) \in Update /\ ~updatePanics(Head(ch))
         /\ stateAfter(Head(ch)) \in [Peers -> PeerState]
         /\ NumWaiting(stateAfter(Head(ch))) <= Alpha
         /\ \A p \in Peers : pc[p] = "idle" <=> stateAfter(Head(ch))[p] \in {"Unknown", "Heard"}
         /\ \A p \in Peers :
              \/ stateAfter(Head(ch))[p] = qps[p]
              \/ qps[p] = "Unknown" /\ stateAfter(Head(ch))[p] = "Heard" /\ p # Self
              \/ /\ QueryUpdates /\ p = Head(ch).cause /\ qps[p] = "Waiting"
                 /\ stateAfter(Head(ch))[p] \in {"Queried", "Unreachable"}
<1> DEFINE u == Head(ch)
           f == stateAfter(u)
<1>1. u \in Update /\ u = ch[1] /\ 1 \in 1..Len(ch)
  BY DEF QueryInv, TypeOK
<1>2. \/ u.outcome = "seed"
      \/ QueryUpdates /\ QueryUpdate(u) /\ u.outcome \in {"Queried", "Unreachable"}
  BY <1>1 DEF QueryInv, LoopInv, SeedPending, SeedUpdate, QueryUpdates, QueryUpdate, Update
<1>3. ~updatePanics(u)
  <2>1. \A p \in Peers : qps[p] = "Waiting" => TryAddAll(qps, u.heard)[p] = "Waiting"
    BY DEF TryAddAll
  <2> QED
    BY Zenon, <1>1, <1>2, <2>1 DEF updatePanics, QueryUpdate
<1>4. /\ f \in [Peers -> PeerState]
      /\ \A p \in Peers :
           \/ p = u.cause /\ p # Self /\ u.outcome # "seed" /\ f[p] = u.outcome
           \/ /\ p # u.cause \/ p = Self \/ u.outcome = "seed"
              /\ f[p] = IF p \in u.heard /\ p # Self /\ qps[p] = "Unknown"
                        THEN "Heard" ELSE qps[p]
  BY Zenon, <1>1, StateAfterEffect DEF QueryInv
<1> HIDE DEF f, u
<1>5. \A p \in Peers :
        \/ f[p] = qps[p]
        \/ qps[p] = "Unknown" /\ f[p] = "Heard" /\ p # Self
        \/ /\ QueryUpdates /\ p = u.cause /\ qps[p] = "Waiting"
           /\ f[p] \in {"Queried", "Unreachable"}
  <2> SUFFICES ASSUME NEW p \in Peers
               PROVE  \/ f[p] = qps[p]
                      \/ qps[p] = "Unknown" /\ f[p] = "Heard" /\ p # Self
                      \/ /\ QueryUpdates /\ p = u.cause /\ qps[p] = "Waiting"
                         /\ f[p] \in {"Queried", "Unreachable"}
    OBVIOUS
  <2>1. CASE p = u.cause /\ p # Self /\ u.outcome # "seed" /\ f[p] = u.outcome
    BY Zenon, <1>2, <2>1 DEF QueryUpdate
  <2>2. CASE f[p] = IF p \in u.heard /\ p # Self /\ qps[p] = "Unknown" THEN "Heard" ELSE qps[p]
    BY Zenon, <2>2
  <2> QED
    BY Zenon, <1>4, <2>1, <2>2
<1>6. \A p \in Peers : pc[p] = "idle" <=> f[p] \in {"Unknown", "Heard"}
  BY Zenon, <1>4, <1>5 DEF QueryInv, LoopInv, GoroutinesMatch
<1>7. NumWaiting(f) <= Alpha
  <2>1. InStates(f, {"Waiting"}) \subseteq InStates(qps, {"Waiting"})
    BY Zenon, <1>5 DEF InStates
  <2>2. /\ IsFiniteSet(InStates(qps, {"Waiting"}))
        /\ Cardinality(InStates(qps, {"Waiting"})) \in Nat
        /\ Cardinality(InStates(f, {"Waiting"})) \in Nat
    BY Zenon, PeersAssumption, FS_Subset, FS_CardinalityType DEF InStates
  <2>3. Cardinality(InStates(f, {"Waiting"})) <= Cardinality(InStates(qps, {"Waiting"}))
    BY <2>1, <2>2, FS_Subset
  <2> QED
    BY <2>2, <2>3, ParametersAssumption DEF NumWaiting, QueryInv, LoopInv
<1> QED
  BY Zenon, <1>1, <1>3, <1>4, <1>5, <1>6, <1>7 DEF f, u

(* The steps of the environment and of the followup leave the loop alone.   *)
LEMMA LoopUntouched ==
  ASSUME LoopInv, UNCHANGED <<rt, loopVars, pc, msg>>,
         phase' = phase \/ phase' \notin {"start", "run"}
  PROVE  LoopInv'
  BY DEF LoopInv, loopVars, Untouched, SeedPending, SeedUpdate, QueryUpdates, QueryUpdate,
         GoroutinesMatch, NumWaiting, InStates

(* StartQuery puts the seeds into the channel, before any goroutine runs.   *)
LEMMA StartPreserves == QueryInv /\ StartQuery => QueryInv'
<1> SUFFICES ASSUME QueryInv, StartQuery PROVE QueryInv'
  OBVIOUS
<1>1. seeds' \subseteq Peers
  BY Zenon DEF QueryInv, TypeOK, StartQuery, ClosestN
<1> DEFINE e == [cause |-> Self, heard |-> seeds', outcome |-> "seed"]
<1>2. e \in Update /\ e = SeedUpdate'
  BY Zenon, <1>1 DEF SeedUpdate, Update
<1>3. ch' = <<>> \/ ch' = <<e>>
  BY Zenon DEF QueryInv, LoopInv, StartQuery
<1> HIDE DEF e
<1>4. ch' \in Seq(Update)
  <2>1. <<>> \in Seq(Update) /\ \A x \in Update : <<x>> \in Seq(Update)
    OBVIOUS
  <2>2. <<e>> \in Seq(Update)
    BY <1>2, <2>1, Zenon
  <2> QED
    BY <1>3, <2>1, <2>2, Zenon
<1>5. TypeOK'
  BY Zenon, <1>1, <1>4 DEF QueryInv, TypeOK, StartQuery, resultVars
<1>6. LoopInv'
  BY <1>2, <1>3 DEF QueryInv, StartQuery, LoopInv, Untouched, SeedPending, QueryUpdates,
                    QueryUpdate, GoroutinesMatch, NumWaiting, InStates
<1> QED
  BY <1>5, <1>6 DEF QueryInv

(* Taking an update and ending the iteration of run() preserves QueryInv.   *)
LEMMA ReceivePreserves == QueryInv /\ ReceiveUpdate => QueryInv'
<1> SUFFICES ASSUME QueryInv, ReceiveUpdate PROVE QueryInv'
  OBVIOUS
<1> DEFINE u == Head(ch)
           f == stateAfter(u)
<1>1. /\ f \in [Peers -> PeerState]
      /\ NumWaiting(f) <= Alpha
      /\ \A p \in Peers : pc[p] = "idle" <=> f[p] \in {"Unknown", "Heard"}
      /\ \A p \in Peers :
           \/ f[p] = qps[p]
           \/ qps[p] = "Unknown" /\ f[p] = "Heard" /\ p # Self
           \/ /\ QueryUpdates /\ p = u.cause /\ qps[p] = "Waiting"
              /\ f[p] \in {"Queried", "Unreachable"}
  BY Zenon, TakeUpdate DEF ReceiveUpdate
<1>2. panicked' = FALSE
  BY TakeUpdate DEF ReceiveUpdate
<1>3. finishIteration(f, "none") /\ "none" \in Reasons /\ pc \in [Peers -> GoroutineState]
  BY Zenon DEF ReceiveUpdate, Reasons, QueryInv, TypeOK
<1> HIDE DEF f
<1>4. /\ qps' \in [Peers -> PeerState] /\ pc' \in [Peers -> GoroutineState]
      /\ reason' \in Reasons
      /\ \/ reason' = "none" /\ phase' = phase
         \/ reason' # "none" /\ phase' = "wait" /\ qps' = f /\ pc' = pc
      /\ \A p \in Peers :
           \/ f[p] = "Heard" /\ qps'[p] = "Waiting" /\ pc'[p] = "dial"
           \/ qps'[p] = f[p] /\ pc'[p] = pc[p]
      /\ NumWaiting(qps') <= Alpha
  BY Zenon, <1>1, <1>3, IterationEffect
<1>5. ch' = Tail(ch) /\ ch \in Seq(Update) /\ ch # <<>> /\ phase = "run"
  BY Zenon DEF ReceiveUpdate, QueryInv, TypeOK
<1>6. /\ ch' \in Seq(Update) /\ Len(ch') = Len(ch) - 1 /\ u = ch[1]
      /\ \A i \in 1..Len(ch') : ch'[i] = ch[i+1] /\ i + 1 \in 1..Len(ch)
  BY <1>5
<1>7. TypeOK'
  <2>1. UNCHANGED <<ctxDone, stop, rt, seeds, msg, peers, completed, fu, doneCh, received>>
    BY Zenon DEF ReceiveUpdate, resultVars
  <2> QED
    BY Zenon, <1>2, <1>4, <1>5, <1>6, <2>1 DEF QueryInv, TypeOK, Reasons
<1>8. QueryUpdates'
  <2>1. CASE SeedPending
    <3>1. Len(ch) = 1
      BY <2>1 DEF SeedPending
    <3>2. Len(ch') = 0
      BY <1>6, <3>1
    <3>3. 1..Len(ch') = {}
      BY <3>2
    <3> QED
      BY Zenon, <3>3 DEF QueryUpdates, QueryUpdate
  <2>2. CASE QueryUpdates
    <3>1. ASSUME NEW i \in 1..Len(ch') PROVE (QueryUpdate(ch[i]))'
      <4>1. QueryUpdate(ch[i+1]) /\ ch[i+1].cause # u.cause
        BY <1>5, <1>6, <2>2 DEF QueryUpdates
      <4> DEFINE c == ch[i+1].cause
      <4>2. f[c] = "Waiting" /\ c \in Peers
        BY Zenon, <1>1, <4>1 DEF QueryUpdate
      <4>3. qps'[c] = "Waiting" /\ pc'[c] = "done"
        BY Zenon, <1>4, <4>1, <4>2 DEF QueryUpdate
      <4>4. ch'[i] = ch[i+1]
        BY Zenon, <1>6
      <4> QED
        BY Zenon, <4>1, <4>2, <4>3, <4>4 DEF QueryUpdate
    <3>2. \A i, j \in 1..Len(ch') : ch'[i].cause = ch'[j].cause => i = j
      <4> SUFFICES ASSUME NEW i \in 1..Len(ch'), NEW j \in 1..Len(ch'), ch'[i].cause = ch'[j].cause
                   PROVE  i = j
        BY Zenon
      <4>1. PICK a \in 1..Len(ch) : a = i + 1 /\ ch'[i] = ch[a]
        BY Zenon, <1>6
      <4>2. PICK b \in 1..Len(ch) : b = j + 1 /\ ch'[j] = ch[b]
        BY Zenon, <1>6
      <4>3. a = b
        BY Zenon, <2>2, <4>1, <4>2 DEF QueryUpdates
      <4> QED
        BY <4>1, <4>2, <4>3
    <3> QED
      BY Zenon, <3>1, <3>2 DEF QueryUpdates, QueryUpdate
  <2> QED
    BY Zenon, <2>1, <2>2 DEF QueryInv, LoopInv
<1>9. GoroutinesMatch'
  <2> SUFFICES ASSUME NEW p \in Peers
               PROVE  /\ pc'[p] = "idle" <=> qps'[p] \in {"Unknown", "Heard"}
                      /\ pc'[p] \notin {"idle", "done"} => qps'[p] = "Waiting"
                      /\ pc'[p] = "send" => msg'[p].cause = p /\ msg'[p].outcome # "seed"
    BY Zenon DEF GoroutinesMatch
  <2>1. msg' = msg
    BY Zenon DEF ReceiveUpdate
  <2>2. f[p] = qps[p] \/ pc[p] \in {"idle", "done"}
    <3>1. CASE QueryUpdates /\ p = u.cause
      BY <1>5, <1>6, <3>1 DEF QueryUpdates, QueryUpdate
    <3>2. CASE qps[p] = "Unknown"
      BY Zenon, <3>2 DEF QueryInv, LoopInv, GoroutinesMatch
    <3> QED
      BY ZenonT(60), <1>1, <3>1, <3>2
  <2> QED
    BY <1>1, <1>4, <2>1, <2>2 DEF QueryInv, LoopInv, GoroutinesMatch
<1>10. LoopInv'
  <2>1. Self \in Peers => qps'[Self] = "Unknown"
    <3>1. Self \in Peers => f[Self] = "Unknown"
      BY Zenon, <1>1 DEF QueryInv, LoopInv
    <3> QED
      BY Zenon, <1>4, <3>1
  <2>2. (rt \subseteq Peers \ {Self})' /\ (NumWaiting(qps) <= Alpha)'
    BY Zenon, <1>4 DEF ReceiveUpdate, QueryInv, LoopInv, NumWaiting, InStates
  <2> QED
    BY Zenon, <1>2, <1>4, <1>5, <1>8, <1>9, <2>1, <2>2 DEF LoopInv
<1> QED
  BY <1>7, <1>10 DEF QueryInv

(* So does an iteration ended by the path's cancellation.                   *)
LEMMA CancelledPreserves == QueryInv /\ PathCancelled => QueryInv'
<1> SUFFICES ASSUME QueryInv, PathCancelled PROVE QueryInv'
  OBVIOUS
<1>1. /\ reason' = "LookupCancelled" /\ phase' = "wait" /\ qps' = qps /\ pc' = pc
      /\ UNCHANGED <<ctxDone, stop, rt, seeds, ch, msg, panicked, peers, completed, fu, doneCh, received>>
  BY Zenon DEF PathCancelled, finishIteration, resultVars
<1>2. TypeOK'
  BY ZenonT(60), <1>1 DEF QueryInv, TypeOK
<1>3. LoopInv'
  BY <1>1 DEF QueryInv, LoopInv, Untouched, SeedPending, SeedUpdate, QueryUpdates, QueryUpdate,
              GoroutinesMatch, NumWaiting, InStates
<1> QED
  BY <1>2, <1>3 DEF QueryInv

(* A goroutine that moves on, without having reported yet.                  *)
LEMMA GoroutineMoves ==
  ASSUME QueryInv, NEW p \in Peers, NEW w \in GoroutineState \ {"idle", "done"},
         pc[p] \notin {"idle", "done"}, goTo(p, w),
         UNCHANGED <<loopVars, phase, ctxDone, stop, resultVars>>,
         rt' \subseteq Peers \ {Self},
         \/ msg' = msg /\ w # "send"
         \/ \E m \in Update : m.cause = p /\ m.outcome # "seed" /\ msg' = [msg EXCEPT ![p] = m]
  PROVE  QueryInv'
<1>1. /\ msg' \in [Peers -> Update]
      /\ \A q \in Peers : q # p => msg'[q] = msg[q]
      /\ w = "send" => msg'[p].cause = p /\ msg'[p].outcome # "seed"
  BY DEF QueryInv, TypeOK
<1>2. /\ pc' \in [Peers -> GoroutineState] /\ pc'[p] = w
      /\ \A q \in Peers : q # p => pc'[q] = pc[q]
  BY Zenon DEF QueryInv, TypeOK, goTo
<1>3. TypeOK'
  BY <1>1, <1>2 DEF QueryInv, TypeOK, loopVars, resultVars
<1>4. GoroutinesMatch'
  BY <1>1, <1>2 DEF QueryInv, LoopInv, GoroutinesMatch, loopVars
<1>5. QueryUpdates'
  <2>1. QueryUpdates
    BY Zenon DEF QueryInv, LoopInv, SeedPending, Untouched
  <2>2. \A i \in 1..Len(ch) : ch[i].cause # p
    BY Zenon, <2>1 DEF QueryUpdates, QueryUpdate
  <2> QED
    BY Zenon, <1>2, <2>1, <2>2 DEF QueryUpdates, QueryUpdate, loopVars
<1>6. LoopInv'
  BY Zenon, <1>2, <1>4, <1>5 DEF QueryInv, LoopInv, Untouched, NumWaiting, InStates, loopVars
<1> QED
  BY Zenon, <1>3, <1>6 DEF QueryInv

(* A goroutine's update moves from it to the channel.                       *)
LEMMA SendPreserves == ASSUME QueryInv, NEW p \in Peers, SendUpdate(p) PROVE QueryInv'
<1> DEFINE m == msg[p]
<1>1. /\ pc[p] = "send" /\ qps[p] = "Waiting" /\ p # Self
      /\ m \in Update /\ m.cause = p /\ m.outcome # "seed"
  BY DEF SendUpdate, QueryInv, TypeOK, LoopInv, GoroutinesMatch
<1>2. /\ pc' = [pc EXCEPT ![p] = "done"] /\ msg' = [msg EXCEPT ![p] = noUpdate]
      /\ ch' = Append(ch, m) /\ ch \in Seq(Update)
      /\ UNCHANGED <<ctxDone, stop, rt, seeds, qps, reason, panicked, phase, peers, completed,
                     fu, doneCh, received>>
  BY Zenon DEF SendUpdate, goTo, resultVars, QueryInv, TypeOK
<1>3. noUpdate \in Update
  BY Zenon DEF noUpdate, Update
<1> HIDE DEF m
<1>4. /\ ch' \in Seq(Update) /\ Len(ch') = Len(ch) + 1 /\ Len(ch) \in Nat
      /\ ch'[Len(ch) + 1] = m
      /\ \A i \in 1..Len(ch) : ch'[i] = ch[i]
  BY <1>1, <1>2
<1>5. TypeOK'
  BY <1>1, <1>2, <1>3, <1>4 DEF QueryInv, TypeOK, GoroutineState
<1>6. QueryUpdates
  BY Zenon, <1>1 DEF QueryInv, LoopInv, SeedPending, Untouched
<1>7. \A i \in 1..Len(ch) : ch[i].cause # p
  BY Zenon, <1>1, <1>6 DEF QueryUpdates, QueryUpdate
<1>8. pc'[p] = "done" /\ \A q \in Peers : q # p => pc'[q] = pc[q] /\ msg'[q] = msg[q]
  BY Zenon, <1>2 DEF QueryInv, TypeOK
<1>9. QueryUpdates'
  <2>1. ASSUME NEW i \in 1..Len(ch') PROVE (QueryUpdate(ch[i]))'
    <3>1. CASE i = Len(ch) + 1
      BY Zenon, <1>1, <1>2, <1>4, <1>8, <3>1 DEF QueryUpdate
    <3>2. CASE i \in 1..Len(ch)
      <4>1. ch'[i] = ch[i] /\ QueryUpdate(ch[i]) /\ ch[i].cause # p
        BY Zenon, <1>4, <1>6, <1>7, <3>2 DEF QueryUpdates
      <4> QED
        BY Zenon, <1>2, <1>8, <4>1 DEF QueryUpdate
    <3> QED
      BY <1>4, <3>1, <3>2
  <2>2. ASSUME NEW i \in 1..Len(ch'), NEW j \in 1..Len(ch'), ch'[i].cause = ch'[j].cause
        PROVE  i = j
    <3>1. CASE i \in 1..Len(ch) /\ j \in 1..Len(ch)
      BY Zenon, <1>4, <1>6, <2>2, <3>1 DEF QueryUpdates
    <3>2. CASE i = Len(ch) + 1 \/ j = Len(ch) + 1
      BY <1>1, <1>4, <1>7, <2>2, <3>2
    <3> QED
      BY <1>4, <3>1, <3>2
  <2> QED
    BY Zenon, <2>1, <2>2 DEF QueryUpdates, QueryUpdate
<1>10. GoroutinesMatch'
  BY <1>1, <1>2, <1>8 DEF QueryInv, LoopInv, GoroutinesMatch
<1>11. LoopInv'
  BY Zenon, <1>1, <1>2, <1>9, <1>10 DEF QueryInv, LoopInv, Untouched, NumWaiting, InStates
<1> QED
  BY <1>5, <1>11 DEF QueryInv

(* queryPeer(p), one goroutine step.                                        *)
LEMMA GoroutinePreserves == ASSUME QueryInv, NEW p \in Peers, queryPeer(p) PROVE QueryInv'
<1>1. rt \subseteq Peers \ {Self} /\ (pc[p] \notin {"idle", "done"} => p # Self)
  BY Zenon DEF QueryInv, LoopInv, GoroutinesMatch
<1>2. unreachable(p) \in Update /\ unreachable(p).cause = p /\ unreachable(p).outcome # "seed"
  BY Zenon DEF unreachable, Update
<1>3. CASE Dial(p)
  BY Zenon, <1>1, <1>3, GoroutineMoves DEF Dial, GoroutineState
<1>4. CASE DialError(p)
  BY <1>1, <1>2, <1>4, GoroutineMoves, ZenonT(60) DEF DialError, GoroutineState
<1>5. CASE QueryFails(p)
  BY Zenon, <1>1, <1>5, GoroutineMoves DEF QueryFails, GoroutineState
<1>6. CASE QueryError(p)
  BY Zenon, <1>1, <1>2, <1>6, GoroutineMoves DEF QueryError, GoroutineState
<1>7. CASE QueryAnswers(p)
  <2>1. PICK r \in Responses[p] :
           msg' = [msg EXCEPT ![p] = [cause |-> p, heard |-> r \cap Usable, outcome |-> "Queried"]]
    BY Zenon, <1>7 DEF QueryAnswers
  <2> DEFINE m == [cause |-> p, heard |-> r \cap Usable, outcome |-> "Queried"]
  <2>2. m \in Update /\ m.cause = p /\ m.outcome # "seed"
    BY Zenon DEF Update, Usable
  <2>3. rt' \subseteq Peers \ {Self}
    BY Zenon, <1>1, <1>7 DEF QueryAnswers
  <2>4. /\ pc[p] \notin {"idle", "done"} /\ goTo(p, "send")
        /\ UNCHANGED <<loopVars, phase, ctxDone, stop, resultVars>>
    BY Zenon, <1>7 DEF QueryAnswers
  <2>5. \E x \in Update : x.cause = p /\ x.outcome # "seed" /\ msg' = [msg EXCEPT ![p] = x]
    BY <2>1, <2>2, Zenon
  <2>6. "send" \in GoroutineState \ {"idle", "done"}
    BY Zenon DEF GoroutineState
  <2> QED
    BY <2>3, <2>4, <2>5, <2>6, GoroutineMoves, Zenon
<1>8. CASE SendUpdate(p)
  BY <1>8, SendPreserves
<1> QED
  BY Zenon, <1>3, <1>4, <1>5, <1>6, <1>7, <1>8 DEF queryPeer

(* The steps that leave the run loop's state alone.                         *)
LEMMA OutsidePreserves ==
  ASSUME QueryInv,
         \/ Cancel \/ ChangeStop \/ ConstructLookupResult \/ StartFollowup \/ FollowupDone
         \/ FollowupCancelled \/ Drain \/ (\E p \in Peers : FollowupReturns(p)) \/ UNCHANGED vars
  PROVE  QueryInv'
<1>1. LoopInv'
  <2>1. UNCHANGED <<rt, loopVars, pc, msg>> /\ (phase' = phase \/ phase' \notin {"start", "run"})
    BY Zenon DEF Cancel, ChangeStop, ConstructLookupResult, StartFollowup, FollowupDone, FollowupCancelled,
           Drain, FollowupReturns, vars, loopVars
  <2> QED
    BY Zenon, <2>1, LoopUntouched DEF QueryInv
<1>2. TypeOK'
  <2> USE DEF QueryInv, TypeOK, loopVars, resultVars
  <2>1. CASE Cancel
    BY Zenon, <2>1 DEF Cancel
  <2>2. CASE ChangeStop
    BY Zenon, <2>2 DEF ChangeStop
  <2>3. CASE ConstructLookupResult
    <3>1. peers' \subseteq Peers
      BY Zenon, <2>3 DEF ConstructLookupResult, GetClosestNInStates, ClosestN, InStates
    <3>2. completed' \in BOOLEAN
      BY Zenon, <2>3 DEF ConstructLookupResult, isLookupTermination, isStarvationTermination
    <3> QED
      BY Zenon, <2>3, <3>1, <3>2 DEF ConstructLookupResult
  <2>4. CASE StartFollowup
    BY <2>4, ZenonT(60) DEF StartFollowup
  <2>5. CASE FollowupDone
    BY <2>5 DEF FollowupDone
  <2>6. CASE FollowupCancelled
    BY Zenon, <2>6 DEF FollowupCancelled
  <2>7. CASE Drain
    BY <2>7 DEF Drain
  <2>8. CASE \E p \in Peers : FollowupReturns(p)
    BY <2>8 DEF FollowupReturns
  <2>9. CASE UNCHANGED vars
    BY <2>9 DEF vars
  <2> QED
    BY Zenon, <2>1, <2>2, <2>3, <2>4, <2>5, <2>6, <2>7, <2>8, <2>9
<1> QED
  BY <1>1, <1>2 DEF QueryInv

(* Every step preserves QueryInv.                                           *)
LEMMA QueryNext == QueryInv /\ [Next]_vars => QueryInv'
  BY Zenon, StartPreserves, ReceivePreserves, CancelledPreserves, GoroutinePreserves, OutsidePreserves
  DEF Next, Caller

(* QueryInv is an invariant.                                                *)
LEMMA QueryInvariant == Spec => []QueryInv
  BY QueryInit, QueryNext, PTL DEF Spec

(* The state of a lookup is well typed.                                     *)
THEOREM TypeCorrect == Spec => []TypeOK
<1>1. QueryInv => TypeOK
  BY DEF QueryInv
<1> QED
  BY <1>1, QueryInvariant, PTL

(* updateState never panics, whatever the network answers and whenever the  *)
(* caller cancels or stops the lookup.                                      *)
THEOREM NeverPanics == Spec => []NoPanic
<1>1. QueryInv => NoPanic
  BY Zenon DEF QueryInv, LoopInv, NoPanic
<1> QED
  BY <1>1, QueryInvariant, PTL

(* No goroutine of a lookup can block on its update channel: the peers in   *)
(* flight and those with an update in the channel are disjoint sets of      *)
(* Waiting peers, of which there are at most alpha.                         *)
LEMMA RoomInChannel == QueryInv => ChannelHasRoom
<1> SUFFICES ASSUME QueryInv PROVE ChannelHasRoom
  OBVIOUS
<1> DEFINE W == InStates(qps, {"Waiting"})
           C == {ch[i].cause : i \in 1..Len(ch)}
<1>1. CASE SeedPending
  <2>1. inFlight = {} /\ Len(ch) = 1
    BY Zenon, <1>1 DEF SeedPending, Untouched, inFlight
  <2> QED
    BY <2>1, FS_EmptySet, ParametersAssumption DEF ChannelHasRoom
<1>2. CASE QueryUpdates
  <2>1. ch \in Seq(Update) /\ Len(ch) \in Nat
    BY DEF QueryInv, TypeOK
  <2>2. inFlight \subseteq W /\ inFlight \subseteq Peers
    BY Zenon DEF inFlight, InStates, QueryInv, LoopInv, GoroutinesMatch
  <2>3. \A i \in 1..Len(ch) : ch[i].cause \in W /\ ch[i].cause \notin inFlight
    BY Zenon, <1>2 DEF QueryUpdates, QueryUpdate, InStates, inFlight
  <2>4. C \subseteq W /\ C \cap inFlight = {}
    BY Zenon, <2>3
  <2>5. /\ IsFiniteSet(W) /\ Cardinality(W) \in Nat /\ Cardinality(W) <= Alpha
    BY Zenon, PeersAssumption, FS_Subset, FS_CardinalityType DEF InStates, QueryInv, LoopInv, NumWaiting
  <2> HIDE DEF W
  <2>6. /\ IsFiniteSet(C) /\ Cardinality(C) \in Nat
        /\ IsFiniteSet(inFlight) /\ Cardinality(inFlight) \in Nat
    BY Zenon, <2>2, <2>4, <2>5, FS_Subset, FS_CardinalityType
  <2>7. Len(ch) <= Cardinality(C)
    <3> DEFINE g == [i \in 1..Len(ch) |-> ch[i].cause]
    <3>1. g \in [1..Len(ch) -> C]
      OBVIOUS
    <3>2. \A i, j \in 1..Len(ch) : g[i] = g[j] => i = j
      BY Zenon, <1>2 DEF QueryUpdates
    <3> HIDE DEF g, C
    <3>3. g \in Injection(1..Len(ch), C)
      BY Zenon, <3>1, <3>2 DEF Injection, IsInjective
    <3>4. Cardinality(1..Len(ch)) <= Cardinality(C)
      BY Zenon, <2>6, <3>3, FS_Injection
    <3>5. Cardinality(1..Len(ch)) = Len(ch)
      <4>1. Cardinality(1..Len(ch)) = IF 1 > Len(ch) THEN 0 ELSE Len(ch) - 1 + 1
        <5>1. 1 \in Int /\ Len(ch) \in Int
          BY <2>1
        <5> QED
          BY Zenon, <5>1, FS_Interval
      <4> QED
        BY <2>1, <4>1
    <3> QED
      BY <3>4, <3>5
  <2> HIDE DEF C
  <2>8. Cardinality(C \cup inFlight) = Cardinality(C) + Cardinality(inFlight)
    <3>1. Cardinality(C \cup inFlight)
            = Cardinality(C) + Cardinality(inFlight) - Cardinality(C \cap inFlight)
      BY Zenon, <2>6, FS_Union
    <3>2. Cardinality(C \cap inFlight) = 0
      BY Zenon, <2>4, FS_EmptySet
    <3> QED
      BY <2>6, <3>1, <3>2
  <2>9. Cardinality(C \cup inFlight) <= Cardinality(W) /\ Cardinality(C \cup inFlight) \in Nat
    BY Zenon, <2>2, <2>4, <2>5, FS_Subset, FS_CardinalityType
  <2> QED
    BY <2>1, <2>5, <2>6, <2>7, <2>8, <2>9, ParametersAssumption DEF ChannelHasRoom
<1> QED
  BY Zenon, <1>1, <1>2 DEF QueryInv, LoopInv

(* No goroutine blocks on run()'s update channel (query.go:285).            *)
THEOREM ChannelNeverFills == Spec => []ChannelHasRoom
  BY RoomInChannel, QueryInvariant, PTL

-----------------------------------------------------------------------------
(* What a step may be, seen from the lookup: one of the run loop, one of a  *)
(* queryPeer goroutine, or one that leaves both alone.                      *)
LEMMA StepKinds ==
  ASSUME [Next]_vars
  PROVE  \/ StartQuery \/ ReceiveUpdate \/ PathCancelled
         \/ \E p \in Peers : queryPeer(p)
         \/ UNCHANGED <<loopVars, pc, msg, rt>> /\ (ctxDone => ctxDone')
<1> DEFINE Quiet == UNCHANGED <<loopVars, pc, msg, rt>> /\ (ctxDone => ctxDone')
<1>1. ConstructLookupResult => Quiet
  BY DEF ConstructLookupResult
<1>2. StartFollowup => Quiet
  BY DEF StartFollowup
<1>3. FollowupDone => Quiet
  BY DEF FollowupDone
<1>4. FollowupCancelled => Quiet
  BY DEF FollowupCancelled
<1>5. Drain => Quiet
  BY DEF Drain
<1>6. \A p \in Peers : FollowupReturns(p) => Quiet
  BY DEF FollowupReturns
<1>7. Cancel \/ ChangeStop => Quiet
  BY DEF Cancel, ChangeStop
<1>8. UNCHANGED vars => Quiet
  BY DEF vars, loopVars
<1> HIDE DEF Quiet
<1>9. \/ StartQuery \/ ReceiveUpdate \/ PathCancelled \/ Quiet
      \/ \E p \in Peers : queryPeer(p)
  BY Zenon, <1>1, <1>2, <1>3, <1>4, <1>5, <1>6, <1>7, <1>8 DEF Next, Caller
<1> QED
  BY <1>9 DEF Quiet

(* What a step of queryPeer(p) may do.                                      *)
LEMMA GoroutineStep ==
  ASSUME TypeOK, NEW p \in Peers, queryPeer(p)
  PROVE  /\ UNCHANGED <<ctxDone, seeds, qps, reason, phase, resultVars>>
         /\ pc[p] \notin {"idle", "done"}
         /\ \A q \in Peers : q # p => pc'[q] = pc[q] /\ msg'[q] = msg[q]
         /\ ch' = ch \/ (pc[p] = "send" /\ pc'[p] = "done" /\ ch' = Append(ch, msg[p]))
         /\ pc'[p] \in {"dialFailed", "queryFailed"} => p \in Faulty
         /\ pc'[p] = "dialAborted" => pathDone
         /\ pc'[p] = "queryAborted" => ctxDone
         /\ \/ pc'[p] # "send"
            \/ pc[p] \in {"dialFailed", "dialAborted", "queryFailed", "queryAborted"}
            \/ \E r \in Responses[p] :
                  msg'[p] = [cause |-> p, heard |-> r \cap Usable, outcome |-> "Queried"]
         /\ \/ rt \subseteq rt'
            \/ pc[p] \in {"dialFailed", "dialAborted"} /\ ~pathDone /\ rt' = rt \ {p}
            \/ pc[p] \in {"queryFailed", "queryAborted"} /\ ~ctxDone /\ rt' = rt \ {p}
<1>1. pc \in [Peers -> GoroutineState] /\ msg \in [Peers -> Update]
  BY Zenon DEF TypeOK
<1>2. CASE Dial(p)
  <2>1. /\ \A q \in Peers : q # p => pc'[q] = pc[q]
        /\ pc'[p] \in {"query", "dialFailed", "dialAborted"}
        /\ (pc'[p] = "dialFailed" => p \in Faulty) /\ (pc'[p] = "dialAborted" => pathDone)
    BY Zenon, <1>1, <1>2 DEF Dial, goTo
  <2>2. UNCHANGED <<ctxDone, rt, ch, seeds, qps, reason, msg, phase, resultVars>> /\ pc[p] = "dial"
    BY Zenon, <1>2 DEF Dial, loopVars
  <2> QED
    BY <2>1, <2>2, Zenon
<1>3. CASE DialError(p)
  <2>1. /\ \A q \in Peers : q # p => pc'[q] = pc[q] /\ msg'[q] = msg[q]
        /\ pc'[p] = "send"
    BY Zenon, <1>1, <1>3 DEF DialError, goTo
  <2>2. /\ UNCHANGED <<ctxDone, ch, seeds, qps, reason, phase, resultVars>>
        /\ pc[p] \in {"dialFailed", "dialAborted"}
        /\ rt' = rt \/ (~pathDone /\ rt' = rt \ {p})
    BY Zenon, <1>3 DEF DialError, loopVars
  <2> QED
    BY Zenon, <2>1, <2>2
<1>4. CASE QueryFails(p)
  <2>1. /\ \A q \in Peers : q # p => pc'[q] = pc[q]
        /\ pc'[p] \in {"queryFailed", "queryAborted"}
        /\ (pc'[p] = "queryFailed" => p \in Faulty) /\ (pc'[p] = "queryAborted" => ctxDone)
    BY Zenon, <1>1, <1>4 DEF QueryFails, goTo
  <2>2. UNCHANGED <<ctxDone, rt, ch, seeds, qps, reason, msg, phase, resultVars>> /\ pc[p] = "query"
    BY Zenon, <1>4 DEF QueryFails, loopVars
  <2> QED
    BY Zenon, <2>1, <2>2
<1>5. CASE QueryError(p)
  <2>1. /\ \A q \in Peers : q # p => pc'[q] = pc[q] /\ msg'[q] = msg[q]
        /\ pc'[p] = "send"
    BY Zenon, <1>1, <1>5 DEF QueryError, goTo
  <2>2. /\ UNCHANGED <<ctxDone, ch, seeds, qps, reason, phase, resultVars>>
        /\ pc[p] \in {"queryFailed", "queryAborted"}
        /\ rt' = rt \/ (~ctxDone /\ rt' = rt \ {p})
    BY Zenon, <1>5 DEF QueryError, loopVars
  <2> QED
    BY Zenon, <2>1, <2>2
<1>6. CASE QueryAnswers(p)
  <2>1. PICK r \in Responses[p] :
           msg' = [msg EXCEPT ![p] = [cause |-> p, heard |-> r \cap Usable, outcome |-> "Queried"]]
    BY <1>6, Zenon DEF QueryAnswers
  <2>2. /\ \A q \in Peers : q # p => pc'[q] = pc[q] /\ msg'[q] = msg[q]
        /\ pc'[p] = "send"
        /\ msg'[p] = [cause |-> p, heard |-> r \cap Usable, outcome |-> "Queried"]
    BY Zenon, <1>1, <1>6, <2>1 DEF QueryAnswers, goTo
  <2>3. /\ UNCHANGED <<ctxDone, ch, seeds, qps, reason, phase, resultVars>>
        /\ pc[p] = "query" /\ rt \subseteq rt'
    BY Zenon, <1>6 DEF QueryAnswers, loopVars
  <2> QED
    BY <2>2, <2>3, Zenon
<1>7. CASE SendUpdate(p)
  <2>1. /\ \A q \in Peers : q # p => pc'[q] = pc[q] /\ msg'[q] = msg[q]
        /\ pc'[p] = "done"
    BY Zenon, <1>1, <1>7 DEF SendUpdate, goTo
  <2>2. /\ UNCHANGED <<ctxDone, rt, seeds, qps, reason, phase, resultVars>>
        /\ pc[p] = "send" /\ ch' = Append(ch, msg[p])
    BY Zenon, <1>7 DEF SendUpdate
  <2> QED
    BY Zenon, <2>1, <2>2
<1> QED
  BY <1>2, <1>3, <1>4, <1>5, <1>6, <1>7, ZenonT(60) DEF queryPeer

(* Evictions.  A dial is aborted only once the path is done, and a query    *)
(* only once the caller's context is; neither ever becomes live again.      *)
AbortInv ==
    \A p \in Peers : /\ pc[p] = "dialAborted" => pathDone
                     /\ pc[p] = "queryAborted" => ctxDone

(* pathCtx, once done, stays done.                                          *)
LEMMA PathStaysDone ==
  ASSUME QueryInv, [Next]_vars
  PROVE  (pathDone => pathDone') /\ (ctxDone => ctxDone')
<1>1. phase = "run" => reason = "none"
  BY Zenon DEF QueryInv, LoopInv
<1>2. CASE StartQuery
  BY Zenon, <1>2 DEF StartQuery, pathDone
<1>3. CASE ReceiveUpdate \/ PathCancelled
  BY <1>1, <1>3 DEF ReceiveUpdate, PathCancelled, pathDone
<1>4. CASE \E p \in Peers : queryPeer(p)
  BY Zenon, <1>4, GoroutineStep DEF pathDone, QueryInv
<1>5. CASE UNCHANGED <<loopVars, pc, msg, rt>> /\ (ctxDone => ctxDone')
  BY <1>5 DEF pathDone, loopVars
<1> QED
  BY Zenon, <1>2, <1>3, <1>4, <1>5, StepKinds

(* Every step preserves AbortInv.                                           *)
LEMMA AbortNext == QueryInv /\ AbortInv /\ [Next]_vars => AbortInv'
<1> SUFFICES ASSUME QueryInv, AbortInv, [Next]_vars, NEW p \in Peers
             PROVE  /\ pc'[p] = "dialAborted" => pathDone'
                    /\ pc'[p] = "queryAborted" => ctxDone'
  BY Zenon DEF AbortInv
<1>1. (pathDone => pathDone') /\ (ctxDone => ctxDone') /\ pc \in [Peers -> GoroutineState]
  BY Zenon, PathStaysDone DEF QueryInv, TypeOK
<1>2. \/ pc'[p] = pc[p]
      \/ pc'[p] \notin {"dialAborted", "queryAborted"}
      \/ pc'[p] = "dialAborted" /\ pathDone
      \/ pc'[p] = "queryAborted" /\ ctxDone
  <2>1. CASE ReceiveUpdate \/ PathCancelled
    BY Zenon, <1>1, <2>1 DEF ReceiveUpdate, PathCancelled, finishIteration
  <2>2. CASE \E q \in Peers : queryPeer(q)
    BY Zenon, <2>2, GoroutineStep DEF QueryInv
  <2>3. CASE UNCHANGED pc
    BY Zenon, <2>3
  <2> QED
    BY Zenon, <2>1, <2>2, <2>3, StepKinds DEF StartQuery
<1> QED
  BY Zenon, <1>1, <1>2 DEF AbortInv

(* A lookup removes from the routing table only peers that failed: the      *)
(* cancellation of the lookup itself never costs a peer its place.          *)
THEOREM OnlyFailuresEvict == Spec => EvictionsAreFailures
<1>1. Init => AbortInv
  BY Zenon DEF Init, AbortInv
<1>2. ASSUME QueryInv, AbortInv, [Next]_vars
      PROVE  [\A p \in rt \ rt' : pc[p] \in {"dialFailed", "queryFailed"}]_vars
  <2> SUFFICES ASSUME NEW p \in rt \ rt' PROVE pc[p] \in {"dialFailed", "queryFailed"}
    BY Zenon
  <2>1. CASE \E q \in Peers : queryPeer(q)
    BY Zenon, <1>2, <2>1, GoroutineStep DEF AbortInv, QueryInv
  <2>2. CASE UNCHANGED rt
    BY <2>2
  <2> QED
    BY Zenon, <1>2, <2>1, <2>2, StepKinds DEF StartQuery, ReceiveUpdate, PathCancelled
<1> QED
  BY <1>1, <1>2, QueryInvariant, AbortNext, PTL DEF Spec, EvictionsAreFailures

-----------------------------------------------------------------------------
(* The followup.  Every followup is running, has a token in doneCh, or has  *)
(* been received: the three numbers add up to the number of followups.      *)

fuRunning == {p \in Peers : fu[p] = "query"}

HasResult == phase \in {"result", "followup", "drain", "returned"}

FollowupInv ==
    /\ phase \notin {"followup", "drain", "returned"} =>
           doneCh = 0 /\ received = 0 /\ \A p \in Peers : fu[p] = "idle"
    /\ HasResult => inFlight = {} /\ \A p \in peers : qps[p] \in {"Heard", "Waiting", "Queried"}
    /\ phase \in {"followup", "drain"} =>
           /\ doneCh + received + Cardinality(fuRunning) = Cardinality(queryPeers)
           /\ \A p \in queryPeers : fu[p] # "idle"
    /\ phase = "returned" =>
           /\ doneCh = 0 /\ fuRunning = {}
           /\ completed => \A p \in queryPeers : fu[p] = "done"

(* The number of followups is well defined.                                 *)
LEMMA FollowupCounts ==
  ASSUME TypeOK
  PROVE  /\ IsFiniteSet(queryPeers) /\ Cardinality(queryPeers) \in Nat
         /\ IsFiniteSet(fuRunning) /\ Cardinality(fuRunning) \in Nat
         /\ Cardinality(fuRunning) = 0 => fuRunning = {}
  BY Zenon, PeersAssumption, FS_Subset, FS_CardinalityType, FS_EmptySet DEF TypeOK, queryPeers, fuRunning

(* When all the followups have been received, none runs and none is lost.   *)
LEMMA AllReceived ==
  ASSUME TypeOK, NEW d \in Nat, NEW n \in Nat, n >= Cardinality(queryPeers),
         d + n + Cardinality(fuRunning) = Cardinality(queryPeers)
  PROVE  d = 0 /\ fuRunning = {} /\ n = Cardinality(queryPeers)
  BY FollowupCounts

(* The start of the followup, or its being skipped.                         *)
LEMMA FollowupStartsSafe == QueryInv /\ FollowupInv /\ StartFollowup => FollowupInv'
<1> SUFFICES ASSUME QueryInv, FollowupInv, StartFollowup PROVE FollowupInv'
  OBVIOUS
<1>1. /\ inFlight' = inFlight /\ queryPeers' = queryPeers /\ peers' = peers /\ qps' = qps
      /\ doneCh' = 0 /\ received' = 0 /\ \A p \in Peers : fu[p] = "idle"
  BY Zenon DEF StartFollowup, FollowupInv, inFlight, queryPeers, loopVars
<1>2. inFlight = {} /\ \A p \in peers : qps[p] \in {"Heard", "Waiting", "Queried"}
  BY Zenon DEF StartFollowup, FollowupInv, HasResult
<1>3. CASE phase' = "returned"
  <2>1. fu' = fu /\ (completed' => queryPeers = {})
    BY Zenon, <1>3 DEF StartFollowup
  <2> QED
    BY Zenon, <1>1, <1>2, <1>3, <2>1 DEF FollowupInv, fuRunning, HasResult
<1>4. CASE phase' = "followup"
  <2>1. fu' = [p \in Peers |-> IF p \in queryPeers THEN "query" ELSE "idle"]
    BY Zenon, <1>4 DEF StartFollowup
  <2>2. fuRunning' = queryPeers /\ queryPeers \subseteq Peers
    BY Zenon, <2>1 DEF fuRunning, queryPeers, QueryInv, TypeOK
  <2> QED
    BY <1>1, <1>2, <1>4, <2>1, <2>2, FollowupCounts DEF FollowupInv, HasResult, QueryInv
<1> QED
  BY Zenon, <1>3, <1>4 DEF StartFollowup

(* A followup goroutine that ends leaves its token in doneCh.               *)
LEMMA FollowupReturnsSafe ==
  ASSUME QueryInv, FollowupInv, NEW p \in Peers, FollowupReturns(p) PROVE FollowupInv'
<1>1. /\ inFlight' = inFlight /\ queryPeers' = queryPeers /\ peers' = peers /\ qps' = qps
      /\ received' = received /\ doneCh' = doneCh + 1 /\ phase' = phase
      /\ p \in fuRunning /\ fu' = [fu EXCEPT ![p] = "done"]
  BY Zenon DEF FollowupReturns, inFlight, queryPeers, loopVars, fuRunning
<1>2. phase \in {"followup", "drain"}
  BY Zenon, <1>1 DEF FollowupInv, fuRunning
<1>3. fuRunning' = fuRunning \ {p}
  BY Zenon, <1>1 DEF fuRunning, QueryInv, TypeOK
<1>4. Cardinality(fuRunning \ {p}) = Cardinality(fuRunning) - 1
  BY <1>1, FollowupCounts, FS_RemoveElement, ZenonT(60) DEF QueryInv
<1>5. doneCh' + received' + Cardinality(fuRunning') = Cardinality(queryPeers')
  BY <1>1, <1>2, <1>3, <1>4, FollowupCounts DEF FollowupInv, QueryInv, TypeOK
<1>6. \A q \in queryPeers : q \in Peers /\ fu'[q] # "idle"
  BY Zenon, <1>1, <1>2 DEF FollowupInv, queryPeers, QueryInv, TypeOK
<1> QED
  BY Zenon, <1>1, <1>2, <1>5, <1>6 DEF FollowupInv, HasResult

(* FollowupDone, FollowupCancelled and Drain.                               *)
LEMMA FollowupLoopSafe ==
  ASSUME QueryInv, FollowupInv, FollowupDone \/ FollowupCancelled \/ Drain PROVE FollowupInv'
<1>1. /\ inFlight' = inFlight /\ queryPeers' = queryPeers /\ peers' = peers /\ qps' = qps
      /\ fu' = fu /\ fuRunning' = fuRunning
      /\ phase \in {"followup", "drain"} /\ phase' \in {"followup", "drain", "returned"}
  BY Zenon DEF FollowupDone, FollowupCancelled, Drain, inFlight, queryPeers, fuRunning, loopVars
<1>2. /\ doneCh' + received' = doneCh + received /\ doneCh' \in Nat /\ received' \in Nat
  BY DEF FollowupDone, FollowupCancelled, Drain, QueryInv, TypeOK
<1>3. doneCh' + received' + Cardinality(fuRunning) = Cardinality(queryPeers)
  BY <1>1, <1>2, FollowupCounts, Zenon DEF FollowupInv, QueryInv, TypeOK
<1>4. phase' = "returned" => received' >= Cardinality(queryPeers)
  <2>1. CASE FollowupDone
    <3>1. completed' => (stop => received' = Cardinality(queryPeers))
      BY Zenon, <2>1 DEF FollowupDone
    <3>2. phase' = "returned" => completed' /\ (stop \/ ~(received' < Cardinality(queryPeers)))
      BY Zenon, <2>1 DEF FollowupDone
    <3>3. Cardinality(queryPeers) \in Nat
      BY Zenon, FollowupCounts DEF QueryInv
    <3> QED
      BY <1>2, <3>1, <3>2, <3>3
  <2>2. CASE FollowupCancelled
    BY Zenon, <2>2 DEF FollowupCancelled
  <2>3. CASE Drain
    <3>1. phase' = "returned" => received' = Cardinality(queryPeers)
      BY Zenon, <2>3 DEF Drain
    <3>2. Cardinality(queryPeers) \in Nat
      BY Zenon, FollowupCounts DEF QueryInv
    <3> QED
      BY <1>2, <3>1, <3>2
  <2> QED
    BY Zenon, <2>1, <2>2, <2>3
<1>5. phase' = "returned" => doneCh' = 0 /\ fuRunning = {}
  BY Zenon, <1>2, <1>3, <1>4, AllReceived DEF QueryInv
<1>6. \A q \in queryPeers : q \in Peers /\ fu[q] # "idle" /\ fu[q] \in {"idle", "query", "done"}
  BY Zenon, <1>1 DEF FollowupInv, queryPeers, QueryInv, TypeOK
<1>7. phase' = "returned" => \A q \in queryPeers : fu[q] = "done"
  BY Zenon, <1>5, <1>6 DEF fuRunning
<1> QED
  BY Zenon, <1>1, <1>2, <1>3, <1>5, <1>6, <1>7 DEF FollowupInv, HasResult

(* Every step preserves FollowupInv.                                        *)
LEMMA FollowupNext == QueryInv /\ FollowupInv /\ [Next]_vars => FollowupInv'
<1> SUFFICES ASSUME QueryInv, FollowupInv, [Next]_vars PROVE FollowupInv'
  BY Zenon
<1>1. CASE StartQuery \/ ReceiveUpdate \/ PathCancelled
  <2>1. /\ phase \in {"start", "run"} /\ phase' \in {"noPeers", "run", "wait"}
        /\ UNCHANGED <<doneCh, received, fu>>
    BY Zenon, <1>1 DEF StartQuery, ReceiveUpdate, PathCancelled, finishIteration, resultVars
  <2> QED
    BY Zenon, <2>1 DEF FollowupInv, HasResult
<1>2. CASE \E p \in Peers : queryPeer(p)
  <2>1. UNCHANGED <<phase, doneCh, received, fu>>
    BY Zenon, <1>2, GoroutineStep DEF resultVars, QueryInv
  <2>2. inFlight # {}
    BY Zenon, <1>2, GoroutineStep DEF inFlight, QueryInv
  <2> QED
    BY Zenon, <2>1, <2>2 DEF FollowupInv, HasResult
<1>3. CASE ConstructLookupResult
  <2>1. /\ phase = "wait" /\ phase' = "result" /\ UNCHANGED <<doneCh, received, fu, pc, qps>>
        /\ inFlight' = {} /\ \A p \in peers' : qps[p] \in {"Heard", "Waiting", "Queried"}
    BY Zenon, <1>3 DEF ConstructLookupResult, loopVars, inFlight, GetClosestNInStates, ClosestN, InStates
  <2> QED
    BY Zenon, <2>1 DEF FollowupInv, HasResult
<1>4. CASE StartFollowup
  BY <1>4, FollowupStartsSafe
<1>5. CASE FollowupDone \/ FollowupCancelled \/ Drain
  BY Zenon, <1>5, FollowupLoopSafe
<1>6. CASE \E p \in Peers : FollowupReturns(p)
  BY <1>6, FollowupReturnsSafe
<1>7. CASE Cancel \/ ChangeStop \/ UNCHANGED vars
  <2>1. UNCHANGED <<pc, qps, phase, peers, completed, doneCh, received, fu>>
    BY Zenon, <1>7 DEF Cancel, ChangeStop, vars, loopVars, resultVars
  <2> QED
    BY Zenon, <2>1 DEF FollowupInv, HasResult, inFlight, fuRunning, queryPeers
<1> QED
  BY Zenon, <1>1, <1>2, <1>3, <1>4, <1>5, <1>6, <1>7 DEF Next, Caller

(* FollowupInv is an invariant.                                             *)
LEMMA FollowupInvariant == Spec => []FollowupInv
<1>1. Init => FollowupInv
  BY Zenon DEF Init, FollowupInv, HasResult
<1> QED
  BY <1>1, QueryInvariant, FollowupNext, PTL DEF Spec

(* However its two loops end, runLookupWithFollowup returns only when none  *)
(* of the goroutines it started is running.                                 *)
THEOREM ReturnsClean == Spec => []NothingLeftRunning
<1>1. FollowupInv => NothingLeftRunning
  BY Zenon DEF FollowupInv, HasResult, NothingLeftRunning, fuRunning
<1> QED
  BY <1>1, FollowupInvariant, PTL

(* A lookup that reports completed has queried all of its K results.        *)
THEOREM CompletedQueriedTopK == Spec => []TopKQueried
<1>1. FollowupInv => TopKQueried
  BY Zenon DEF FollowupInv, HasResult, TopKQueried, queryPeers
<1> QED
  BY <1>1, FollowupInvariant, PTL

-----------------------------------------------------------------------------
(* Resilience.  Until the context is cancelled, good peers answer, every    *)
(* answer of a good peer that is not the closest names a closer good one,   *)
(* and the peerset remembers it.                                            *)

NotClosest(p) == \E g \in Good : g < p

NamesCloser(u) ==
    /\ u.outcome = "Queried"
    /\ NotClosest(u.cause) => \E g \in Good : g \in u.heard /\ g < u.cause

GoodAnswers ==
    /\ \A p \in Good :
          /\ pc[p] \notin {"dialFailed", "dialAborted", "queryFailed", "queryAborted"}
          /\ pc[p] = "send" => NamesCloser(msg[p])
    /\ \A i \in 1..Len(ch) : ch[i].cause \in Good => NamesCloser(ch[i])

GoodProgress ==
    \A p \in Good :
        /\ qps[p] # "Unreachable"
        /\ qps[p] = "Queried" /\ NotClosest(p) => \E g \in Good : g < p /\ qps[g] # "Unknown"

SeedsKnown ==
    \/ seeds = {}
    \/ SeedPending /\ reason \in {"none", "LookupCancelled"} /\ Self \notin seeds
    \/ \A p \in seeds : qps[p] # "Unknown"

ReasonHolds ==
    /\ reason = "LookupStarvation" => isStarvationTermination(qps)
    /\ reason = "LookupCompleted" => isLookupTermination(qps)

ResilienceInv ==
    /\ ~ctxDone => (reason = "none" => GoodAnswers) /\ GoodProgress
    /\ SeedsKnown
    /\ ReasonHolds

(* Good peers are peers that a lookup may query.                            *)
LEMMA GoodPeers == Good \subseteq Peers /\ Self \notin Good /\ Good \subseteq Usable
  BY Zenon, ProgressAssumption DEF Good

(* A counting argument: fewer than beta faulty peers cannot fill the beta   *)
(* closest places ahead of the closest good peer known.                     *)
LEMMA ResilienceImplies == QueryInv /\ ResilienceInv => ClosestGoodFound
<1> SUFFICES ASSUME QueryInv, ResilienceInv, Cardinality(Faulty) < Beta, seeds \cap Good # {},
                    ~ctxDone, reason \in {"LookupCompleted", "LookupStarvation"},
                    NEW c \in Good, \A g \in Good : c <= g
             PROVE  qps[c] = "Queried"
  BY Zenon DEF ClosestGoodFound
<1> DEFINE G == {g \in Good : qps[g] # "Unknown"}
           S == InStates(qps, {"Heard", "Waiting", "Queried"})
<1>1. G \subseteq Nat /\ IsFiniteSet(G) /\ G # {}
  <2>1. \A p \in seeds : qps[p] # "Unknown"
    BY Zenon DEF ResilienceInv, SeedsKnown
  <2> QED
    BY Zenon, <2>1, PeersAssumption, GoodPeers, FS_Subset
<1>2. PICK m \in G : \A g \in G : m <= g
  BY Zenon, <1>1, FiniteMin
<1>3. m \in Peers /\ m \in Good /\ m \in Nat /\ qps[m] # "Unknown" /\ c \in Nat /\ c \in Peers
  BY Zenon, <1>1, <1>2, GoodPeers, PeersAssumption
<1>4. qps[m] \in {"Heard", "Waiting", "Queried"} /\ m \in S
  BY Zenon, <1>3 DEF ResilienceInv, GoodProgress, QueryInv, TypeOK, PeerState, InStates
<1>5. qps[m] = "Queried"
  <2>1. CASE reason = "LookupStarvation"
    BY Zenon, <1>3, <1>4, <2>1 DEF ResilienceInv, ReasonHolds, isStarvationTermination, InStates
  <2>2. CASE reason = "LookupCompleted"
    <3> DEFINE B == {q \in S : q < m}
    <3>1. B \subseteq Faulty
      <4> SUFFICES ASSUME NEW q \in B PROVE q \in Faulty
        BY Zenon
      <4>1. q \in Peers /\ q \in Nat /\ qps[q] # "Unknown" /\ q < m
        BY Zenon, PeersAssumption DEF InStates
      <4>2. q # Self
        BY Zenon, <4>1 DEF QueryInv, LoopInv
      <4>3. q \notin G
        BY <1>2, <1>3, <4>1
      <4> QED
        BY Zenon, <4>1, <4>2, <4>3 DEF Good
    <3>2. IsFiniteSet(Faulty) /\ Cardinality(Faulty) \in Nat
      BY Zenon, PeersAssumption, FS_Subset, FS_CardinalityType
    <3>3. Cardinality(B) <= Cardinality(Faulty) /\ Cardinality(B) \in Nat
      BY Zenon, <3>1, <3>2, FS_Subset, FS_CardinalityType
    <3>4. Cardinality(B) < Beta
      BY <3>2, <3>3, ParametersAssumption
    <3>5. m \in GetClosestNInStates(qps, Beta, {"Heard", "Waiting", "Queried"})
      BY Zenon, <1>4, <3>4 DEF GetClosestNInStates, ClosestN
    <3> QED
      BY Zenon, <2>2, <3>5 DEF ResilienceInv, ReasonHolds, isLookupTermination
  <2> QED
    BY Zenon, <2>1, <2>2
<1>6. m = c
  <2>1. ~NotClosest(m)
    BY <1>2, <1>3, <1>5, GoodPeers, PeersAssumption DEF ResilienceInv, GoodProgress
  <2> QED
    BY <1>3, <2>1 DEF NotClosest
<1> QED
  BY Zenon, <1>5, <1>6

(* Taking an update preserves ResilienceInv.                                *)
LEMMA ResilienceReceive == QueryInv /\ ResilienceInv /\ ReceiveUpdate => ResilienceInv'
<1> SUFFICES ASSUME QueryInv, ResilienceInv, ReceiveUpdate PROVE ResilienceInv'
  OBVIOUS
<1> DEFINE u == Head(ch)
           f == stateAfter(u)
<1>1. /\ ch \in Seq(Update) /\ ch # <<>> /\ ch' = Tail(ch) /\ reason = "none"
      /\ pc \in [Peers -> GoroutineState] /\ finishIteration(f, "none")
      /\ UNCHANGED <<ctxDone, seeds, msg>> /\ "none" \in Reasons
  BY Zenon DEF ReceiveUpdate, QueryInv, LoopInv, TypeOK, Reasons
<1>2. /\ u = ch[1] /\ 1 \in 1..Len(ch) /\ u \in Update /\ ch' \in Seq(Update)
      /\ \A i \in 1..Len(ch') : ch'[i] = ch[i+1] /\ i + 1 \in 1..Len(ch)
  BY <1>1
<1>3. /\ f \in [Peers -> PeerState] /\ NumWaiting(f) <= Alpha
      /\ \A p \in Peers :
           \/ f[p] = qps[p]
           \/ qps[p] = "Unknown" /\ f[p] = "Heard" /\ p # Self
           \/ /\ QueryUpdates /\ p = u.cause /\ qps[p] = "Waiting"
              /\ f[p] \in {"Queried", "Unreachable"}
  BY Zenon, <1>1, TakeUpdate
<1>4. \A p \in Peers :
        \/ p = u.cause /\ p # Self /\ u.outcome # "seed" /\ f[p] = u.outcome
        \/ /\ p # u.cause \/ p = Self \/ u.outcome = "seed"
           /\ f[p] = IF p \in u.heard /\ p # Self /\ qps[p] = "Unknown" THEN "Heard" ELSE qps[p]
  BY Zenon, <1>2, StateAfterEffect DEF QueryInv
<1>5. reason' = readyReason(f)
  BY Zenon, <1>1 DEF finishIteration
<1> HIDE DEF f
<1>6. /\ \/ reason' = "none" /\ phase' = phase
         \/ reason' # "none" /\ phase' = "wait" /\ qps' = f /\ pc' = pc
      /\ \A p \in Peers :
           \/ f[p] = "Heard" /\ qps'[p] = "Waiting" /\ pc'[p] = "dial"
           \/ qps'[p] = f[p] /\ pc'[p] = pc[p]
  BY Zenon, <1>1, <1>3, IterationEffect
<1>7. \A p \in Peers : qps[p] # "Unknown" => qps'[p] # "Unknown"
  BY Zenon, <1>3, <1>6
<1>8. \A p \in Peers : p \in u.heard /\ p # Self => qps'[p] # "Unknown"
  <2>1. \A p \in Peers : p \in u.heard /\ p # Self => f[p] # "Unknown"
    BY Zenon, <1>2, <1>4 DEF Update
  <2> QED
    BY Zenon, <1>6, <2>1
<1> HIDE DEF u
<1>9. ReasonHolds'
  <2>1. /\ reason' = "LookupStarvation" => isStarvationTermination(f) /\ qps' = f
        /\ reason' = "LookupCompleted" => isLookupTermination(f) /\ qps' = f
    BY Zenon, <1>5, <1>6 DEF readyReason
  <2> QED
    BY Zenon, <2>1 DEF ReasonHolds, isStarvationTermination, isLookupTermination, GetClosestNInStates,
                ClosestN, InStates
<1>10. SeedsKnown'
  <2>1. CASE SeedPending /\ Self \notin seeds
    <3>1. u = SeedUpdate
      BY Zenon, <1>2, <2>1 DEF SeedPending
    <3>2. u.heard = seeds /\ seeds \subseteq Peers
      BY Zenon, <3>1 DEF SeedUpdate, QueryInv, TypeOK
    <3> QED
      BY Zenon, <1>1, <1>8, <2>1, <3>2 DEF SeedsKnown
  <2>2. CASE seeds = {} \/ \A p \in seeds : qps[p] # "Unknown"
    BY Zenon, <1>1, <1>7, <2>2 DEF SeedsKnown, QueryInv, TypeOK
  <2> QED
    BY Zenon, <2>1, <2>2 DEF ResilienceInv, SeedsKnown
<1>11. ASSUME ~ctxDone', reason' = "none" PROVE GoodAnswers'
  <2>1. GoodAnswers
    BY Zenon, <1>1, <1>11 DEF ResilienceInv
  <2>2. ASSUME NEW p \in Good
        PROVE  /\ pc'[p] \notin {"dialFailed", "dialAborted", "queryFailed", "queryAborted"}
               /\ pc'[p] = "send" => NamesCloser(msg[p])
    BY Zenon, <1>6, <2>1, GoodPeers DEF GoodAnswers
  <2>3. ASSUME NEW i \in 1..Len(ch'), ch'[i].cause \in Good PROVE NamesCloser(ch'[i])
    BY Zenon, <1>2, <2>1, <2>3 DEF GoodAnswers
  <2> QED
    BY Zenon, <1>1, <2>2, <2>3 DEF GoodAnswers, NamesCloser, NotClosest
<1>12. ASSUME ~ctxDone' PROVE GoodProgress'
  <2>1. GoodAnswers /\ GoodProgress
    BY Zenon, <1>1, <1>12 DEF ResilienceInv
  <2> SUFFICES ASSUME NEW p \in Good
               PROVE  /\ qps'[p] # "Unreachable"
                      /\ qps'[p] = "Queried" /\ NotClosest(p)
                            => \E g \in Good : g < p /\ qps'[g] # "Unknown"
    BY Zenon DEF GoodProgress, NotClosest
  <2>2. CASE p = u.cause /\ u.outcome # "seed"
    <3>1. NamesCloser(u)
      BY Zenon, <1>2, <2>1, <2>2 DEF GoodAnswers
    <3>2. f[p] = "Queried" /\ qps'[p] = "Queried"
      BY Zenon, <1>4, <1>6, <2>2, <3>1, GoodPeers DEF NamesCloser
    <3> QED
      BY Zenon, <1>8, <2>2, <3>1, <3>2, GoodPeers DEF NamesCloser
  <2>3. CASE p # u.cause \/ u.outcome = "seed"
    <3>1. f[p] = qps[p] \/ f[p] = "Heard"
      BY Zenon, <1>4, <2>3, GoodPeers
    <3> QED
      BY Zenon, <1>6, <1>7, <2>1, <3>1, GoodPeers DEF GoodProgress
  <2> QED
    BY Zenon, <2>2, <2>3
<1> QED
  BY Zenon, <1>9, <1>10, <1>11, <1>12 DEF ResilienceInv

(* A good peer's answer names a closer good peer.                           *)
LEMMA GoodResponse ==
  ASSUME NEW p \in Good, NEW r \in Responses[p], NEW m,
         m = [cause |-> p, heard |-> r \cap Usable, outcome |-> "Queried"]
  PROVE  NamesCloser(m)
<1>1. m.cause = p /\ m.outcome = "Queried" /\ m.heard = r \cap Usable
  BY Zenon
<1>2. NotClosest(p) => \E g \in Good : g \in r /\ g < p
  BY Zenon, ProgressAssumption DEF NotClosest
<1> QED
  BY Zenon, <1>1, <1>2, GoodPeers DEF NamesCloser

(* A step of queryPeer(p) preserves ResilienceInv.                          *)
LEMMA ResilienceGoroutine ==
  ASSUME QueryInv, ResilienceInv, NEW p \in Peers, queryPeer(p) PROVE ResilienceInv'
<1>1. UNCHANGED <<ctxDone, seeds, qps, reason>> /\ pc[p] \notin {"idle", "done"}
  BY Zenon, GoroutineStep DEF QueryInv
<1>2. ReasonHolds' /\ GoodProgress' = GoodProgress
  BY Zenon, <1>1 DEF ResilienceInv, ReasonHolds, GoodProgress, isStarvationTermination,
              isLookupTermination, GetClosestNInStates, ClosestN, InStates
<1>3. SeedsKnown'
  BY Zenon, <1>1 DEF ResilienceInv, SeedsKnown, SeedPending, Untouched
<1>4. ASSUME ~ctxDone, reason = "none" PROVE GoodAnswers'
  <2>1. GoodAnswers /\ ~pathDone
    BY <1>4 DEF ResilienceInv, pathDone
  <2>2. p \in Good => pc[p] \notin {"dialFailed", "dialAborted", "queryFailed", "queryAborted"}
    BY Zenon, <2>1 DEF GoodAnswers
  <2>3. ASSUME NEW q \in Good
        PROVE  pc'[q] \notin {"dialFailed", "dialAborted", "queryFailed", "queryAborted"}
    <3>1. CASE q = p
      BY Zenon, <1>4, <2>1, <3>1, GoroutineStep DEF Good, QueryInv
    <3>2. CASE q # p
      BY <2>1, <3>2, GoroutineStep, GoodPeers, ZenonT(60) DEF GoodAnswers, QueryInv
    <3> QED
      BY <3>1, <3>2
  <2>4. ASSUME NEW q \in Good, pc'[q] = "send" PROVE NamesCloser(msg'[q])
    <3>1. CASE q = p
      <4>1. PICK r \in Responses[p] :
               msg'[p] = [cause |-> p, heard |-> r \cap Usable, outcome |-> "Queried"]
        <5>1. TypeOK /\ p \in Good /\ pc'[p] = "send"
          BY Zenon, <2>4, <3>1 DEF QueryInv
        <5>2. \/ pc'[p] # "send"
              \/ pc[p] \in {"dialFailed", "dialAborted", "queryFailed", "queryAborted"}
              \/ \E r \in Responses[p] :
                    msg'[p] = [cause |-> p, heard |-> r \cap Usable, outcome |-> "Queried"]
          BY <5>1, GoroutineStep, Zenon
        <5> QED
          BY <2>2, <5>1, <5>2, Zenon
      <4>2. p \in Good
        BY Zenon, <2>4, <3>1
      <4>3. NamesCloser(msg'[p])
        BY Zenon, <4>1, <4>2, GoodResponse
      <4> QED
        BY Zenon, <3>1, <4>3
    <3>2. CASE q # p
      <4>1. pc[q] = "send" /\ msg'[q] = msg[q]
        <5>1. TypeOK /\ q \in Peers
          BY Zenon, GoodPeers DEF QueryInv
        <5>2. pc'[q] = pc[q] /\ msg'[q] = msg[q]
          BY Zenon, <3>2, <5>1, GoroutineStep
        <5> QED
          BY Zenon, <2>4, <5>2
      <4> QED
        BY Zenon, <2>1, <4>1 DEF GoodAnswers
    <3> QED
      BY Zenon, <3>1, <3>2
  <2>5. ASSUME NEW i \in 1..Len(ch'), ch'[i].cause \in Good PROVE NamesCloser(ch'[i])
    <3>1. CASE ch' = ch
      BY Zenon, <2>1, <2>5, <3>1 DEF GoodAnswers
    <3>2. CASE pc[p] = "send" /\ ch' = Append(ch, msg[p])
      <4>1. ch \in Seq(Update) /\ msg[p] \in Update
        BY Zenon DEF QueryInv, TypeOK
      <4>2. /\ Len(ch') = Len(ch) + 1 /\ Len(ch) \in Nat
            /\ ch'[Len(ch) + 1] = msg[p]
            /\ \A j \in 1..Len(ch) : ch'[j] = ch[j]
        BY <3>2, <4>1
      <4>3. msg[p].cause = p
        BY Zenon, <3>2 DEF QueryInv, LoopInv, GoroutinesMatch
      <4>4. i \in 1..Len(ch) \/ i = Len(ch) + 1
        BY <4>2
      <4>5. CASE i \in 1..Len(ch)
        BY Zenon, <2>1, <2>5, <4>2, <4>5 DEF GoodAnswers
      <4>6. CASE i = Len(ch) + 1
        BY Zenon, <2>1, <2>5, <3>2, <4>2, <4>3, <4>6 DEF GoodAnswers
      <4> QED
        BY Zenon, <4>4, <4>5, <4>6
    <3> QED
      BY Zenon, <3>1, <3>2, GoroutineStep DEF QueryInv
  <2> QED
    BY Zenon, <2>3, <2>4, <2>5 DEF GoodAnswers, NamesCloser, NotClosest
<1> QED
  BY Zenon, <1>1, <1>2, <1>3, <1>4 DEF ResilienceInv

(* Every step preserves ResilienceInv.                                      *)
LEMMA ResilienceNext == QueryInv /\ ResilienceInv /\ [Next]_vars => ResilienceInv'
<1> SUFFICES ASSUME QueryInv, ResilienceInv, [Next]_vars PROVE ResilienceInv'
  OBVIOUS
<1>1. CASE StartQuery
  <2>1. /\ reason' = "none" /\ UNCHANGED <<ctxDone, qps, pc, msg>>
        /\ \A p \in Peers : pc[p] = "idle" /\ qps[p] = "Unknown"
        /\ \/ ch' = <<>> /\ seeds' = {}
           \/ ch' = <<SeedUpdate'>> /\ Self \notin seeds'
    BY Zenon, <1>1 DEF StartQuery, QueryInv, LoopInv, Untouched, SeedUpdate, ClosestN
  <2>2. SeedsKnown' /\ ReasonHolds' /\ GoodProgress'
    BY Zenon, <2>1, GoodPeers DEF SeedsKnown, SeedPending, Untouched, ReasonHolds, GoodProgress
  <2>3. \A i \in 1..Len(ch') : ch'[i].cause = Self
    BY <2>1 DEF SeedUpdate
  <2>4. GoodAnswers'
    BY Zenon, <2>1, <2>3, GoodPeers DEF GoodAnswers
  <2> QED
    BY Zenon, <2>2, <2>4 DEF ResilienceInv
<1>2. CASE ReceiveUpdate
  BY <1>2, ResilienceReceive
<1>3. CASE PathCancelled
  <2>1. reason' = "LookupCancelled" /\ ctxDone' /\ UNCHANGED <<qps, pc, seeds, ch>>
    BY Zenon, <1>3 DEF PathCancelled, finishIteration, pathDone, QueryInv, LoopInv
  <2> QED
    BY Zenon, <2>1 DEF ResilienceInv, SeedsKnown, SeedPending, SeedUpdate, Untouched, ReasonHolds
<1>4. CASE \E p \in Peers : queryPeer(p)
  BY <1>4, ResilienceGoroutine
<1>5. CASE UNCHANGED <<loopVars, pc, msg, rt>> /\ (ctxDone => ctxDone')
  <2>1. UNCHANGED <<seeds, qps, ch, reason, pc, msg>> /\ (ctxDone => ctxDone')
    BY Zenon, <1>5 DEF loopVars
  <2>2. SeedsKnown' /\ ReasonHolds' /\ (GoodProgress => GoodProgress')
    <3>1. SeedsKnown'
      BY Zenon, <2>1 DEF ResilienceInv, SeedsKnown, SeedPending, SeedUpdate, Untouched
    <3>2. ReasonHolds'
      BY Zenon, <2>1 DEF ResilienceInv, ReasonHolds, isStarvationTermination, isLookupTermination,
                  GetClosestNInStates, InStates, ClosestN
    <3>3. GoodProgress => GoodProgress'
      BY Zenon, <2>1 DEF GoodProgress
    <3> QED
      BY <3>1, <3>2, <3>3
  <2>3. GoodAnswers => GoodAnswers'
    BY ZenonT(60), <2>1 DEF GoodAnswers, NamesCloser, NotClosest
  <2> QED
    BY Zenon, <2>1, <2>2, <2>3 DEF ResilienceInv
<1> QED
  BY Zenon, <1>1, <1>2, <1>3, <1>4, <1>5, StepKinds

(* For every network in which fewer than beta peers are faulty: a lookup    *)
(* that ends by itself, from a seed that is not faulty, has queried the     *)
(* closest good peer to the target.                                         *)
THEOREM Resilience == Spec => []ClosestGoodFound
<1>1. Init => ResilienceInv
  <2> SUFFICES ASSUME Init PROVE ResilienceInv
    OBVIOUS
  <2>1. /\ seeds = {} /\ reason = "none" /\ Len(ch) = 0
        /\ \A p \in Good : pc[p] = "idle" /\ qps[p] = "Unknown"
    BY Zenon, GoodPeers DEF Init
  <2> QED
    BY <2>1 DEF ResilienceInv, GoodAnswers, GoodProgress, SeedsKnown, ReasonHolds
<1> QED
  BY <1>1, QueryInvariant, ResilienceNext, ResilienceImplies, PTL DEF Spec
=============================================================================
