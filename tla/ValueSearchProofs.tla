------------------------- MODULE ValueSearchProofs -------------------------
(***************************************************************************)
(* Proofs about ValueSearch: a record is never replaced by a worse one,    *)
(* the caller of SearchValue ends with the best value that was answered,   *)
(* and the corrections reach every peer of the lookup's result, for every  *)
(* number of servers and values.                                           *)
(***************************************************************************)
EXTENDS ValueSearch, FiniteSetTheorems, SequenceTheorems, TLAPS

(* The striped lock: a PUT_VALUE has read the existing record exactly when *)
(* it holds the lock, and nothing better than what it read can be there.   *)
(* No PUT_VALUE runs before it is sent.                                    *)
LockInv ==
    /\ \A w \in Writers, n \in Nodes : put[w][n] = "read" <=> lock[n] = w
    /\ \A w \in Writers, n \in Servers : lock[n] = w => store[n].rank <= seen[w][n]
    /\ user.pc # "done" => \A n \in Nodes : put["user"][n] = "idle"
    /\ search \notin {"fix", "done"} => \A n \in Nodes : put["fix"][n] = "idle"

(* The search that has not begun.                                          *)
Unstarted ==
    /\ best = 0 /\ numResponses = 0 /\ valCh = <<>> /\ lookup = "run"
    /\ \A s \in Servers : worker[s] = "idle"

(* What was streamed, against the best value so far.                       *)
OutInv ==
    /\ best = 0 => out = <<>> /\ search \notin {"emit", "emitQuorum", "await", "fix"}
    /\ \A i, j \in DOMAIN out : i < j => out[i] < out[j]
    /\ \A i \in DOMAIN out :
          out[i] <= best /\ (search \in {"emit", "emitQuorum"} => out[i] < best)
    /\ best # 0 /\ ~ctxDone /\ search \notin {"emit", "emitQuorum"} =>
          out # <<>> /\ out[Len(out)] = best

(* The values answered with, against the channel and the best value; and   *)
(* what the end of the lookup and of the search mean.                      *)
ValInv ==
    /\ search = "idle" => Unstarted
    /\ lookup \in {"ended", "noPeers"} => noneActive
    /\ lookup \in {"run", "runStopped", "noPeers"} => lookupRes = {}
    /\ search \in {"await", "fix", "done"} /\ ~ctxDone /\ ~stopCh =>
          valCh = <<>> /\ lookup \in {"ended", "noPeers"}
    /\ \A s \in Servers :
          /\ worker[s] = "send" => val[s] # 0
          /\ worker[s] = "done" => val[s] <= best \/ \E i \in DOMAIN valCh : val[s] <= valCh[i].val

(* While no record has grown too old, none is deleted, and a server has    *)
(* what it answered with or something better.                              *)
SeenFresh == \A w \in Writers, n \in Servers : lock[n] = w => seen[w][n] = store[n].rank

FreshInv ==
    aged = 0 =>
       /\ deleting = {} /\ (\A n \in Nodes : ~store[n].old) /\ SeenFresh
       /\ \A s \in Servers : val[s] <= store[s].rank
       /\ \A i \in DOMAIN valCh :
             valCh[i].from \in Servers => valCh[i].val <= store[valCh[i].from].rank
       /\ \A s \in peersWithBest \cap Servers : best <= store[s].rank
       /\ search \in {"fix", "done"} /\ ~ctxDone /\ ~stopCh =>
             \A s \in lookupRes : put["fix"][s] = "idle" => best <= store[s].rank

(* A query sends at most one value in the run and one in the followup.     *)
Ended == {s \in Servers : worker[s] \in {"done", "failed"}}

CountInv ==
    numResponses + Len(valCh) <=
       1 + Cardinality(Ended)
         + (IF lookup \in {"run", "runStopped", "noPeers"} THEN 0 ELSE Cardinality(Servers))

SearchInv == TypeOK /\ CountInv /\ LockInv /\ OutInv /\ ValInv /\ FreshInv

-----------------------------------------------------------------------------
(* The servers are finitely many, one fewer than the nodes.                *)
LEMMA ServersFinite ==
    /\ IsFiniteSet(Servers) /\ Cardinality(Servers) \in Nat
    /\ Cardinality(Nodes) \in Nat /\ Cardinality(Nodes) = Cardinality(Servers) + 1
<1>1. IsFiniteSet(Nodes) /\ Self \in Nodes
  BY RecordsAssumption, SearchAssumption
<1>2. IsFiniteSet(Servers) /\ Cardinality(Servers) = Cardinality(Nodes) - 1
  BY <1>1, FS_RemoveElement DEF Servers
<1> QED
  BY <1>1, <1>2, FS_CardinalityType

(* At most every server's query has ended.                                 *)
LEMMA EndedBounded == Cardinality(Ended) \in Nat /\ Cardinality(Ended) <= Cardinality(Servers)
<1>1. Ended \subseteq Servers
  BY DEF Ended
<1>2. IsFiniteSet(Ended)
  BY <1>1, ServersFinite, FS_Subset
<1> QED
  BY <1>1, <1>2, ServersFinite, FS_Subset, FS_CardinalityType

(* Facts about the constants that the steps below need.                    *)
LEMMA Constants ==
    /\ Best \in Nat \ {0} /\ Ranks \subseteq 0 .. Best /\ 1 \in Ranks
    /\ MaxAged \in Nat /\ MaxFailures \in Nat
    /\ Writers = {"user", "fix"} /\ Free \notin Writers
    /\ Self \in Nodes /\ Servers \subseteq Nodes /\ Self \notin Servers /\ ClosestPeers \subseteq Servers
  BY RecordsAssumption, SearchAssumption DEF Ranks, Servers

(* A record that is written is well typed, and so is the store.            *)
LEMMA StoreType ==
  ASSUME RecordsTypeOK, NEW n \in Nodes, NEW rank \in 0 .. Best,
         store' = [store EXCEPT ![n] = record(rank)]
  PROVE  store' \in [Nodes -> [rank : 0 .. Best, old : BOOLEAN]]
<1>1. record(rank) \in [rank : 0 .. Best, old : BOOLEAN]
  BY DEF record
<1> QED
  BY <1>1 DEF RecordsTypeOK

(* So is what a PUT_VALUE has read, and its state, when it moves on.       *)
LEMMA SeenType ==
  ASSUME RecordsTypeOK, NEW w \in Writers, NEW n \in Nodes, NEW r \in 0 .. Best,
         seen' = [seen EXCEPT ![w][n] = r]
  PROVE  seen' \in [Writers -> [Nodes -> 0 .. Best]]
  BY DEF RecordsTypeOK

(* The state of a PUT_VALUE stays one of its states.                       *)
LEMMA PutType ==
  ASSUME RecordsTypeOK, NEW w \in Writers, NEW n \in Nodes, NEW st \in PutState, setPut(w, n, st)
  PROVE  put' \in [Writers -> [Nodes -> PutState]]
  BY DEF RecordsTypeOK, setPut

(* The steps of the record handlers keep the records well typed.           *)
LEMMA HandlersType ==
  ASSUME RecordsTypeOK, NEW w \in Writers, NEW n \in Nodes, NEW rank \in 0 .. Best,
         putRead(w, n) \/ putWrite(w, n, rank) \/ putFails(w, n)
  PROVE  RecordsTypeOK'
<1>1. 0 \in 0 .. Best /\ {"idle", "read", "failed"} \subseteq PutState
  BY Constants DEF PutState
<1>2. lock' \in [Nodes -> Writers \cup {Free}]
  BY Zenon DEF putRead, putWrite, putFails, RecordsTypeOK
<1>3. put' \in [Writers -> [Nodes -> PutState]]
  BY Zenon, <1>1, PutType DEF putRead, putWrite, putFails
<1>4. seen' \in [Writers -> [Nodes -> 0 .. Best]]
  <2>1. store[n].rank \in 0 .. Best
    BY DEF RecordsTypeOK
  <2> QED
    BY Zenon, <1>1, <2>1, SeenType DEF putRead, putWrite, putFails
<1>5. store' \in [Nodes -> [rank : 0 .. Best, old : BOOLEAN]]
  <2>1. store' = store \/ store' = [store EXCEPT ![n] = record(rank)]
    BY Zenon DEF putRead, putWrite, putFails
  <2> QED
    BY Zenon, <2>1, StoreType DEF RecordsTypeOK
<1>6. deleting' \subseteq Nodes
  BY Zenon DEF putRead, putWrite, putFails, RecordsTypeOK
<1> QED
  BY Zenon, <1>2, <1>3, <1>4, <1>5, <1>6 DEF RecordsTypeOK

-----------------------------------------------------------------------------
(* Types, by the parts of the state: the requests of PutValue, the search  *)
(* as its caller sees it, and the lookup with its queries.                 *)

requestVars == <<user, aged, failures>>
callVars == <<ctxDone, quorum, search, best, peersWithBest, numResponses, out, stopCh>>
queryVars == <<valCh, worker, val, lookup, lookupRes>>

SearchStates == {"idle", "loop", "emit", "emitQuorum", "await", "fix", "done"}
LookupStates == {"run", "runStopped", "followup", "followupStopped", "ended", "noPeers"}
WorkerStates == {"idle", "asked", "send", "done", "failed"}
UserState == [pc : {"idle", "compare", "lookup", "done"}, rank : Ranks, old : 0 .. Best]

RequestTypes == user \in UserState /\ aged \in 0 .. MaxAged /\ failures \in 0 .. MaxFailures

CallTypes ==
    /\ ctxDone \in BOOLEAN /\ stopCh \in BOOLEAN
    /\ quorum \in Quorums \cup {0}
    /\ search \in SearchStates
    /\ best \in 0 .. Best
    /\ peersWithBest \subseteq Nodes
    /\ numResponses \in 0 .. 2 * Cardinality(Nodes)
    /\ out \in Seq(Ranks)

QueryTypes ==
    /\ valCh \in Seq(Message) /\ Len(valCh) \leq 1
    /\ worker \in [Servers -> WorkerStates]
    /\ val \in [Servers -> 0 .. Best]
    /\ lookup \in LookupStates
    /\ lookupRes \subseteq Servers

(* The parts make up TypeOK.                                               *)
LEMMA TypeParts == TypeOK <=> RecordsTypeOK /\ RequestTypes /\ CallTypes /\ QueryTypes
  BY Zenon DEF TypeOK, RequestTypes, CallTypes, QueryTypes, UserState, SearchStates, WorkerStates, LookupStates

(* A part that does not change stays well typed.                           *)
LEMMA TypeFrames ==
  /\ RecordsTypeOK /\ UNCHANGED recordVars => RecordsTypeOK'
  /\ RequestTypes /\ UNCHANGED requestVars => RequestTypes'
  /\ CallTypes /\ UNCHANGED callVars => CallTypes'
  /\ QueryTypes /\ UNCHANGED queryVars => QueryTypes'
<1>1. RecordsTypeOK /\ UNCHANGED recordVars => RecordsTypeOK'
  BY Zenon DEF RecordsTypeOK, recordVars
<1>2. RequestTypes /\ UNCHANGED requestVars => RequestTypes'
  BY Zenon DEF RequestTypes, requestVars
<1>3. CallTypes /\ UNCHANGED callVars => CallTypes'
  BY Zenon DEF CallTypes, callVars
<1>4. QueryTypes /\ UNCHANGED queryVars => QueryTypes'
  BY Zenon DEF QueryTypes, queryVars
<1> QED
  BY <1>1, <1>2, <1>3, <1>4, Zenon

(* searchVars are those of the call and of the queries.                    *)
LEMMA SearchVarsParts == UNCHANGED searchVars => UNCHANGED callVars /\ UNCHANGED queryVars
  BY Zenon DEF searchVars, callVars, queryVars

(* A query that ends leaves every worker and the lookup well typed.        *)
LEMMA EndsType ==
  ASSUME QueryTypes, NEW s \in Servers, NEW st \in {"done", "failed"}, ends(s, st)
  PROVE  worker' \in [Servers -> WorkerStates] /\ lookup' \in LookupStates
<1>1. worker \in [Servers -> WorkerStates] /\ lookup \in LookupStates
  BY Zenon DEF QueryTypes
<1>2. worker' = [worker EXCEPT ![s] = st] /\ lookup' \in {lookup, "runStopped", "followupStopped"}
  BY Zenon DEF ends
<1>3. st \in WorkerStates /\ "runStopped" \in LookupStates /\ "followupStopped" \in LookupStates
  BY Zenon DEF WorkerStates, LookupStates
<1> QED
  BY <1>1, <1>2, <1>3

(* PutValue keeps the types.                                               *)
LEMMA UserPutType ==
  ASSUME RecordsTypeOK, RequestTypes, UserPut
  PROVE  /\ RecordsTypeOK' /\ RequestTypes'
         /\ UNCHANGED callVars /\ UNCHANGED queryVars
<1>0. /\ user \in UserState /\ user.rank \in Ranks /\ user.rank \in 0 .. Best
      /\ aged \in 0 .. MaxAged /\ failures \in 0 .. MaxFailures
  BY Constants, Zenon DEF RequestTypes, UserState
<1>1. UNCHANGED <<aged, failures>> /\ UNCHANGED searchVars
  BY Zenon DEF UserPut, PutValue, PutCompare, PutToPeers
<1>2. user' \in UserState
  <2>1. CASE PutValue
    <3>1. PICK r \in Ranks : user' = [pc |-> "compare", rank |-> r, old |-> getLocal(Self)]
      BY <2>1, Zenon DEF PutValue
    <3>2. getLocal(Self) \in 0 .. Best
      BY Constants DEF getLocal, RecordsTypeOK
    <3> QED
      BY <3>1, <3>2 DEF UserState
  <2>2. CASE PutCompare \/ PutToPeers
    <3>1. PICK st \in {"lookup", "done"} :
             user' = [user EXCEPT !.pc = st, !.old = 0] \/ user' = [user EXCEPT !.pc = st]
      BY <2>2, Zenon DEF PutCompare, PutToPeers
    <3>2. 0 \in 0 .. Best
      BY Constants
    <3> QED
      BY <1>0, <3>1, <3>2 DEF UserState
  <2> QED
    BY <2>1, <2>2, Zenon DEF UserPut
<1>3. RecordsTypeOK'
  <2>1. CASE PutValue
    BY <2>1, TypeFrames, Zenon DEF PutValue
  <2>2. CASE PutCompare
    <3>1. /\ UNCHANGED <<lock, put, seen, deleting>>
          /\ store' = store \/ store' = [store EXCEPT ![Self] = record(user.rank)]
      BY <2>2, Zenon DEF PutCompare, putLocal
    <3>2. Self \in Nodes
      BY Constants, Zenon
    <3>3. store' \in [Nodes -> [rank : 0 .. Best, old : BOOLEAN]]
      BY <1>0, <3>1, <3>2, StoreType, Zenon DEF RecordsTypeOK
    <3> QED
      BY <3>1, <3>3, Zenon DEF RecordsTypeOK
  <2>3. CASE PutToPeers
    <3> DEFINE f == [n \in Nodes |-> IF n \in ClosestPeers THEN "sent" ELSE "idle"]
    <3>1. UNCHANGED <<store, lock, seen, deleting>> /\ (put' = put \/ put' = [put EXCEPT !["user"] = f])
      BY <2>3, Zenon DEF PutToPeers
    <3>2. f \in [Nodes -> PutState]
      BY Zenon DEF PutState
    <3> HIDE DEF f
    <3>3. put \in [Writers -> [Nodes -> PutState]]
      BY Zenon DEF RecordsTypeOK
    <3>4. put' \in [Writers -> [Nodes -> PutState]]
      BY <3>1, <3>2, <3>3
    <3> QED
      BY <3>1, <3>4, Zenon DEF RecordsTypeOK
  <2> QED
    BY <2>1, <2>2, <2>3, Zenon DEF UserPut
<1>4. RequestTypes'
  BY <1>0, <1>1, <1>2, Zenon DEF RequestTypes
<1> QED
  BY <1>1, <1>3, <1>4, SearchVarsParts, Zenon

(* The steps of the servers keep the types.                                *)
LEMMA ServerType ==
  ASSUME RecordsTypeOK, RequestTypes, CallTypes, NEW n \in Nodes,
         (\E w \in Writers : handlePutValue(w, n)) \/ handleGetValueDeletes(n) \/ RecordAges(n)
  PROVE  /\ RecordsTypeOK' /\ RequestTypes'
         /\ UNCHANGED callVars /\ UNCHANGED queryVars
<1>0. MaxFailures \in Nat /\ MaxAged \in Nat /\ Best \in Nat
  BY Constants
<1>1. UNCHANGED user /\ UNCHANGED searchVars
  BY Zenon DEF handlePutValue, handleGetValueDeletes, RecordAges
<1>2. aged' \in 0 .. MaxAged
  <2>1. aged' = aged \/ (aged < MaxAged /\ aged' = aged + 1)
    BY Zenon DEF handlePutValue, handleGetValueDeletes, RecordAges
  <2> QED
    BY <1>0, <2>1 DEF RequestTypes
<1>3. failures' \in 0 .. MaxFailures
  <2>1. failures' = failures \/ (failures < MaxFailures /\ failures' = failures + 1)
    BY Zenon DEF handlePutValue, handleGetValueDeletes, RecordAges
  <2> QED
    BY <1>0, <2>1 DEF RequestTypes
<1>4. RequestTypes'
  BY <1>1, <1>2, <1>3, Zenon DEF RequestTypes
<1>5. RecordsTypeOK'
  <2>1. ASSUME NEW w \in Writers, handlePutValue(w, n) PROVE RecordsTypeOK'
    <3>1. rankOf(w, n) \in 0 .. Best
      BY Constants DEF rankOf, RequestTypes, UserState, CallTypes
    <3> QED
      BY <2>1, <3>1, HandlersType, Zenon DEF handlePutValue
  <2>2. CASE handleGetValueDeletes(n)
    <3>1. /\ store' = [store EXCEPT ![n] = record(0)]
          /\ deleting' = deleting \ {n} /\ UNCHANGED <<lock, put, seen>>
      BY <2>2, Zenon DEF handleGetValueDeletes, getDelete, noRecord
    <3>2. 0 \in 0 .. Best
      BY <1>0
    <3>3. store' \in [Nodes -> [rank : 0 .. Best, old : BOOLEAN]]
      BY <3>1, <3>2, StoreType, Zenon
    <3>4. deleting' \subseteq Nodes
      BY <3>1 DEF RecordsTypeOK
    <3> QED
      BY <3>1, <3>3, <3>4, Zenon DEF RecordsTypeOK
  <2>3. CASE RecordAges(n)
    <3>1. store' = [store EXCEPT ![n].old = TRUE] /\ UNCHANGED <<lock, put, seen, deleting>>
      BY <2>3, Zenon DEF RecordAges, Ages
    <3>2. store \in [Nodes -> [rank : 0 .. Best, old : BOOLEAN]]
      BY Zenon DEF RecordsTypeOK
    <3>3. store' = [store EXCEPT ![n] = [store[n] EXCEPT !.old = TRUE]]
      BY <3>1, <3>2
    <3>4. [store[n] EXCEPT !.old = TRUE] \in [rank : 0 .. Best, old : BOOLEAN]
      BY <3>2, Zenon
    <3>5. store' \in [Nodes -> [rank : 0 .. Best, old : BOOLEAN]]
      BY <3>2, <3>3, <3>4
    <3> QED
      BY <3>1, <3>5, Zenon DEF RecordsTypeOK
  <2> QED
    BY <2>1, <2>2, <2>3, Zenon
<1> QED
  BY <1>1, <1>4, <1>5, SearchVarsParts, Zenon

(* The steps of the lookup's queries keep the types.                       *)
LEMMA QueryType ==
  ASSUME RecordsTypeOK, RequestTypes, QueryTypes, ValInv, NEW s \in Servers,
         Ask(s) \/ Answer(s) \/ AskFails(s) \/ SendVal(s)
  PROVE  RecordsTypeOK' /\ RequestTypes' /\ UNCHANGED callVars /\ QueryTypes'
<1>0. /\ valCh \in Seq(Message) /\ Len(valCh) \leq 1 /\ worker \in [Servers -> WorkerStates]
      /\ val \in [Servers -> 0 .. Best] /\ lookup \in LookupStates /\ lookupRes \subseteq Servers
  BY Zenon DEF QueryTypes
<1>1. UNCHANGED callVars /\ UNCHANGED lookupRes
  BY Zenon DEF Ask, Answer, AskFails, SendVal, callVars
<1>2. CASE Ask(s)
  <2>1. worker' = [worker EXCEPT ![s] = "asked"] /\ UNCHANGED <<valCh, val, lookup>>
        /\ UNCHANGED recordVars /\ UNCHANGED requestVars
    BY <1>2, Zenon DEF Ask, requestVars
  <2>2. worker' \in [Servers -> WorkerStates]
    BY <1>0, <2>1 DEF WorkerStates
  <2> QED
    BY <1>0, <1>1, <2>1, <2>2, TypeFrames, Zenon DEF QueryTypes
<1>3. CASE Answer(s)
  <2>1. /\ getRead(s) /\ val' = [val EXCEPT ![s] = getFinds(s)]
        /\ ends(s, "done") \/ (worker' = [worker EXCEPT ![s] = "send"] /\ UNCHANGED lookup)
        /\ UNCHANGED valCh /\ UNCHANGED requestVars
    BY <1>3, Zenon DEF Answer, requestVars
  <2>2. s \in Nodes /\ Best \in Nat
    BY Constants
  <2>3. getFinds(s) \in 0 .. Best
    BY <2>2 DEF getFinds, RecordsTypeOK
  <2>4. val' \in [Servers -> 0 .. Best]
    BY <1>0, <2>1, <2>3
  <2>5. worker' \in [Servers -> WorkerStates] /\ lookup' \in LookupStates
    <3>1. CASE ends(s, "done")
      BY <3>1, EndsType
    <3>2. CASE worker' = [worker EXCEPT ![s] = "send"] /\ UNCHANGED lookup
      BY <1>0, <3>2 DEF WorkerStates
    <3> QED
      BY <2>1, <3>1, <3>2
  <2>6. RecordsTypeOK'
    <3>1. deleting' \in {deleting, deleting \cup {s}} /\ UNCHANGED <<store, lock, put, seen>>
      BY <2>1, Zenon DEF getRead
    <3>2. deleting' \subseteq Nodes
      BY <2>2, <3>1 DEF RecordsTypeOK
    <3> QED
      BY <3>1, <3>2, Zenon DEF RecordsTypeOK
  <2> QED
    BY <1>0, <1>1, <2>1, <2>4, <2>5, <2>6, TypeFrames, Zenon DEF QueryTypes
<1>4. CASE AskFails(s)
  <2>1. /\ failures' = failures \/ (failures < MaxFailures /\ failures' = failures + 1)
        /\ ends(s, "failed") /\ UNCHANGED <<valCh, val, user, aged>> /\ UNCHANGED recordVars
    BY <1>4, Zenon DEF AskFails
  <2>2. worker' \in [Servers -> WorkerStates] /\ lookup' \in LookupStates
    BY <2>1, EndsType
  <2>3. failures' \in 0 .. MaxFailures
    BY <2>1, Constants DEF RequestTypes
  <2>4. RequestTypes'
    BY <2>1, <2>3, Zenon DEF RequestTypes
  <2> QED
    BY <1>0, <1>1, <2>1, <2>2, <2>4, TypeFrames, Zenon DEF QueryTypes
<1>5. CASE SendVal(s)
  <2>1. /\ worker[s] = "send" /\ valCh' = <<[val |-> val[s], from |-> s]>> /\ UNCHANGED val
        /\ ends(s, "done") /\ UNCHANGED recordVars /\ UNCHANGED requestVars
    BY <1>5, Zenon DEF SendVal, requestVars
  <2>2. worker' \in [Servers -> WorkerStates] /\ lookup' \in LookupStates
    BY <2>1, EndsType
  <2>3. val[s] \in Ranks /\ s \in Nodes
    BY <1>0, <2>1, Constants DEF ValInv, Ranks
  <2>4. [val |-> val[s], from |-> s] \in Message
    BY <2>3, Zenon DEF Message
  <2>5. valCh' \in Seq(Message) /\ Len(valCh') \leq 1
    BY <2>1, <2>4
  <2> QED
    BY <1>0, <1>1, <2>1, <2>2, <2>5, TypeFrames, Zenon DEF QueryTypes
<1> QED
  BY <1>2, <1>3, <1>4, <1>5, Zenon

(* So do the ends of the lookup.                                           *)
LEMMA LookupEndsType ==
  ASSUME QueryTypes, RunEnds \/ FollowupEnds \/ LookupFails
  PROVE  UNCHANGED recordVars /\ UNCHANGED requestVars /\ UNCHANGED callVars /\ QueryTypes'
<1>1. UNCHANGED recordVars /\ UNCHANGED requestVars /\ UNCHANGED callVars /\ UNCHANGED <<valCh, val>>
  BY Zenon DEF RunEnds, FollowupEnds, LookupFails, requestVars, callVars
<1>2. worker' \in [Servers -> WorkerStates]
  <2>1. UNCHANGED worker \/ \E F : worker' = [s \in Servers |-> IF s \in F THEN "asked" ELSE worker[s]]
    BY Zenon DEF RunEnds, FollowupEnds, LookupFails
  <2> QED
    BY <2>1 DEF QueryTypes, WorkerStates
<1>3. lookup' \in LookupStates
  <2>1. lookup' \in {"ended", "followup", "noPeers"}
    BY Zenon DEF RunEnds, FollowupEnds, LookupFails
  <2> QED
    BY <2>1 DEF LookupStates
<1>4. lookupRes' \subseteq Servers
  <2>1. UNCHANGED lookupRes \/ lookupRes' = {s \in Servers : worker[s] # "failed"}
    BY Zenon DEF RunEnds, FollowupEnds, LookupFails
  <2> QED
    BY <2>1 DEF QueryTypes
<1> QED
  BY <1>1, <1>2, <1>3, <1>4, Zenon DEF QueryTypes

(* The responses counted are at most two for each node.                    *)
LEMMA ReceiveCount ==
  ASSUME CountInv, numResponses \in Nat, Len(valCh) = 1
  PROVE  numResponses + 1 \in 0 .. 2 * Cardinality(Nodes)
<1> DEFINE e == Cardinality(Ended)
           c == Cardinality(Servers)
           x == IF lookup \in {"run", "runStopped", "noPeers"} THEN 0 ELSE c
<1>1. e \in Nat /\ e <= c /\ c \in Nat /\ Cardinality(Nodes) = c + 1
  BY ServersFinite, EndedBounded
<1>2. numResponses + 1 <= 1 + e + x
  BY DEF CountInv
<1>3. x = 0 \/ x = c
  OBVIOUS
<1> HIDE DEF e, c, x
<1> QED
  BY <1>1, <1>2, <1>3

(* And the steps of the search.                                            *)
LEMMA ReceiveType ==
  ASSUME CountInv, CallTypes, QueryTypes, Receive
  PROVE  UNCHANGED recordVars /\ UNCHANGED requestVars /\ CallTypes' /\ QueryTypes'
<1>1. /\ UNCHANGED recordVars /\ UNCHANGED requestVars /\ UNCHANGED <<quorum, ctxDone, out>>
      /\ UNCHANGED <<worker, val, lookup, lookupRes>> /\ valCh' = <<>> /\ valCh # <<>>
      /\ numResponses' = numResponses + 1
  BY Zenon DEF Receive, requestVars
<1>2. Len(valCh) = 1 /\ Head(valCh) \in Message
  <2>1. valCh \in Seq(Message) /\ Len(valCh) \leq 1 /\ valCh # <<>>
    BY <1>1, Zenon DEF QueryTypes
  <2>2. Len(valCh) \in Nat /\ Len(valCh) # 0 /\ Head(valCh) = valCh[1]
    BY <2>1
  <2>3. Len(valCh) = 1
    <3>1. \A k \in Nat : k # 0 /\ k \leq 1 => k = 1
      OBVIOUS
    <3> QED
      BY <2>1, <2>2, <3>1, Zenon
  <2>4. valCh[1] \in Message
    BY <2>1, <2>3, ElementOfSeq
  <2> QED
    BY <2>2, <2>3, <2>4, Zenon
<1>3. numResponses' \in 0 .. 2 * Cardinality(Nodes)
  <2>1. numResponses \in Nat
    BY ServersFinite DEF CallTypes
  <2> QED
    BY <1>1, <1>2, <2>1, ReceiveCount
<1>4. best' \in 0 .. Best /\ peersWithBest' \subseteq Nodes
  <2>1. /\ best' \in {Head(valCh).val, best}
        /\ peersWithBest' \in {{Head(valCh).from}, peersWithBest \cup {Head(valCh).from}, peersWithBest}
    BY Zenon DEF Receive, peersWith
  <2>2. Head(valCh).val \in 0 .. Best /\ Head(valCh).from \in Nodes
    BY <1>2, Constants DEF Message
  <2> QED
    BY <2>1, <2>2 DEF CallTypes
<1>5. search' \in SearchStates /\ stopCh' \in BOOLEAN
  <2>1. search' \in {"emitQuorum", "emit", "done", "loop"} /\ (stopCh' = stopCh \/ stopCh' \in BOOLEAN)
    BY Zenon DEF Receive, quorumReached
  <2> QED
    BY <2>1, Zenon DEF SearchStates, CallTypes
<1>6. <<>> \in Seq(Message) /\ Len(<<>>) \leq 1
  OBVIOUS
<1>7. CallTypes'
  BY <1>1, <1>3, <1>4, <1>5, Zenon DEF CallTypes
<1>8. QueryTypes'
  BY <1>1, <1>6, Zenon DEF QueryTypes
<1> QED
  BY <1>1, <1>7, <1>8, Zenon

(* The caller's steps, and the end of the search, keep the types.          *)
LEMMA SearchType ==
  ASSUME RecordsTypeOK, CallTypes, QueryTypes, OutInv,
         SearchValue \/ Emit \/ EmitAborted \/ ValuesEnd \/ updatePeerValues \/ OutCloses \/ Cancel
  PROVE  RecordsTypeOK' /\ UNCHANGED requestVars /\ CallTypes' /\ QueryTypes'
<1>0. /\ UNCHANGED requestVars /\ UNCHANGED <<best, peersWithBest, numResponses>>
      /\ UNCHANGED <<worker, val, lookup, lookupRes>>
  BY Zenon DEF SearchValue, Emit, EmitAborted, ValuesEnd, updatePeerValues, OutCloses, Cancel, requestVars
<1>1. search' \in SearchStates
  <2>1. search' \in {search, "loop", "done", "await", "fix"}
    BY Zenon DEF SearchValue, Emit, EmitAborted, ValuesEnd, updatePeerValues, OutCloses, Cancel
  <2> QED
    BY <2>1 DEF SearchStates, CallTypes
<1>2. ctxDone' \in BOOLEAN /\ stopCh' \in BOOLEAN
  <2>1. /\ ctxDone' = ctxDone \/ ctxDone' = TRUE
        /\ stopCh' = stopCh \/ stopCh' \in BOOLEAN
    BY Zenon DEF SearchValue, Emit, EmitAborted, ValuesEnd, updatePeerValues, OutCloses, Cancel
  <2> QED
    BY <2>1, Zenon DEF CallTypes
<1>3. quorum' \in Quorums \cup {0}
  BY Zenon DEF SearchValue, Emit, EmitAborted, ValuesEnd, updatePeerValues, OutCloses, Cancel, CallTypes
<1>4. out' \in Seq(Ranks)
  <2>1. CASE Emit
    <3>1. best # 0 /\ out' = Append(out, best)
      BY <2>1, Zenon DEF Emit, OutInv
    <3>2. best \in Ranks
      BY <3>1, Constants DEF CallTypes, Ranks
    <3>3. out \in Seq(Ranks)
      BY Zenon DEF CallTypes
    <3> QED
      BY <3>1, <3>2, <3>3
  <2>2. ~Emit => UNCHANGED out
    BY Zenon DEF SearchValue, EmitAborted, ValuesEnd, updatePeerValues, OutCloses, Cancel
  <2> QED
    BY <2>1, <2>2, Zenon DEF CallTypes
<1>5. CallTypes'
  BY <1>0, <1>1, <1>2, <1>3, <1>4, Zenon DEF CallTypes
<1>6. valCh' \in Seq(Message) /\ Len(valCh') \leq 1
  <2>1. CASE UNCHANGED valCh
    BY <2>1, Zenon DEF QueryTypes
  <2>2. CASE valCh' = <<>>
    BY <2>2
  <2>3. CASE getLocal(Self) # 0 /\ valCh' = <<[val |-> getLocal(Self), from |-> Self]>>
    <3>1. getLocal(Self) \in Ranks /\ Self \in Nodes
      BY <2>3, Constants DEF getLocal, RecordsTypeOK, Ranks
    <3>2. [val |-> getLocal(Self), from |-> Self] \in Message
      BY <3>1, Zenon DEF Message
    <3> QED
      BY <2>3, <3>2
  <2> QED
    BY <2>1, <2>2, <2>3, Zenon DEF SearchValue, Emit, EmitAborted, ValuesEnd, updatePeerValues, OutCloses, Cancel
<1>7. QueryTypes'
  BY <1>0, <1>6, Zenon DEF QueryTypes
<1>8. RecordsTypeOK'
  <2> DEFINE f == [n \in Nodes |-> IF n \in lookupRes \ peersWithBest THEN "sent" ELSE "idle"]
  <2>1. CASE UNCHANGED recordVars
    BY <2>1, TypeFrames, Zenon
  <2>2. CASE updatePeerValues
    <3>1. put' = [put EXCEPT !["fix"] = f] /\ UNCHANGED <<store, lock, seen, deleting>>
      BY <2>2, Zenon DEF updatePeerValues
    <3>2. f \in [Nodes -> PutState]
      BY DEF PutState
    <3> HIDE DEF f
    <3>3. put \in [Writers -> [Nodes -> PutState]]
      BY Zenon DEF RecordsTypeOK
    <3>4. put' \in [Writers -> [Nodes -> PutState]]
      BY <3>1, <3>2, <3>3
    <3> QED
      BY <3>1, <3>4, Zenon DEF RecordsTypeOK
  <2> QED
    BY <2>1, <2>2, Zenon DEF SearchValue, Emit, EmitAborted, ValuesEnd, OutCloses, Cancel
<1> QED
  BY <1>0, <1>5, <1>7, <1>8, Zenon

(* Every step preserves the types.                                         *)
LEMMA TypeNext == TypeOK /\ CountInv /\ OutInv /\ ValInv /\ [Next]_vars => TypeOK'
<1> SUFFICES ASSUME TypeOK, CountInv, OutInv, ValInv, [Next]_vars
             PROVE  RecordsTypeOK' /\ RequestTypes' /\ CallTypes' /\ QueryTypes'
  BY Zenon DEF TypeOK, RequestTypes, CallTypes, QueryTypes, UserState, SearchStates, WorkerStates, LookupStates
<1>0. RecordsTypeOK /\ RequestTypes /\ CallTypes /\ QueryTypes
  BY TypeParts, Zenon
<1>1. CASE UserPut
  BY <1>0, <1>1, UserPutType, TypeFrames, Zenon
<1>2. ASSUME NEW n \in Nodes,
             (\E w \in Writers : handlePutValue(w, n)) \/ handleGetValueDeletes(n) \/ RecordAges(n)
      PROVE  RecordsTypeOK' /\ RequestTypes' /\ CallTypes' /\ QueryTypes'
  BY <1>0, <1>2, ServerType, TypeFrames, Zenon
<1>3. ASSUME NEW s \in Servers, Ask(s) \/ Answer(s) \/ AskFails(s) \/ SendVal(s)
      PROVE  RecordsTypeOK' /\ RequestTypes' /\ CallTypes' /\ QueryTypes'
  BY <1>0, <1>3, QueryType, TypeFrames, Zenon
<1>4. CASE RunEnds \/ FollowupEnds \/ LookupFails
  BY <1>0, <1>4, LookupEndsType, TypeFrames, Zenon
<1>5. CASE Receive
  BY <1>0, <1>5, ReceiveType, TypeFrames, Zenon
<1>6. CASE SearchValue \/ Emit \/ EmitAborted \/ ValuesEnd \/ updatePeerValues \/ OutCloses \/ Cancel
  BY <1>0, <1>6, SearchType, TypeFrames, Zenon
<1>7. CASE UNCHANGED vars
  <2>1. UNCHANGED recordVars /\ UNCHANGED requestVars /\ UNCHANGED callVars /\ UNCHANGED queryVars
    BY <1>7, Zenon DEF vars, recordVars, requestVars, callVars, queryVars
  <2> QED
    BY <1>0, <2>1, TypeFrames, Zenon
<1> QED
  BY <1>1, <1>2, <1>3, <1>4, <1>5, <1>6, <1>7, Zenon DEF Next, Lookup, Search

-----------------------------------------------------------------------------
(* The lock.                                                               *)

(* What is seen and stored are ranks.                                      *)
LEMMA RankTypes ==
  ASSUME TypeOK
  PROVE  /\ \A w \in Writers, n \in Nodes : seen[w][n] \in Nat
         /\ \A n \in Nodes : store[n].rank \in Nat
<1>1. ASSUME NEW w \in Writers, NEW n \in Nodes PROVE seen[w][n] \in 0 .. Best
  <2>1. seen[w] \in [Nodes -> 0 .. Best]
    BY Zenon DEF TypeOK, RecordsTypeOK
  <2> QED
    BY Zenon, <2>1
<1>2. ASSUME NEW n \in Nodes PROVE store[n].rank \in 0 .. Best
  <2>1. store[n] \in [rank : 0 .. Best, old : BOOLEAN]
    BY Zenon DEF TypeOK, RecordsTypeOK
  <2> QED
    BY <2>1
<1> QED
  BY <1>1, <1>2, Constants

(* Steps that leave the records and the PUT_VALUEs alone: they do not put  *)
(* back a call that has begun.                                             *)
LEMMA LockQuiet ==
  ASSUME LockInv, UNCHANGED <<store, lock, put, seen>>,
         user.pc # "done" \/ user'.pc = "done",
         search \notin {"fix", "done"} \/ search' \in {"fix", "done"}
  PROVE  LockInv'
  BY Zenon DEF LockInv

(* A step of a handler that has the lock of a server: the record it leaves *)
(* is no worse than the one it found.                                      *)
LEMMA PutStep ==
  ASSUME TypeOK, LockInv, NEW w \in Writers, NEW n \in Nodes, NEW rank \in 0 .. Best,
         putRead(w, n) \/ putWrite(w, n, rank) \/ putFails(w, n), UNCHANGED <<user, search>>
  PROVE  /\ LockInv'
         /\ \A m \in Nodes \ {n} : store'[m] = store[m]
         /\ n \in Servers => store'[n].rank \in Nat /\ store'[n].rank >= store[n].rank
         /\ SeenFresh => SeenFresh'
         /\ SeenFresh /\ n \in Servers /\ put'[w][n] = "idle" => store'[n].rank >= rank
<1> USE Constants
<1>1. /\ store \in [Nodes -> [rank : 0 .. Best, old : BOOLEAN]]
      /\ lock \in [Nodes -> Writers \cup {Free}]
      /\ put \in [Writers -> [Nodes -> PutState]]
      /\ seen \in [Writers -> [Nodes -> 0 .. Best]]
  BY ZenonT(60) DEF TypeOK, RecordsTypeOK
<1>2. CASE putRead(w, n)
  <2>1. /\ lock[n] = Free /\ put[w][n] = "sent" /\ store' = store
        /\ lock' = [lock EXCEPT ![n] = w]
        /\ seen' = [seen EXCEPT ![w][n] = store[n].rank]
        /\ put' = [put EXCEPT ![w][n] = "read"]
    BY Zenon, <1>2 DEF putRead, setPut
  <2>2. \A v \in Writers, m \in Nodes : put'[v][m] = "read" <=> lock'[m] = v
    BY <1>1, <2>1 DEF LockInv
  <2>3. \A v \in Writers, m \in Servers : lock'[m] = v => store'[m].rank <= seen'[v][m]
    BY <1>1, <2>1 DEF LockInv
  <2>4. \A v \in Writers, m \in Nodes : put[v][m] = "idle" => put'[v][m] = "idle"
    BY Zenon, <1>1, <2>1
  <2>5. store[n].rank \in 0 .. Best
    BY Zenon, <1>1
  <2>6. (SeenFresh => SeenFresh') /\ put'[w][n] # "idle"
    BY <1>1, <2>1 DEF SeenFresh
  <2> QED
    BY <2>1, <2>2, <2>3, <2>4, <2>5, <2>6 DEF LockInv
<1>3. CASE putWrite(w, n, rank)
  <2>1. /\ put[w][n] = "read"
        /\ lock' = [lock EXCEPT ![n] = Free]
        /\ seen' = [seen EXCEPT ![w][n] = 0]
        /\ put' = [put EXCEPT ![w][n] = "idle"]
        /\ store' = IF rank \geq seen[w][n] THEN [store EXCEPT ![n] = record(rank)] ELSE store
    BY Zenon, <1>3 DEF putWrite, setPut
  <2>2. \A v \in Writers, m \in Nodes : put'[v][m] = "read" <=> lock'[m] = v
    BY <1>1, <2>1 DEF LockInv
  <2>3. \A m \in Nodes \ {n} : store'[m] = store[m]
    BY Zenon, <1>1, <2>1
  <2>4. \A v \in Writers, m \in Servers : lock'[m] = v => store'[m].rank <= seen'[v][m]
    BY <1>1, <2>1, <2>3 DEF LockInv
  <2>5. \A v \in Writers, m \in Nodes : put[v][m] = "idle" => put'[v][m] = "idle"
    BY Zenon, <1>1, <2>1
  <2>6. n \in Servers => store'[n].rank \in Nat /\ store'[n].rank >= store[n].rank
    <3>1. store[n].rank \in Nat /\ seen[w][n] \in Nat
      BY Zenon, RankTypes
    <3>2. record(rank).rank = rank
      BY Zenon DEF record
    <3>3. n \in Servers => store[n].rank <= seen[w][n]
      BY <2>1 DEF LockInv
    <3> QED
      BY <1>1, <2>1, <3>1, <3>2, <3>3
  <2>7. SeenFresh => SeenFresh'
    BY <1>1, <2>1, <2>3 DEF SeenFresh
  <2>8. SeenFresh /\ n \in Servers => store'[n].rank >= rank
    <3>1. store[n].rank \in Nat /\ seen[w][n] \in Nat
      BY RankTypes
    <3>2. record(rank).rank = rank
      BY DEF record
    <3>3. SeenFresh /\ n \in Servers => store[n].rank = seen[w][n]
      BY <2>1 DEF LockInv, SeenFresh
    <3> QED
      BY <1>1, <2>1, <3>1, <3>2, <3>3
  <2> QED
    BY Zenon, <2>2, <2>3, <2>4, <2>5, <2>6, <2>7, <2>8 DEF LockInv
<1>4. CASE putFails(w, n)
  <2>1. /\ put[w][n] \in {"sent", "read"} /\ store' = store
        /\ lock' = [lock EXCEPT ![n] = IF lock[n] = w THEN Free ELSE lock[n]]
        /\ seen' = [seen EXCEPT ![w][n] = 0]
        /\ put' = [put EXCEPT ![w][n] = "failed"]
    BY Zenon, <1>4 DEF putFails, setPut
  <2>2. \A v \in Writers, m \in Nodes : put'[v][m] = "read" <=> lock'[m] = v
    BY <1>1, <2>1 DEF LockInv
  <2>3. \A v \in Writers, m \in Servers : lock'[m] = v => store'[m].rank <= seen'[v][m]
    BY <1>1, <2>1 DEF LockInv
  <2>4. \A v \in Writers, m \in Nodes : put[v][m] = "idle" => put'[v][m] = "idle"
    BY Zenon, <1>1, <2>1
  <2>5. store[n].rank \in 0 .. Best
    BY <1>1
  <2>6. (SeenFresh => SeenFresh') /\ put'[w][n] # "idle"
    BY <1>1, <2>1 DEF SeenFresh
  <2> QED
    BY <2>1, <2>2, <2>3, <2>4, <2>5, <2>6 DEF LockInv
<1> QED
  BY Zenon, <1>2, <1>3, <1>4

(* The steps, by what they do to the records.                              *)
LEMMA StepKinds ==
  ASSUME [Next]_vars
  PROVE  \/ PutCompare \/ PutToPeers \/ updatePeerValues
         \/ \E n \in Nodes : \/ \E w \in Writers : handlePutValue(w, n)
                             \/ handleGetValueDeletes(n) \/ RecordAges(n)
         \/ /\ UNCHANGED <<store, lock, put, seen, aged>>
            /\ user.pc # "done" \/ user'.pc = "done"
            /\ search \notin {"fix", "done"} \/ search' \in {"fix", "done"}
<1> DEFINE Quiet == /\ UNCHANGED <<store, lock, put, seen, aged>>
                    /\ user.pc # "done" \/ user'.pc = "done"
                    /\ search \notin {"fix", "done"} \/ search' \in {"fix", "done"}
<1>1. PutValue => Quiet
  BY Zenon DEF PutValue, recordVars, searchVars
<1>2. SearchValue => Quiet
  BY Zenon DEF SearchValue, recordVars
<1>3. ASSUME NEW s \in Servers PROVE Ask(s) \/ Answer(s) \/ AskFails(s) \/ SendVal(s) => Quiet
  BY Zenon DEF Ask, Answer, AskFails, SendVal, getRead, recordVars
<1>4. RunEnds \/ FollowupEnds \/ LookupFails => Quiet
  BY Zenon DEF RunEnds, FollowupEnds, LookupFails, recordVars
<1>5. Receive \/ Emit \/ EmitAborted \/ ValuesEnd \/ OutCloses \/ Cancel => Quiet
  BY Zenon DEF Receive, Emit, EmitAborted, ValuesEnd, OutCloses, Cancel, recordVars
<1>6. UNCHANGED vars => Quiet
  BY Zenon DEF vars
<1> HIDE DEF Quiet
<1>7. \/ PutCompare \/ PutToPeers \/ updatePeerValues
      \/ \E n \in Nodes : \/ \E w \in Writers : handlePutValue(w, n)
                          \/ handleGetValueDeletes(n) \/ RecordAges(n)
      \/ Quiet
  BY Zenon, <1>1, <1>2, <1>3, <1>4, <1>5, <1>6 DEF Next, UserPut, Lookup, Search
<1> QED
  BY Zenon, <1>7 DEF Quiet

(* What the steps that touch the records do to the store.                  *)
LEMMA StoreStep ==
  ASSUME TypeOK, LockInv, [Next]_vars, NEW s \in Servers
  PROVE  /\ neverWorse(s)
         /\ store'[s].rank >= store[s].rank \/ s \in deleting
<1> USE Constants
<1>1. /\ store \in [Nodes -> [rank : 0 .. Best, old : BOOLEAN]]
      /\ store[s].rank \in Nat
  BY DEF TypeOK, RecordsTypeOK
<1>2. CASE PutCompare
  <2>1. store'[s] = store[s]
    BY Zenon, <1>1, <1>2 DEF PutCompare, putLocal
  <2> QED
    BY <1>1, <2>1 DEF neverWorse
<1>3. CASE store' = store
  BY <1>1, <1>3 DEF neverWorse
<1>4. CASE PutToPeers \/ updatePeerValues
  BY Zenon, <1>3, <1>4 DEF PutToPeers, updatePeerValues
<1>5. ASSUME NEW n \in Nodes, NEW w \in Writers, handlePutValue(w, n)
      PROVE  store'[s].rank >= store[s].rank
  <2>1. rankOf(w, n) \in 0 .. Best
    BY Zenon DEF rankOf, TypeOK
  <2>2. UNCHANGED <<user, search>>
    BY Zenon, <1>5 DEF handlePutValue, searchVars
  <2>3. putRead(w, n) \/ putWrite(w, n, rankOf(w, n)) \/ putFails(w, n)
    BY Zenon, <1>5 DEF handlePutValue
  <2>4. /\ \A m \in Nodes \ {n} : store'[m] = store[m]
        /\ n \in Servers => store'[n].rank \in Nat /\ store'[n].rank >= store[n].rank
    BY Zenon, <2>1, <2>2, <2>3, PutStep
  <2> QED
    BY <1>1, <2>4
<1>6. ASSUME NEW n \in Nodes, handleGetValueDeletes(n)
      PROVE  (store'[s].rank = 0 /\ s \in deleting) \/ store'[s] = store[s]
  BY Zenon, <1>1, <1>6 DEF handleGetValueDeletes, getDelete, noRecord, record
<1>7. ASSUME NEW n \in Nodes, RecordAges(n) PROVE store'[s].rank = store[s].rank
  <2>1. store' = [store EXCEPT ![n].old = TRUE]
    BY Zenon, <1>7 DEF RecordAges, Ages
  <2> QED
    BY Zenon, <1>1, <2>1
<1>8. CASE \E n \in Nodes : \/ \E w \in Writers : handlePutValue(w, n)
                            \/ handleGetValueDeletes(n) \/ RecordAges(n)
  <2>1. \/ store'[s].rank >= store[s].rank
        \/ store'[s].rank = 0 /\ s \in deleting
        \/ store'[s].rank = store[s].rank
    BY Zenon, <1>5, <1>6, <1>7, <1>8
  <2> QED
    BY <1>1, <2>1 DEF neverWorse
<1> QED
  BY Zenon, <1>2, <1>3, <1>4, <1>8, StepKinds

(* Every step preserves LockInv.                                           *)
LEMMA LockNext == TypeOK /\ LockInv /\ [Next]_vars => LockInv'
<1> SUFFICES ASSUME TypeOK, LockInv, [Next]_vars PROVE LockInv'
  OBVIOUS
<1> USE Constants
<1>1. /\ store \in [Nodes -> [rank : 0 .. Best, old : BOOLEAN]]
      /\ put \in [Writers -> [Nodes -> PutState]]
      /\ seen \in [Writers -> [Nodes -> 0 .. Best]]
  BY Zenon DEF TypeOK, RecordsTypeOK
<1>2. CASE PutCompare
  <2>1. /\ UNCHANGED <<lock, put, seen, search>> /\ user.pc # "done"
        /\ \A m \in Servers : store'[m] = store[m]
    BY <1>1, <1>2 DEF PutCompare, putLocal, searchVars
  <2> QED
    BY <2>1 DEF LockInv
<1>3. CASE PutToPeers
  <2>1. /\ UNCHANGED <<store, lock, seen, search>>
        /\ user' = [user EXCEPT !.pc = "done"] /\ user.pc = "lookup"
        /\ \/ put' = put
           \/ put' = [put EXCEPT !["user"] =
                         [n \in Nodes |-> IF n \in ClosestPeers THEN "sent" ELSE "idle"]]
    BY <1>3 DEF PutToPeers, searchVars
  <2>2. user'.pc = "done" /\ \A n \in Nodes : put["user"][n] = "idle"
    BY Zenon, <2>1 DEF TypeOK, LockInv
  <2>3. \A w \in Writers, n \in Nodes : put'[w][n] = "read" <=> put[w][n] = "read"
    BY <1>1, <2>1, <2>2
  <2>4. put'["fix"] = put["fix"]
    BY <1>1, <2>1
  <2> QED
    BY <2>1, <2>2, <2>3, <2>4 DEF LockInv
<1>4. CASE updatePeerValues
  <2>1. /\ UNCHANGED <<store, lock, seen, user>> /\ search = "await" /\ search' = "fix"
        /\ put' = [put EXCEPT !["fix"] =
                      [n \in Nodes |-> IF n \in lookupRes \ peersWithBest THEN "sent" ELSE "idle"]]
    BY Zenon, <1>4 DEF updatePeerValues
  <2>2. \A n \in Nodes : put["fix"][n] = "idle"
    BY Zenon, <2>1 DEF LockInv
  <2>3. \A w \in Writers, n \in Nodes : put'[w][n] = "read" <=> put[w][n] = "read"
    BY Zenon, <1>1, <2>1, <2>2
  <2>4. put'["user"] = put["user"]
    BY Zenon, <1>1, <2>1
  <2> QED
    BY <2>1, <2>3, <2>4 DEF LockInv
<1>5. ASSUME NEW n \in Nodes, NEW w \in Writers, handlePutValue(w, n) PROVE LockInv'
  <2>1. rankOf(w, n) \in 0 .. Best
    BY Zenon DEF rankOf, TypeOK
  <2>2. UNCHANGED <<user, search>>
    BY Zenon, <1>5 DEF handlePutValue, searchVars
  <2>3. putRead(w, n) \/ putWrite(w, n, rankOf(w, n)) \/ putFails(w, n)
    BY Zenon, <1>5 DEF handlePutValue
  <2> QED
    BY Zenon, <2>1, <2>2, <2>3, PutStep
<1>6. ASSUME NEW n \in Nodes, handleGetValueDeletes(n) \/ RecordAges(n) PROVE LockInv'
  <2>1. UNCHANGED <<lock, put, seen, user, search>>
    BY Zenon, <1>6 DEF handleGetValueDeletes, getDelete, RecordAges, Ages, searchVars
  <2>2. \A m \in Nodes : store'[m].rank = 0 \/ store'[m].rank = store[m].rank
    BY <1>1, <1>6 DEF handleGetValueDeletes, getDelete, noRecord, record, RecordAges, Ages
  <2>3. \A v \in Writers, m \in Servers : seen[v][m] \in Nat
    BY Zenon, RankTypes
  <2> QED
    BY <2>1, <2>2, <2>3 DEF LockInv
<1>7. CASE /\ UNCHANGED <<store, lock, put, seen, aged>>
           /\ user.pc # "done" \/ user'.pc = "done"
           /\ search \notin {"fix", "done"} \/ search' \in {"fix", "done"}
  BY Zenon, <1>7, LockQuiet
<1> QED
  BY Zenon, <1>2, <1>3, <1>4, <1>5, <1>6, <1>7, StepKinds

-----------------------------------------------------------------------------
(* The search.                                                             *)

(* The steps, by what they do to the search.                               *)
LEMMA SearchKinds ==
  ASSUME [Next]_vars
  PROVE  \/ SearchValue \/ RunEnds \/ FollowupEnds \/ LookupFails
         \/ \E s \in Servers : Ask(s) \/ Answer(s) \/ AskFails(s) \/ SendVal(s)
         \/ Receive \/ Emit \/ EmitAborted \/ ValuesEnd \/ updatePeerValues \/ OutCloses \/ Cancel
         \/ UNCHANGED searchVars
<1>1. PutValue \/ PutCompare \/ PutToPeers => UNCHANGED searchVars
  BY DEF PutValue, PutCompare, PutToPeers
<1>2. ASSUME NEW n \in Nodes, NEW w \in Writers
      PROVE  handlePutValue(w, n) \/ handleGetValueDeletes(n) \/ RecordAges(n) => UNCHANGED searchVars
  BY Zenon DEF handlePutValue, handleGetValueDeletes, RecordAges
<1>3. UNCHANGED vars => UNCHANGED searchVars
  BY Zenon DEF vars, searchVars
<1>4. ASSUME NEW n \in Nodes
      PROVE  handleGetValueDeletes(n) \/ RecordAges(n) => UNCHANGED searchVars
  BY Zenon DEF handleGetValueDeletes, RecordAges
<1> QED
  BY Zenon, <1>1, <1>2, <1>3, <1>4 DEF Next, UserPut, Lookup, Search

(* The numbers of two sets of servers, one within the other.               *)
LEMMA ServersMonotone ==
  ASSUME NEW S \in SUBSET Servers, NEW T \in SUBSET Servers, S \subseteq T
  PROVE  /\ Cardinality(S) \in Nat /\ Cardinality(T) \in Nat /\ Cardinality(S) <= Cardinality(T)
         /\ \A s \in Servers : s \notin S /\ T = S \cup {s} => Cardinality(T) = Cardinality(S) + 1
<1>1. IsFiniteSet(S) /\ IsFiniteSet(T)
  BY Zenon, ServersFinite, FS_Subset
<1>2. Cardinality(S) \in Nat /\ Cardinality(T) \in Nat /\ Cardinality(S) <= Cardinality(T)
  BY Zenon, <1>1, FS_CardinalityType, FS_Subset
<1>3. ASSUME NEW s \in Servers, s \notin S, T = S \cup {s} PROVE Cardinality(T) = Cardinality(S) + 1
  BY Zenon, <1>1, <1>3, FS_AddElement
<1> QED
  BY Zenon, <1>2, <1>3

(* The steps of a query, for the sets and counts of the search.            *)
LEMMA QueryStep ==
  ASSUME TypeOK, NEW s \in Servers, Ask(s) \/ Answer(s) \/ AskFails(s) \/ SendVal(s)
  PROVE  /\ Ended \subseteq Ended' /\ Ended' \subseteq Servers
         /\ lookup \in {"run", "runStopped", "noPeers"} <=> lookup' \in {"run", "runStopped", "noPeers"}
         /\ UNCHANGED <<numResponses, best, peersWithBest, out, stopCh, search, quorum, ctxDone, lookupRes>>
         /\ \/ valCh' = valCh
            \/ /\ worker[s] = "send" /\ worker' = [worker EXCEPT ![s] = "done"]
               /\ valCh = <<>> /\ valCh' = <<[val |-> val[s], from |-> s]>>
<1>1. worker \in [Servers -> {"idle", "asked", "send", "done", "failed"}]
  BY Zenon DEF TypeOK
<1>2. worker[s] \in {"idle", "asked", "send"}
  BY Zenon, <1>1 DEF Ask, Answer, AskFails, SendVal, active
<1>3. \A t \in Servers \ {s} : worker'[t] = worker[t]
  BY Zenon, <1>1 DEF Ask, Answer, AskFails, SendVal, ends
<1>4. Ended \subseteq Ended' /\ Ended' \subseteq Servers
  BY Zenon, <1>2, <1>3 DEF Ended
<1>5. lookup \in {"run", "runStopped", "noPeers"} <=> lookup' \in {"run", "runStopped", "noPeers"}
  BY Zenon DEF Ask, Answer, AskFails, SendVal, ends
<1>6. UNCHANGED <<numResponses, best, peersWithBest, out, stopCh, search, quorum, ctxDone, lookupRes>>
  BY Zenon DEF Ask, Answer, AskFails, SendVal
<1>7. \/ valCh' = valCh
      \/ /\ worker[s] = "send" /\ worker' = [worker EXCEPT ![s] = "done"]
         /\ valCh = <<>> /\ valCh' = <<[val |-> val[s], from |-> s]>>
  BY Zenon DEF Ask, Answer, AskFails, SendVal, ends
<1> QED
  BY Zenon, <1>4, <1>5, <1>6, <1>7

(* Every step preserves CountInv.                                          *)
LEMMA CountNext == TypeOK /\ ValInv /\ CountInv /\ [Next]_vars => CountInv'
<1> SUFFICES ASSUME TypeOK, ValInv, CountInv, [Next]_vars PROVE CountInv'
  BY Zenon
<1>1. /\ numResponses \in Nat /\ Cardinality(Servers) \in Nat
      /\ Cardinality(Ended) \in Nat /\ Cardinality(Ended) <= Cardinality(Servers)
  BY ServersFinite, EndedBounded DEF TypeOK
<1>2. Ended \subseteq Servers /\ Ended' \subseteq Servers
  BY Zenon DEF Ended
<1>3. Cardinality(Ended') \in Nat
  BY Zenon, <1>2, ServersMonotone
<1>4. CASE SearchValue
  <2>1. numResponses' = 0 /\ lookup' = "run"
    BY Zenon, <1>4 DEF SearchValue, ValInv, Unstarted
  <2>2. Len(valCh') = 0 \/ Len(valCh') = 1
    BY Zenon, <1>4 DEF SearchValue
  <2>3. Cardinality(Ended)' \in Nat
    BY Zenon, <1>3
  <2> QED
    BY <2>1, <2>2, <2>3 DEF CountInv
<1>5. ASSUME NEW s \in Servers, Ask(s) \/ Answer(s) \/ AskFails(s) \/ SendVal(s) PROVE CountInv'
  <2>1. Cardinality(Ended) <= Cardinality(Ended')
    BY Zenon, <1>2, <1>5, QueryStep, ServersMonotone
  <2>2. CASE valCh' = valCh
    BY <1>1, <1>3, <1>5, <2>1, <2>2, QueryStep DEF CountInv
  <2>3. CASE /\ worker[s] = "send" /\ worker' = [worker EXCEPT ![s] = "done"]
             /\ valCh = <<>> /\ valCh' = <<[val |-> val[s], from |-> s]>>
    <3>1. s \notin Ended /\ Ended' = Ended \cup {s}
      BY Zenon, <2>3 DEF Ended, TypeOK
    <3>2. Cardinality(Ended') = Cardinality(Ended) + 1
      BY Zenon, <1>2, <3>1, ServersMonotone
    <3>3. Len(valCh) = 0 /\ Len(valCh') = 1
      BY Zenon, <2>3
    <3> QED
      BY <1>1, <1>5, <3>2, <3>3, QueryStep DEF CountInv
  <2> QED
    BY Zenon, <1>5, <2>2, <2>3, QueryStep
<1>6. CASE RunEnds
  <2>1. /\ lookup \in {"run", "runStopped"} /\ lookup' \in {"ended", "followup"}
        /\ UNCHANGED <<numResponses, valCh>>
    BY Zenon, <1>6 DEF RunEnds
  <2> QED
    BY <1>1, <1>3, <2>1 DEF CountInv
<1>7. CASE FollowupEnds \/ LookupFails
  <2>1. /\ lookup \in {"run", "runStopped", "noPeers"} <=> lookup' \in {"run", "runStopped", "noPeers"}
        /\ UNCHANGED <<numResponses, valCh, worker>>
    BY Zenon, <1>7 DEF FollowupEnds, LookupFails
  <2> QED
    BY Zenon, <2>1 DEF CountInv, Ended
<1>8. CASE Receive
  <2>1. numResponses' = numResponses + 1 /\ valCh # <<>> /\ valCh' = <<>> /\ UNCHANGED <<worker, lookup>>
    BY Zenon, <1>8 DEF Receive
  <2>2. Len(valCh) \in Nat /\ Len(valCh) # 0 /\ Len(valCh') = 0
    <3>1. valCh \in Seq(Message)
      BY Zenon DEF TypeOK
    <3> QED
      BY <2>1, <3>1
  <2> QED
    BY <1>1, <2>1, <2>2 DEF CountInv, Ended
<1>9. CASE UNCHANGED <<numResponses, valCh, worker, lookup>>
  BY Zenon, <1>9 DEF CountInv, Ended
<1>10. CASE Emit \/ EmitAborted \/ ValuesEnd \/ updatePeerValues \/ OutCloses \/ Cancel
  BY Zenon, <1>9, <1>10 DEF Emit, EmitAborted, ValuesEnd, updatePeerValues, OutCloses, Cancel
<1>11. CASE UNCHANGED searchVars
  BY Zenon, <1>9, <1>11 DEF searchVars
<1> QED
  BY Zenon, <1>4, <1>5, <1>6, <1>7, <1>8, <1>10, <1>11, SearchKinds

(* The value at the head of the channel.                                   *)
LEMMA HeadValue ==
  ASSUME TypeOK, valCh # <<>>
  PROVE  /\ Len(valCh) = 1 /\ Head(valCh) = valCh[1] /\ Head(valCh) \in Message
         /\ Head(valCh).val \in Nat \ {0} /\ Head(valCh).from \in Nodes
<1>1. valCh \in Seq(Message) /\ Len(valCh) \leq 1
  BY Zenon DEF TypeOK
<1>2. Len(valCh) \in Nat /\ Len(valCh) # 0 /\ Head(valCh) = valCh[1]
  BY <1>1
<1>3. Len(valCh) = 1
  <2>1. \A k \in Nat : k # 0 /\ k \leq 1 => k = 1
    OBVIOUS
  <2> QED
    BY Zenon, <1>1, <1>2, <2>1
<1>4. valCh[1] \in Message
  BY <1>1, <1>3, ElementOfSeq
<1>5. valCh[1].val \in 1 .. Best /\ valCh[1].from \in Nodes
  BY Zenon, <1>4 DEF Message, Ranks
<1> QED
  BY <1>2, <1>3, <1>4, <1>5, Constants

(* Every step preserves OutInv.                                            *)
LEMMA OutNext == TypeOK /\ ValInv /\ OutInv /\ [Next]_vars => OutInv'
<1> SUFFICES ASSUME TypeOK, ValInv, OutInv, [Next]_vars PROVE OutInv'
  OBVIOUS
<1>1. out \in Seq(Ranks) /\ best \in Nat /\ Len(out) \in Nat /\ DOMAIN out = 1 .. Len(out)
  <2>1. out \in Seq(Ranks) /\ best \in 0 .. Best
    BY Zenon DEF TypeOK
  <2> QED
    BY <2>1, Constants
<1>2. \A i \in DOMAIN out : out[i] \in Nat \ {0}
  <2>1. \A i \in 1 .. Len(out) : out[i] \in Ranks
    BY Zenon, <1>1, ElementOfSeq
  <2> QED
    BY <1>1, <2>1, Constants DEF Ranks
<1>3. CASE Receive
  <2> DEFINE m == Head(valCh)
  <2>1. m.val \in Nat \ {0}
    BY Zenon, <1>3, HeadValue DEF Receive
  <2> HIDE DEF m
  <2>2. UNCHANGED <<out, ctxDone>> /\ search = "loop"
    BY Zenon, <1>3 DEF Receive
  <2>3. CASE better(m.val)
    <3>1. best' = m.val /\ best' > best /\ search' \in {"emit", "emitQuorum"}
      BY <1>1, <1>3, <2>1, <2>3 DEF Receive, better, m
    <3> QED
      BY <1>1, <1>2, <2>1, <2>2, <3>1 DEF OutInv
  <2>4. CASE ~better(m.val)
    <3>1. best' = best /\ best # 0 /\ search' \in {"loop", "done"}
      BY Zenon, <1>3, <2>4 DEF Receive, better, m
    <3> QED
      BY Zenon, <2>2, <3>1 DEF OutInv
  <2> QED
    BY Zenon, <2>3, <2>4
<1>4. CASE Emit
  <2>1. /\ search \in {"emit", "emitQuorum"} /\ search' \in {"loop", "done"}
        /\ out' = Append(out, best) /\ UNCHANGED <<best, ctxDone>>
    BY Zenon, <1>4 DEF Emit
  <2>2. best # 0 /\ \A i \in DOMAIN out : out[i] < best
    BY Zenon, <2>1 DEF OutInv
  <2>3. /\ Len(out') = Len(out) + 1 /\ DOMAIN out' = 1 .. Len(out) + 1 /\ out' # <<>>
        /\ out'[Len(out) + 1] = best /\ \A i \in DOMAIN out : out'[i] = out[i]
    BY <1>1, <2>1, <2>2 DEF TypeOK, Ranks
  <2>4. \A i \in DOMAIN out' : i \in DOMAIN out \/ i = Len(out) + 1
    BY <1>1, <2>3
  <2>5. \A i, j \in DOMAIN out' : i < j => out'[i] < out'[j]
    BY <1>1, <2>2, <2>3, <2>4 DEF OutInv
  <2>6. \A i \in DOMAIN out' : out'[i] <= best
    BY <1>1, <1>2, <2>2, <2>3, <2>4
  <2> QED
    BY Zenon, <2>1, <2>2, <2>3, <2>5, <2>6 DEF OutInv
<1>5. CASE EmitAborted \/ Cancel
  <2>1. /\ UNCHANGED <<best, out>> /\ ctxDone'
        /\ search' = search \/ (search \in {"emit", "emitQuorum"} /\ search' = "loop")
    BY <1>5 DEF EmitAborted, Cancel
  <2> QED
    BY Zenon, <2>1 DEF OutInv
<1>6. CASE ValuesEnd \/ updatePeerValues \/ OutCloses
  <2>1. /\ UNCHANGED <<best, out, ctxDone>>
        /\ search \notin {"emit", "emitQuorum"} /\ search' \notin {"emit", "emitQuorum"}
        /\ best = 0 => search' = "done" \/ search \in {"await", "fix"}
    BY Zenon, <1>6 DEF ValuesEnd, updatePeerValues, OutCloses
  <2> QED
    BY Zenon, <2>1 DEF OutInv
<1>7. CASE SearchValue
  <2>1. UNCHANGED <<best, out, ctxDone>> /\ search = "idle" /\ search' = "loop"
    BY Zenon, <1>7 DEF SearchValue
  <2> QED
    BY Zenon, <2>1 DEF OutInv
<1>8. CASE UNCHANGED <<best, out, ctxDone, search>>
  BY Zenon, <1>8 DEF OutInv
<1>9. ASSUME NEW s \in Servers, Ask(s) \/ Answer(s) \/ AskFails(s) \/ SendVal(s)
      PROVE  UNCHANGED <<best, out, ctxDone, search>>
  BY Zenon, <1>9, QueryStep
<1>10. RunEnds \/ FollowupEnds \/ LookupFails => UNCHANGED <<best, out, ctxDone, search>>
  BY Zenon DEF RunEnds, FollowupEnds, LookupFails
<1>11. UNCHANGED searchVars => UNCHANGED <<best, out, ctxDone, search>>
  BY Zenon DEF searchVars
<1> QED
  BY Zenon, <1>3, <1>4, <1>5, <1>6, <1>7, <1>8, <1>9, <1>10, <1>11, SearchKinds

(* Every step preserves ValInv.                                            *)
LEMMA ValNext == TypeOK /\ ValInv /\ [Next]_vars => ValInv'
<1> SUFFICES ASSUME TypeOK, ValInv, [Next]_vars PROVE ValInv'
  OBVIOUS
<1>1. /\ worker \in [Servers -> {"idle", "asked", "send", "done", "failed"}]
      /\ val \in [Servers -> 0 .. Best] /\ best \in Nat /\ Best \in Nat
  BY Constants DEF TypeOK
<1>2. CASE SearchValue
  <2>1. /\ UNCHANGED <<best, worker, val, lookup, lookupRes>> /\ search' = "loop"
        /\ \A s \in Servers : worker[s] = "idle"
    BY Zenon, <1>2 DEF SearchValue, ValInv, Unstarted
  <2> QED
    BY Zenon, <2>1 DEF ValInv, noneActive, active
<1>3. ASSUME NEW s \in Servers, Ask(s) PROVE ValInv'
  <2>1. /\ UNCHANGED <<best, val, valCh, lookup, lookupRes, ctxDone, stopCh, search>>
        /\ search # "idle" /\ lookup = "run"
        /\ worker' = [worker EXCEPT ![s] = "asked"]
    BY Zenon, <1>3 DEF Ask
  <2> QED
    BY Zenon, <1>1, <2>1 DEF ValInv
<1>4. ASSUME NEW s \in Servers, Answer(s) \/ AskFails(s) \/ SendVal(s) PROVE ValInv'
  <2>1. /\ UNCHANGED <<best, lookupRes, ctxDone, stopCh, search>> /\ active(s)
        /\ lookup \in {"run", "runStopped", "noPeers"} <=> lookup' \in {"run", "runStopped", "noPeers"}
        /\ \A t \in Servers \ {s} : worker'[t] = worker[t] /\ val'[t] = val[t]
    BY Zenon, <1>1, <1>4 DEF Answer, AskFails, SendVal, active, ends
  <2>2. search # "idle" /\ lookup \notin {"ended", "noPeers"}
    BY Zenon, <2>1 DEF ValInv, Unstarted, noneActive, active
  <2>3. lookup' \notin {"ended", "noPeers"}
    BY Zenon, <1>4, <2>2 DEF Answer, AskFails, SendVal, ends
  <2>4. ~(search \in {"await", "fix", "done"} /\ ~ctxDone /\ ~stopCh)
    BY ZenonT(60), <2>2 DEF ValInv
  <2>5. \/ valCh' = valCh
        \/ valCh = <<>> /\ valCh'[1].val = val'[s] /\ 1 \in DOMAIN valCh'
    BY <1>4 DEF Answer, AskFails, SendVal
  <2>6. worker'[s] = "send" => val'[s] # 0
    BY Zenon, <1>1, <1>4 DEF Answer, AskFails, SendVal, ends
  <2>7. worker'[s] = "done" =>
           val'[s] <= best \/ \E i \in DOMAIN valCh' : val'[s] <= valCh'[i].val
    BY <1>1, <1>4, <2>5 DEF Answer, AskFails, SendVal, ends
  <2>8. ASSUME NEW t \in Servers \ {s}, worker'[t] = "done"
        PROVE  val'[t] <= best \/ \E i \in DOMAIN valCh' : val'[t] <= valCh'[i].val
    BY <2>1, <2>5, <2>8 DEF ValInv
  <2> QED
    BY Zenon, <2>1, <2>2, <2>3, <2>4, <2>6, <2>7, <2>8 DEF ValInv
<1>5. CASE RunEnds
  <2>1. /\ UNCHANGED <<best, val, valCh, ctxDone, stopCh, search>> /\ search # "idle"
        /\ lookup \in {"run", "runStopped"} /\ lookup' \in {"ended", "followup"} /\ noneActive
        /\ \A t \in Servers : worker'[t] = worker[t] \/ worker'[t] = "asked"
    BY Zenon, <1>1, <1>5 DEF RunEnds
  <2>2. lookup' = "ended" => \A t \in Servers : worker'[t] = worker[t]
    BY Zenon, <1>1, <1>5 DEF RunEnds
  <2> QED
    BY Zenon, <2>1, <2>2 DEF ValInv, noneActive, active
<1>6. CASE FollowupEnds
  <2>1. /\ UNCHANGED <<best, val, valCh, ctxDone, stopCh, search, worker, lookupRes>> /\ noneActive
        /\ lookup \in {"followup", "followupStopped"} /\ lookup' = "ended"
    BY Zenon, <1>6 DEF FollowupEnds
  <2> QED
    BY Zenon, <2>1 DEF ValInv, Unstarted, noneActive, active
<1>7. CASE LookupFails
  <2>1. /\ UNCHANGED <<best, val, valCh, ctxDone, stopCh, search, worker, lookupRes>>
        /\ lookup = "run" /\ lookup' = "noPeers" /\ search # "idle"
        /\ \A t \in Servers : worker[t] = "idle"
    BY Zenon, <1>7 DEF LookupFails
  <2> QED
    BY Zenon, <2>1 DEF ValInv, noneActive, active
<1>8. CASE Receive
  <2> DEFINE m == Head(valCh)
  <2>1. /\ m.val \in Nat /\ \A i \in DOMAIN valCh : valCh[i].val = m.val
    <3>1. valCh # <<>>
      BY Zenon, <1>8 DEF Receive
    <3>2. Len(valCh) = 1 /\ m = valCh[1] /\ m.val \in Nat /\ valCh \in Seq(Message)
      BY Zenon, <3>1, HeadValue DEF TypeOK
    <3>3. DOMAIN valCh = {1}
      BY <3>2
    <3> QED
      BY Zenon, <3>2, <3>3
  <2> HIDE DEF m
  <2>2. /\ UNCHANGED <<worker, val, lookup, lookupRes, ctxDone>> /\ search = "loop" /\ search' # "idle"
        /\ search' \in {"loop", "emit", "emitQuorum"} \/ (search' = "done" /\ stopCh')
    BY <1>8 DEF Receive
  <2>3. best' >= best /\ best' >= m.val /\ best' \in Nat
    BY <1>1, <1>8, <2>1 DEF Receive, better, m
  <2>4. ASSUME NEW t \in Servers, worker[t] = "done" PROVE val[t] <= best'
    <3>1. val[t] <= best \/ val[t] <= m.val
      BY Zenon, <2>1, <2>4 DEF ValInv
    <3>2. val[t] \in Nat
      BY <1>1
    <3> QED
      BY <1>1, <2>1, <2>3, <3>1, <3>2
  <2> QED
    BY Zenon, <2>2, <2>4 DEF ValInv, noneActive, active
<1>9. CASE Emit \/ EmitAborted
  <2>1. /\ UNCHANGED <<best, val, valCh, ctxDone, worker, lookup, lookupRes>>
        /\ search' = "loop" \/ (search' = "done" /\ stopCh')
    BY Zenon, <1>9 DEF Emit, EmitAborted
  <2> QED
    BY Zenon, <2>1 DEF ValInv, noneActive, active
<1>10. CASE ValuesEnd \/ updatePeerValues \/ OutCloses
  <2>1. /\ UNCHANGED <<best, val, valCh, ctxDone, stopCh, worker, lookup, lookupRes>> /\ search' # "idle"
        /\ \/ ctxDone \/ (valCh = <<>> /\ lookup \in {"ended", "noPeers"})
           \/ search \in {"await", "fix"}
    BY Zenon, <1>10 DEF ValuesEnd, updatePeerValues, OutCloses
  <2> QED
    BY Zenon, <2>1 DEF ValInv, noneActive, active
<1>11. CASE Cancel
  <2>1. UNCHANGED <<best, val, valCh, stopCh, worker, lookup, lookupRes, search>> /\ search # "idle" /\ ctxDone'
    BY Zenon, <1>11 DEF Cancel
  <2> QED
    BY Zenon, <2>1 DEF ValInv, noneActive, active
<1>12. CASE UNCHANGED searchVars
  BY Zenon, <1>12 DEF searchVars, ValInv, Unstarted, noneActive, active
<1> QED
  BY Zenon, <1>2, <1>3, <1>4, <1>5, <1>6, <1>7, <1>8, <1>9, <1>10, <1>11, <1>12, SearchKinds

-----------------------------------------------------------------------------
(* While no record is too old.                                             *)

(* The records stay fresh, and what a writer has read is what is there.    *)
LEMMA FreshRecords ==
  ASSUME TypeOK, LockInv, FreshInv, [Next]_vars, aged' = 0
  PROVE  /\ aged = 0 /\ deleting' = {} /\ (\A n \in Nodes : ~store'[n].old) /\ SeenFresh'
<1> USE Constants
<1>1. /\ store \in [Nodes -> [rank : 0 .. Best, old : BOOLEAN]] /\ aged \in Nat
  BY DEF TypeOK, RecordsTypeOK
<1>2. ASSUME NEW n \in Nodes PROVE ~RecordAges(n)
  BY <1>1 DEF RecordAges
<1>3. aged = 0
  <2>1. aged' = aged
    BY Zenon, <1>2, StepKinds DEF PutCompare, PutToPeers, updatePeerValues, handlePutValue, handleGetValueDeletes
  <2> QED
    BY Zenon, <2>1
<1>4. deleting = {} /\ (\A n \in Nodes : ~store[n].old) /\ SeenFresh
  BY Zenon, <1>3 DEF FreshInv
<1>5. ASSUME NEW n \in Nodes PROVE ~handleGetValueDeletes(n)
  BY ZenonT(60), <1>4 DEF handleGetValueDeletes, getDelete
<1>6. CASE PutCompare
  <2>1. UNCHANGED <<lock, seen, deleting>> /\ \A n \in Servers : store'[n] = store[n]
    BY Zenon, <1>1, <1>6 DEF PutCompare, putLocal
  <2>2. \A n \in Nodes : ~store'[n].old
    BY <1>1, <1>4, <1>6 DEF PutCompare, putLocal, record
  <2> QED
    BY <1>3, <1>4, <2>1, <2>2 DEF SeenFresh
<1>7. CASE PutToPeers \/ updatePeerValues
  <2>1. UNCHANGED <<store, lock, seen, deleting>>
    BY Zenon, <1>7 DEF PutToPeers, updatePeerValues
  <2> QED
    BY Zenon, <1>3, <1>4, <2>1 DEF SeenFresh
<1>8. ASSUME NEW n \in Nodes, NEW w \in Writers, handlePutValue(w, n)
      PROVE  deleting' = {} /\ (\A m \in Nodes : ~store'[m].old) /\ SeenFresh'
  <2>1. rankOf(w, n) \in 0 .. Best
    BY Zenon DEF rankOf, TypeOK
  <2>2. UNCHANGED <<user, search>>
    BY Zenon, <1>8 DEF handlePutValue, searchVars
  <2>3. putRead(w, n) \/ putWrite(w, n, rankOf(w, n)) \/ putFails(w, n)
    BY Zenon, <1>8 DEF handlePutValue
  <2>4. SeenFresh'
    BY Zenon, <1>4, <2>1, <2>2, <2>3, PutStep
  <2>5. /\ store' = store \/ store' = [store EXCEPT ![n] = record(rankOf(w, n))]
        /\ deleting' = deleting
    BY Zenon, <2>3 DEF putRead, putWrite, putFails
  <2>6. record(rankOf(w, n)).old = FALSE
    BY Zenon DEF record
  <2>7. \A m \in Nodes : ~store'[m].old
    BY Zenon, <1>1, <1>4, <2>5, <2>6
  <2> QED
    BY Zenon, <1>4, <2>4, <2>5, <2>7
<1>9. CASE UNCHANGED <<store, lock, put, seen, aged>>
  <2>1. deleting' = {}
    <3>1. ASSUME NEW s \in Servers, Answer(s) PROVE deleting' = {}
      BY Zenon, <1>4, <3>1 DEF Answer, getRead
    <3>2. ASSUME NEW s \in Servers, Ask(s) \/ AskFails(s) \/ SendVal(s) PROVE deleting' = {}
      BY Zenon, <1>4, <3>2 DEF Ask, AskFails, SendVal, recordVars
    <3>3. ASSUME SearchValue \/ RunEnds \/ FollowupEnds \/ LookupFails PROVE deleting' = {}
      BY Zenon, <1>4, <3>3 DEF SearchValue, RunEnds, FollowupEnds, LookupFails, recordVars
    <3>4. ASSUME Receive \/ Emit \/ EmitAborted \/ ValuesEnd \/ OutCloses \/ Cancel PROVE deleting' = {}
      BY Zenon, <1>4, <3>4 DEF Receive, Emit, EmitAborted, ValuesEnd, OutCloses, Cancel, recordVars
    <3>5. ASSUME updatePeerValues \/ PutToPeers \/ PutCompare \/ PutValue PROVE deleting' = {}
      BY Zenon, <1>4, <3>5 DEF updatePeerValues, PutToPeers, PutCompare, PutValue, recordVars
    <3>6. ASSUME UNCHANGED vars PROVE deleting' = {}
      BY ZenonT(60), <1>4, <3>6 DEF vars
    <3> QED
      BY Zenon, <1>2, <1>5, <1>8, <3>1, <3>2, <3>3, <3>4, <3>5, <3>6 DEF Next, UserPut, Lookup, Search
  <2> QED
    BY Zenon, <1>3, <1>4, <1>9, <2>1 DEF SeenFresh
<1> QED
  BY Zenon, <1>2, <1>3, <1>5, <1>6, <1>7, <1>8, <1>9, StepKinds

(* No server's record gets worse.                                          *)
LEMMA FreshMonotone ==
  ASSUME TypeOK, TypeOK', LockInv, FreshInv, [Next]_vars, aged' = 0
  PROVE  \A s \in Servers : /\ store[s].rank \in Nat /\ store'[s].rank \in Nat
                            /\ store[s].rank <= store'[s].rank
<1>1. deleting = {}
  BY Zenon, FreshRecords DEF FreshInv
<1>2. TAKE s \in Servers
<1>3. store[s].rank \in Nat
  BY Zenon, Constants, RankTypes
<1>4. store'[s].rank \in 0 .. Best
  <2>1. store'[s] \in [rank : 0 .. Best, old : BOOLEAN]
    BY Zenon, Constants DEF TypeOK, RecordsTypeOK
  <2> QED
    BY Zenon, <2>1
<1>5. store'[s].rank >= store[s].rank
  BY Zenon, <1>1, StoreStep
<1> QED
  BY <1>3, <1>4, <1>5, Constants

(* A server has what it answered with, what it has sent, and what it is    *)
(* known to have.                                                          *)
LEMMA FreshValues ==
  ASSUME TypeOK, TypeOK', LockInv, ValInv, FreshInv, [Next]_vars, aged' = 0
  PROVE  /\ \A s \in Servers : val'[s] <= store'[s].rank
         /\ \A i \in DOMAIN valCh' :
               valCh'[i].from \in Servers => valCh'[i].val <= store'[valCh'[i].from].rank
         /\ \A s \in peersWithBest' \cap Servers : best' <= store'[s].rank
<1> USE Constants
<1>1. /\ \A s \in Servers : val[s] <= store[s].rank
      /\ \A i \in DOMAIN valCh :
            valCh[i].from \in Servers => valCh[i].val <= store[valCh[i].from].rank
      /\ \A s \in peersWithBest \cap Servers : best <= store[s].rank
      /\ \A n \in Nodes : ~store[n].old
  BY Zenon, FreshRecords DEF FreshInv
<1>2. \A s \in Servers : /\ store[s].rank \in Nat /\ store'[s].rank \in Nat
                         /\ store[s].rank <= store'[s].rank
  BY Zenon, FreshMonotone
<1>3. val \in [Servers -> 0 .. Best] /\ best \in Nat /\ \A s \in Servers : val[s] \in Nat
  <2>1. val \in [Servers -> 0 .. Best] /\ best \in 0 .. Best
    BY Zenon DEF TypeOK
  <2> QED
    BY <2>1
<1>4. \A i \in DOMAIN valCh : valCh[i].val \in Nat
  <2>1. valCh \in Seq(Message)
    BY Zenon DEF TypeOK
  <2>2. \A i \in DOMAIN valCh : valCh[i] \in Message
    BY <2>1, ElementOfSeq
  <2> QED
    BY <2>2 DEF Message, Ranks
<1>5. ASSUME UNCHANGED val PROVE \A s \in Servers : val'[s] <= store'[s].rank
  BY <1>1, <1>2, <1>3, <1>5
<1>6. ASSUME UNCHANGED valCh
      PROVE  \A i \in DOMAIN valCh' :
                valCh'[i].from \in Servers => valCh'[i].val <= store'[valCh'[i].from].rank
  BY <1>1, <1>2, <1>4, <1>6
<1>7. ASSUME UNCHANGED <<best, peersWithBest>>
      PROVE  \A s \in peersWithBest' \cap Servers : best' <= store'[s].rank
  BY <1>1, <1>2, <1>3, <1>7
<1>8. CASE UNCHANGED <<val, valCh, best, peersWithBest>>
  BY Zenon, <1>5, <1>6, <1>7, <1>8
<1>9. CASE SearchValue
  <2>1. UNCHANGED <<val, best, peersWithBest>>
    BY Zenon, <1>9 DEF SearchValue
  <2>2. \A i \in DOMAIN valCh' : valCh'[i].from = Self
    BY <1>9 DEF SearchValue
  <2> QED
    BY Zenon, <1>5, <1>7, <2>1, <2>2
<1>10. ASSUME NEW s \in Servers, Answer(s)
       PROVE  UNCHANGED <<valCh, best, peersWithBest>> /\ \A t \in Servers : val'[t] <= store'[t].rank
  <2>1. /\ UNCHANGED <<valCh, best, peersWithBest, store>>
        /\ val' = [val EXCEPT ![s] = store[s].rank]
    BY Zenon, <1>1, <1>10 DEF Answer, getRead, getFinds
  <2> QED
    BY Zenon, <1>1, <1>2, <1>3, <2>1
<1>11. ASSUME NEW s \in Servers, SendVal(s)
       PROVE  /\ UNCHANGED <<val, best, peersWithBest>>
              /\ \A i \in DOMAIN valCh' :
                    valCh'[i].from \in Servers => valCh'[i].val <= store'[valCh'[i].from].rank
  <2>1. UNCHANGED <<val, best, peersWithBest>> /\ valCh' = <<[val |-> val[s], from |-> s]>>
    BY Zenon, <1>11 DEF SendVal
  <2>2. \A i \in DOMAIN valCh' : valCh'[i].from = s /\ valCh'[i].val = val[s]
    BY <2>1
  <2>3. val[s] <= store'[s].rank
    BY <1>1, <1>2, <1>3
  <2> QED
    BY Zenon, <2>1, <2>2, <2>3
<1>12. CASE Receive
  <2> DEFINE m == Head(valCh)
  <2>1. /\ UNCHANGED val /\ valCh' = <<>> /\ valCh # <<>>
        /\ best' = IF better(m.val) THEN m.val ELSE best
        /\ peersWithBest' = peersWith(m)
    BY Zenon, <1>12 DEF Receive
  <2>2. m.val \in Nat /\ (m.from \in Servers => m.val <= store[m.from].rank)
    <3>1. m = valCh[1] /\ Len(valCh) = 1 /\ m.val \in Nat /\ valCh \in Seq(Message)
      BY Zenon, <2>1, HeadValue DEF TypeOK
    <3>2. 1 \in DOMAIN valCh
      BY <3>1
    <3> QED
      BY Zenon, <1>1, <3>1, <3>2
  <2> HIDE DEF m
  <2>3. \A s \in peersWithBest' \cap Servers : best' <= store'[s].rank
    BY <1>1, <1>2, <1>3, <2>1, <2>2 DEF peersWith, better
  <2>4. DOMAIN valCh' = {}
    BY <2>1
  <2> QED
    BY Zenon, <1>5, <2>1, <2>3, <2>4
<1>13. ASSUME NEW s \in Servers, Ask(s) \/ AskFails(s)
       PROVE  UNCHANGED <<val, valCh, best, peersWithBest>>
  BY Zenon, <1>13 DEF Ask, AskFails
<1>14. RunEnds \/ FollowupEnds \/ LookupFails => UNCHANGED <<val, valCh, best, peersWithBest>>
  BY Zenon DEF RunEnds, FollowupEnds, LookupFails
<1>15. Emit \/ EmitAborted \/ ValuesEnd \/ updatePeerValues \/ OutCloses \/ Cancel
          => UNCHANGED <<val, valCh, best, peersWithBest>>
  BY Zenon DEF Emit, EmitAborted, ValuesEnd, updatePeerValues, OutCloses, Cancel
<1>16. UNCHANGED searchVars => UNCHANGED <<val, valCh, best, peersWithBest>>
  BY Zenon DEF searchVars
<1>17. CASE \E s \in Servers : Answer(s)
  BY Zenon, <1>6, <1>7, <1>10, <1>17
<1>18. CASE \E s \in Servers : SendVal(s)
  BY Zenon, <1>5, <1>7, <1>11, <1>18
<1> QED
  BY Zenon, <1>8, <1>9, <1>12, <1>13, <1>14, <1>15, <1>16, <1>17, <1>18, SearchKinds

(* The search has just ended, or the corrections have just been started.   *)
LEMMA FixStarts ==
  ASSUME TypeOK, TypeOK', LockInv, OutInv, ValInv, FreshInv, [Next]_vars, aged' = 0,
         search \notin {"fix", "done"}, search' \in {"fix", "done"}, ~ctxDone', ~stopCh',
         NEW s \in lookupRes', put'["fix"][s] = "idle"
  PROVE  best' <= store'[s].rank
<1> USE Constants
<1>1. \A t \in Servers : /\ store[t].rank \in Nat /\ store'[t].rank \in Nat
                         /\ store[t].rank <= store'[t].rank
  BY Zenon, FreshMonotone
<1>2. lookupRes' \subseteq Servers /\ best \in Nat
  <2>1. lookupRes' \subseteq Servers /\ best \in 0 .. Best
    BY ZenonT(60) DEF TypeOK
  <2> QED
    BY <2>1
<1>3. CASE ValuesEnd /\ best = 0
  BY <1>1, <1>2, <1>3 DEF ValuesEnd
<1>4. CASE updatePeerValues
  <2>1. /\ UNCHANGED <<best, store, lookupRes>>
        /\ put' = [put EXCEPT !["fix"] =
                      [n \in Nodes |-> IF n \in lookupRes \ peersWithBest THEN "sent" ELSE "idle"]]
    BY Zenon, <1>4 DEF updatePeerValues
  <2>2. put \in [Writers -> [Nodes -> PutState]]
    BY Zenon DEF TypeOK, RecordsTypeOK
  <2>3. s \in peersWithBest \cap Servers
    BY Zenon, <1>2, <2>1, <2>2
  <2> QED
    BY Zenon, <2>1, <2>3, FreshRecords DEF FreshInv
<1>5. CASE OutCloses
  <2>1. UNCHANGED <<lookup, lookupRes>> /\ lookup = "noPeers"
    BY Zenon, <1>5 DEF OutCloses
  <2> QED
    BY Zenon, <2>1 DEF ValInv
<1>6. Receive \/ Emit \/ EmitAborted \/ Cancel \/ SearchValue => FALSE
  <2>1. Receive => search' \in {"emit", "emitQuorum", "loop"} \/ (quorumReached /\ stopCh' = quorumReached)
    BY Zenon DEF Receive
  <2>2. stopCh' = quorumReached => ~quorumReached
    <3>1. stopCh' = FALSE
      BY Zenon DEF TypeOK
    <3> QED
      BY Zenon, <3>1 DEF quorumReached
  <2>3. Emit => search' = "loop" \/ stopCh'
    BY Zenon DEF Emit
  <2>4. EmitAborted \/ Cancel \/ SearchValue => FALSE
    BY Zenon DEF EmitAborted, Cancel, SearchValue
  <2> QED
    BY Zenon, <2>1, <2>2, <2>3, <2>4
<1>7. RunEnds \/ FollowupEnds \/ LookupFails => FALSE
  BY Zenon DEF RunEnds, FollowupEnds, LookupFails
<1>8. ASSUME NEW t \in Servers, Ask(t) \/ Answer(t) \/ AskFails(t) \/ SendVal(t) PROVE FALSE
  BY Zenon, <1>8, QueryStep
<1>9. ValuesEnd => best = 0
  BY Zenon DEF ValuesEnd
<1>10. UNCHANGED searchVars => FALSE
  BY Zenon DEF searchVars
<1> QED
  BY Zenon, <1>3, <1>4, <1>5, <1>6, <1>7, <1>8, <1>9, <1>10, SearchKinds

(* The corrections are under way, or over.                                 *)
LEMMA FixGoesOn ==
  ASSUME TypeOK, TypeOK', LockInv, ValInv, FreshInv, [Next]_vars, aged' = 0,
         search \in {"fix", "done"}, ~ctxDone', ~stopCh',
         NEW s \in lookupRes', put'["fix"][s] = "idle"
  PROVE  best' <= store'[s].rank
<1> USE Constants
<1>1. \A t \in Servers : /\ store[t].rank \in Nat /\ store'[t].rank \in Nat
                         /\ store[t].rank <= store'[t].rank
  BY ZenonT(60), FreshMonotone
<1>2. UNCHANGED <<best, stopCh>> /\ ~ctxDone
  <2>1. ASSUME NEW t \in Servers, Ask(t) \/ Answer(t) \/ AskFails(t) \/ SendVal(t)
        PROVE  UNCHANGED <<best, stopCh>> /\ ~ctxDone
    BY Zenon, <2>1, QueryStep
  <2>2. RunEnds \/ FollowupEnds \/ LookupFails => UNCHANGED <<best, stopCh, ctxDone>>
    BY Zenon DEF RunEnds, FollowupEnds, LookupFails
  <2>3. SearchValue \/ Receive \/ Emit \/ EmitAborted \/ ValuesEnd \/ updatePeerValues \/ Cancel => FALSE
    BY Zenon DEF SearchValue, Receive, Emit, EmitAborted, ValuesEnd, updatePeerValues, Cancel
  <2>4. OutCloses => UNCHANGED <<best, stopCh, ctxDone>>
    BY Zenon DEF OutCloses
  <2>5. UNCHANGED searchVars => UNCHANGED <<best, stopCh, ctxDone>>
    BY Zenon DEF searchVars
  <2> QED
    BY <2>1, <2>2, <2>3, <2>4, <2>5, SearchKinds
<1>3. lookup \in {"ended", "noPeers"} /\ lookup # "run"
  BY Zenon, <1>2 DEF ValInv
<1>4. lookupRes' = lookupRes
  <2>1. ASSUME NEW t \in Servers, Ask(t) \/ Answer(t) \/ AskFails(t) \/ SendVal(t)
        PROVE  lookupRes' = lookupRes
    BY Zenon, <2>1, QueryStep
  <2>2. RunEnds => FALSE
    BY Zenon, <1>3 DEF RunEnds
  <2>3. FollowupEnds \/ LookupFails \/ SearchValue \/ OutCloses => lookupRes' = lookupRes
    BY Zenon DEF FollowupEnds, LookupFails, SearchValue, OutCloses
  <2>4. Receive \/ Emit \/ EmitAborted \/ ValuesEnd \/ updatePeerValues \/ Cancel => lookupRes' = lookupRes
    BY Zenon DEF Receive, Emit, EmitAborted, ValuesEnd, updatePeerValues, Cancel
  <2>5. UNCHANGED searchVars => lookupRes' = lookupRes
    BY Zenon DEF searchVars
  <2> QED
    BY Zenon, <2>1, <2>2, <2>3, <2>4, <2>5, SearchKinds
<1>5. s \in Servers /\ best \in Nat
  <2>1. s \in Servers /\ best \in 0 .. Best
    BY <1>4, Zenon DEF TypeOK
  <2> QED
    BY <2>1
<1>6. CASE put["fix"][s] = "idle"
  <2>1. best <= store[s].rank
    BY Zenon, <1>2, <1>4, <1>6, FreshRecords DEF FreshInv
  <2> QED
    BY <1>1, <1>2, <1>5, <2>1
<1>7. CASE put["fix"][s] # "idle"
  <2>1. put \in [Writers -> [Nodes -> PutState]]
    BY Zenon DEF TypeOK, RecordsTypeOK
  <2>2. \E n \in Nodes, w \in Writers : handlePutValue(w, n)
    <3>1. PutCompare => put' = put
      BY DEF PutCompare
    <3>2. PutToPeers => put'["fix"] = put["fix"]
      BY Zenon, <2>1 DEF PutToPeers
    <3>3. updatePeerValues => FALSE
      BY Zenon DEF updatePeerValues
    <3>4. ASSUME NEW n \in Nodes PROVE handleGetValueDeletes(n) \/ RecordAges(n) => put' = put
      BY Zenon DEF handleGetValueDeletes, getDelete, RecordAges, Ages
    <3> QED
      BY Zenon, <1>7, <3>1, <3>2, <3>3, <3>4, StepKinds
  <2>3. PICK n \in Nodes, w \in Writers : handlePutValue(w, n)
    BY Zenon, <2>2
  <2>4. putRead(w, n) \/ putWrite(w, n, rankOf(w, n)) \/ putFails(w, n)
    BY Zenon, <2>3 DEF handlePutValue
  <2>5. w = "fix" /\ n = s
    <3>1. \E st : put' = [put EXCEPT ![w][n] = st]
      BY Zenon, <2>4 DEF putRead, putWrite, putFails, setPut
    <3> QED
      BY <1>5, <1>7, <2>1, <3>1
  <2>6. rankOf(w, n) = best
    BY Zenon, <2>5 DEF rankOf
  <2>7. UNCHANGED <<user, search>>
    BY Zenon, <2>3 DEF handlePutValue, searchVars
  <2>8. SeenFresh
    BY Zenon, FreshRecords DEF FreshInv
  <2>9. best \in 0 .. Best
    BY Zenon DEF TypeOK
  <2>10. store'[s].rank >= best
    BY Zenon, <1>5, <2>4, <2>5, <2>6, <2>7, <2>8, <2>9, PutStep
  <2> QED
    BY Zenon, <1>1, <1>2, <1>5, <2>10
<1> QED
  BY Zenon, <1>6, <1>7

(* Every step preserves FreshInv.                                          *)
LEMMA FreshNext ==
  TypeOK /\ TypeOK' /\ LockInv /\ OutInv /\ ValInv /\ FreshInv /\ [Next]_vars => FreshInv'
<1> SUFFICES ASSUME TypeOK, TypeOK', LockInv, OutInv, ValInv, FreshInv, [Next]_vars, aged' = 0
             PROVE  FreshInv'
  BY Zenon DEF FreshInv
<1>1. deleting' = {} /\ (\A n \in Nodes : ~store'[n].old) /\ SeenFresh'
  BY Zenon, FreshRecords
<1>2. /\ \A s \in Servers : val'[s] <= store'[s].rank
      /\ \A i \in DOMAIN valCh' :
            valCh'[i].from \in Servers => valCh'[i].val <= store'[valCh'[i].from].rank
      /\ \A s \in peersWithBest' \cap Servers : best' <= store'[s].rank
  BY Zenon, FreshValues
<1>3. ASSUME search' \in {"fix", "done"}, ~ctxDone', ~stopCh',
             NEW s \in lookupRes', put'["fix"][s] = "idle"
      PROVE  best' <= store'[s].rank
  BY Zenon, <1>3, FixStarts, FixGoesOn
<1> QED
  BY Zenon, <1>1, <1>2, <1>3 DEF FreshInv

-----------------------------------------------------------------------------
(* The inductive invariant holds from the start.                           *)
LEMMA InitSearchInv == Init => SearchInv
<1> SUFFICES ASSUME Init PROVE SearchInv
  BY Zenon
<1> USE Constants
<1>1. PICK f \in InitialRanks : store = [n \in Nodes |-> record(f[n])]
  BY Zenon DEF Init, RecordsInit
<1>2. f \in [Nodes -> 0 .. Best]
  BY Zenon, RecordsAssumption
<1>3. store \in [Nodes -> [rank : 0 .. Best, old : BOOLEAN]] /\ \A n \in Nodes : ~store[n].old
  BY Zenon, <1>1, <1>2 DEF record
<1>4. RecordsTypeOK
  BY <1>3 DEF Init, RecordsInit, RecordsTypeOK, PutState
<1>5. TypeOK
  <2>1. user \in [pc : {"idle", "compare", "lookup", "done"}, rank : Ranks, old : 0 .. Best]
    BY DEF Init
  <2>2. 0 \in 0 .. 2 * Cardinality(Nodes) /\ 0 \in 0 .. Best /\ 0 \in 0 .. MaxAged /\ 0 \in 0 .. MaxFailures
    BY ServersFinite
  <2>3. out \in Seq(Ranks) /\ valCh \in Seq(Message) /\ Len(valCh) <= 1
    BY DEF Init
  <2>4. /\ aged \in 0 .. MaxAged /\ failures \in 0 .. MaxFailures
        /\ best \in 0 .. Best /\ numResponses \in 0 .. 2 * Cardinality(Nodes)
    BY Zenon, <2>2 DEF Init
  <2>5. /\ worker \in [Servers -> {"idle", "asked", "send", "done", "failed"}]
        /\ val \in [Servers -> 0 .. Best]
    BY Zenon, <2>2 DEF Init
  <2>6. quorum \in Quorums \cup {0}
    BY Zenon DEF Init
  <2> QED
    BY Zenon, <1>4, <2>1, <2>3, <2>4, <2>5, <2>6 DEF Init, TypeOK
<1>6. CountInv
  BY EndedBounded DEF Init, CountInv
<1>7. LockInv
  BY Zenon DEF Init, RecordsInit, LockInv
<1>8. OutInv /\ ValInv
  <2>1. /\ best = 0 /\ numResponses = 0 /\ out = <<>> /\ valCh = <<>> /\ search = "idle" /\ lookup = "run"
        /\ lookupRes = {} /\ worker = [s \in Servers |-> "idle"]
    BY Zenon DEF Init
  <2>2. OutInv
    BY <2>1 DEF OutInv
  <2>3. ValInv
    BY <2>1 DEF ValInv, Unstarted
  <2> QED
    BY <2>2, <2>3
<1>9. FreshInv
  <2>1. \A s \in Servers : store[s].rank \in Nat
    BY Zenon, <1>5, RankTypes
  <2> QED
    BY <1>3, <2>1 DEF Init, RecordsInit, FreshInv, SeenFresh
<1> QED
  BY Zenon, <1>5, <1>6, <1>7, <1>8, <1>9 DEF SearchInv

(* Every reachable state satisfies the inductive invariant.                *)
THEOREM SearchInvariant == Spec => []SearchInv
<1>1. SearchInv /\ [Next]_vars => SearchInv'
  <2> SUFFICES ASSUME SearchInv, [Next]_vars PROVE SearchInv'
    BY Zenon
  <2>1. TypeOK /\ CountInv /\ LockInv /\ OutInv /\ ValInv /\ FreshInv
    BY Zenon DEF SearchInv
  <2>2. TypeOK'
    BY Zenon, <2>1, TypeNext
  <2>3. CountInv' /\ LockInv' /\ OutInv' /\ ValInv'
    BY Zenon, <2>1, CountNext, LockNext, OutNext, ValNext
  <2>4. FreshInv'
    BY Zenon, <2>1, <2>2, FreshNext
  <2> QED
    BY Zenon, <2>2, <2>3, <2>4 DEF SearchInv
<1> QED
  BY <1>1, InitSearchInv, PTL DEF Spec

(* The state of records, searches and lookups is well typed: among other   *)
(* things no more values are received than the queries can have sent.      *)
THEOREM TypeCorrect == Spec => []TypeOK
<1>1. SearchInv => TypeOK
  BY DEF SearchInv
<1> QED
  BY <1>1, SearchInvariant, PTL

(* Among concurrent PUT_VALUE requests to a server a record is never       *)
(* replaced by a worse one.                                                *)
THEOREM NewestStaysTheorem == Spec => NewestStays
<1>1. SearchInv /\ [Next]_vars => [\A s \in Servers : neverWorse(s)]_vars
  <2> SUFFICES ASSUME SearchInv, [Next]_vars PROVE \A s \in Servers : neverWorse(s)
    BY Zenon
  <2> QED
    BY Zenon, StoreStep DEF SearchInv
<1> QED
  BY <1>1, SearchInvariant, PTL DEF Spec, NewestStays

(* What the caller of SearchValue reads gets better and better and ends,   *)
(* when the search ends on its own, with the best value answered.          *)
THEOREM BestReturnedTheorem == Spec => []BestReturned
<1>1. SearchInv => BestReturned
  <2> SUFFICES ASSUME SearchInv PROVE BestReturned
    BY Zenon
  <2>1. OutInv /\ ValInv
    BY DEF SearchInv
  <2>2. \A i, j \in DOMAIN out : i < j => out[i] < out[j]
    BY Zenon, <2>1 DEF OutInv
  <2>3. ASSUME search = "done", ~ctxDone, ~stopCh, best # 0
        PROVE  /\ out # <<>> /\ out[Len(out)] = best
               /\ \A s \in Servers : worker[s] = "done" => val[s] \leq best
    <3>1. out # <<>> /\ out[Len(out)] = best
      BY Zenon, <2>1, <2>3 DEF OutInv
    <3>2. DOMAIN valCh = {}
      BY <2>1, <2>3 DEF ValInv
    <3> QED
      BY Zenon, <2>1, <3>1, <3>2 DEF ValInv
  <2> QED
    BY Zenon, <2>2, <2>3 DEF BestReturned
<1> QED
  BY <1>1, SearchInvariant, PTL

(* When a search has ended on its own, every peer of the lookup's result   *)
(* has the best value or a better one once its correction is done.         *)
THEOREM CorrectedTheorem == Spec => []Corrected
<1>1. SearchInv => Corrected
  <2> SUFFICES ASSUME SearchInv, search = "done", ~ctxDone, ~stopCh, aged = 0,
                      NEW s \in lookupRes, put["fix"][s] = "idle"
               PROVE  store[s].rank \geq best
    BY Zenon DEF Corrected
  <2>1. best <= store[s].rank
    BY ZenonT(60) DEF SearchInv, FreshInv
  <2>2. s \in Nodes /\ best \in Nat
    BY Constants DEF SearchInv, TypeOK
  <2>3. store[s].rank \in Nat
    BY Zenon, <2>2, RankTypes DEF SearchInv
  <2> QED
    BY Zenon, <2>1, <2>2, <2>3
<1> QED
  BY <1>1, SearchInvariant, PTL
=============================================================================
