--------------------------- MODULE RoutingUpkeep ---------------------------
(***************************************************************************)
(* The goroutines that keep the routing table filled: rtPeerLoop, the      *)
(* fixLowPeers loop and the network subscriber of dht.go and               *)
(* subscriber_notifee.go, the lookup checks of peerFound, and the refresh  *)
(* manager of rtrefresh/rt_refresh_manager.go, with automatic refreshes.   *)
(*                                                                         *)
(* The table itself (go-libp2p-kbucket) is external: buckets of a fixed    *)
(* size, whose peers may be replaceable.  What a lookup does to the table  *)
(* is abstracted to the peers that answer (validPeerFound) and those that  *)
(* do not (peerStoppedDHT).  Tickers may fire at any time, so the token of *)
(* fixLowPeersChan, which only makes a round come sooner, is left out.     *)
(***************************************************************************)
EXTENDS Integers, FiniteSets, FiniteSetsExt

CONSTANTS
    Peers,
    Cpl,                   \* Cpl[p]: the length of the prefix p shares with us
    bucketSize,
    bootstrapPeers,
    maxNBoostrappers,
    minRTRefreshThreshold,
    LookupCheckConcurrency,
    Contacts,              \* the peers whose connections and protocols change;
                           \* the others serve, and only lookups meet them
    Callers                \* goroutines that call Refresh

ASSUME UpkeepAssumption ==
    /\ Cpl \in [Peers -> Nat]
    /\ bootstrapPeers \subseteq Contacts /\ Contacts \subseteq Peers
    /\ {bucketSize, maxNBoostrappers, LookupCheckConcurrency} \subseteq Nat \ {0}
    /\ minRTRefreshThreshold \in Nat

VARIABLES
    serves,          \* peers that run the DHT protocol
    link,            \* our connection to each peer; "new" until its event is handled
    rt,              \* the routing table
    isBootstrapping, \* of rtPeerLoop
    stage,           \* bootstrapCount and timerCh: 2 while the timer runs, 3 when it has fired
    checks,          \* the lookup check of each peer
    capacity,        \* dht.lookupCheckCapacity
    fix,             \* where the fixLowPeers loop is
    mgr,             \* where the refresh manager's loop is
    calls,           \* the Refresh of each caller
    closing,         \* dht.ctx is done
    exited           \* the loops that have returned

netVars == <<serves, link>>
loopVars == <<isBootstrapping, stage>>
checkVars == <<checks, capacity>>
closeVars == <<closing, exited>>
vars == <<serves, link, rt, isBootstrapping, stage, checks, capacity, fix, mgr, calls,
          closing, exited>>

Loops == {"rtPeerLoop", "fixLowPeers", "refresh"}

TypeOK ==
    /\ serves \subseteq Peers
    /\ link \in [Peers -> {"none", "new", "known"}]
    /\ rt \in [Peers -> {"out", "replaceable", "kept"}]
    /\ isBootstrapping \in BOOLEAN
    /\ stage \in 0 .. 3
    /\ checks \in [Peers -> {"none", "asking", "passed"}]
    /\ capacity = LookupCheckConcurrency - Cardinality({p \in Peers : checks[p] = "asking"})
    /\ capacity >= 0
    /\ fix \in {"select", "bootstrap"}
    /\ mgr \in {"ping", "cpls", "signal", "answer", "untold", "select"}
    /\ calls \in [Callers -> {"idle", "sending", "taken"}]
    /\ closing \in BOOLEAN
    /\ exited \subseteq Loops

-----------------------------------------------------------------------------
(* The table.                                                              *)

inTable == {p \in Peers : rt[p] # "out"}

Size == Cardinality(inTable)

NPeersForCpl(c) == Cardinality({p \in inTable : Cpl[p] = c})

hasRoom(p) == NPeersForCpl(Cpl[p]) < bucketSize

replaceable(p) == {q \in inTable : Cpl[q] = Cpl[p] /\ rt[q] = "replaceable"}

UsefulNewPeer(p) == p \notin inTable /\ (hasRoom(p) \/ replaceable(p) # {})

RemovePeer(S) == rt' = [p \in Peers |-> IF p \in S THEN "out" ELSE rt[p]]

(* RefreshNoWait gets through only to a manager that waits in its select.  *)
RefreshNoWait ==
    mgr' = IF mgr = "select" /\ "refresh" \notin exited THEN "ping" ELSE mgr

Init ==
    /\ \E S \in SUBSET Contacts : serves = S \cup (Peers \ Contacts)
    /\ link = [p \in Peers |-> "none"]
    /\ rt = [p \in Peers |-> "out"]
    /\ isBootstrapping = FALSE /\ stage = 0
    /\ checks = [p \in Peers |-> "none"]
    /\ capacity = LookupCheckConcurrency
    /\ fix = "select"
    /\ mgr = "ping"
    /\ calls = [c \in Callers |-> "idle"]
    /\ closing = FALSE /\ exited = {}

-----------------------------------------------------------------------------
(* The network, which no longer matters once we close.                     *)

(* A new connection ends in an identification event.                       *)
connect(S) ==
    link' = [p \in Peers |-> IF p \in S \cap Contacts /\ link[p] = "none" THEN "new" ELSE link[p]]

(* A peer starts or stops serving; identify tells us if we are connected.  *)
ProtocolsUpdated(p) ==
    /\ ~closing
    /\ serves' = IF p \in serves THEN serves \ {p} ELSE serves \cup {p}
    /\ link' = [link EXCEPT ![p] = IF @ = "none" THEN "none" ELSE "new"]
    /\ UNCHANGED <<rt, loopVars, checkVars, fix, mgr, calls, closeVars>>

(* p, or a lookup of ours, opens a connection.                             *)
Connected(p) ==
    /\ ~closing
    /\ link[p] = "none"
    /\ connect({p})
    /\ UNCHANGED <<serves, rt, loopVars, checkVars, fix, mgr, calls, closeVars>>

Disconnected(p) ==
    /\ ~closing
    /\ link[p] = "known"
    /\ link' = [link EXCEPT ![p] = "none"]
    /\ UNCHANGED <<serves, rt, loopVars, checkVars, fix, mgr, calls, closeVars>>

-----------------------------------------------------------------------------
(* peerFound and the lookup check it starts.                               *)

(* peerFound(p) starts a check if p runs the protocol, would be useful and *)
(* a place is free; we model one check of a peer at a time.                *)
candidates == {p \in Peers : p \in serves /\ UsefulNewPeer(p) /\ checks[p] = "none"}

startChecks(S) ==
    /\ checks' = [p \in Peers |-> IF p \in S THEN "asking" ELSE checks[p]]
    /\ capacity' = capacity - Cardinality(S)

(* Mutant: a check that fails keeps its place.                             *)
LookupCheckLeaking(p) ==
    /\ checks[p] = "asking"
    /\ \/ /\ p \in serves
          /\ checks' = [checks EXCEPT ![p] = "passed"]
          /\ capacity' = capacity + 1
       \/ /\ p \notin serves \/ closing \/ Size >= bucketSize
          /\ checks' = [checks EXCEPT ![p] = "none"]
          /\ UNCHANGED capacity
    /\ UNCHANGED <<netVars, rt, loopVars, fix, mgr, calls, closeVars>>

(* p answers, or does not.  From bucketSize peers on an answer that names  *)
(* nobody is as good as none.                                              *)
LookupCheck(p) ==
    /\ checks[p] = "asking"
    /\ \/ /\ p \in serves
          /\ checks' = [checks EXCEPT ![p] = "passed"]
       \/ /\ p \notin serves \/ closing \/ Size >= bucketSize
          /\ checks' = [checks EXCEPT ![p] = "none"]
    /\ capacity' = capacity + 1
    /\ UNCHANGED <<netVars, rt, loopVars, fix, mgr, calls, closeVars>>

(* The event handler: a peer that runs the protocol is checked, another    *)
(* one leaves the table.                                                   *)
handlePeerChangeEvent(p) ==
    /\ ~closing
    /\ link[p] = "new"
    /\ link' = [link EXCEPT ![p] = "known"]
    /\ \/ /\ p \in serves
          /\ startChecks(IF p \in candidates /\ capacity > 0 THEN {p} ELSE {})
          /\ UNCHANGED rt
       \/ /\ p \notin serves
          /\ RemovePeer({p})
          /\ UNCHANGED checkVars
    /\ UNCHANGED <<serves, loopVars, fix, mgr, calls, closeVars>>

(* It returns early if the peerstore cannot tell which protocols p has.    *)
handlePeerChangeFails(p) ==
    /\ ~closing
    /\ link[p] = "new"
    /\ link' = [link EXCEPT ![p] = "known"]
    /\ UNCHANGED <<serves, rt, loopVars, checkVars, fix, mgr, calls, closeVars>>

(* The subscriber wants a refresh when our addresses change, and so does   *)
(* the public Bootstrap.                                                   *)
Bootstrap ==
    /\ ~closing
    /\ RefreshNoWait
    /\ UNCHANGED <<netVars, rt, loopVars, checkVars, fix, calls, closeVars>>

-----------------------------------------------------------------------------
(* rtPeerLoop.                                                             *)

(* addPeerToRTChan: into an empty table a peer comes as the first one of a *)
(* bootstrap, and peers of a bootstrap are replaceable.                    *)
addPeer(p) ==
    LET boot == Size = 0 \/ isBootstrapping
        as   == IF boot THEN "replaceable" ELSE "kept"
    IN  /\ "rtPeerLoop" \notin exited
        /\ isBootstrapping' = boot
        /\ stage' = IF Size = 0 THEN 0 ELSE stage
        /\ \/ /\ p \notin inTable /\ hasRoom(p)
              /\ rt' = [rt EXCEPT ![p] = as]
           \/ /\ p \notin inTable /\ ~hasRoom(p)
              /\ \E q \in replaceable(p) : rt' = [rt EXCEPT ![q] = "out", ![p] = as]
           \/ /\ p \in inTable \/ (~hasRoom(p) /\ replaceable(p) = {})
              /\ UNCHANGED rt

(* A check that passed hands its peer over, or gives up when we close.     *)
validPeerFound(p) ==
    /\ checks[p] = "passed"
    /\ checks' = [checks EXCEPT ![p] = "none"]
    /\ \/ addPeer(p)
       \/ closing /\ UNCHANGED <<rt, loopVars>>
    /\ UNCHANGED <<netVars, capacity, fix, mgr, calls, closeVars>>

(* A lookup, which can only start from a peer of the table, finds a peer   *)
(* that answers, or one of the table that does not.                        *)
queryPeer(p) ==
    /\ Size > 0 /\ ~closing
    /\ \/ p \in serves /\ addPeer(p)
       \/ p \in inTable \ serves /\ RemovePeer({p}) /\ UNCHANGED loopVars
    /\ UNCHANGED <<netVars, checkVars, fix, mgr, calls, closeVars>>

MarkAllPeersIrreplaceable ==
    /\ "rtPeerLoop" \notin exited
    /\ stage = 2
    /\ stage' = 3
    /\ rt' = [p \in Peers |-> IF rt[p] = "out" THEN "out" ELSE "kept"]
    /\ UNCHANGED <<netVars, isBootstrapping, checkVars, fix, mgr, calls, closeVars>>

(* refreshFinishedCh is not buffered: the manager and the loop meet.  If   *)
(* the table was bootstrapping the loop asks for another refresh, which is *)
(* lost unless the manager is back in its select by then; the manager's    *)
(* ticker stands for that one too.                                         *)
refreshFinished ==
    /\ mgr = "signal" /\ "rtPeerLoop" \notin exited
    /\ stage' = IF stage < 2 THEN stage + 1 ELSE stage
    /\ isBootstrapping' = FALSE
    /\ mgr' = "answer"
    /\ UNCHANGED <<netVars, rt, checkVars, fix, calls, closeVars>>

-----------------------------------------------------------------------------
(* The fixLowPeers loop.                                                   *)

(* Mutant: a table without peers is none to fix.                           *)
fixLowPeersUnlessEmpty ==
    /\ fix = "select" /\ "fixLowPeers" \notin exited
    /\ Size \in 1 .. minRTRefreshThreshold
    /\ \E S \in SUBSET {p \in candidates : link[p] # "none"} :
           /\ Cardinality(S) \leq capacity
           /\ startChecks(S)
    /\ RefreshNoWait
    /\ UNCHANGED <<netVars, rt, loopVars, fix, calls, closeVars>>

(* A round, if the table is low: every connected peer goes through         *)
(* peerFound; a table with peers is refreshed, an empty one needs the      *)
(* bootstrap peers.                                                        *)
fixLowPeers ==
    /\ fix = "select" /\ "fixLowPeers" \notin exited
    /\ Size \leq minRTRefreshThreshold
    /\ LET C == {p \in candidates : link[p] # "none"} IN
       \E S \in SUBSET C :
           /\ Cardinality(S) = Min({Cardinality(C), capacity})
           /\ startChecks(S)
    /\ \/ Size > 0 /\ RefreshNoWait /\ UNCHANGED fix
       \/ Size = 0 /\ UNCHANGED mgr /\ fix' = IF bootstrapPeers = {} THEN fix ELSE "bootstrap"
    /\ UNCHANGED <<netVars, rt, loopVars, calls, closeVars>>

(* Two random bootstrap peers, or all that can be reached.                 *)
connectBootstrapPeers ==
    /\ fix = "bootstrap"
    /\ \E S \in SUBSET bootstrapPeers :
           /\ Cardinality(S) \leq maxNBoostrappers
           /\ Cardinality(S) = maxNBoostrappers \/ closing \/ bootstrapPeers \cap serves \subseteq S
           /\ connect(IF closing THEN {} ELSE S)
    /\ fix' = "select"
    /\ IF Size > 0 THEN RefreshNoWait ELSE UNCHANGED mgr
    /\ UNCHANGED <<serves, rt, loopVars, checkVars, calls, closeVars>>

-----------------------------------------------------------------------------
(* The refresh manager.                                                    *)

Refresh(c) ==
    /\ calls[c] = "idle"
    /\ ~closing
    /\ calls' = [calls EXCEPT ![c] = "sending"]
    /\ UNCHANGED <<netVars, rt, loopVars, checkVars, fix, mgr, closeVars>>

refreshCancelled(c) ==
    /\ calls[c] = "sending" /\ closing
    /\ calls' = [calls EXCEPT ![c] = "idle"]
    /\ UNCHANGED <<netVars, rt, loopVars, checkVars, fix, mgr, closeVars>>

(* The ticker, or a request and the others that wait at the same time.     *)
mgrSelect(S) ==
    /\ mgr = "select" /\ "refresh" \notin exited
    /\ calls' = [c \in Callers |-> IF c \in S THEN "taken" ELSE calls[c]]
    /\ mgr' = "ping"
    /\ UNCHANGED <<netVars, rt, loopVars, checkVars, fix, closeVars>>

sending == {c \in Callers : calls[c] = "sending"}

(* Mutant: a peer that we can connect to stays, whatever the ping says.    *)
pingAndEvictUnconnected(S) ==
    /\ mgr = "ping"
    /\ RemovePeer({p \in S \ serves : link[p] = "none"})
    /\ connect(S \cap serves)
    /\ mgr' = "cpls"
    /\ UNCHANGED <<serves, loopVars, checkVars, fix, calls, closeVars>>

(* Peers we have not heard from lately (S) are pinged, and evicted if they *)
(* do not answer or the context is done.  Then queryForSelf runs.  The     *)
(* loop's first refresh pings nobody: the case of an empty S.              *)
pingAndEvictPeers(S) ==
    /\ mgr = "ping"
    /\ IF closing THEN RemovePeer(S) /\ UNCHANGED link
       ELSE RemovePeer(S \ serves) /\ connect(S \cap serves)
    /\ mgr' = "cpls"
    /\ UNCHANGED <<serves, loopVars, checkVars, fix, calls, closeVars>>

(* The buckets up to the last one that has peers, or the first of an empty *)
(* table.                                                                  *)
GetTrackedCplsForRefresh == 0 .. Max({0} \cup {Cpl[p] : p \in inTable})

(* They are refreshed, or skipped if that was done lately; a refresh may   *)
(* fail.  A bucket without peers whose refresh does not fail ends it all,  *)
(* after a few more buckets, and rtPeerLoop is not told.                   *)
refreshCpls ==
    /\ mgr = "cpls"
    /\ \/ mgr' = "untold" /\ \E c \in GetTrackedCplsForRefresh : NPeersForCpl(c) = 0
       \/ mgr' = "signal"
    /\ UNCHANGED <<netVars, rt, loopVars, checkVars, fix, calls, closeVars>>

(* Mutant: the signal waits for rtPeerLoop alone.                          *)
signalAbortedNever ==
    /\ mgr = "signal" /\ closing /\ "rtPeerLoop" \notin exited
    /\ mgr' = "answer"
    /\ UNCHANGED <<netVars, rt, loopVars, checkVars, fix, calls, closeVars>>

signalAborted ==
    /\ mgr = "signal" /\ closing
    /\ mgr' = "answer"
    /\ UNCHANGED <<netVars, rt, loopVars, checkVars, fix, calls, closeVars>>

(* Mutant: a refresh that met a gap returns without its answers.           *)
answerSignalled ==
    /\ mgr \in {"answer", "untold"}
    /\ calls' = [c \in Callers |-> IF calls[c] = "taken" /\ mgr = "answer" THEN "idle" ELSE calls[c]]
    /\ mgr' = "select"
    /\ UNCHANGED <<netVars, rt, loopVars, checkVars, fix, closeVars>>

answer ==
    /\ mgr \in {"answer", "untold"}
    /\ calls' = [c \in Callers |-> IF calls[c] = "taken" THEN "idle" ELSE calls[c]]
    /\ mgr' = "select"
    /\ UNCHANGED <<netVars, rt, loopVars, checkVars, fix, closeVars>>

-----------------------------------------------------------------------------
(* Close.                                                                  *)

Cancel ==
    /\ ~closing
    /\ closing' = TRUE
    /\ UNCHANGED <<netVars, rt, loopVars, checkVars, fix, mgr, calls, exited>>

Exit(l) ==
    /\ closing /\ l \notin exited
    /\ l = "fixLowPeers" => fix = "select"
    /\ l = "refresh" => mgr = "select"
    /\ exited' = exited \cup {l}
    /\ UNCHANGED <<netVars, rt, loopVars, checkVars, fix, mgr, calls, closing>>

(* dht.Close waits for the loops of the DHT, then for the manager and the  *)
(* goroutines of Refresh.                                                  *)
closed == exited = Loops /\ sending = {}

-----------------------------------------------------------------------------

Network == \E p \in Contacts : ProtocolsUpdated(p) \/ Connected(p) \/ Disconnected(p)

Checks == \E p \in Peers : LookupCheck(p) \/ validPeerFound(p)

rtPeerLoop ==
    \/ \E p \in Peers : queryPeer(p)
    \/ MarkAllPeersIrreplaceable
    \/ refreshFinished

subscriber == \E p \in Contacts : handlePeerChangeEvent(p) \/ handlePeerChangeFails(p)

fixLowPeersLoop == fixLowPeers \/ connectBootstrapPeers

doRefresh == refreshCpls \/ signalAborted

refreshLoop ==
    \/ \E S \in SUBSET sending : mgrSelect(S)
    \/ \E S \in SUBSET inTable : pingAndEvictPeers(S)
    \/ doRefresh
    \/ answer

Users ==
    \/ Bootstrap
    \/ \E c \in Callers : Refresh(c) \/ refreshCancelled(c)

Close == Cancel \/ \E l \in Loops : Exit(l)

Next ==
    Network \/ Checks \/ rtPeerLoop \/ subscriber \/ fixLowPeersLoop \/ refreshLoop \/ Users \/ Close

Spec == Init /\ [][Next]_vars

(* Goroutines that can run do, and a select that finds a case ready again  *)
(* and again takes it in the end: Go chooses among ready cases at random,  *)
(* and tickers keep the loops going.  Lookup checks and pings have         *)
(* timeouts.  A peer that stays in the table passes the grace period.  The *)
(* peerstore does not fail for ever.                                       *)
Fairness ==
    /\ \A p \in Contacts :
          /\ WF_vars(LookupCheck(p))
          /\ WF_vars(validPeerFound(p))
          /\ SF_vars(handlePeerChangeEvent(p))
    /\ WF_vars(fixLowPeersLoop)
    /\ WF_vars(refreshFinished \/ doRefresh \/ answer)
    /\ SF_vars(mgrSelect(sending))
    /\ SF_vars(pingAndEvictPeers(inTable))
    /\ \A c \in Callers : WF_vars(refreshCancelled(c))
    /\ SF_vars(\E l \in Loops : Exit(l))

FairSpec == Spec /\ Fairness

-----------------------------------------------------------------------------

(* Every Refresh yields its answer: the manager takes the request and      *)
(* answers it after the refresh, or the context ends it, whatever Close    *)
(* interrupts.                                                             *)
RefreshAnswered == \A c \in Callers : calls[c] = "sending" ~> calls[c] = "idle"

(* An empty table fills again while a bootstrap peer serves: through       *)
(* fixLowPeers, the connection, the identification event, the lookup check *)
(* and its capacity, and rtPeerLoop.                                       *)
TableRecovers ==
    Size = 0 ~> (Size > 0 \/ bootstrapPeers \cap serves = {} \/ closing)

(* A peer that stopped serving leaves the table, even one whose check      *)
(* passed before it stopped and that rtPeerLoop added after the event of   *)
(* its removal.                                                            *)
StalePeersLeave ==
    \A p \in Contacts : p \in inTable \ serves ~> (p \notin inTable \ serves \/ closing)

(* Close returns: none of the loops waits for another that has gone.       *)
CloseReturns == closing ~> closed

(* The comment on refreshDoneCh: "write to this channel after every        *)
(* refresh".  doRefresh returns without it when it meets an empty bucket.  *)
RefreshSignalled == mgr # "untold"

=============================================================================
