---------------------------- MODULE MessageSender ----------------------------
(***************************************************************************)
(* internal/net/message_manager.go: the requests and messages a node sends *)
(* to one peer, over one reused stream; and dht_net.go, the loop with      *)
(* which that peer serves a stream.  Peers do not share anything but the   *)
(* map's mutex, which is held only by the atomic steps below, so one peer  *)
(* is enough.                                                              *)
(*                                                                         *)
(* Processes: callers, each of which sends one request or message and may  *)
(* give up waiting; the goroutines that OnDisconnect starts; the peer's    *)
(* handler of each stream; and the network, which kills streams.           *)
(***************************************************************************)
EXTENDS Integers, Sequences, FiniteSets

CONSTANTS
    Callers,           \* the calls of SendRequest and SendMessage
    Impatient,         \* those whose context may end
    streamReuseTries,  \* the constant of that name
    MaxStreams         \* bound on the number of streams opened

ASSUME MessageSenderAssumption ==
    /\ IsFiniteSet(Callers) /\ Impatient \subseteq Callers
    /\ streamReuseTries \in Nat /\ MaxStreams \in Nat

Streams == 1..MaxStreams

(* A peerMessageSender is named after the call that created it.            *)
Senders == Callers

VARIABLES
    strmap,     \* strmap[p]: {} or the sender in the map
    used,       \* how many streams were opened
    holder,     \* lk of each sender: {} or who holds it
    s,          \* s of each sender: its stream, 0 for nil
    invalid, singleMes,
    disconnected,  \* senders whose OnDisconnect goroutine waits for lk
    alive,      \* each stream: not reset or closed by anyone
    in, out,    \* what the peer has still to read, and what we have
    pc, ms, retry, ctx, sent,
    requests,   \* the calls that are SendRequest and wait for a response
    answer      \* the calls whose request the response received answers

sender == <<holder, s, invalid, singleMes>>
network == <<used, alive, in, out>>
vars == <<strmap, sender, disconnected, network, pc, ms, retry, ctx, sent, requests, answer>>

TypeOK ==
    /\ strmap \in SUBSET Senders /\ Cardinality(strmap) <= 1
    /\ used \in 0..MaxStreams
    /\ holder \in [Senders -> SUBSET Callers]
    /\ s \in [Senders -> Streams \cup {0}]
    /\ invalid \in [Senders -> BOOLEAN] /\ singleMes \in [Senders -> Nat]
    /\ disconnected \subseteq Senders
    /\ alive \in [Streams -> BOOLEAN]
    /\ in \in [Streams -> Seq(Callers)] /\ out \in [Streams -> Seq(Callers)]
    /\ pc \in [Callers -> {"idle", "prepLock", "openFirst", "remove", "lock", "prep", "write",
                           "read", "finish", "done", "failed"}]
    /\ ms \in [Callers -> Senders]
    /\ retry \in [Callers -> BOOLEAN]
    /\ ctx \in [Callers -> {"live", "canceled", "expired"}]
    /\ sent \in [Callers -> Nat]
    /\ requests \subseteq Callers
    /\ answer \in [Callers -> SUBSET Callers]

Init ==
    /\ strmap = {} /\ used = 0 /\ disconnected = {}
    /\ holder = [i \in Senders |-> {}] /\ s = [i \in Senders |-> 0]
    /\ invalid = [i \in Senders |-> FALSE] /\ singleMes = [i \in Senders |-> 0]
    /\ alive = [st \in Streams |-> FALSE]
    /\ in = [st \in Streams |-> <<>>] /\ out = in
    /\ pc = [c \in Callers |-> "idle"] /\ ms = [c \in Callers |-> c]
    /\ retry = [c \in Callers |-> FALSE] /\ ctx = [c \in Callers |-> "live"]
    /\ requests = {} /\ sent = [c \in Callers |-> 0] /\ answer = [c \in Callers |-> {}]

goTo(c, where) == pc' = [pc EXCEPT ![c] = where]

call == <<retry, ctx, sent, requests, answer>>

-----------------------------------------------------------------------------
(* Streams.  A stream that is reset loses what is under way on it.          *)

Reset(st) ==
    /\ alive' = [alive EXCEPT ![st] = FALSE]
    /\ in' = [in EXCEPT ![st] = <<>>] /\ out' = [out EXCEPT ![st] = <<>>]
    /\ UNCHANGED used

(* ms.s.Reset(); ms.s = nil                                                 *)
dropStream(i) == Reset(s[i]) /\ s' = [s EXCEPT ![i] = 0]

(* invalidate, by whoever holds the lock of i, which is then released.      *)
invalidate(i) ==
    /\ invalid' = [invalid EXCEPT ![i] = TRUE]
    /\ holder' = [holder EXCEPT ![i] = {}]
    /\ IF s[i] # 0 THEN dropStream(i) ELSE UNCHANGED <<s, network>>
    /\ UNCHANGED singleMes

(* host.NewStream succeeds.                                                 *)
newStream(i) ==
    /\ used < MaxStreams
    /\ used' = used + 1
    /\ s' = [s EXCEPT ![i] = used']
    /\ alive' = [alive EXCEPT ![used'] = TRUE]
    /\ UNCHANGED <<in, out>>

(* prep of a sender that is valid, without an error.                        *)
haveStream(i) == \/ s[i] # 0 /\ UNCHANGED <<s, network>>
                 \/ s[i] = 0 /\ newStream(i)

-----------------------------------------------------------------------------
(* messageSenderForPeer                                                     *)

(* Take the sender in the map, or put a new one there, under smlk.          *)
Call(c) ==
    /\ pc[c] = "idle"
    /\ requests' \in {requests, requests \cup {c}}
    /\ \/ /\ strmap # {}
          /\ \E i \in strmap : ms' = [ms EXCEPT ![c] = i]
          /\ goTo(c, "lock") /\ UNCHANGED strmap
       \/ /\ strmap = {}
          /\ strmap' = {c} /\ ms' = [ms EXCEPT ![c] = c]
          /\ goTo(c, "prepLock")
    /\ UNCHANGED <<sender, disconnected, network, retry, ctx, sent, answer>>

(* prepOrInvalidate waits for the lock, or gives up with its context.       *)
PrepLock(c) ==
    /\ pc[c] = "prepLock"
    /\ \/ /\ holder[ms[c]] = {}
          /\ holder' = [holder EXCEPT ![ms[c]] = {c}]
          /\ goTo(c, "openFirst")
       \/ /\ ctx[c] # "live"
          /\ goTo(c, "remove") /\ UNCHANGED holder
    /\ UNCHANGED <<strmap, s, invalid, singleMes, disconnected, network, ms, call>>

(* prep under the lock: nothing to do, a new stream, or an error.           *)
OpenFirst(c) ==
    /\ pc[c] = "openFirst"
    /\ \/ /\ ~invalid[ms[c]]
          /\ haveStream(ms[c])
          /\ holder' = [holder EXCEPT ![ms[c]] = {}]
          /\ goTo(c, "lock") /\ UNCHANGED <<invalid, singleMes>>
       \/ /\ invalid[ms[c]] \/ s[ms[c]] = 0
          /\ invalidate(ms[c])
          /\ goTo(c, "remove")
    /\ UNCHANGED <<strmap, disconnected, ms, call>>

(* The sender could not be prepared: use the one that took its place in the *)
(* map, or remove it and fail.                                              *)
Remove(c) ==
    /\ pc[c] = "remove"
    /\ \/ /\ strmap \ {ms[c]} # {}
          /\ \E i \in strmap : ms' = [ms EXCEPT ![c] = i]
          /\ goTo(c, "lock") /\ UNCHANGED strmap
       \/ /\ strmap \subseteq {ms[c]}
          /\ strmap' = {}
          /\ goTo(c, "failed") /\ UNCHANGED ms
    /\ UNCHANGED <<sender, disconnected, network, call>>

-----------------------------------------------------------------------------
(* peerMessageSender.SendRequest and SendMessage, which differ in the read. *)

Lock(c) ==
    /\ pc[c] = "lock"
    /\ \/ /\ holder[ms[c]] = {}
          /\ holder' = [holder EXCEPT ![ms[c]] = {c}]
          /\ goTo(c, "prep")
       \/ /\ ctx[c] # "live"
          /\ goTo(c, "failed") /\ UNCHANGED holder
    /\ UNCHANGED <<strmap, s, invalid, singleMes, disconnected, network, ms, call>>

(* prep; its error ends the call and leaves the sender as it is.            *)
Prep(c) ==
    /\ pc[c] = "prep"
    /\ \/ /\ ~invalid[ms[c]]
          /\ haveStream(ms[c])
          /\ goTo(c, "write") /\ UNCHANGED holder
       \/ /\ invalid[ms[c]] \/ s[ms[c]] = 0
          /\ holder' = [holder EXCEPT ![ms[c]] = {}]
          /\ goTo(c, "failed") /\ UNCHANGED <<s, network>>
    /\ UNCHANGED <<strmap, invalid, singleMes, disconnected, ms, call>>

(* Mutant: the stream is kept after a timeout.                              *)
retryOrFailKeepsStream(c) ==
    /\ UNCHANGED <<s, network>>
    /\ \/ /\ ~retry[c]
          /\ retry' = [retry EXCEPT ![c] = TRUE]
          /\ goTo(c, "prep") /\ UNCHANGED holder
       \/ /\ retry[c]
          /\ holder' = [holder EXCEPT ![ms[c]] = {}]
          /\ goTo(c, "failed") /\ UNCHANGED retry

(* Drop the stream and try once more, or fail.                              *)
retryOrFail(c) ==
    /\ dropStream(ms[c])
    /\ \/ /\ ~retry[c]
          /\ retry' = [retry EXCEPT ![c] = TRUE]
          /\ goTo(c, "prep") /\ UNCHANGED holder
       \/ /\ retry[c]
          /\ holder' = [holder EXCEPT ![ms[c]] = {}]
          /\ goTo(c, "failed") /\ UNCHANGED retry

(* writeMsg succeeds; on a dead stream the message is lost.                 *)
Write(c) ==
    /\ pc[c] = "write"
    /\ LET st == s[ms[c]]
       IN  in' = IF alive[st] THEN [in EXCEPT ![st] = Append(@, c)] ELSE in
    /\ sent' = [sent EXCEPT ![c] = @ + 1]
    /\ goTo(c, IF c \in requests THEN "read" ELSE "finish")
    /\ UNCHANGED <<strmap, sender, disconnected, used, alive, out, ms, retry, ctx, requests, answer>>

WriteFails(c) ==
    /\ pc[c] = "write"
    /\ sent' = [sent EXCEPT ![c] = @ + 1]
    /\ retryOrFail(c)
    /\ UNCHANGED <<strmap, invalid, singleMes, disconnected, ms, ctx, requests, answer>>

(* ctxReadMsg receives what the stream delivers next.                       *)
Read(c) ==
    /\ pc[c] = "read"
    /\ LET st == s[ms[c]]
       IN  /\ out[st] # <<>>
           /\ answer' = [answer EXCEPT ![c] = {Head(out[st])}]
           /\ out' = [out EXCEPT ![st] = Tail(@)]
    /\ goTo(c, "finish")
    /\ UNCHANGED <<strmap, sender, disconnected, used, alive, in, ms, retry, ctx, sent, requests>>

(* The read fails or times out, or the context's deadline passes.           *)
ReadFails(c) ==
    /\ pc[c] = "read"
    /\ retryOrFail(c)
    /\ UNCHANGED <<strmap, invalid, singleMes, disconnected, ms, ctx, sent, requests, answer>>

(* Mutant: the lock is not released on this path.                           *)
ReadCanceledKeepsLock(c) ==
    /\ pc[c] = "read" /\ ctx[c] = "canceled"
    /\ dropStream(ms[c])
    /\ goTo(c, "failed")
    /\ UNCHANGED <<strmap, holder, invalid, singleMes, disconnected, ms, call>>

(* The context is cancelled: "retry would be same error".                   *)
ReadCanceled(c) ==
    /\ pc[c] = "read" /\ ctx[c] = "canceled"
    /\ dropStream(ms[c])
    /\ holder' = [holder EXCEPT ![ms[c]] = {}]
    /\ goTo(c, "failed")
    /\ UNCHANGED <<strmap, invalid, singleMes, disconnected, ms, call>>

(* A peer that often needed a retry gets a stream per message: it is closed *)
(* and the peer still reads what is in it.  An error of Close is returned.  *)
Finish(c) ==
    /\ pc[c] = "finish"
    /\ LET i == ms[c]
       IN  /\ \/ /\ singleMes[i] > streamReuseTries
                 /\ s' = [s EXCEPT ![i] = 0]
                 /\ alive' = [alive EXCEPT ![s[i]] = FALSE]
                 /\ \E result \in {"done", "failed"} : goTo(c, result)
                 /\ UNCHANGED singleMes
              \/ /\ singleMes[i] <= streamReuseTries
                 /\ singleMes' = [singleMes EXCEPT ![i] = IF retry[c] THEN @ + 1 ELSE @]
                 /\ goTo(c, "done") /\ UNCHANGED <<s, alive>>
           /\ holder' = [holder EXCEPT ![i] = {}]
    /\ UNCHANGED <<strmap, invalid, disconnected, used, in, out, ms, call>>

-----------------------------------------------------------------------------
(* Mutant: the sender is removed and never invalidated.                     *)
OnDisconnectForgets ==
    /\ strmap # {}
    /\ strmap' = {}
    /\ UNCHANGED <<sender, disconnected, network, pc, ms, call>>

(* OnDisconnect removes the sender from the map and starts a goroutine,     *)
(* which invalidates it once it has the lock.                               *)
OnDisconnect ==
    /\ strmap # {}
    /\ strmap' = {} /\ disconnected' = disconnected \cup strmap
    /\ UNCHANGED <<sender, network, pc, ms, call>>

Invalidate(i) ==
    /\ i \in disconnected /\ holder[i] = {}
    /\ disconnected' = disconnected \ {i}
    /\ invalidate(i)
    /\ UNCHANGED <<strmap, pc, ms, call>>

(* The caller's context is cancelled or its deadline passes.                *)
CtxDone(c) ==
    /\ c \in Impatient /\ pc[c] \notin {"done", "failed"} /\ ctx[c] = "live"
    /\ \E why \in {"canceled", "expired"} : ctx' = [ctx EXCEPT ![c] = why]
    /\ UNCHANGED <<strmap, sender, disconnected, network, pc, ms, retry, sent, requests, answer>>

(* handleNewMessage of the peer: one message, and its response if it has    *)
(* one, for which the stream must still be open.                            *)
HandleNewMessage(st) ==
    /\ in[st] # <<>>
    /\ in' = [in EXCEPT ![st] = Tail(@)]
    /\ out' = IF Head(in[st]) \in requests /\ alive[st]
              THEN [out EXCEPT ![st] = Append(@, Head(in[st]))] ELSE out
    /\ UNCHANGED <<strmap, sender, disconnected, used, alive, pc, ms, call>>

(* The handler of the peer ends in an error, its idle timer fires, or the   *)
(* connection is lost.                                                      *)
StreamDies(st) ==
    /\ alive[st]
    /\ Reset(st)
    /\ UNCHANGED <<strmap, sender, disconnected, pc, ms, call>>

-----------------------------------------------------------------------------
callerStep(c) == \/ PrepLock(c) \/ OpenFirst(c) \/ Remove(c) \/ Lock(c) \/ Prep(c)
                 \/ Write(c) \/ WriteFails(c) \/ Read(c) \/ ReadFails(c) \/ ReadCanceled(c)
                 \/ Finish(c)

Next == \/ \E c \in Callers : Call(c) \/ callerStep(c) \/ CtxDone(c) \/ Invalidate(c)
        \/ \E st \in Streams : HandleNewMessage(st) \/ StreamDies(st)
        \/ OnDisconnect

Spec == Init /\ [][Next]_vars

(* A call that was made runs: dials and reads have timeouts.  A write has   *)
(* none of its own; it ends when the other side reads or resets the stream, *)
(* as its idle timer makes it do.                                           *)
FairSpec == Spec /\ \A c \in Callers : WF_vars(callerStep(c))

-----------------------------------------------------------------------------
(* SendRequest returns the response to its own request: neither a late      *)
(* answer to a request that timed out, nor the answer to another call that  *)
(* uses the stream (message_manager.go:262).                                *)
ResponseMatches == \A c \in Callers : answer[c] \subseteq {c}

(* A request or message is written at most twice, whatever fails: retry is  *)
(* set by a failed write and by a failed read (message_manager.go:268).     *)
WrittenTwiceAtMost == \A c \in Callers : sent[c] <= 2

(* An invalidated sender does not stay in the map, where it would fail      *)
(* every later call: a call that will remove it is under way                *)
(* (message_manager.go:142).                                                *)
InvalidLeavesMap ==
    \A i \in strmap : invalid[i] => \E c \in Callers : pc[c] = "remove" /\ ms[c] = i

inUse(i) == \E c \in Callers : ms[c] = i /\ pc[c] \notin {"idle", "done", "failed"}

(* A stream is never left open without a sender that has it, and that       *)
(* sender can be found in the map or will be invalidated, as long as no     *)
(* context ends.                                                            *)
NoStreamForgotten ==
    /\ \A st \in Streams : alive[st] => \E i \in Senders : s[i] = st
    /\ (\A c \in Callers : ctx[c] = "live")
         => \A i \in Senders : s[i] # 0 => i \in strmap \cup disconnected

(* Every call returns.                                                      *)
CallsReturn == \A c \in Callers : pc[c] # "idle" ~> pc[c] \in {"done", "failed"}

(* "invalidate is called before this peerMessageSender is removed from the  *)
(* strmap. It prevents the peerMessageSender from being reused/             *)
(* reinitialized and then forgotten (leaving the stream open)."             *)
(* (message_manager.go:174)                                                 *)
SenderNotForgotten == \A i \in Senders : s[i] # 0 => i \in strmap \cup disconnected \/ inUse(i)
=============================================================================
