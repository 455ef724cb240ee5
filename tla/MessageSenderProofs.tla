------------------------ MODULE MessageSenderProofs -------------------------
(***************************************************************************)
(* Theorems about MessageSender for any number of calls, streams and       *)
(* retries: its type and bounds, what is under way on the streams, and where *)
(* the senders that have a stream are to be found.                         *)
(***************************************************************************)
EXTENDS MessageSender, TLAPS, FiniteSetTheorems, SequenceTheorems

(* The calls that hold the lock of their sender, and those that also have   *)
(* its stream.                                                              *)
Locked(c) == pc[c] \in {"openFirst", "prep", "write", "read", "finish"}
Streaming(c) == pc[c] \in {"write", "read", "finish"}

(* A sender's lock has one holder, and a stream belongs to one sender.      *)
Ownership ==
    /\ \A c \in Callers : Locked(c) => holder[ms[c]] = {c}
    /\ \A c \in Callers : Streaming(c) => s[ms[c]] # 0
    /\ \A i \in Senders : s[i] <= used
    /\ \A i, j \in Senders : s[i] = s[j] /\ s[i] # 0 => i = j

-----------------------------------------------------------------------------
(* The type.                                                                *)

(* Append of a queue of messages.                                           *)
LEMMA AppendFacts ==
    ASSUME NEW q \in Seq(Callers), NEW c \in Callers
    PROVE  /\ Append(q, c) \in Seq(Callers) /\ Len(Append(q, c)) = Len(q) + 1 /\ Len(q) \in Nat
           /\ \A n \in 1..Len(q) : Append(q, c)[n] = q[n]
           /\ Append(q, c)[Len(q) + 1] = c
OBVIOUS

(* The first message of an empty queue.                                     *)
LEMMA AppendOne == ASSUME NEW c PROVE Append(<<>>, c) = <<c>>
OBVIOUS

(* Head and Tail of a queue of messages.                                    *)
LEMMA TailFacts ==
    ASSUME NEW q \in Seq(Callers), q # <<>>
    PROVE  /\ Tail(q) \in Seq(Callers) /\ Head(q) \in Callers /\ Head(q) = q[1]
           /\ Len(q) \in Nat \ {0} /\ Len(Tail(q)) = Len(q) - 1
           /\ \A n \in 1..Len(Tail(q)) : Tail(q)[n] = q[n + 1]
OBVIOUS

(* The map holds at most one sender.                                        *)
LEMMA MapType ==
    ASSUME TypeOK, NEW c \in Callers, strmap' \in {strmap, {}, {c}}
    PROVE  strmap' \in SUBSET Senders /\ Cardinality(strmap') <= 1
<1>1. Cardinality({}) = 0 /\ Cardinality({c}) = 1
  BY Zenon, FS_EmptySet, FS_Singleton
<1>2. CASE strmap' = strmap
  BY Zenon, <1>2 DEF TypeOK
<1>3. CASE strmap' = {}
  BY <1>1, <1>3
<1>4. CASE strmap' = {c}
  BY <1>1, <1>4 DEF Senders
<1> QED BY <1>2, <1>3, <1>4

NetworkType ==
    /\ used \in 0..MaxStreams
    /\ s \in [Senders -> Streams \cup {0}]
    /\ alive \in [Streams -> BOOLEAN]
    /\ in \in [Streams -> Seq(Callers)] /\ out \in [Streams -> Seq(Callers)]

(* What the sender does to streams keeps their type.                        *)
LEMMA ResetType ==
    ASSUME TypeOK, NEW st, Reset(st)
    PROVE  /\ used' \in 0..MaxStreams /\ alive' \in [Streams -> BOOLEAN]
           /\ in' \in [Streams -> Seq(Callers)] /\ out' \in [Streams -> Seq(Callers)]
<1>1. <<>> \in Seq(Callers)
  OBVIOUS
<1> QED BY Zenon, <1>1 DEF TypeOK, Reset

(* Dropping the stream of a sender keeps the type of the network.           *)
LEMMA DropType ==
    ASSUME TypeOK, NEW i \in Senders, dropStream(i)
    PROVE  NetworkType'
<1>1. s' \in [Senders -> Streams \cup {0}]
  BY Zenon DEF TypeOK, dropStream
<1> QED BY <1>1, ResetType DEF dropStream, NetworkType

(* So does opening one.                                                     *)
LEMMA HaveStreamType ==
    ASSUME TypeOK, NEW i \in Senders, haveStream(i)
    PROVE  NetworkType'
<1>1. CASE UNCHANGED <<s, network>>
  BY Zenon, <1>1 DEF TypeOK, network, NetworkType
<1>2. CASE newStream(i)
  <2>1. used' \in 1..MaxStreams
    BY <1>2, MessageSenderAssumption DEF newStream, TypeOK
  <2> QED BY <1>2, <2>1 DEF newStream, TypeOK, NetworkType, Streams
<1> QED BY <1>1, <1>2 DEF haveStream

(* Invalidating a sender keeps the types of what it changes.                *)
LEMMA InvalidateType ==
    ASSUME TypeOK, NEW i \in Senders, invalidate(i)
    PROVE  /\ NetworkType' /\ holder' \in [Senders -> SUBSET Callers]
           /\ invalid' \in [Senders -> BOOLEAN] /\ singleMes' = singleMes
<1>1. NetworkType'
  <2>1. CASE dropStream(i)
    BY <2>1, DropType
  <2>2. CASE UNCHANGED <<s, network>>
    BY <2>2 DEF TypeOK, network, NetworkType
  <2> QED BY <2>1, <2>2 DEF invalidate
<1> QED BY <1>1 DEF TypeOK, invalidate

(* The states of a call.                                                    *)
PcType == pc \in [Callers -> {"idle", "prepLock", "openFirst", "remove", "lock", "prep", "write",
                              "read", "finish", "done", "failed"}]

(* A call that moves to a known place.                                      *)
LEMMA GoToType ==
    ASSUME TypeOK, NEW c \in Callers,
           NEW where \in {"idle", "prepLock", "openFirst", "remove", "lock", "prep", "write",
                          "read", "finish", "done", "failed"},
           goTo(c, where)
    PROVE  PcType'
BY Zenon DEF TypeOK, goTo, PcType

(* A failed attempt keeps the types of what it changes.                     *)
LEMMA RetryType ==
    ASSUME TypeOK, NEW c \in Callers, retryOrFail(c)
    PROVE  /\ NetworkType' /\ PcType' /\ holder' \in [Senders -> SUBSET Callers]
           /\ retry' \in [Callers -> BOOLEAN]
<1>1. ms[c] \in Senders
  BY Zenon DEF TypeOK
<1>2. NetworkType'
  BY <1>1, DropType DEF retryOrFail
<1>3. PcType'
  BY GoToType DEF retryOrFail
<1>4. holder' \in [Senders -> SUBSET Callers] /\ retry' \in [Callers -> BOOLEAN]
  BY Zenon, <1>1 DEF retryOrFail, TypeOK
<1> QED BY <1>2, <1>3, <1>4

(* The types hold at the start.                                             *)
LEMMA TypeInit == Init => TypeOK
<1> SUFFICES ASSUME Init PROVE TypeOK
  BY Zenon
<1>1. Cardinality(strmap) <= 1
  BY FS_EmptySet DEF Init
<1>2. /\ in \in [Streams -> Seq(Callers)] /\ out \in [Streams -> Seq(Callers)]
  BY DEF Init
<1>3. used \in 0..MaxStreams /\ sent \in [Callers -> Nat] /\ singleMes \in [Senders -> Nat]
  BY MessageSenderAssumption DEF Init
<1>4. alive \in [Streams -> BOOLEAN] /\ retry \in [Callers -> BOOLEAN] /\ invalid \in [Senders -> BOOLEAN]
  BY DEF Init
<1>5. s \in [Senders -> Streams \cup {0}] /\ holder \in [Senders -> SUBSET Callers]
      /\ ms \in [Callers -> Senders]
  BY Zenon DEF Init, Senders
<1>6. /\ pc \in [Callers -> {"idle", "prepLock", "openFirst", "remove", "lock", "prep", "write",
                             "read", "finish", "done", "failed"}]
      /\ ctx \in [Callers -> {"live", "canceled", "expired"}]
      /\ requests \subseteq Callers /\ answer \in [Callers -> SUBSET Callers]
      /\ strmap \in SUBSET Senders /\ disconnected \subseteq Senders
  BY Zenon DEF Init
<1> QED BY <1>1, <1>2, <1>3, <1>4, <1>5, <1>6 DEF TypeOK

(* Every step keeps the types.                                              *)
LEMMA TypeStep == TypeOK /\ Ownership /\ [Next]_vars => TypeOK'
<1> SUFFICES ASSUME TypeOK, Ownership, [Next]_vars PROVE TypeOK'
  OBVIOUS
<1> USE DEF PcType, NetworkType
<1>1. ASSUME NEW c \in Callers, Call(c) PROVE TypeOK'
  <2>1. PcType' /\ ms' \in [Callers -> Senders]
    <3>1. PcType'
      BY Zenon, <1>1, GoToType DEF Call
    <3>2. PICK i \in Senders : ms' = [ms EXCEPT ![c] = i]
      BY Zenon, <1>1 DEF Call, TypeOK, Senders
    <3> QED BY <3>1, <3>2 DEF TypeOK
  <2>2. strmap' \in SUBSET Senders /\ Cardinality(strmap') <= 1
    BY Zenon, <1>1, MapType DEF Call
  <2>3. requests' \subseteq Callers
    BY Zenon, <1>1 DEF Call, TypeOK
  <2> QED BY <1>1, <2>1, <2>2, <2>3 DEF Call, TypeOK, sender, network
<1>2. ASSUME NEW c \in Callers, PrepLock(c) \/ Lock(c) PROVE TypeOK'
  <2>1. PcType'
    BY Zenon, <1>2, GoToType DEF PrepLock, Lock
  <2>2. holder' \in [Senders -> SUBSET Callers]
    BY <1>2 DEF PrepLock, Lock, TypeOK
  <2> QED BY <1>2, <2>1, <2>2 DEF PrepLock, Lock, TypeOK, network, call
<1>3. ASSUME NEW c \in Callers, OpenFirst(c) PROVE TypeOK'
  <2>1. ms[c] \in Senders
    BY Zenon DEF TypeOK
  <2>2. PcType'
    BY Zenon, <1>3, GoToType DEF OpenFirst
  <2>3. /\ NetworkType' /\ holder' \in [Senders -> SUBSET Callers]
        /\ invalid' \in [Senders -> BOOLEAN] /\ singleMes' = singleMes
    <3>1. CASE invalidate(ms[c])
      BY Zenon, <2>1, <3>1, InvalidateType
    <3>2. CASE /\ haveStream(ms[c]) /\ holder' = [holder EXCEPT ![ms[c]] = {}]
               /\ UNCHANGED <<invalid, singleMes>>
      <4>1. NetworkType'
        BY Zenon, <2>1, <3>2, HaveStreamType
      <4> QED BY ZenonT(60), <3>2, <4>1 DEF TypeOK
    <3> QED BY <1>3, <3>1, <3>2 DEF OpenFirst
  <2> QED BY <1>3, <2>2, <2>3 DEF OpenFirst, TypeOK, call
<1>4. ASSUME NEW c \in Callers, Remove(c) PROVE TypeOK'
  <2>1. PcType' /\ ms' \in [Callers -> Senders]
    <3>1. PcType'
      BY Zenon, <1>4, GoToType DEF Remove
    <3>2. ms' = ms \/ \E i \in Senders : ms' = [ms EXCEPT ![c] = i]
      BY Zenon, <1>4 DEF Remove, TypeOK
    <3>3. ms \in [Callers -> Senders]
      BY Zenon DEF TypeOK
    <3>4. ms' \in [Callers -> Senders]
      BY <3>2, <3>3
    <3> QED BY <3>1, <3>4
  <2>2. strmap' \in SUBSET Senders /\ Cardinality(strmap') <= 1
    BY Zenon, <1>4, MapType DEF Remove
  <2> QED BY <1>4, <2>1, <2>2 DEF Remove, TypeOK, sender, network, call
<1>5. ASSUME NEW c \in Callers, Prep(c) PROVE TypeOK'
  <2>1. ms[c] \in Senders
    BY Zenon DEF TypeOK
  <2>2. PcType'
    BY Zenon, <1>5, GoToType DEF Prep
  <2>3. NetworkType'
    <3>1. CASE haveStream(ms[c])
      BY Zenon, <2>1, <3>1, HaveStreamType
    <3>2. CASE UNCHANGED <<s, network>>
      BY Zenon, <3>2 DEF TypeOK, network
    <3> QED BY <1>5, <3>1, <3>2 DEF Prep
  <2>4. holder' \in [Senders -> SUBSET Callers]
    BY Zenon, <1>5 DEF Prep, TypeOK
  <2> QED BY <1>5, <2>2, <2>3, <2>4 DEF Prep, TypeOK, call
<1>6. ASSUME NEW c \in Callers, Write(c) PROVE TypeOK'
  <2>1. s[ms[c]] \in Streams
    BY <1>6 DEF Write, TypeOK, Ownership, Streaming
  <2>2. Append(in[s[ms[c]]], c) \in Seq(Callers)
    BY Zenon, <2>1, AppendFacts DEF TypeOK
  <2>3. in' \in [Streams -> Seq(Callers)]
    BY Zenon, <1>6, <2>1, <2>2 DEF Write, TypeOK
  <2>4. PcType'
    BY Zenon, <1>6, GoToType DEF Write
  <2>5. sent' \in [Callers -> Nat]
    BY <1>6 DEF Write, TypeOK
  <2> QED BY <1>6, <2>3, <2>4, <2>5 DEF Write, TypeOK, sender
<1>7. ASSUME NEW c \in Callers, WriteFails(c) PROVE TypeOK'
  <2>1. sent' \in [Callers -> Nat]
    BY <1>7 DEF WriteFails, TypeOK
  <2> QED BY <1>7, <2>1, RetryType DEF WriteFails, TypeOK
<1>8. ASSUME NEW c \in Callers, Read(c) PROVE TypeOK'
  <2>1. s[ms[c]] \in Streams /\ out[s[ms[c]]] \in Seq(Callers) /\ out[s[ms[c]]] # <<>>
    BY <1>8 DEF Read, TypeOK, Ownership, Streaming
  <2>2. Tail(out[s[ms[c]]]) \in Seq(Callers) /\ Head(out[s[ms[c]]]) \in Callers
    BY Zenon, <2>1, TailFacts
  <2>3. out' \in [Streams -> Seq(Callers)] /\ answer' \in [Callers -> SUBSET Callers]
    BY Zenon, <1>8, <2>1, <2>2 DEF Read, TypeOK
  <2>4. PcType'
    BY Zenon, <1>8, GoToType DEF Read
  <2> QED BY <1>8, <2>3, <2>4 DEF Read, TypeOK, sender
<1>9. ASSUME NEW c \in Callers, ReadFails(c) PROVE TypeOK'
  BY Zenon, <1>9, RetryType DEF ReadFails, TypeOK
<1>10. ASSUME NEW c \in Callers, ReadCanceled(c) PROVE TypeOK'
  <2>1. NetworkType'
    BY Zenon, <1>10, DropType DEF ReadCanceled, TypeOK
  <2>2. PcType'
    BY Zenon, <1>10, GoToType DEF ReadCanceled
  <2>3. holder' \in [Senders -> SUBSET Callers]
    BY Zenon, <1>10 DEF ReadCanceled, TypeOK
  <2> QED BY <1>10, <2>1, <2>2, <2>3 DEF ReadCanceled, TypeOK, call
<1>11. ASSUME NEW c \in Callers, Finish(c) PROVE TypeOK'
  <2>1. ms[c] \in Senders
    BY DEF TypeOK
  <2>2. PcType'
    BY Zenon, <1>11, GoToType DEF Finish
  <2>3. s' \in [Senders -> Streams \cup {0}] /\ alive' \in [Streams -> BOOLEAN]
    BY Zenon, <1>11, <2>1 DEF Finish, TypeOK
  <2>4. singleMes' \in [Senders -> Nat] /\ holder' \in [Senders -> SUBSET Callers]
    BY <1>11, <2>1 DEF Finish, TypeOK
  <2> QED BY <1>11, <2>2, <2>3, <2>4 DEF Finish, TypeOK, call
<1>12. ASSUME NEW c \in Callers, CtxDone(c) PROVE TypeOK'
  <2>1. ctx' \in [Callers -> {"live", "canceled", "expired"}]
    BY Zenon, <1>12 DEF CtxDone, TypeOK
  <2> QED BY <1>12, <2>1 DEF CtxDone, TypeOK, sender, network
<1>13. ASSUME NEW c \in Callers, Invalidate(c) PROVE TypeOK'
  <2>1. /\ NetworkType' /\ holder' \in [Senders -> SUBSET Callers]
        /\ invalid' \in [Senders -> BOOLEAN] /\ singleMes' = singleMes
    BY Zenon, <1>13, InvalidateType DEF Invalidate, Senders
  <2> QED BY <1>13, <2>1 DEF Invalidate, TypeOK, call
<1>14. ASSUME NEW st \in Streams, HandleNewMessage(st) PROVE TypeOK'
  <2>1. in[st] \in Seq(Callers) /\ out[st] \in Seq(Callers) /\ in[st] # <<>>
    BY Zenon, <1>14 DEF HandleNewMessage, TypeOK
  <2>2. Tail(in[st]) \in Seq(Callers) /\ Head(in[st]) \in Callers
    BY Zenon, <2>1, TailFacts
  <2>3. Append(out[st], Head(in[st])) \in Seq(Callers)
    BY Zenon, <2>1, <2>2, AppendFacts
  <2>4. in' \in [Streams -> Seq(Callers)] /\ out' \in [Streams -> Seq(Callers)]
    BY Zenon, <1>14, <2>2, <2>3 DEF HandleNewMessage, TypeOK
  <2> QED BY ZenonT(60), <1>14, <2>4 DEF HandleNewMessage, TypeOK, sender, call
<1>15. ASSUME NEW st \in Streams, StreamDies(st) PROVE TypeOK'
  BY Zenon, <1>15, ResetType DEF StreamDies, TypeOK, sender, call
<1>16. CASE OnDisconnect
  <2>1. Cardinality(strmap') <= 1
    BY <1>16, FS_EmptySet DEF OnDisconnect
  <2> QED BY <1>16, <2>1 DEF OnDisconnect, TypeOK, sender, network, call
<1>17. CASE UNCHANGED vars
  BY Zenon, <1>17 DEF vars, TypeOK, sender, network
<1> QED
  BY Zenon, <1>1, <1>2, <1>3, <1>4, <1>5, <1>6, <1>7, <1>8, <1>9, <1>10, <1>11, <1>12, <1>13, <1>14, <1>15,
     <1>16, <1>17
  DEF Next, callerStep

-----------------------------------------------------------------------------
(* Locks and streams.                                                       *)

(* Two calls do not hold the same sender.                                   *)
LEMMA OnlyHolder ==
    ASSUME Ownership, NEW c \in Callers, NEW d \in Callers, Locked(c), Locked(d), ms[c] = ms[d]
    PROVE  c = d
BY DEF Ownership

(* The streams of the senders after one of them lost or got one.            *)
LEMMA DropFacts ==
    ASSUME TypeOK, NEW i \in Senders, dropStream(i)
    PROVE  used' = used /\ \A j \in Senders : s'[j] = IF j = i THEN 0 ELSE s[j]
BY Zenon DEF TypeOK, dropStream, Reset

(* The sender that prepares itself has a stream, its old one or a fresh one.*)
LEMMA HaveFacts ==
    ASSUME TypeOK, NEW i \in Senders, haveStream(i)
    PROVE  /\ s'[i] # 0 /\ \A j \in Senders : j # i => s'[j] = s[j]
           /\ \/ used' = used /\ s'[i] = s[i]
              \/ used' = used + 1 /\ s'[i] = used + 1
<1>1. CASE s[i] # 0 /\ UNCHANGED <<s, network>>
  BY Zenon, <1>1 DEF network
<1>2. CASE newStream(i)
  BY <1>2 DEF newStream, TypeOK
<1> QED BY <1>1, <1>2 DEF haveStream

(* The part of Ownership about streams.                                     *)
LEMMA OwnedDropped ==
    ASSUME TypeOK, Ownership, NEW i \in Senders, used' = used,
           \A j \in Senders : s'[j] = IF j = i THEN 0 ELSE s[j]
    PROVE  /\ \A j \in Senders : s'[j] <= used'
           /\ \A j, k \in Senders : s'[j] = s'[k] /\ s'[j] # 0 => j = k
<1>1. used \in Nat
  BY DEF TypeOK
<1> QED BY <1>1 DEF Ownership

(* A fresh stream is nobody else's.                                         *)
LEMMA OwnedHave ==
    ASSUME TypeOK, Ownership, NEW i \in Senders, haveStream(i)
    PROVE  /\ \A j \in Senders : s'[j] <= used'
           /\ \A j, k \in Senders : s'[j] = s'[k] /\ s'[j] # 0 => j = k
<1>1. used \in Nat /\ \A j \in Senders : s[j] \in Int
  BY DEF TypeOK, Streams
<1> QED BY <1>1, HaveFacts DEF Ownership

(* A call moves and touches neither its lock nor its stream.                *)
LEMMA OwnMove ==
    ASSUME TypeOK, Ownership, NEW c \in Callers, NEW where, goTo(c, where), UNCHANGED <<holder, s, used>>,
           \/ where \in {"prepLock", "lock", "remove", "done", "failed"}
                /\ \A d \in Callers : d # c => ms'[d] = ms[d]
           \/ ms' = ms /\ Streaming(c)
    PROVE  Ownership'
<1>1. \A d \in Callers : pc'[d] = IF d = c THEN where ELSE pc[d]
  BY Zenon DEF goTo, TypeOK
<1> QED BY <1>1 DEF Ownership, Locked, Streaming

(* A call takes the lock.                                                   *)
LEMMA OwnTake ==
    ASSUME TypeOK, Ownership, NEW c \in Callers, NEW where \in {"openFirst", "prep"}, goTo(c, where),
           holder[ms[c]] = {}, holder' = [holder EXCEPT ![ms[c]] = {c}], UNCHANGED <<ms, s, used>>
    PROVE  Ownership'
<1>1. \A d \in Callers : pc'[d] = IF d = c THEN where ELSE pc[d]
  BY Zenon DEF goTo, TypeOK
<1>2. holder'[ms[c]] = {c} /\ \A i \in Senders : i # ms[c] => holder'[i] = holder[i]
  BY Zenon DEF TypeOK
<1>3. \A d \in Callers : ms[d] \in Senders
  BY Zenon DEF TypeOK
<1>4. \A d \in Callers : Locked(d) => ms[d] # ms[c]
  BY ZenonT(60) DEF Ownership
<1> QED BY <1>1, <1>2, <1>3, <1>4 DEF Ownership, Locked, Streaming

(* The streams change under the lock of c, which is kept or released.       *)
LEMMA OwnUse ==
    ASSUME TypeOK, Ownership, NEW c \in Callers, NEW where, goTo(c, where), Locked(c), ms' = ms,
           \/ holder' = holder
           \/ holder' = [holder EXCEPT ![ms[c]] = {}] /\ where \in {"lock", "remove", "done", "failed"},
           where \in {"write", "read", "finish"} => s'[ms[c]] # 0,
           \A i \in Senders : i # ms[c] => s'[i] = s[i],
           \A j \in Senders : s'[j] <= used',
           \A j, k \in Senders : s'[j] = s'[k] /\ s'[j] # 0 => j = k
    PROVE  Ownership'
<1>1. \A d \in Callers : pc'[d] = IF d = c THEN where ELSE pc[d]
  BY Zenon DEF goTo, TypeOK
<1>2. \A d \in Callers : d # c /\ Locked(d) =>
          ms[d] # ms[c] /\ holder'[ms[d]] = holder[ms[d]] /\ s'[ms[d]] = s[ms[d]]
  BY OnlyHolder DEF TypeOK
<1>3. \A d \in Callers : Locked(d)' => holder'[ms'[d]] = {d}
  BY ZenonT(60), <1>1, <1>2 DEF Ownership, Locked
<1>4. \A d \in Callers : Streaming(d)' => s'[ms'[d]] # 0
  BY <1>1, <1>2 DEF Ownership, Locked, Streaming
<1> QED BY <1>3, <1>4 DEF Ownership

(* Nobody uses the sender i, whose stream is dropped.                       *)
LEMMA OwnIdle ==
    ASSUME TypeOK, Ownership, NEW i \in Senders, holder[i] = {}, UNCHANGED <<pc, ms>>, invalidate(i)
    PROVE  Ownership'
<1>1. used' = used /\ \A j \in Senders : s'[j] = IF j = i THEN 0 ELSE s[j]
  BY Zenon, DropFacts DEF invalidate, network
<1>2. \A d \in Callers : Locked(d) => ms[d] # i
  BY Zenon DEF Ownership
<1>3. \A d \in Callers : Locked(d) => holder'[ms[d]] = holder[ms[d]] /\ s'[ms[d]] = s[ms[d]]
  BY Zenon, <1>1, <1>2 DEF invalidate, TypeOK
<1>4. /\ \A j \in Senders : s'[j] <= used'
      /\ \A j, k \in Senders : s'[j] = s'[k] /\ s'[j] # 0 => j = k
  BY Zenon, <1>1, OwnedDropped
<1> QED BY <1>3, <1>4 DEF Ownership, Locked, Streaming

(* Steps that touch nothing of it keep Ownership.                           *)
LEMMA OwnFrame ==
    ASSUME Ownership, UNCHANGED <<pc, ms, holder, s, used>>
    PROVE  Ownership'
BY Zenon DEF Ownership, Locked, Streaming

(* A failed attempt keeps Ownership.                                        *)
LEMMA OwnRetry ==
    ASSUME TypeOK, Ownership, NEW c \in Callers, Locked(c), retryOrFail(c), ms' = ms
    PROVE  Ownership'
<1>1. ms[c] \in Senders
  BY Zenon DEF TypeOK
<1>2. used' = used /\ \A j \in Senders : s'[j] = IF j = ms[c] THEN 0 ELSE s[j]
  BY Zenon, <1>1, DropFacts DEF retryOrFail
<1>3. PICK where \in {"prep", "failed"} : /\ goTo(c, where)
                                          /\ \/ holder' = holder
                                             \/ holder' = [holder EXCEPT ![ms[c]] = {}] /\ where = "failed"
  BY Zenon DEF retryOrFail
<1>4. /\ \A j \in Senders : s'[j] <= used'
      /\ \A j, k \in Senders : s'[j] = s'[k] /\ s'[j] # 0 => j = k
  BY Zenon, <1>1, <1>2, OwnedDropped
<1>5. where \in {"write", "read", "finish"} => s'[ms[c]] # 0
  BY Zenon
<1>6. \A i \in Senders : i # ms[c] => s'[i] = s[i]
  BY Zenon, <1>2
<1> QED BY <1>3, <1>4, <1>5, <1>6, OwnUse

(* Nobody holds a lock at the start.                                        *)
LEMMA OwnInit == Init => Ownership
BY DEF Init, Ownership, Locked, Streaming

(* Every step keeps Ownership.                                              *)
LEMMA OwnStep == TypeOK /\ Ownership /\ [Next]_vars => Ownership'
<1> SUFFICES ASSUME TypeOK, Ownership, [Next]_vars PROVE Ownership'
  OBVIOUS
<1>1. ASSUME NEW c \in Callers, Call(c) PROVE Ownership'
  <2>1. PICK where \in {"lock", "prepLock"} : goTo(c, where)
    BY Zenon, <1>1 DEF Call
  <2>2. UNCHANGED <<holder, s, used>> /\ \A d \in Callers : d # c => ms'[d] = ms[d]
    BY Zenon, <1>1 DEF Call, TypeOK, sender, network
  <2> QED BY <2>1, <2>2, OwnMove
<1>2. ASSUME NEW c \in Callers, PrepLock(c) PROVE Ownership'
  <2>1. UNCHANGED <<ms, s, used>>
    BY Zenon, <1>2 DEF PrepLock, network
  <2>2. CASE holder[ms[c]] = {} /\ holder' = [holder EXCEPT ![ms[c]] = {c}] /\ goTo(c, "openFirst")
    BY Zenon, <2>1, <2>2, OwnTake
  <2>3. CASE goTo(c, "remove") /\ holder' = holder
    BY Zenon, <2>1, <2>3, OwnMove
  <2> QED BY <1>2, <2>2, <2>3 DEF PrepLock
<1>3. ASSUME NEW c \in Callers, Lock(c) PROVE Ownership'
  <2>1. UNCHANGED <<ms, s, used>>
    BY Zenon, <1>3 DEF Lock, network
  <2>2. CASE holder[ms[c]] = {} /\ holder' = [holder EXCEPT ![ms[c]] = {c}] /\ goTo(c, "prep")
    BY Zenon, <2>1, <2>2, OwnTake
  <2>3. CASE goTo(c, "failed") /\ holder' = holder
    BY Zenon, <2>1, <2>3, OwnMove
  <2> QED BY <1>3, <2>2, <2>3 DEF Lock
<1>4. ASSUME NEW c \in Callers, OpenFirst(c) PROVE Ownership'
  <2>1. ms[c] \in Senders /\ Locked(c) /\ ms' = ms
    BY Zenon, <1>4 DEF TypeOK, OpenFirst, Locked
  <2>2. CASE haveStream(ms[c]) /\ holder' = [holder EXCEPT ![ms[c]] = {}] /\ goTo(c, "lock")
    BY Zenon, <2>1, <2>2, HaveFacts, OwnedHave, OwnUse
  <2>3. CASE invalidate(ms[c]) /\ goTo(c, "remove")
    <3>1. used' = used /\ \A j \in Senders : s'[j] = IF j = ms[c] THEN 0 ELSE s[j]
      BY Zenon, <2>1, <2>3, DropFacts DEF invalidate, network
    <3>2. holder' = [holder EXCEPT ![ms[c]] = {}]
      BY Zenon, <2>3 DEF invalidate
    <3> QED BY ZenonT(60), <2>1, <2>3, <3>1, <3>2, OwnedDropped, OwnUse
  <2> QED BY <1>4, <2>2, <2>3 DEF OpenFirst
<1>5. ASSUME NEW c \in Callers, Remove(c) PROVE Ownership'
  <2>1. PICK where \in {"lock", "failed"} : goTo(c, where)
    BY Zenon, <1>5 DEF Remove
  <2>2. UNCHANGED <<holder, s, used>> /\ \A d \in Callers : d # c => ms'[d] = ms[d]
    BY Zenon, <1>5 DEF Remove, TypeOK, sender, network
  <2> QED BY <2>1, <2>2, OwnMove
<1>6. ASSUME NEW c \in Callers, Prep(c) PROVE Ownership'
  <2>1. ms[c] \in Senders /\ Locked(c) /\ ms' = ms
    BY Zenon, <1>6 DEF TypeOK, Prep, Locked
  <2>2. CASE haveStream(ms[c]) /\ holder' = holder /\ goTo(c, "write")
    BY Zenon, <2>1, <2>2, HaveFacts, OwnedHave, OwnUse
  <2>3. CASE holder' = [holder EXCEPT ![ms[c]] = {}] /\ goTo(c, "failed") /\ UNCHANGED <<s, network>>
    BY Zenon, <2>1, <2>3, OwnUse DEF network, Ownership
  <2> QED BY <1>6, <2>2, <2>3 DEF Prep
<1>7. ASSUME NEW c \in Callers, Write(c) \/ Read(c) PROVE Ownership'
  <2>1. PICK where \in {"read", "finish"} : goTo(c, where)
    BY Zenon, <1>7 DEF Write, Read
  <2>2. UNCHANGED <<holder, s, used, ms>> /\ Streaming(c)
    BY Zenon, <1>7 DEF Write, Read, sender, Streaming
  <2> QED BY <2>1, <2>2, OwnMove
<1>8. ASSUME NEW c \in Callers, WriteFails(c) \/ ReadFails(c) PROVE Ownership'
  BY Zenon, <1>8, OwnRetry DEF WriteFails, ReadFails, Locked
<1>9. ASSUME NEW c \in Callers, ReadCanceled(c) PROVE Ownership'
  <2>1. ms[c] \in Senders /\ Locked(c) /\ ms' = ms
    BY Zenon, <1>9 DEF TypeOK, ReadCanceled, Locked
  <2>2. used' = used /\ \A j \in Senders : s'[j] = IF j = ms[c] THEN 0 ELSE s[j]
    BY Zenon, <1>9, <2>1, DropFacts DEF ReadCanceled
  <2>3. holder' = [holder EXCEPT ![ms[c]] = {}] /\ goTo(c, "failed")
    BY Zenon, <1>9 DEF ReadCanceled
  <2> QED BY ZenonT(60), <2>1, <2>2, <2>3, OwnedDropped, OwnUse
<1>10. ASSUME NEW c \in Callers, Finish(c) PROVE Ownership'
  <2>1. ms[c] \in Senders /\ Locked(c) /\ ms' = ms /\ used' = used
    BY Zenon, <1>10 DEF TypeOK, Finish, Locked
  <2>2. PICK where \in {"done", "failed"} : goTo(c, where)
    BY Zenon, <1>10 DEF Finish
  <2>3. holder' = [holder EXCEPT ![ms[c]] = {}]
    BY Zenon, <1>10 DEF Finish
  <2>4. CASE s' = s
    BY Zenon, <2>1, <2>2, <2>3, <2>4, OwnUse DEF Ownership
  <2>5. CASE s' = [s EXCEPT ![ms[c]] = 0]
    <3>1. \A j \in Senders : s'[j] = IF j = ms[c] THEN 0 ELSE s[j]
      BY Zenon, <2>5 DEF TypeOK
    <3> QED BY ZenonT(60), <2>1, <2>2, <2>3, <3>1, OwnedDropped, OwnUse
  <2> QED BY <1>10, <2>4, <2>5 DEF Finish
<1>11. ASSUME NEW c \in Callers, Invalidate(c) PROVE Ownership'
  BY Zenon, <1>11, OwnIdle DEF Invalidate, Senders
<1>12. ASSUME NEW c \in Callers, CtxDone(c) PROVE Ownership'
  BY Zenon, <1>12, OwnFrame DEF CtxDone, sender, network
<1>13. ASSUME NEW st \in Streams, HandleNewMessage(st) \/ StreamDies(st) PROVE Ownership'
  BY Zenon, <1>13, OwnFrame DEF HandleNewMessage, StreamDies, Reset, sender
<1>14. CASE OnDisconnect \/ UNCHANGED vars
  BY Zenon, <1>14, OwnFrame DEF OnDisconnect, vars, sender, network
<1> QED
  BY Zenon, <1>1, <1>2, <1>3, <1>4, <1>5, <1>6, <1>7, <1>8, <1>9, <1>10, <1>11, <1>12, <1>13, <1>14
  DEF Next, callerStep

(* Every variable of the message sender keeps its type.                     *)
THEOREM MessageSenderTypeCorrect == Spec => [](TypeOK /\ Ownership)
BY TypeInit, TypeStep, OwnInit, OwnStep, PTL DEF Spec

(* Only the call that moves moves.                                          *)
LEMMA GoToFacts ==
    ASSUME TypeOK, NEW c \in Callers, NEW where, goTo(c, where)
    PROVE  \A d \in Callers : pc'[d] = IF d = c THEN where ELSE pc[d]
BY Zenon DEF TypeOK, goTo

-----------------------------------------------------------------------------
(* Retries.                                                                 *)

(* How often a call has written its message when it is where it is.         *)
Tries ==
    \A c \in Callers :
        /\ pc[c] \in {"idle", "prepLock", "openFirst", "remove", "lock"} => sent[c] = 0 /\ ~retry[c]
        /\ pc[c] \in {"prep", "write"} => sent[c] <= IF retry[c] THEN 1 ELSE 0
        /\ pc[c] \in {"read", "finish"} => sent[c] <= IF retry[c] THEN 2 ELSE 1
        /\ sent[c] <= 2

(* Nothing is written at the start.                                         *)
LEMMA TriesInit == Init => Tries
BY DEF Init, Tries

(* Every step keeps the count of attempts.                                  *)
LEMMA TriesStep == TypeOK /\ Tries /\ [Next]_vars => Tries'
<1> SUFFICES ASSUME TypeOK, Tries, [Next]_vars PROVE Tries'
  OBVIOUS
<1>1. ASSUME NEW c \in Callers, UNCHANGED <<sent, retry>>, NEW where, goTo(c, where),
             \/ where \in {"done", "failed"}
             \/ /\ where \in {"prepLock", "openFirst", "remove", "lock", "prep"}
                /\ pc[c] \in {"idle", "prepLock", "openFirst", "remove", "lock"}
             \/ pc[c] = "prep" /\ where = "write"
             \/ pc[c] = "read" /\ where = "finish"
      PROVE  Tries'
  <2>1. \A d \in Callers : pc'[d] = IF d = c THEN where ELSE pc[d]
    BY Zenon, <1>1, GoToFacts
  <2> QED BY <1>1, <2>1 DEF Tries
<1>2. ASSUME NEW c \in Callers, Call(c) \/ PrepLock(c) \/ OpenFirst(c) \/ Remove(c) \/ Lock(c) PROVE Tries'
  BY Zenon, <1>1, <1>2 DEF Call, PrepLock, OpenFirst, Remove, Lock, call
<1>3. ASSUME NEW c \in Callers, Prep(c) \/ Read(c) \/ ReadCanceled(c) \/ Finish(c) PROVE Tries'
  BY Zenon, <1>1, <1>3 DEF Prep, Read, ReadCanceled, Finish, call
<1>4. ASSUME NEW c \in Callers, Write(c) PROVE Tries'
  <2>1. \A d \in Callers : pc'[d] \in IF d = c THEN {"read", "finish"} ELSE {pc[d]}
    BY Zenon, <1>4, GoToFacts DEF Write
  <2>2. /\ \A d \in Callers : sent[d] \in Nat /\ sent'[d] = IF d = c THEN sent[d] + 1 ELSE sent[d]
        /\ retry' = retry /\ pc[c] = "write"
    BY Zenon, <1>4 DEF Write, TypeOK
  <2>3. sent[c] <= IF retry[c] THEN 1 ELSE 0
    BY Zenon, <2>2 DEF Tries
  <2>4. ASSUME NEW d \in Callers, d # c
        PROVE  pc'[d] = pc[d] /\ sent'[d] = sent[d] /\ retry'[d] = retry[d]
    BY Zenon, <2>1, <2>2, <2>4
  <2>5. pc'[c] \in {"read", "finish"} /\ sent'[c] <= (IF retry'[c] THEN 2 ELSE 1) /\ sent'[c] <= 2
    <3>1. pc'[c] \in {"read", "finish"}
      BY Zenon, <2>1
    <3>2. sent[c] \in Nat /\ sent'[c] = sent[c] + 1 /\ retry'[c] = retry[c]
      BY Zenon, <2>2
    <3>3. CASE retry[c]
      <4>1. sent[c] <= 1
        BY Zenon, <2>3, <3>3
      <4> QED BY <3>1, <3>2, <3>3, <4>1
    <3>4. CASE ~retry[c]
      <4>1. sent[c] <= 0
        BY Zenon, <2>3, <3>4
      <4> QED BY <3>1, <3>2, <3>4, <4>1
    <3> QED BY <3>3, <3>4
  <2> QED BY <2>4, <2>5 DEF Tries
<1>5. ASSUME NEW c \in Callers, WriteFails(c) \/ ReadFails(c) PROVE Tries'
  <2>1. PICK where \in {"prep", "failed"} :
           /\ goTo(c, where)
           /\ \/ where = "prep" /\ ~retry[c] /\ retry' = [retry EXCEPT ![c] = TRUE]
              \/ where = "failed" /\ retry' = retry
    BY Zenon, <1>5 DEF WriteFails, ReadFails, retryOrFail
  <2>2. \A d \in Callers : pc'[d] = IF d = c THEN where ELSE pc[d]
    BY Zenon, <2>1, GoToFacts
  <2>3. \A d \in Callers : retry'[d] = IF d = c /\ where = "prep" THEN TRUE ELSE retry[d]
    BY Zenon, <2>1 DEF TypeOK
  <2>4. /\ \A d \in Callers : sent[d] \in Nat /\ (d # c => sent'[d] = sent[d])
        /\ \/ pc[c] = "write" /\ sent'[c] = sent[c] + 1
           \/ pc[c] = "read" /\ sent'[c] = sent[c]
    BY Zenon, <1>5 DEF WriteFails, ReadFails, TypeOK
  <2>5. ASSUME NEW d \in Callers, d # c
        PROVE  pc'[d] = pc[d] /\ sent'[d] = sent[d] /\ retry'[d] = retry[d]
    BY Zenon, <2>2, <2>3, <2>4, <2>5
  <2>6. sent'[c] <= IF retry[c] THEN 2 ELSE 1
    <3>1. CASE pc[c] = "write"
      <4>1. sent[c] <= IF retry[c] THEN 1 ELSE 0
        BY Zenon, <3>1 DEF Tries
      <4> QED BY <2>4, <3>1, <4>1
    <3>2. CASE pc[c] = "read"
      BY Zenon, <2>4, <3>2 DEF Tries
    <3> QED BY <2>4, <3>1, <3>2
  <2>7. /\ pc'[c] \in {"prep", "failed"} /\ sent'[c] <= 2
        /\ pc'[c] = "prep" => retry'[c] /\ sent'[c] <= 1
    <3>1. CASE where = "prep"
      <4>1. retry'[c] /\ ~retry[c] /\ pc'[c] = "prep"
        BY Zenon, <2>1, <2>2, <2>3, <3>1
      <4> QED BY <2>4, <2>6, <4>1
    <3>2. CASE where = "failed"
      <4>1. pc'[c] = "failed"
        BY Zenon, <2>2, <3>2
      <4>2. sent'[c] <= 2
        <5>1. CASE retry[c]
          BY Zenon, <2>6, <5>1
        <5>2. CASE ~retry[c]
          BY <2>4, <2>6, <5>2
        <5> QED BY <5>1, <5>2
      <4> QED BY <4>1, <4>2
    <3> QED BY <3>1, <3>2
  <2> QED BY <2>5, <2>7 DEF Tries
<1>6. ASSUME UNCHANGED <<pc, sent, retry>> PROVE Tries'
  BY Zenon, <1>6 DEF Tries
<1>7. ASSUME NEW c \in Callers, CtxDone(c) \/ Invalidate(c) PROVE Tries'
  BY Zenon, <1>6, <1>7 DEF CtxDone, Invalidate, call
<1>8. ASSUME NEW st \in Streams, HandleNewMessage(st) \/ StreamDies(st) PROVE Tries'
  BY Zenon, <1>6, <1>8 DEF HandleNewMessage, StreamDies, call
<1>9. CASE OnDisconnect \/ UNCHANGED vars
  BY Zenon, <1>6, <1>9 DEF OnDisconnect, vars, call
<1> QED BY <1>2, <1>3, <1>4, <1>5, <1>7, <1>8, <1>9 DEF Next, callerStep

(* No call writes its message more than twice.                              *)
THEOREM WritesBounded == Spec => []WrittenTwiceAtMost
<1>1. Tries => WrittenTwiceAtMost
  BY Zenon DEF Tries, WrittenTwiceAtMost
<1> QED BY <1>1, TypeInit, TypeStep, OwnInit, OwnStep, TriesInit, TriesStep, PTL DEF Spec

-----------------------------------------------------------------------------
(* Traffic.                                                                 *)

(* c waits for a response on the stream of sender i.                        *)
Waits(c, i) == ms[c] = i /\ pc[c] = "read"

(* The stream of sender i carries a response only to the call that waits    *)
(* for it, and a request only as the last message of that call.             *)
Carries(i) ==
    LET st == s[i]
    IN  /\ \/ out[st] = <<>>
           \/ \E c \in Callers : Waits(c, i) /\ out[st] = <<c>>
        /\ \A n \in 1..Len(in[st]) :
              in[st][n] \in requests =>
                 Waits(in[st][n], i) /\ n = Len(in[st]) /\ out[st] = <<>>

Traffic ==
    /\ \A st \in Streams : st > used => in[st] = <<>> /\ out[st] = <<>>
    /\ \A st \in Streams : \A n \in 1..Len(in[st]) : pc[in[st][n]] # "idle"
    /\ \A i \in Senders : s[i] # 0 => Carries(i)
    /\ \A c \in Callers : answer[c] \subseteq {c}

(* The messages under way are those of calls.                               *)
LEMMA QueueType ==
    ASSUME TypeOK, NEW st \in Streams
    PROVE  /\ in[st] \in Seq(Callers) /\ out[st] \in Seq(Callers) /\ Len(in[st]) \in Nat
           /\ \A n \in 1..Len(in[st]) : in[st][n] \in Callers
<1>1. in[st] \in Seq(Callers) /\ out[st] \in Seq(Callers)
  BY ZenonT(60) DEF TypeOK
<1> QED BY <1>1

(* The stream of i is left alone.                                           *)
LEMMA CarriesFrame ==
    ASSUME TypeOK, NEW i \in Senders, s[i] # 0, Carries(i), s'[i] = s[i],
           in'[s[i]] = in[s[i]], out'[s[i]] = out[s[i]],
           \A n \in 1..Len(in[s[i]]) : in[s[i]][n] \in requests' => in[s[i]][n] \in requests,
           \A c \in Callers : Waits(c, i) => Waits(c, i)'
    PROVE  Carries(i)'
<1>1. s[i] \in Streams
  BY Zenon DEF TypeOK
<1>2. \A n \in 1..Len(in[s[i]]) : in[s[i]][n] \in Callers
  BY Zenon, <1>1, QueueType
<1>3. /\ \/ out'[s'[i]] = <<>>
         \/ \E c \in Callers : Waits(c, i)' /\ out'[s'[i]] = <<c>>
  BY Zenon DEF Carries
<1>4. \A n \in 1..Len(in'[s'[i]]) :
         in'[s'[i]][n] \in requests' =>
            Waits(in[s[i]][n], i)' /\ n = Len(in'[s'[i]]) /\ out'[s'[i]] = <<>>
  BY Zenon, <1>2 DEF Carries
<1> QED BY <1>3, <1>4 DEF Carries, Waits

(* A stream without messages is in order.                                   *)
LEMMA CarriesNothing ==
    ASSUME NEW i \in Senders, in'[s'[i]] = <<>>, out'[s'[i]] = <<>>
    PROVE  Carries(i)'
<1>1. Len(in'[s'[i]]) = 0
  OBVIOUS
<1> QED BY <1>1 DEF Carries

(* The queues stand still, or are emptied.                                  *)
LEMMA QueuesShrink ==
    ASSUME TypeOK, Traffic, used' = used \/ (used' \in Nat /\ used' >= used),
           \A st \in Streams : \/ in'[st] = in[st] /\ out'[st] = out[st]
                               \/ in'[st] = <<>> /\ out'[st] = <<>>,
           \A c \in Callers : pc[c] # "idle" => pc'[c] # "idle"
    PROVE  /\ \A st \in Streams : st > used' => in'[st] = <<>> /\ out'[st] = <<>>
           /\ \A st \in Streams : \A n \in 1..Len(in'[st]) : pc'[in'[st][n]] # "idle"
<1>1. used \in Nat /\ used' \in Nat /\ used' >= used
  BY DEF TypeOK
<1>2. \A st \in Streams : st > used' => in'[st] = <<>> /\ out'[st] = <<>>
  BY <1>1 DEF Traffic, Streams
<1>3. ASSUME NEW st \in Streams, NEW n \in 1..Len(in'[st]) PROVE pc'[in'[st][n]] # "idle"
  <2>1. in'[st] = in[st]
    BY <1>3
  <2>2. in[st][n] \in Callers /\ pc[in[st][n]] # "idle"
    BY Zenon, <1>3, <2>1, QueueType DEF Traffic
  <2> QED BY <2>1, <2>2
<1> QED BY <1>2, <1>3

(* Steps that leave streams, queues and the calls that read alone.          *)
LEMMA TrafficQuiet ==
    ASSUME TypeOK, Traffic, UNCHANGED <<s, network, answer>>,
           \A c \in Callers : pc[c] # "idle" => pc'[c] # "idle",
           \A c \in Callers : pc[c] = "read" => pc'[c] = "read" /\ ms'[c] = ms[c],
           \A c \in Callers : c \in requests' => c \in requests \/ pc[c] = "idle"
    PROVE  Traffic'
<1>1. UNCHANGED <<used, in, out>> /\ used \in Nat
  BY DEF network, TypeOK
<1>2. /\ \A st \in Streams : st > used' => in'[st] = <<>> /\ out'[st] = <<>>
      /\ \A st \in Streams : \A n \in 1..Len(in'[st]) : pc'[in'[st][n]] # "idle"
  BY ZenonT(60), <1>1, QueuesShrink
<1>3. ASSUME NEW i \in Senders, s[i] # 0 PROVE Carries(i)'
  <2>1. s[i] \in Streams
    BY ZenonT(60), <1>3 DEF TypeOK
  <2>2. \A n \in 1..Len(in[s[i]]) : in[s[i]][n] \in requests' => in[s[i]][n] \in requests
    BY <2>1, QueueType DEF Traffic
  <2>3. \A c \in Callers : Waits(c, i) => Waits(c, i)'
    BY ZenonT(60) DEF Waits
  <2> QED BY <1>1, <1>3, <2>2, <2>3, CarriesFrame DEF Traffic
<1> QED BY <1>2, <1>3 DEF Traffic

(* Sender i gets a stream, if it has none.                                  *)
LEMMA TrafficHave ==
    ASSUME TypeOK, Ownership, Traffic, NEW i \in Senders, haveStream(i), UNCHANGED <<requests, answer, ms>>,
           \A c \in Callers : pc[c] # "idle" => pc'[c] # "idle",
           \A c \in Callers : pc[c] = "read" => pc'[c] = "read"
    PROVE  Traffic'
<1>1. CASE UNCHANGED <<s, network>>
  BY ZenonT(60), <1>1, TrafficQuiet
<1>2. CASE newStream(i)
  <2>1. /\ used' = used + 1 /\ used \in Nat /\ used + 1 \in Streams /\ UNCHANGED <<in, out>>
        /\ s'[i] = used + 1 /\ \A j \in Senders : j # i => s'[j] = s[j]
    BY <1>2, MessageSenderAssumption DEF newStream, TypeOK, Streams
  <2>2. /\ \A st \in Streams : st > used' => in'[st] = <<>> /\ out'[st] = <<>>
        /\ \A st \in Streams : \A n \in 1..Len(in'[st]) : pc'[in'[st][n]] # "idle"
    BY <2>1, QueuesShrink
  <2>3. Carries(i)'
    <3>1. in[used + 1] = <<>> /\ out[used + 1] = <<>>
      BY <2>1 DEF Traffic
    <3> QED BY <2>1, <3>1, CarriesNothing
  <2>4. ASSUME NEW j \in Senders, j # i, s[j] # 0 PROVE Carries(j)'
    <3>1. \A c \in Callers : Waits(c, j) => Waits(c, j)'
      BY Zenon DEF Waits
    <3> QED BY <2>1, <2>4, <3>1, CarriesFrame DEF Traffic
  <2> QED BY <2>1, <2>2, <2>3, <2>4 DEF Traffic
<1> QED BY <1>1, <1>2 DEF haveStream

(* Sender i drops its stream.                                               *)
LEMMA TrafficDrop ==
    ASSUME TypeOK, Ownership, Traffic, NEW i \in Senders, s[i] # 0, dropStream(i),
           UNCHANGED <<requests, answer, ms>>,
           \A c \in Callers : pc[c] # "idle" => pc'[c] # "idle",
           \A c \in Callers : pc[c] = "read" => pc'[c] = "read" \/ ms[c] = i
    PROVE  Traffic'
<1>1. /\ used' = used /\ used \in Nat /\ s'[i] = 0 /\ \A j \in Senders : j # i => s'[j] = s[j]
  BY DropFacts DEF TypeOK
<1>2. \A st \in Streams : \/ st # s[i] /\ in'[st] = in[st] /\ out'[st] = out[st]
                          \/ st = s[i] /\ in'[st] = <<>> /\ out'[st] = <<>>
  BY Zenon DEF dropStream, Reset, TypeOK
<1>3. /\ \A st \in Streams : st > used' => in'[st] = <<>> /\ out'[st] = <<>>
      /\ \A st \in Streams : \A n \in 1..Len(in'[st]) : pc'[in'[st][n]] # "idle"
  BY ZenonT(60), <1>1, <1>2, QueuesShrink
<1>4. ASSUME NEW j \in Senders, s'[j] # 0 PROVE Carries(j)'
  <2>1. j # i /\ s[j] # 0 /\ s'[j] = s[j]
    BY ZenonT(60), <1>1, <1>4
  <2>2. s[j] # s[i] /\ s[j] \in Streams
    BY <2>1 DEF Ownership, TypeOK
  <2>3. \A c \in Callers : Waits(c, j) => Waits(c, j)'
    BY Zenon, <2>1 DEF Waits
  <2> QED BY <1>2, <2>1, <2>2, <2>3, CarriesFrame DEF Traffic
<1> QED BY <1>3, <1>4 DEF Traffic

(* A message is written after whatever messages the stream still carries.   *)
LEMMA TrafficWrite ==
    ASSUME TypeOK, Ownership, Traffic, NEW c \in Callers, Write(c)
    PROVE  Traffic'
<1>0. PICK i, st : i = ms[c] /\ st = s[i]
  BY Zenon
<1>1. i \in Senders /\ st \in Streams /\ st <= used /\ pc[c] = "write" /\ st # 0
  BY ZenonT(60), <1>0 DEF Write, TypeOK, Ownership, Streaming
<1>2. UNCHANGED <<s, used, out, ms, requests, answer>> /\ used \in Nat
  BY DEF Write, sender, TypeOK
<1>3. \A d \in Callers : pc'[d] = IF d = c THEN (IF c \in requests THEN "read" ELSE "finish") ELSE pc[d]
  BY Zenon, GoToFacts DEF Write
<1>4. in[st] \in Seq(Callers) /\ \A t \in Streams : t # st => in'[t] = in[t]
  BY ZenonT(60), <1>0, <1>1 DEF Write, TypeOK
<1>5. \/ in'[st] = in[st]
      \/ /\ Len(in'[st]) = Len(in[st]) + 1 /\ in'[st][Len(in[st]) + 1] = c
         /\ \A n \in 1..Len(in[st]) : in'[st][n] = in[st][n]
  BY <1>0, <1>1, <1>4, AppendFacts DEF Write, TypeOK
<1>6. Len(in[st]) \in Nat /\ \A n \in 1..Len(in[st]) : in[st][n] \in Callers
  BY ZenonT(60), <1>1, QueueType
<1>7. \A n \in 1..Len(in'[st]) : \/ n \in 1..Len(in[st]) /\ in'[st][n] = in[st][n]
                                 \/ n = Len(in'[st]) /\ in'[st][n] = c
  BY <1>5, <1>6
<1>8. \A t \in Streams : t > used' => in'[t] = <<>> /\ out'[t] = <<>>
  BY <1>1, <1>2, <1>4 DEF Traffic, Streams
<1>9. ASSUME NEW t \in Streams, NEW n \in 1..Len(in'[t]) PROVE pc'[in'[t][n]] # "idle"
  <2>1. CASE t = st
    BY <1>3, <1>6, <1>7, <1>9, <2>1 DEF Traffic
  <2>2. CASE t # st
    <3>1. in'[t] = in[t]
      BY Zenon, <1>4, <2>2
    <3>2. in[t][n] \in Callers /\ pc[in[t][n]] # "idle"
      BY Zenon, <1>9, <3>1, QueueType DEF Traffic
    <3> QED BY <1>3, <3>1, <3>2
  <2> QED BY <2>1, <2>2
<1>10. \A d \in Callers : ~Waits(d, i)
  <2>1. ASSUME NEW d \in Callers, Waits(d, i) PROVE FALSE
    <3>1. Locked(c) /\ Locked(d) /\ ms[c] = ms[d]
      BY Zenon, <1>0, <1>1, <2>1 DEF Locked, Waits
    <3>2. c = d
      BY Zenon, <3>1, OnlyHolder
    <3> QED BY <1>1, <2>1, <3>2 DEF Waits
  <2> QED BY <2>1
<1>11. out[st] = <<>> /\ \A n \in 1..Len(in[st]) : in[st][n] \notin requests
  BY Zenon, <1>0, <1>1, <1>6, <1>10 DEF Traffic, Carries
<1>12. Carries(i)'
  <2>1. s'[i] = st /\ out'[st] = <<>>
    BY Zenon, <1>0, <1>2, <1>11
  <2>2. ASSUME NEW n \in 1..Len(in'[st]), in'[st][n] \in requests'
        PROVE  ms'[in'[st][n]] = i /\ pc'[in'[st][n]] = "read" /\ n = Len(in'[st])
    <3>1. in'[st][n] = c /\ n = Len(in'[st]) /\ c \in requests
      BY Zenon, <1>2, <1>7, <1>11, <2>2
    <3>2. ms'[c] = i /\ pc'[c] = "read"
      BY ZenonT(60), <1>0, <1>2, <1>3, <3>1
    <3> QED BY <3>1, <3>2
  <2> QED BY <2>1, <2>2 DEF Carries, Waits
<1>13. ASSUME NEW j \in Senders, j # i, s[j] # 0 PROVE Carries(j)'
  <2>1. s[j] \in Streams /\ s[j] # st
    BY <1>0, <1>1, <1>13 DEF TypeOK, Ownership
  <2>2. \A d \in Callers : Waits(d, j) => Waits(d, j)'
    BY Zenon, <1>0, <1>1, <1>2, <1>3, <1>13 DEF Waits
  <2>3. in'[s[j]] = in[s[j]] /\ out'[s[j]] = out[s[j]] /\ s'[j] = s[j]
    BY ZenonT(60), <1>2, <1>4, <2>1
  <2> QED BY <1>2, <1>13, <2>2, <2>3, CarriesFrame DEF Traffic
<1> QED BY <1>2, <1>8, <1>9, <1>12, <1>13 DEF Traffic

(* The call that waits takes the one response there is, which is its own.   *)
LEMMA TrafficRead ==
    ASSUME TypeOK, Ownership, Traffic, NEW c \in Callers, Read(c)
    PROVE  Traffic'
<1>0. PICK i, st : i = ms[c] /\ st = s[i]
  BY Zenon
<1>1. /\ i \in Senders /\ st \in Streams /\ st # 0 /\ st <= used
      /\ pc[c] = "read" /\ out[st] # <<>> /\ used \in Nat
  BY <1>0 DEF Read, TypeOK, Ownership, Streaming
<1>2. UNCHANGED <<s, used, in, ms, requests>>
  BY Zenon DEF Read, sender
<1>3. \A d \in Callers : pc'[d] = IF d = c THEN "finish" ELSE pc[d]
  BY Zenon, GoToFacts DEF Read
<1>4. \A t \in Streams : t # st => out'[t] = out[t]
  BY Zenon, <1>0, <1>1 DEF Read, TypeOK
<1>5. Waits(c, i) /\ \A d \in Callers : Waits(d, i) => d = c
  BY Zenon, <1>0, <1>1, OnlyHolder DEF Waits, Locked
<1>6. out[st] = <<c>> /\ \A n \in 1..Len(in[st]) : in[st][n] \notin requests
  BY ZenonT(60), <1>0, <1>1, <1>5 DEF Traffic, Carries
<1>7. out'[st] = <<>> /\ answer' = [answer EXCEPT ![c] = {c}]
  <2>1. Tail(<<c>>) = <<>> /\ Head(<<c>>) = c
    OBVIOUS
  <2>2. out' = [out EXCEPT ![st] = Tail(@)] /\ answer' = [answer EXCEPT ![c] = {Head(out[st])}]
    BY Zenon, <1>0 DEF Read
  <2> QED BY <1>1, <1>6, <2>1, <2>2 DEF TypeOK
<1>8. \A t \in Streams : t > used' => in'[t] = <<>> /\ out'[t] = <<>>
  BY Zenon, <1>1, <1>2, <1>4 DEF Traffic, Streams
<1>9. \A t \in Streams : \A n \in 1..Len(in'[t]) : pc'[in'[t][n]] # "idle"
  <2> SUFFICES ASSUME NEW t \in Streams, NEW n \in 1..Len(in'[t]) PROVE pc'[in'[t][n]] # "idle"
    BY Zenon
  <2>1. in' = in
    BY Zenon, <1>2
  <2>2. in[t][n] \in Callers /\ pc[in[t][n]] # "idle"
    BY Zenon, <2>1, QueueType DEF Traffic
  <2> QED BY Zenon, <1>3, <2>1, <2>2
<1>10. Carries(i)'
  BY ZenonT(60), <1>0, <1>2, <1>6, <1>7 DEF Carries
<1>11. ASSUME NEW j \in Senders, j # i, s[j] # 0 PROVE Carries(j)'
  <2>1. s[j] \in Streams /\ s[j] # st
    BY <1>0, <1>1, <1>11 DEF TypeOK, Ownership
  <2>2. \A d \in Callers : Waits(d, j) => Waits(d, j)'
    BY Zenon, <1>0, <1>2, <1>3, <1>11 DEF Waits
  <2>3. in'[s[j]] = in[s[j]] /\ out'[s[j]] = out[s[j]] /\ s'[j] = s[j]
    BY Zenon, <1>2, <1>4, <2>1
  <2> QED BY <1>2, <1>11, <2>2, <2>3, CarriesFrame DEF Traffic
<1>12. \A d \in Callers : answer'[d] \subseteq {d}
  BY ZenonT(60), <1>7 DEF Traffic, TypeOK
<1> QED BY <1>2, <1>8, <1>9, <1>10, <1>11, <1>12 DEF Traffic

(* The stream is kept, or closed for us while the peer still reads.         *)
LEMMA TrafficFinish ==
    ASSUME TypeOK, Ownership, Traffic, NEW c \in Callers, Finish(c)
    PROVE  Traffic'
<1>1. UNCHANGED <<used, in, out, ms, requests, answer>> /\ pc[c] = "finish" /\ used \in Nat
  BY DEF Finish, call, TypeOK
<1>2. \A d \in Callers : pc'[d] \in IF d = c THEN {"done", "failed"} ELSE {pc[d]}
  BY Zenon, GoToFacts DEF Finish
<1>3. \A j \in Senders : s'[j] # 0 => s'[j] = s[j]
  BY Zenon DEF Finish, TypeOK
<1>4. \A d \in Callers : (pc[d] # "idle" => pc'[d] # "idle") /\ (pc[d] = "read" => pc'[d] = "read")
  BY ZenonT(60), <1>1, <1>2
<1>5. /\ \A st \in Streams : st > used' => in'[st] = <<>> /\ out'[st] = <<>>
      /\ \A st \in Streams : \A n \in 1..Len(in'[st]) : pc'[in'[st][n]] # "idle"
  BY ZenonT(60), <1>1, <1>4, QueuesShrink
<1>6. ASSUME NEW j \in Senders, s'[j] # 0 PROVE Carries(j)'
  <2>1. s'[j] = s[j] /\ s[j] # 0
    BY Zenon, <1>3, <1>6
  <2>2. \A d \in Callers : Waits(d, j) => Waits(d, j)'
    BY ZenonT(60), <1>1, <1>4 DEF Waits
  <2> QED BY <1>1, <2>1, <2>2, CarriesFrame DEF Traffic
<1> QED BY <1>1, <1>5, <1>6 DEF Traffic

(* The peer takes a message, and answers it if it is a request.             *)
LEMMA TrafficHandle ==
    ASSUME TypeOK, Ownership, Traffic, NEW st \in Streams, HandleNewMessage(st)
    PROVE  Traffic'
<1>1. UNCHANGED <<s, used, pc, ms, requests, answer>> /\ in[st] # <<>> /\ used \in Nat
  BY DEF HandleNewMessage, sender, call, TypeOK
<1>2. \A t \in Streams : t # st => in'[t] = in[t] /\ out'[t] = out[t]
  BY Zenon DEF HandleNewMessage, TypeOK
<1>3. /\ in[st] \in Seq(Callers) /\ out[st] \in Seq(Callers) /\ in'[st] = Tail(in[st])
      /\ \A n \in 1..Len(in[st]) : in[st][n] \in Callers
  BY Zenon, QueueType DEF HandleNewMessage, TypeOK
<1>4. /\ Head(in[st]) \in Callers /\ Head(in[st]) = in[st][1] /\ Len(in[st]) \in Nat \ {0}
      /\ Len(in'[st]) = Len(in[st]) - 1 /\ \A n \in 1..Len(in'[st]) : in'[st][n] = in[st][n + 1]
  BY ZenonT(60), <1>1, <1>3, TailFacts
<1>5. st <= used
  BY <1>1 DEF Traffic, Streams
<1>6. \A t \in Streams : t > used' => in'[t] = <<>> /\ out'[t] = <<>>
  BY ZenonT(60), <1>1, <1>2, <1>5 DEF Traffic, Streams
<1>7. ASSUME NEW t \in Streams, NEW n \in 1..Len(in'[t]) PROVE pc'[in'[t][n]] # "idle"
  <2>1. CASE t = st
    <3>1. n + 1 \in 1..Len(in[st]) /\ in'[st][n] = in[st][n + 1]
      BY <1>4, <1>7, <2>1
    <3> QED BY <1>1, <2>1, <3>1 DEF Traffic
  <2>2. CASE t # st
    BY <1>1, <1>2, <1>7, <2>2 DEF Traffic
  <2> QED BY <2>1, <2>2
<1>8. ASSUME NEW j \in Senders, s[j] = st PROVE Carries(j)'
  <2>1. Carries(j) /\ 1 \in 1..Len(in[st])
    BY <1>4, <1>8 DEF Traffic, Streams
  <2>2. CASE Head(in[st]) \in requests
    <3>1. Waits(Head(in[st]), j) /\ 1 = Len(in[st]) /\ out[st] = <<>>
      BY Zenon, <1>4, <1>8, <2>1, <2>2 DEF Carries
    <3>2. Len(in'[st]) = 0
      BY <1>4, <3>1
    <3>3. out'[st] = <<>> \/ out'[st] = <<Head(in[st])>>
      <4>1. Append(<<>>, Head(in[st])) = <<Head(in[st])>>
        BY ZenonT(60), AppendOne
      <4> QED BY <3>1, <4>1 DEF HandleNewMessage, TypeOK
    <3> QED BY <1>1, <1>4, <1>8, <3>1, <3>2, <3>3 DEF Carries, Waits
  <2>3. CASE Head(in[st]) \notin requests
    <3>1. out'[st] = out[st]
      BY ZenonT(60), <2>3 DEF HandleNewMessage
    <3>2. ASSUME NEW n \in 1..Len(in'[st]), in'[st][n] \in requests
          PROVE  Waits(in'[st][n], j) /\ n = Len(in'[st]) /\ out[st] = <<>>
      <4>1. n + 1 \in 1..Len(in[st]) /\ in'[st][n] = in[st][n + 1]
        BY <1>4, <3>2
      <4>2. Waits(in[st][n + 1], j) /\ n + 1 = Len(in[st]) /\ out[st] = <<>>
        BY ZenonT(60), <1>8, <2>1, <3>2, <4>1 DEF Carries
      <4> QED BY <1>4, <4>1, <4>2 DEF Waits
    <3> QED BY <1>1, <1>8, <2>1, <3>1, <3>2 DEF Carries, Waits
  <2> QED BY <2>2, <2>3
<1>9. ASSUME NEW j \in Senders, s[j] # 0, s[j] # st PROVE Carries(j)'
  <2>1. in'[s[j]] = in[s[j]] /\ out'[s[j]] = out[s[j]]
    BY ZenonT(60), <1>2, <1>9 DEF TypeOK
  <2>2. \A d \in Callers : Waits(d, j) => Waits(d, j)'
    BY Zenon, <1>1 DEF Waits
  <2> QED BY <1>1, <1>9, <2>1, <2>2, CarriesFrame DEF Traffic
<1> QED BY <1>1, <1>6, <1>7, <1>8, <1>9 DEF Traffic

(* A stream that dies loses its messages.                                   *)
LEMMA TrafficDies ==
    ASSUME TypeOK, Ownership, Traffic, NEW st \in Streams, StreamDies(st)
    PROVE  Traffic'
<1>1. UNCHANGED <<s, used, pc, ms, requests, answer>> /\ used \in Nat
  BY DEF StreamDies, Reset, sender, call, TypeOK
<1>2. \A t \in Streams : \/ t # st /\ in'[t] = in[t] /\ out'[t] = out[t]
                         \/ t = st /\ in'[t] = <<>> /\ out'[t] = <<>>
  BY ZenonT(60) DEF StreamDies, Reset, TypeOK
<1>3. /\ \A t \in Streams : t > used' => in'[t] = <<>> /\ out'[t] = <<>>
      /\ \A t \in Streams : \A n \in 1..Len(in'[t]) : pc'[in'[t][n]] # "idle"
  BY Zenon, <1>1, <1>2, QueuesShrink
<1>4. ASSUME NEW j \in Senders, s[j] # 0 PROVE Carries(j)'
  <2>1. s[j] \in Streams
    BY Zenon, <1>4 DEF TypeOK
  <2>2. \A d \in Callers : Waits(d, j) => Waits(d, j)'
    BY Zenon, <1>1 DEF Waits
  <2>3. CASE s[j] = st
    BY Zenon, <1>1, <1>2, <2>3, CarriesNothing
  <2>4. CASE s[j] # st
    BY Zenon, <1>1, <1>2, <1>4, <2>1, <2>2, <2>4, CarriesFrame DEF Traffic
  <2> QED BY <2>3, <2>4
<1> QED BY <1>1, <1>3, <1>4 DEF Traffic

(* No stream carries anything at the start.                                 *)
LEMMA TrafficInit == Init => Traffic
BY DEF Init, Traffic

(* Every step keeps the traffic in order.                                   *)
LEMMA TrafficStep == TypeOK /\ Ownership /\ Traffic /\ [Next]_vars => Traffic'
<1> SUFFICES ASSUME TypeOK, Ownership, Traffic, [Next]_vars PROVE Traffic'
  BY Zenon
<1>1. ASSUME NEW c \in Callers, Call(c) PROVE Traffic'
  <2>1. /\ UNCHANGED <<s, network, answer>> /\ pc[c] = "idle"
        /\ \A d \in Callers : d # c => ms'[d] = ms[d]
        /\ \A d \in Callers : d \in requests' => d \in requests \/ d = c
    BY Zenon, <1>1 DEF Call, sender, TypeOK
  <2>2. PICK where \in {"lock", "prepLock"} : goTo(c, where)
    BY Zenon, <1>1 DEF Call
  <2>3. \A d \in Callers : pc'[d] = IF d = c THEN where ELSE pc[d]
    BY ZenonT(60), <2>2, GoToFacts
  <2> QED BY <2>1, <2>3, TrafficQuiet
<1>2. ASSUME NEW c \in Callers, PrepLock(c) \/ Lock(c) \/ Remove(c) PROVE Traffic'
  <2>1. /\ UNCHANGED <<s, network, answer, requests>> /\ pc[c] \in {"prepLock", "lock", "remove"}
        /\ \A d \in Callers : d # c => ms'[d] = ms[d]
    BY Zenon, <1>2 DEF PrepLock, Lock, Remove, sender, call, TypeOK
  <2>2. PICK where \in {"lock", "prep", "openFirst", "remove", "failed"} : goTo(c, where)
    BY Zenon, <1>2 DEF PrepLock, Lock, Remove
  <2>3. \A d \in Callers : pc'[d] = IF d = c THEN where ELSE pc[d]
    BY ZenonT(60), <2>2, GoToFacts
  <2> QED BY <2>1, <2>3, TrafficQuiet
<1>3. ASSUME NEW c \in Callers, OpenFirst(c) \/ Prep(c) PROVE Traffic'
  <2>1. /\ UNCHANGED <<answer, requests, ms>> /\ pc[c] \in {"openFirst", "prep"} /\ ms[c] \in Senders
    BY Zenon, <1>3 DEF OpenFirst, Prep, call, TypeOK
  <2>2. PICK where \in {"lock", "remove", "write", "failed"} : goTo(c, where)
    BY Zenon, <1>3 DEF OpenFirst, Prep
  <2>3. \A d \in Callers : pc'[d] = IF d = c THEN where ELSE pc[d]
    BY Zenon, <2>2, GoToFacts
  <2>4. CASE haveStream(ms[c])
    BY Zenon, <2>1, <2>3, <2>4, TrafficHave
  <2>5. CASE UNCHANGED <<s, network>>
    BY Zenon, <2>1, <2>3, <2>5, TrafficQuiet
  <2>6. CASE s[ms[c]] # 0 /\ dropStream(ms[c])
    BY ZenonT(60), <2>1, <2>3, <2>6, TrafficDrop
  <2> QED BY <1>3, <2>4, <2>5, <2>6 DEF OpenFirst, Prep, invalidate
<1>4. ASSUME NEW c \in Callers, WriteFails(c) \/ ReadFails(c) \/ ReadCanceled(c) PROVE Traffic'
  <2>1. /\ UNCHANGED <<answer, requests, ms>> /\ pc[c] \in {"write", "read"} /\ ms[c] \in Senders
    BY Zenon, <1>4 DEF WriteFails, ReadFails, ReadCanceled, call, TypeOK
  <2>2. PICK where \in {"prep", "failed"} : goTo(c, where)
    BY Zenon, <1>4 DEF WriteFails, ReadFails, ReadCanceled, retryOrFail
  <2>3. \A d \in Callers : pc'[d] = IF d = c THEN where ELSE pc[d]
    BY Zenon, <2>2, GoToFacts
  <2>4. s[ms[c]] # 0 /\ dropStream(ms[c])
    BY Zenon, <1>4, <2>1 DEF WriteFails, ReadFails, ReadCanceled, retryOrFail, Ownership, Streaming
  <2> QED BY <2>1, <2>3, <2>4, TrafficDrop
<1>5. ASSUME NEW i \in Callers, Invalidate(i) PROVE Traffic'
  <2>1. UNCHANGED <<answer, requests, ms, pc>> /\ i \in Senders
    BY Zenon, <1>5 DEF Invalidate, call, Senders
  <2>2. CASE UNCHANGED <<s, network>>
    BY Zenon, <2>1, <2>2, TrafficQuiet
  <2>3. CASE s[i] # 0 /\ dropStream(i)
    BY Zenon, <2>1, <2>3, TrafficDrop
  <2> QED BY <1>5, <2>2, <2>3 DEF Invalidate, invalidate
<1>6. CASE OnDisconnect \/ UNCHANGED vars \/ \E c \in Callers : CtxDone(c)
  BY Zenon, <1>6, TrafficQuiet DEF OnDisconnect, CtxDone, vars, sender, call
<1> QED
  BY Zenon, <1>1, <1>2, <1>3, <1>4, <1>5, <1>6, TrafficWrite, TrafficRead, TrafficFinish, TrafficHandle, TrafficDies
  DEF Next, callerStep

(* SendRequest returns the response to its own request, with any number of  *)
(* calls sharing the stream, timing out, retrying and giving up: no late    *)
(* and no foreign answer is taken for one's own.                            *)
THEOREM ResponsesMatch == Spec => []ResponseMatches
<1>1. Traffic => ResponseMatches
  BY Zenon DEF Traffic, ResponseMatches
<1> QED BY <1>1, TypeInit, TypeStep, OwnInit, OwnStep, TrafficInit, TrafficStep, PTL DEF Spec
=============================================================================
