------------------------- MODULE MessageSenderMap ---------------------------
(***************************************************************************)
(* Theorems about the map of MessageSender: where the senders that have a  *)
(* stream are to be found.                                                 *)
(***************************************************************************)
EXTENDS MessageSenderProofs

(* A call is about to take sender i out of the map.                         *)
Leaving(i) == \E c \in Callers : pc[c] = "remove" /\ ms[c] = i

(* A sender is in the map, or waits to be invalidated, or neither, and only *)
(* after the call it is named after has made it; an open stream has a       *)
(* sender.                                                                  *)
Mapped ==
    /\ strmap \cap disconnected = {}
    /\ \A i \in Senders : pc[i] = "idle" => i \notin strmap \cup disconnected /\ s[i] = 0 /\ ~invalid[i]
    /\ \A c \in Callers : pc[c] # "idle" => pc[ms[c]] # "idle"
    /\ \A i \in Senders : invalid[i] => s[i] = 0
    /\ \A i \in strmap : invalid[i] => Leaving(i)
    /\ \A st \in Streams : alive[st] => \E i \in Senders : s[i] = st

Patient == \A c \in Callers : ctx[c] = "live"

(* While no context has ended, only an invalidated sender leaves the map    *)
(* for good.                                                                *)
Kept ==
    Patient => /\ \A c \in Callers : pc[c] = "remove" => invalid[ms[c]]
               /\ \A c \in Callers : pc[c] # "idle" => ms[c] \in strmap \cup disconnected \/ invalid[ms[c]]
               /\ \A i \in Senders : s[i] # 0 => i \in strmap \cup disconnected

(* The map has one sender at most.                                          *)
LEMMA OneInMap ==
    ASSUME TypeOK, NEW i \in strmap, NEW j \in strmap
    PROVE  i = j
<1>1. IsFiniteSet(strmap) /\ Cardinality(strmap) <= 1
  BY Zenon, FS_Subset, MessageSenderAssumption DEF TypeOK, Senders
<1>2. CASE i # j
  <2>1. /\ IsFiniteSet(strmap \ {i}) /\ Cardinality(strmap) \in Nat
        /\ Cardinality(strmap \ {i}) = Cardinality(strmap) - 1
    BY Zenon, <1>1, FS_RemoveElement, FS_CardinalityType
  <2>2. strmap \ {i} = {}
    BY <1>1, <2>1, FS_EmptySet, FS_CardinalityType
  <2> QED BY <1>2, <2>2
<1> QED BY <1>2

(* A stream that is dropped is not alive; the others keep their sender.     *)
LEMMA AliveDrop ==
    ASSUME TypeOK, Mapped, NEW i \in Senders, s[i] # 0, dropStream(i)
    PROVE  \A st \in Streams : alive'[st] => \E j \in Senders : s'[j] = st
<1> SUFFICES ASSUME NEW st \in Streams, alive'[st] PROVE \E j \in Senders : s'[j] = st
  BY Zenon
<1>1. alive[st] /\ st # s[i]
  BY Zenon DEF dropStream, Reset, TypeOK
<1>2. PICK j \in Senders : s[j] = st
  BY Zenon, <1>1 DEF Mapped
<1> QED BY <1>1, <1>2, DropFacts

(* A stream that is opened has its sender.                                  *)
LEMMA AliveHave ==
    ASSUME TypeOK, Mapped, NEW i \in Senders, haveStream(i)
    PROVE  \A st \in Streams : alive'[st] => \E j \in Senders : s'[j] = st
<1>1. CASE s[i] # 0 /\ UNCHANGED <<s, network>>
  BY Zenon, <1>1 DEF Mapped, network
<1>2. CASE s[i] = 0 /\ newStream(i)
  <2> SUFFICES ASSUME NEW st \in Streams, alive'[st] PROVE \E j \in Senders : s'[j] = st
    BY Zenon
  <2>1. /\ s'[i] = used + 1 /\ (st = used + 1 \/ alive[st]) /\ 0 \notin Streams
        /\ \A j \in Senders : j # i => s'[j] = s[j]
    BY <1>2 DEF newStream, TypeOK, Streams
  <2>2. CASE alive[st]
    <3>1. PICK j \in Senders : s[j] = st
      BY Zenon, <2>2 DEF Mapped
    <3> QED BY <1>2, <2>1, <3>1
  <2> QED BY <2>1, <2>2
<1> QED BY <1>1, <1>2 DEF haveStream

(* A step that leaves the map alone and invalidates nothing.                *)
LEMMA MapQuiet ==
    ASSUME TypeOK, Mapped, Kept, UNCHANGED <<strmap, disconnected, invalid, ms>>,
           \A d \in Callers : /\ pc'[d] = "idle" <=> pc[d] = "idle"
                              /\ pc[d] = "remove" => pc'[d] = "remove",
           Patient' => Patient /\ \A d \in Callers : pc'[d] = "remove" => pc[d] = "remove",
           \A j \in Senders : \/ s'[j] = 0 \/ s'[j] = s[j]
                              \/ /\ pc[j] # "idle" /\ ~invalid[j]
                                 /\ Patient => j \in strmap \cup disconnected,
           \A st \in Streams : alive'[st] => \E j \in Senders : s'[j] = st
    PROVE  Mapped' /\ Kept'
<1>1. \A i \in Senders : pc'[i] = "idle" => i \notin strmap \cup disconnected /\ s'[i] = 0 /\ ~invalid[i]
  BY Zenon DEF Mapped, Senders
<1>2. \A c \in Callers : pc'[c] # "idle" => pc'[ms[c]] # "idle"
  BY Zenon DEF Mapped, Senders, TypeOK
<1>3. \A i \in Senders : invalid[i] => s'[i] = 0
  BY Zenon DEF Mapped
<1>4. ASSUME NEW i \in strmap, invalid[i] PROVE \E c \in Callers : pc'[c] = "remove" /\ ms[c] = i
  <2>1. PICK c \in Callers : pc[c] = "remove" /\ ms[c] = i
    BY Zenon, <1>4 DEF Mapped, Leaving
  <2> QED BY <2>1
<1>5. Mapped'
  BY ZenonT(60), <1>1, <1>2, <1>3, <1>4 DEF Mapped, Leaving
<1>6. ASSUME Patient' PROVE /\ \A c \in Callers : pc'[c] = "remove" => invalid[ms[c]]
                            /\ \A c \in Callers : pc'[c] # "idle" => ms[c] \in strmap \cup disconnected \/ invalid[ms[c]]
                            /\ \A i \in Senders : s'[i] # 0 => i \in strmap \cup disconnected
  BY Zenon, <1>6 DEF Kept
<1>7. Kept'
  BY Zenon, <1>6 DEF Kept
<1> QED BY <1>5, <1>7

(* The same for a step of one call.                                         *)
LEMMA MapMove ==
    ASSUME TypeOK, Mapped, Kept, NEW c \in Callers, pc[c] \notin {"idle", "remove"},
           NEW where, where \notin {"idle", "remove"}, goTo(c, where),
           UNCHANGED <<strmap, disconnected, invalid, ms, ctx>>,
           \A j \in Senders : \/ s'[j] = 0 \/ s'[j] = s[j]
                              \/ j = ms[c] /\ ~invalid[j],
           \A st \in Streams : alive'[st] => \E j \in Senders : s'[j] = st
    PROVE  Mapped' /\ Kept'
<1>1. \A d \in Callers : pc'[d] = IF d = c THEN where ELSE pc[d]
  BY Zenon, GoToFacts
<1>2. Patient' <=> Patient
  BY Zenon DEF Patient
<1>3. pc[ms[c]] # "idle" /\ (Patient => ms[c] \in strmap \cup disconnected \/ invalid[ms[c]])
  BY Zenon DEF Mapped, Kept
<1> QED BY <1>1, <1>2, <1>3, MapQuiet

(* Invalidating a sender that the call leaves, or that left the map.        *)
LEMMA MapInvalidate ==
    ASSUME TypeOK, Mapped, Kept, NEW i \in Senders, pc[i] # "idle", invalidate(i),
           strmap' = strmap, disconnected' \subseteq disconnected, disconnected \subseteq disconnected' \cup {i},
           UNCHANGED <<ms, ctx>>,
           \A d \in Callers : /\ pc'[d] = "idle" <=> pc[d] = "idle"
                              /\ pc[d] = "remove" => pc'[d] = "remove"
                              /\ pc'[d] = "remove" => pc[d] = "remove" \/ ms[d] = i,
           i \in strmap => \E d \in Callers : pc'[d] = "remove" /\ ms[d] = i
    PROVE  Mapped' /\ Kept'
<1>1. /\ \A j \in Senders : s'[j] = IF j = i THEN 0 ELSE s[j]
      /\ \A st \in Streams : alive'[st] => \E j \in Senders : s'[j] = st
  <2>1. CASE s[i] # 0 /\ dropStream(i)
    BY Zenon, <2>1, DropFacts, AliveDrop
  <2>2. CASE s[i] = 0 /\ UNCHANGED <<s, network>>
    BY Zenon, <2>2 DEF network, Mapped
  <2> QED BY <2>1, <2>2 DEF invalidate
<1>2. \A j \in Senders : invalid'[j] <=> (j = i \/ invalid[j])
  BY Zenon DEF invalidate, TypeOK
<1>3. \A j \in Senders : pc'[j] = "idle" => j \notin strmap \cup disconnected' /\ s'[j] = 0 /\ ~invalid'[j]
  BY <1>1, <1>2 DEF Mapped, Senders
<1>4. \A c \in Callers : ms[c] \in Senders /\ (pc'[c] # "idle" => pc'[ms[c]] # "idle")
  BY Zenon DEF Mapped, Senders, TypeOK
<1>5. \A j \in Senders : invalid'[j] => s'[j] = 0
  BY <1>1, <1>2 DEF Mapped
<1>6. \A j \in strmap : j \in Senders /\ (invalid'[j] => \E c \in Callers : pc'[c] = "remove" /\ ms[c] = j)
  <2>1. strmap \subseteq Senders
    BY Zenon DEF TypeOK
  <2>2. \A j \in strmap : invalid[j] => \E c \in Callers : pc[c] = "remove" /\ ms[c] = j
    BY Zenon DEF Mapped, Leaving
  <2> QED BY Zenon, <1>2, <2>1, <2>2
<1>7. Mapped'
  <2>1. strmap' \cap disconnected' = {}
    BY Zenon DEF Mapped
  <2>2. \A j \in Senders : pc'[j] = "idle" => j \notin strmap' \cup disconnected' /\ s'[j] = 0 /\ ~invalid'[j]
    BY Zenon, <1>3
  <2>3. \A c \in Callers : pc'[c] # "idle" => pc'[ms'[c]] # "idle"
    BY Zenon, <1>4
  <2>4. \A j \in strmap' : invalid'[j] => \E c \in Callers : pc'[c] = "remove" /\ ms'[c] = j
    BY Zenon, <1>6
  <2> QED BY Zenon, <1>1, <1>5, <2>1, <2>2, <2>3, <2>4 DEF Mapped, Leaving
<1>8. ASSUME Patient PROVE /\ \A c \in Callers : pc'[c] = "remove" => invalid'[ms[c]]
                           /\ \A c \in Callers : pc'[c] # "idle" => ms[c] \in strmap \cup disconnected' \/ invalid'[ms[c]]
                           /\ \A j \in Senders : s'[j] # 0 => j \in strmap \cup disconnected'
  <2>1. \A c \in Callers : pc'[c] = "remove" => invalid'[ms[c]]
    BY Zenon, <1>2, <1>4, <1>8 DEF Kept
  <2>2. \A c \in Callers : pc'[c] # "idle" => ms[c] \in strmap \cup disconnected' \/ invalid'[ms[c]]
    BY Zenon, <1>2, <1>4, <1>8 DEF Kept
  <2>3. \A j \in Senders : s'[j] # 0 => j \in strmap \cup disconnected'
    BY Zenon, <1>1, <1>8 DEF Kept
  <2> QED BY Zenon, <2>1, <2>2, <2>3
<1>9. Patient' => Patient
  BY Zenon DEF Patient
<1>10. Kept'
  BY Zenon, <1>8, <1>9 DEF Kept
<1> QED BY <1>7, <1>10

(* A new sender is made, or the one in the map is taken.                    *)
LEMMA MapCall ==
    ASSUME TypeOK, Mapped, Kept, NEW c \in Callers, Call(c)
    PROVE  Mapped' /\ Kept'
<1>1. /\ UNCHANGED <<s, invalid, disconnected, alive, ctx>> /\ pc[c] = "idle"
      /\ \A d \in Callers : d # c => ms'[d] = ms[d]
  BY Zenon DEF Call, sender, network, TypeOK
<1>2. c \notin strmap \cup disconnected /\ s[c] = 0 /\ ~invalid[c]
  BY Zenon, <1>1 DEF Mapped, Senders
<1>3. PICK where \in {"lock", "prepLock"} : goTo(c, where)
  BY Zenon DEF Call
<1>4. \A d \in Callers : pc'[d] = IF d = c THEN where ELSE pc[d]
  BY Zenon, <1>3, GoToFacts
<1>5. /\ ms'[c] \in Senders /\ ms'[c] \in strmap' /\ strmap' \subseteq Senders
      /\ strmap' = strmap \/ (strmap = {} /\ strmap' = {c})
  <2>1. CASE \E i \in strmap : ms' = [ms EXCEPT ![c] = i] /\ strmap' = strmap
    BY <2>1 DEF TypeOK, Senders
  <2>2. CASE strmap = {} /\ strmap' = {c} /\ ms' = [ms EXCEPT ![c] = c]
    BY Zenon, <2>2 DEF TypeOK, Senders
  <2> QED BY <2>1, <2>2 DEF Call
<1>6. \A i \in Senders : pc'[i] = "idle" => i \notin strmap' \cup disconnected /\ s[i] = 0 /\ ~invalid[i]
  BY <1>4, <1>5 DEF Mapped, Senders
<1>7. \A i \in strmap' : pc'[i] # "idle"
  BY Zenon, <1>5, <1>6
<1>8. \A d \in Callers : pc'[d] # "idle" => pc'[ms'[d]] # "idle"
  <2>1. \A d \in Callers : d # c /\ pc[d] # "idle" => pc[ms[d]] # "idle" /\ ms[d] \in Callers
    BY Zenon DEF Mapped, TypeOK, Senders
  <2> QED BY <1>1, <1>4, <1>5, <1>7, <2>1
<1>9. \A i \in strmap' : invalid[i] => \E d \in Callers : pc'[d] = "remove" /\ ms'[d] = i
  <2> SUFFICES ASSUME NEW i \in strmap', invalid[i]
               PROVE  \E d \in Callers : pc'[d] = "remove" /\ ms'[d] = i
    BY Zenon
  <2>1. i \in strmap
    BY Zenon, <1>2, <1>5
  <2>2. PICK d \in Callers : pc[d] = "remove" /\ ms[d] = i
    BY Zenon, <2>1 DEF Mapped, Leaving
  <2> QED BY <1>1, <1>4, <2>2
<1>10. strmap' \cap disconnected = {}
  BY Zenon, <1>2, <1>5 DEF Mapped
<1>11. Mapped'
  BY ZenonT(60), <1>1, <1>6, <1>8, <1>9, <1>10 DEF Mapped, Leaving
<1>12. ASSUME Patient
       PROVE  /\ \A d \in Callers : pc'[d] = "remove" => invalid[ms'[d]]
              /\ \A d \in Callers : pc'[d] # "idle" => ms'[d] \in strmap' \cup disconnected \/ invalid[ms'[d]]
              /\ \A i \in Senders : s[i] # 0 => i \in strmap' \cup disconnected
  <2>1. \A d \in Callers : d # c => /\ pc'[d] = "remove" => invalid[ms'[d]]
                                    /\ pc'[d] # "idle" => ms'[d] \in strmap' \cup disconnected \/ invalid[ms'[d]]
    BY Zenon, <1>1, <1>4, <1>5, <1>12 DEF Kept
  <2>2. \A i \in Senders : s[i] # 0 => i \in strmap' \cup disconnected
    BY Zenon, <1>5, <1>12 DEF Kept
  <2> QED BY <1>4, <1>5, <2>1, <2>2
<1>13. Kept'
  BY Zenon, <1>1, <1>12 DEF Kept, Patient
<1> QED BY <1>11, <1>13

(* A sender that could not be prepared leaves the map, if it is still there.*)
LEMMA MapRemove ==
    ASSUME TypeOK, Mapped, Kept, NEW c \in Callers, Remove(c)
    PROVE  Mapped' /\ Kept'
<1>1. UNCHANGED <<s, invalid, disconnected, alive, ctx>> /\ pc[c] = "remove"
  BY Zenon DEF Remove, sender, network, call
<1>2. PICK where \in {"lock", "failed"} : goTo(c, where)
  BY Zenon DEF Remove
<1>3. \A d \in Callers : pc'[d] = IF d = c THEN where ELSE pc[d]
  BY Zenon, <1>2, GoToFacts
<1>4. CASE /\ strmap \ {ms[c]} # {} /\ strmap' = strmap
           /\ \E i \in strmap : ms' = [ms EXCEPT ![c] = i]
  <2>1. PICK i \in strmap : ms' = [ms EXCEPT ![c] = i]
    BY Zenon, <1>4
  <2>2. \A d \in Callers : ms'[d] = IF d = c THEN i ELSE ms[d]
    BY Zenon, <2>1 DEF TypeOK
  <2>3. i \in Senders /\ pc[i] # "idle" /\ strmap = {i} /\ i # ms[c]
    <3>1. i \in Senders /\ i # ms[c] /\ strmap = {i}
      <4>1. i \in Senders
        BY Zenon DEF TypeOK
      <4>2. \A j \in strmap : j = i
        BY Zenon, OneInMap
      <4> QED BY ZenonT(60), <1>4, <4>1, <4>2
    <3>2. pc[i] # "idle"
      BY Zenon, <3>1 DEF Mapped
    <3> QED BY Zenon, <3>1, <3>2
  <2>4. \A j \in strmap : invalid[j] => \E d \in Callers : pc'[d] = "remove" /\ ms'[d] = j
    <3> SUFFICES ASSUME NEW j \in strmap, invalid[j]
                 PROVE  \E d \in Callers : pc'[d] = "remove" /\ ms'[d] = j
      BY Zenon
    <3>1. PICK d \in Callers : pc[d] = "remove" /\ ms[d] = j
      BY Zenon DEF Mapped, Leaving
    <3> QED BY <1>3, <2>2, <2>3, <3>1
  <2>5. \A d \in Callers : pc'[d] # "idle" => pc'[ms'[d]] # "idle"
    BY ZenonT(60), <1>1, <1>3, <2>2, <2>3 DEF Mapped, TypeOK, Senders
  <2>6. \A j \in Senders : pc'[j] = "idle" => j \notin strmap \cup disconnected /\ s[j] = 0 /\ ~invalid[j]
    BY Zenon, <1>1, <1>3 DEF Mapped, Senders
  <2>7. Mapped'
    BY Zenon, <1>1, <1>4, <2>4, <2>5, <2>6 DEF Mapped, Leaving
  <2>8. ASSUME Patient
        PROVE  /\ \A d \in Callers : pc'[d] = "remove" => invalid[ms'[d]]
               /\ \A d \in Callers : pc'[d] # "idle" => ms'[d] \in strmap \cup disconnected \/ invalid[ms'[d]]
               /\ \A j \in Senders : s[j] # 0 => j \in strmap \cup disconnected
    BY Zenon, <1>3, <2>2, <2>8 DEF Kept
  <2>9. Kept'
    BY Zenon, <1>1, <1>4, <2>8 DEF Kept, Patient
  <2> QED BY <2>7, <2>9
<1>5. CASE strmap \subseteq {ms[c]} /\ strmap' = {} /\ ms' = ms
  <2>1. \A d \in Callers : pc'[d] # "idle" => pc'[ms[d]] # "idle"
    BY Zenon, <1>1, <1>3 DEF Mapped, TypeOK, Senders
  <2>2. \A j \in Senders : pc'[j] = "idle" => j \notin disconnected /\ s[j] = 0 /\ ~invalid[j]
    BY Zenon, <1>1, <1>3 DEF Mapped, Senders
  <2>3. Mapped'
    BY Zenon, <1>1, <1>5, <2>1, <2>2 DEF Mapped, Leaving
  <2>4. ASSUME Patient
        PROVE  /\ \A d \in Callers : pc'[d] = "remove" => invalid[ms[d]]
               /\ \A d \in Callers : pc'[d] # "idle" => ms[d] \in disconnected \/ invalid[ms[d]]
               /\ \A j \in Senders : s[j] # 0 => j \in disconnected
    <3>1. invalid[ms[c]] /\ s[ms[c]] = 0
      BY Zenon, <1>1, <2>4 DEF Kept, Mapped, TypeOK
    <3> QED BY <1>1, <1>3, <1>5, <2>4, <3>1 DEF Kept
  <2>5. Kept'
    BY Zenon, <1>1, <1>5, <2>4 DEF Kept, Patient
  <2> QED BY <2>3, <2>5
<1> QED BY <1>4, <1>5 DEF Remove

(* The peer disconnects.                                                    *)
LEMMA MapDisconnect ==
    ASSUME TypeOK, Mapped, Kept, OnDisconnect
    PROVE  Mapped' /\ Kept'
<1>1. /\ strmap' = {} /\ disconnected' = disconnected \cup strmap
      /\ UNCHANGED <<s, invalid, alive, ctx, pc, ms>>
  BY Zenon DEF OnDisconnect, sender, network, call
<1>2. Mapped'
  BY Zenon, <1>1 DEF Mapped, Leaving
<1>3. Kept'
  BY Zenon, <1>1 DEF Kept, Patient
<1> QED BY <1>2, <1>3

(* The map is empty at the start.                                           *)
LEMMA MapInit == Init => Mapped /\ Kept
<1> SUFFICES ASSUME Init PROVE Mapped /\ Kept
  BY Zenon
<1>1. Mapped
  BY Zenon DEF Init, Mapped, Senders
<1>2. Kept
  BY Zenon DEF Init, Kept, Senders
<1> QED BY <1>1, <1>2

(* Every step keeps the map in order.                                       *)
LEMMA MapStep == TypeOK /\ Ownership /\ Mapped /\ Kept /\ [Next]_vars => Mapped' /\ Kept'
<1> SUFFICES ASSUME TypeOK, Ownership, Mapped, Kept, [Next]_vars PROVE Mapped' /\ Kept'
  BY Zenon
<1>1. /\ \A c \in Callers : ms[c] \in Senders
      /\ \A st \in Streams : alive[st] => \E j \in Senders : s[j] = st
  BY Zenon DEF TypeOK, Mapped
<1>2. ASSUME NEW c \in Callers, PrepLock(c) PROVE Mapped' /\ Kept'
  <2>1. UNCHANGED <<strmap, disconnected, invalid, ms, ctx, s, alive>> /\ pc[c] = "prepLock"
    BY Zenon, <1>2 DEF PrepLock, network, call
  <2>2. PICK where \in {"openFirst", "remove"} : goTo(c, where) /\ (where = "remove" => ctx[c] # "live")
    BY Zenon, <1>2 DEF PrepLock
  <2>3. \A d \in Callers : pc'[d] = IF d = c THEN where ELSE pc[d]
    BY Zenon, <2>2, GoToFacts
  <2>4. Patient' => Patient /\ where # "remove"
    BY Zenon, <2>1, <2>2 DEF Patient
  <2> QED BY <1>1, <2>1, <2>3, <2>4, MapQuiet
<1>3. ASSUME NEW c \in Callers, OpenFirst(c) PROVE Mapped' /\ Kept'
  <2>1. UNCHANGED <<strmap, disconnected, ms, ctx>> /\ pc[c] = "openFirst"
    BY Zenon, <1>3 DEF OpenFirst, call
  <2>2. CASE ~invalid[ms[c]] /\ haveStream(ms[c]) /\ goTo(c, "lock") /\ invalid' = invalid
    BY <1>1, <2>1, <2>2, HaveFacts, AliveHave, MapMove
  <2>3. CASE invalidate(ms[c]) /\ goTo(c, "remove")
    <3>1. \A d \in Callers : pc'[d] = IF d = c THEN "remove" ELSE pc[d]
      BY Zenon, <2>3, GoToFacts
    <3>2. pc[ms[c]] # "idle"
      BY Zenon, <2>1 DEF Mapped
    <3> QED BY <1>1, <2>1, <2>3, <3>1, <3>2, MapInvalidate
  <2> QED BY <1>3, <2>2, <2>3 DEF OpenFirst
<1>4. ASSUME NEW c \in Callers, Lock(c) \/ Write(c) \/ Read(c) PROVE Mapped' /\ Kept'
  <2>1. UNCHANGED <<strmap, disconnected, invalid, ms, ctx, s, alive>> /\ pc[c] \in {"lock", "write", "read"}
    BY Zenon, <1>4 DEF Lock, Write, Read, network, call, sender
  <2>2. PICK where \in {"prep", "failed", "read", "finish"} : goTo(c, where)
    BY Zenon, <1>4 DEF Lock, Write, Read
  <2> QED BY <1>1, <2>1, <2>2, MapMove
<1>5. ASSUME NEW c \in Callers, Prep(c) PROVE Mapped' /\ Kept'
  <2>1. UNCHANGED <<strmap, disconnected, invalid, ms, ctx>> /\ pc[c] = "prep"
    BY Zenon, <1>5 DEF Prep, call
  <2>2. CASE ~invalid[ms[c]] /\ haveStream(ms[c]) /\ goTo(c, "write")
    BY <1>1, <2>1, <2>2, HaveFacts, AliveHave, MapMove
  <2>3. CASE goTo(c, "failed") /\ UNCHANGED <<s, network>>
    <3>1. alive' = alive
      BY Zenon, <2>3 DEF network
    <3> QED BY <1>1, <2>1, <2>3, <3>1, MapMove
  <2> QED BY <1>5, <2>2, <2>3 DEF Prep
<1>6. ASSUME NEW c \in Callers, WriteFails(c) \/ ReadFails(c) \/ ReadCanceled(c) PROVE Mapped' /\ Kept'
  <2>1. UNCHANGED <<strmap, disconnected, invalid, ms, ctx>> /\ pc[c] \in {"write", "read"}
    BY Zenon, <1>6 DEF WriteFails, ReadFails, ReadCanceled, call
  <2>2. PICK where \in {"prep", "failed"} : goTo(c, where)
    BY Zenon, <1>6 DEF WriteFails, ReadFails, ReadCanceled, retryOrFail
  <2>3. s[ms[c]] # 0 /\ dropStream(ms[c])
    BY Zenon, <1>6, <2>1 DEF WriteFails, ReadFails, ReadCanceled, retryOrFail, Ownership, Streaming
  <2>4. \A j \in Senders : s'[j] = 0 \/ s'[j] = s[j]
    BY Zenon, <1>1, <2>3, DropFacts
  <2>5. \A st \in Streams : alive'[st] => \E j \in Senders : s'[j] = st
    BY Zenon, <1>1, <2>3, AliveDrop
  <2> QED BY <2>1, <2>2, <2>4, <2>5, MapMove
<1>7. ASSUME NEW c \in Callers, Finish(c) PROVE Mapped' /\ Kept'
  <2>1. UNCHANGED <<strmap, disconnected, invalid, ms, ctx>> /\ pc[c] = "finish"
    BY Zenon, <1>7 DEF Finish, call
  <2>2. PICK where \in {"done", "failed"} : goTo(c, where)
    BY Zenon, <1>7 DEF Finish
  <2>3. \/ s' = s /\ alive' = alive
        \/ s' = [s EXCEPT ![ms[c]] = 0] /\ alive' = [alive EXCEPT ![s[ms[c]]] = FALSE]
    BY Zenon, <1>7 DEF Finish
  <2>4. \A j \in Senders : s'[j] = 0 \/ s'[j] = s[j]
    BY Zenon, <2>3 DEF TypeOK
  <2>5. \A st \in Streams : alive'[st] => \E j \in Senders : s'[j] = st
    <3> SUFFICES ASSUME NEW st \in Streams, alive'[st] PROVE \E j \in Senders : s'[j] = st
      BY Zenon
    <3>1. alive[st] /\ (s' = s \/ (s' = [s EXCEPT ![ms[c]] = 0] /\ st # s[ms[c]]))
      <4>1. CASE alive' = [alive EXCEPT ![s[ms[c]]] = FALSE]
        <5>1. alive[st] /\ st # s[ms[c]]
          BY Zenon, <4>1 DEF TypeOK
        <5> QED BY <2>3, <5>1
      <4>2. CASE s' = s /\ alive' = alive
        BY Zenon, <4>2
      <4> QED BY <2>3, <4>1, <4>2
    <3>2. PICK j \in Senders : s[j] = st
      BY Zenon, <1>1, <3>1
    <3>3. s'[j] = st
      BY Zenon, <3>1, <3>2 DEF TypeOK
    <3> QED BY <3>3
  <2> QED BY <2>1, <2>2, <2>4, <2>5, MapMove
<1>8. ASSUME NEW i \in Callers, Invalidate(i) PROVE Mapped' /\ Kept'
  <2>1. /\ i \in Senders /\ i \in disconnected /\ disconnected' = disconnected \ {i} /\ invalidate(i)
        /\ UNCHANGED <<strmap, ms, pc, ctx>>
    BY Zenon, <1>8 DEF Invalidate, call, Senders
  <2>2. pc[i] # "idle" /\ i \notin strmap
    BY Zenon, <2>1 DEF Mapped
  <2> QED BY <2>1, <2>2, MapInvalidate
<1>9. ASSUME NEW c \in Callers, CtxDone(c) PROVE Mapped' /\ Kept'
  <2>1. UNCHANGED <<strmap, disconnected, invalid, ms, pc, s, alive>> /\ ctx'[c] # "live"
    BY Zenon, <1>9 DEF CtxDone, sender, network, TypeOK
  <2>2. ~Patient'
    BY Zenon, <2>1 DEF Patient
  <2> QED BY <1>1, <2>1, <2>2, MapQuiet
<1>10. ASSUME NEW st \in Streams, HandleNewMessage(st) \/ StreamDies(st) PROVE Mapped' /\ Kept'
  <2>1. /\ UNCHANGED <<strmap, disconnected, invalid, ms, pc, s, ctx>>
        /\ \A t \in Streams : alive'[t] => alive[t]
    BY Zenon, <1>10 DEF HandleNewMessage, StreamDies, Reset, sender, call, TypeOK
  <2>2. Patient' => Patient
    BY Zenon, <2>1 DEF Patient
  <2> QED BY <1>1, <2>1, <2>2, MapQuiet
<1>11. CASE UNCHANGED vars
  <2>1. UNCHANGED <<strmap, disconnected, invalid, ms, pc, s, ctx, alive>>
    BY Zenon, <1>11 DEF vars, sender, network
  <2>2. Patient' => Patient
    BY Zenon, <2>1 DEF Patient
  <2> QED BY <1>1, <2>1, <2>2, MapQuiet
<1> QED
  BY Zenon, <1>2, <1>3, <1>4, <1>5, <1>6, <1>7, <1>8, <1>9, <1>10, <1>11, MapCall, MapRemove, MapDisconnect
  DEF Next, callerStep

(* A call that comes after a failed one is not stuck with its sender.       *)
THEOREM InvalidSendersLeave == Spec => []InvalidLeavesMap
<1>1. Mapped => InvalidLeavesMap
  BY Zenon DEF Mapped, Leaving, InvalidLeavesMap
<1> QED BY <1>1, TypeInit, TypeStep, OwnInit, OwnStep, MapInit, MapStep, PTL DEF Spec

(* Every open stream has its sender, which the map or the goroutine of      *)
(* OnDisconnect reaches, until a context ends.                              *)
THEOREM StreamsKept == Spec => []NoStreamForgotten
<1>1. Mapped /\ Kept => NoStreamForgotten
  BY Zenon DEF Mapped, Kept, Patient, NoStreamForgotten
<1> QED BY <1>1, TypeInit, TypeStep, OwnInit, OwnStep, MapInit, MapStep, PTL DEF Spec
=============================================================================
