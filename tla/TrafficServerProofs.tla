------------------------- MODULE TrafficServerProofs -------------------------
(***************************************************************************)
(* Theorems about TrafficServer, for every set of clients, any capacity of *)
(* the channel and any number of packets.                                  *)
(***************************************************************************)
EXTENDS TrafficServer, FiniteSetTheorems, SequenceTheorems, TLAPS

Place == {"none", "greet", "read", "refuse", "send", "leave", "done"}
BeatState == {"ticking", "writing", "returned"}
MessageSet == [client : Client, packet : Packet \cup {"connected", "disconnected"}]

HandlersTyped ==
  /\ at \in [Client -> Place]
  /\ pending \in [Client -> Packet \cup {"none"}]
  /\ \A c \in Client : IF at[c] = "send" THEN pending[c] \in Packet ELSE pending[c] = "none"

(* The farewell of a client is in the channel only when its handler has       *)
(* returned.                                                                  *)
MessagesTyped ==
  /\ messages \in Seq(MessageSet) /\ Len(messages) <= Capacity
  /\ \A i \in 1..Len(messages) :
       messages[i].packet = "disconnected" => at[messages[i].client] = "done"

BeatsTyped ==
  /\ owner \in Seq(Client) /\ beat \in Seq(BeatState) /\ Len(owner) = Len(beat)
  /\ heartbeats \in [Client -> 0..Len(owner)]
  /\ cancelled \in SUBSET (1..Len(owner))

Live == {g \in DOMAIN owner : Running(g)}

LifeTyped ==
  /\ stuck \in Deaf \cup {NoClient}
  /\ internal \in {"none", "running", "returned"}
  /\ starting \in {"no", "accepting", "returned"}
  /\ starting = "no" => internal = "none"
  /\ wg = (IF internal = "running" THEN 1 ELSE 0) + Cardinality(Live)

(* What the map's entry for c and the heartbeats of c have to do with each    *)
(* other.                                                                     *)
EntryRight(c) ==
  /\ heartbeats[c] # 0 => owner[heartbeats[c]] = c /\ heartbeats[c] \notin cancelled
  /\ at[c] # "done" => Beating(c) \subseteq {heartbeats[c]}
  /\ heartbeats[c] # 0 /\ c \notin hungUp /\ at[c] # "done" /\ stopping = "no"
       => Running(heartbeats[c])

ServerInv ==
  /\ HandlersTyped
  /\ MessagesTyped
  /\ BeatsTyped
  /\ LifeTyped
  /\ \A c \in Client : EntryRight(c)
-----------------------------------------------------------------------------
LEMMA LiveFinite ==
  ASSUME BeatsTyped
  PROVE  /\ DOMAIN owner = 1..Len(owner) /\ DOMAIN beat = 1..Len(owner) /\ Len(owner) \in Nat
         /\ IsFiniteSet(Live) /\ Cardinality(Live) \in Nat
<1>1. DOMAIN owner = 1..Len(owner) /\ DOMAIN beat = 1..Len(owner) /\ Len(owner) \in Nat
  BY DEF BeatsTyped
<1>2. IsFiniteSet(1..Len(owner)) /\ Live \in SUBSET (1..Len(owner))
  BY <1>1, FS_Interval DEF Live
<1>3. IsFiniteSet(Live)
  BY <1>2, FS_Subset
<1> QED
  BY <1>1, <1>3, FS_CardinalityType

(* A step of a handler, or of the calls of Start and Stop, that no heartbeat  *)
(* and no entry of the map takes part in.                                     *)
LEMMA EntriesKept ==
  ASSUME ServerInv, UNCHANGED <<heartbeats, beatVars>>, at' \in [Client -> Place],
         \A c \in Client : at[c] = "done" => at'[c] = "done",
         hungUp \subseteq hungUp', stopping = stopping' \/ stopping' # "no"
  PROVE  (\A c \in Client : EntryRight(c)') /\ BeatsTyped'
<1>1. BeatsTyped' /\ UNCHANGED <<heartbeats, owner, beat, cancelled>>
  BY DEF ServerInv, BeatsTyped, beatVars
<1>2. ASSUME NEW c \in Client PROVE EntryRight(c)'
  <2>1. EntryRight(c) /\ Beating(c)' = Beating(c)
    BY <1>1 DEF ServerInv, Beating, Running
  <2> QED
    BY <1>1, <2>1 DEF EntryRight, Running
<1> QED
  BY <1>1, <1>2

LEMMA FromClients ==
  ASSUME MessagesTyped
  PROVE  \A i \in 1..Len(messages) : messages[i].client \in Client
<1>1. \A i \in 1..Len(messages) : messages[i] \in MessageSet
  BY DEF MessagesTyped
<1>2. \A m \in MessageSet : m.client \in Client
  BY DEF MessageSet
<1> QED
  BY <1>1, <1>2

LEMMA MessageSent ==
  ASSUME ServerInv, NEW c \in Client, NEW p \in Packet \cup {"connected", "disconnected"},
         SendMessage(c, p), at' \in [Client -> Place],
         \A d \in Client : at[d] = "done" => at'[d] = "done",
         p = "disconnected" => at'[c] = "done"
  PROVE  MessagesTyped'
<1> DEFINE n == Len(messages)
           m == [client |-> c, packet |-> p]
<1>1. m \in MessageSet /\ m.client = c /\ m.packet = p
  BY DEF MessageSet
<1>2. messages' = Append(messages, m) /\ n < Capacity
  BY DEF SendMessage
<1> HIDE DEF m
<1>3. n \in Nat /\ Len(messages') = n + 1 /\ messages' \in Seq(MessageSet)
  BY <1>1, <1>2 DEF ServerInv, MessagesTyped
<1>4. \A i \in 1..(n + 1) : messages'[i] = IF i = n + 1 THEN m ELSE messages[i]
  BY <1>1, <1>2 DEF ServerInv, MessagesTyped
<1>5. n + 1 <= Capacity
  BY <1>2, <1>3, TrafficServerAssumption
<1>6. \A i \in 1..n : messages[i].client \in Client
  BY FromClients DEF ServerInv
<1>7. \A i \in 1..(n + 1) :
        messages'[i].packet = "disconnected" => at'[messages'[i].client] = "done"
  BY <1>1, <1>3, <1>4, <1>6 DEF ServerInv, MessagesTyped
<1> QED
  BY <1>3, <1>5, <1>7 DEF MessagesTyped

LEMMA MessagesKept ==
  ASSUME ServerInv, UNCHANGED messages, \A d \in Client : at[d] = "done" => at'[d] = "done"
  PROVE  MessagesTyped'
<1>1. \A i \in 1..Len(messages) : messages[i].client \in Client
  BY FromClients DEF ServerInv
<1> QED
  BY <1>1 DEF ServerInv, MessagesTyped

(* The handler of c goes from one place to another. *)
LEMMA HandlerStep ==
  ASSUME ServerInv, NEW c \in Client,
         \/ Accept(c) \/ HangUp(c) \/ Greet(c) \/ ReadPacket(c) \/ Refuse(c) \/ Send(c)
         \/ ReadFails(c) \/ Leave(c)
  PROVE  ServerInv'
<1>1. HandlersTyped
  BY DEF ServerInv
<1>2. UNCHANGED <<internal, stuck, heartbeats, beatVars, wg, starting, stopping>>
  BY DEF Accept, HangUp, Greet, ReadPacket, Refuse, Send, ReadFails, Leave, internalVars, lifeVars
<1>3. at' \in [Client -> Place] /\ \A d \in Client : at[d] = "done" => at'[d] = "done"
  BY <1>1 DEF Accept, HangUp, Greet, ReadPacket, Refuse, Send, ReadFails, Leave, GoTo,
              HandlersTyped, Place
<1>4. hungUp \subseteq hungUp'
  BY DEF Accept, HangUp, Greet, ReadPacket, Refuse, Send, ReadFails, Leave
<1>5. HandlersTyped'
  <2>1. CASE ReadPacket(c)
    <3>1. CASE GoTo(c, "refuse") /\ UNCHANGED pending
      BY <1>1, <1>3, <2>1, <3>1 DEF HandlersTyped, GoTo, ReadPacket
    <3>2. ASSUME NEW p \in Packet \ {"nil"}, pending' = [pending EXCEPT ![c] = p], GoTo(c, "send")
          PROVE  HandlersTyped'
      BY <1>1, <1>3, <3>2 DEF HandlersTyped, GoTo
    <3> QED
      BY <2>1, <3>1, <3>2 DEF ReadPacket
  <2>2. CASE Refuse(c)
    <3>1. CASE GoTo(c, "leave") /\ UNCHANGED pending
      BY <1>1, <1>3, <2>2, <3>1 DEF HandlersTyped, GoTo, Refuse
    <3>2. CASE pending' = [pending EXCEPT ![c] = "nil"] /\ GoTo(c, "send")
      BY <1>1, <1>3, <3>2 DEF HandlersTyped, GoTo, Packet
    <3> QED
      BY <2>2, <3>1, <3>2 DEF Refuse
  <2>3. CASE Send(c)
    BY <1>1, <1>3, <2>3 DEF HandlersTyped, GoTo, Send
  <2>4. CASE HangUp(c)
    BY <1>1, <2>4 DEF HandlersTyped, HangUp
  <2>5. CASE Accept(c) \/ Greet(c) \/ ReadFails(c) \/ Leave(c)
    BY <1>1, <1>3, <2>5 DEF HandlersTyped, GoTo, Accept, Greet, ReadFails, Leave
  <2> QED
    BY <2>1, <2>2, <2>3, <2>4, <2>5
<1>6. MessagesTyped'
  <2>1. CASE Greet(c)
    BY <1>3, <2>1, MessageSent DEF Greet
  <2>2. CASE Send(c)
    BY <1>1, <1>3, <2>2, MessageSent DEF Send, HandlersTyped, Packet
  <2>3. CASE Leave(c)
    <3>1. at'[c] = "done"
      BY <1>1, <2>3 DEF HandlersTyped, Leave, GoTo
    <3> QED
      BY <1>3, <2>3, <3>1, MessageSent DEF Leave
  <2>4. CASE Accept(c) \/ HangUp(c) \/ ReadPacket(c) \/ Refuse(c) \/ ReadFails(c)
    BY <1>3, <2>4, MessagesKept DEF Accept, HangUp, ReadPacket, Refuse, ReadFails
  <2> QED
    BY <2>1, <2>2, <2>3, <2>4
<1>7. BeatsTyped' /\ \A d \in Client : EntryRight(d)'
  BY <1>2, <1>3, <1>4, EntriesKept
<1>8. LifeTyped'
  BY <1>2 DEF ServerInv, LifeTyped, Live, Running, beatVars
<1> QED
  BY <1>5, <1>6, <1>7, <1>8 DEF ServerInv
-----------------------------------------------------------------------------
(* The goroutine of Traffic. *)

LEMMA MessageTaken ==
  ASSUME ServerInv, messages # <<>>, messages' = Tail(messages), at' = at
  PROVE  /\ MessagesTyped'
         /\ Head(messages).client \in Client
         /\ Head(messages).packet = "disconnected" => at[Head(messages).client] = "done"
<1> DEFINE n == Len(messages)
<1>1. /\ n \in Nat \ {0} /\ Len(messages') = n - 1 /\ messages' \in Seq(MessageSet)
      /\ Head(messages) = messages[1]
  BY DEF ServerInv, MessagesTyped
<1>2. \A i \in 1..(n - 1) : i + 1 \in 1..n /\ messages'[i] = messages[i + 1]
  BY <1>1 DEF ServerInv, MessagesTyped
<1>3. n - 1 <= Capacity
  BY <1>1, TrafficServerAssumption DEF ServerInv, MessagesTyped
<1>4. \A i \in 1..(n - 1) :
        messages'[i].packet = "disconnected" => at'[messages'[i].client] = "done"
  BY <1>2 DEF ServerInv, MessagesTyped
<1>5. 1 \in 1..n
  BY <1>1
<1>6. messages[1].client \in Client
  BY <1>5, FromClients DEF ServerInv
<1>7. messages[1].packet = "disconnected" => at[messages[1].client] = "done"
  BY <1>5 DEF ServerInv, MessagesTyped
<1> QED
  BY <1>1, <1>3, <1>4, <1>6, <1>7 DEF MessagesTyped

(* The old heartbeat is told to end, and a new one started. *)
LEMMA WantStep ==
  ASSUME ServerInv, NEW c \in Client, WantHeartbeat(c, FALSE),
         UNCHANGED <<at, hungUp, internal, starting, stopping>>,
         stuck' \in Deaf \cup {NoClient}
  PROVE  BeatsTyped' /\ LifeTyped' /\ \A d \in Client : EntryRight(d)'
<1> DEFINE n == Len(owner)
           g == n + 1
<1>1. /\ cancelled' = OldCancelled(c)
      /\ heartbeats' = [heartbeats EXCEPT ![c] = g]
      /\ owner' = Append(owner, c) /\ beat' = Append(beat, "ticking") /\ wg' = wg + 1
  BY DEF WantHeartbeat, Added
<1>2. /\ BeatsTyped /\ n \in Nat /\ DOMAIN owner = 1..n /\ DOMAIN beat = 1..n
      /\ IsFiniteSet(Live) /\ Cardinality(Live) \in Nat
  BY LiveFinite DEF ServerInv
<1>3. heartbeats \in [Client -> 0..n] /\ cancelled \in SUBSET (1..n)
  BY <1>2 DEF BeatsTyped
<1>4. /\ owner' \in Seq(Client) /\ Len(owner') = g /\ owner'[g] = c
      /\ \A h \in 1..n : owner'[h] = owner[h]
  BY <1>1, <1>2 DEF BeatsTyped
<1>5. /\ beat' \in Seq(BeatState) /\ Len(beat') = g /\ beat'[g] = "ticking"
      /\ \A h \in 1..n : beat'[h] = beat[h]
  BY <1>1, <1>2 DEF BeatsTyped, BeatState
<1>6. DOMAIN owner' = 1..g /\ 1..g = (1..n) \cup {g} /\ g \notin 1..n /\ g # 0
  BY <1>2, <1>4
<1> HIDE DEF g, n
<1>7. /\ heartbeats'[c] = g /\ heartbeats[c] \in 0..n
      /\ \A d \in Client \ {c} : heartbeats'[d] = heartbeats[d]
      /\ heartbeats' \in [Client -> 0..g]
  <2>1. 0..n \subseteq 0..g /\ g \in 0..g
    BY <1>2 DEF g
  <2> QED
    BY <1>1, <1>3, <2>1
<1>8. cancelled' = cancelled \cup ({heartbeats[c]} \ {0}) /\ cancelled' \in SUBSET (1..n)
  <2>1. {heartbeats[c]} \ {0} \in SUBSET (1..n)
    BY <1>2, <1>7
  <2> QED
    BY <1>1, <1>3, <2>1 DEF OldCancelled
<1>9. BeatsTyped'
  BY <1>4, <1>5, <1>6, <1>7, <1>8 DEF BeatsTyped
<1>10. Live' = Live \cup {g} /\ g \notin Live
  BY <1>2, <1>4, <1>5, <1>6 DEF Live, Running
<1>11. Cardinality(Live') = Cardinality(Live) + 1
  BY <1>2, <1>10, FS_AddElement
<1>12. LifeTyped'
  BY <1>1, <1>2, <1>11 DEF ServerInv, LifeTyped
<1>13. ASSUME NEW d \in Client PROVE EntryRight(d)'
  <2>1. EntryRight(d)
    BY DEF ServerInv
  <2>2. \A h \in 1..n : Running(h)' <=> Running(h)
    BY <1>2, <1>4, <1>5, <1>6 DEF Running
  <2>3. CASE d = c
    <3>1. Beating(c)' \subseteq {g} \cup (Beating(c) \ {heartbeats[c]})
      BY <1>2, <1>4, <1>6, <1>8, <2>2 DEF Beating, Running
    <3>2. at[c] # "done" => Beating(c)' \subseteq {g}
      BY <2>1, <2>3, <3>1 DEF EntryRight
    <3>3. heartbeats'[c] \in DOMAIN owner' /\ beat'[heartbeats'[c]] # "returned"
      BY <1>5, <1>6, <1>7
    <3>4. g \notin cancelled'
      BY <1>6, <1>8
    <3> QED
      BY <1>4, <1>7, <2>3, <3>2, <3>3, <3>4 DEF EntryRight, Running
  <2>4. CASE d # c
    <3>1. heartbeats'[d] = heartbeats[d] /\ heartbeats[d] \in 0..n
      BY <1>3, <1>7, <2>4
    <3>2. Beating(d)' \subseteq Beating(d)
      BY <1>2, <1>4, <1>6, <1>8, <2>2, <2>4 DEF Beating, Running
    <3>3. CASE heartbeats[d] = 0
      BY <2>1, <3>1, <3>2, <3>3 DEF EntryRight
    <3>4. CASE heartbeats[d] # 0
      <4>1. heartbeats[d] \in 1..n
        BY <1>2, <3>1, <3>4
      <4>2. heartbeats[c] # heartbeats[d]
        <5>1. heartbeats[c] # 0 => owner[heartbeats[c]] = c
          BY DEF ServerInv, EntryRight
        <5>2. owner[heartbeats[d]] = d
          BY <2>1, <3>4 DEF EntryRight
        <5> QED
          BY <2>4, <3>4, <5>1, <5>2
      <4>3. heartbeats[d] \notin cancelled'
        BY <1>8, <2>1, <3>4, <4>2 DEF EntryRight
      <4> QED
        BY <1>4, <2>1, <2>2, <3>1, <3>2, <3>4, <4>1, <4>3 DEF EntryRight
    <3> QED
      BY <3>3, <3>4
  <2> QED
    BY <2>3, <2>4
<1> QED
  BY <1>9, <1>12, <1>13

(* The entry of c is taken out, and its heartbeat told to end unless the      *)
(* handler of c has returned.                                                 *)
LEMMA EntryGone ==
  ASSUME ServerInv, NEW c \in Client, heartbeats' = [heartbeats EXCEPT ![c] = 0],
         \/ cancelled' = OldCancelled(c)
         \/ at[c] = "done" /\ cancelled' = cancelled,
         UNCHANGED <<owner, beat, wg, at, hungUp, internal, starting, stopping>>,
         stuck' \in Deaf \cup {NoClient}
  PROVE  BeatsTyped' /\ LifeTyped' /\ \A d \in Client : EntryRight(d)'
<1> DEFINE n == Len(owner)
<1>1. BeatsTyped /\ n \in Nat /\ DOMAIN owner = 1..n
  BY LiveFinite DEF ServerInv
<1>2. heartbeats \in [Client -> 0..n] /\ cancelled \in SUBSET (1..n)
  BY <1>1 DEF BeatsTyped
<1> HIDE DEF n
<1>3. /\ heartbeats'[c] = 0 /\ heartbeats[c] \in 0..n
      /\ \A d \in Client \ {c} : heartbeats'[d] = heartbeats[d]
      /\ heartbeats' \in [Client -> 0..n]
  BY <1>1, <1>2
<1>4. /\ cancelled \subseteq cancelled' /\ cancelled' \subseteq cancelled \cup ({heartbeats[c]} \ {0})
      /\ cancelled' \in SUBSET (1..n)
      /\ at[c] # "done" => cancelled' = cancelled \cup ({heartbeats[c]} \ {0})
  <2>1. {heartbeats[c]} \ {0} \in SUBSET (1..n)
    BY <1>1, <1>3
  <2> QED
    BY <1>2, <2>1 DEF OldCancelled
<1>5. BeatsTyped'
  BY <1>1, <1>3, <1>4 DEF BeatsTyped, n
<1>6. LifeTyped'
  BY DEF ServerInv, LifeTyped, Live, Running
<1>7. ASSUME NEW d \in Client PROVE EntryRight(d)'
  <2>1. EntryRight(d) /\ \A h : Running(h)' <=> Running(h)
    BY DEF ServerInv, Running
  <2>2. CASE d = c
    <3>1. at[c] # "done" => Beating(c)' \subseteq Beating(c) \ ({heartbeats[c]} \ {0})
      BY <1>4, <2>1 DEF Beating
    <3>2. at[c] # "done" => Beating(c)' \subseteq {0}
      BY <2>1, <2>2, <3>1 DEF EntryRight
    <3> QED
      BY <1>3, <2>2, <3>2 DEF EntryRight
  <2>3. CASE d # c
    <3>1. heartbeats'[d] = heartbeats[d]
      BY <1>3, <2>3
    <3>2. Beating(d)' \subseteq Beating(d)
      BY <1>4, <2>1 DEF Beating
    <3>3. heartbeats[d] # 0 => heartbeats[d] \notin cancelled'
      <4>1. heartbeats[d] # 0 => owner[heartbeats[d]] = d
        BY <2>1 DEF EntryRight
      <4>2. heartbeats[c] # 0 => owner[heartbeats[c]] = c
        BY DEF ServerInv, EntryRight
      <4> QED
        BY <1>4, <2>1, <2>3, <4>1, <4>2 DEF EntryRight
    <3> QED
      BY <2>1, <3>1, <3>2, <3>3 DEF EntryRight
  <2> QED
    BY <2>2, <2>3
<1> QED
  BY <1>5, <1>6, <1>7

LEMMA ReceiveStep ==
  ASSUME ServerInv, Receive
  PROVE  ServerInv'
<1> DEFINE c == Head(messages).client
           packet == Head(messages).packet
<1>1. /\ messages # <<>> /\ messages' = Tail(messages)
      /\ UNCHANGED <<at, hungUp, pending, packets, internal, starting, stopping>>
      /\ \/ packet = "want" /\ WantHeartbeat(c, FALSE) /\ stuck' = NoClient
         \/ packet = "want none" /\ WantHeartbeat(c, TRUE) /\ stuck' = NoClient
         \/ packet = "other" /\ Write
         \/ packet = "disconnected" /\ Disconnected(c) /\ stuck' = NoClient
         \/ /\ packet \in {"connected", "nil"}
            /\ stuck' = NoClient
            /\ UNCHANGED <<heartbeats, beatVars, wg>>
  BY DEF Receive, handlerVars, lifeVars
<1>2. MessagesTyped' /\ c \in Client /\ (packet = "disconnected" => at[c] = "done")
  BY <1>1, MessageTaken
<1>3. HandlersTyped'
  BY <1>1 DEF ServerInv, HandlersTyped
<1> HIDE DEF c, packet
<1>4. ASSUME UNCHANGED <<heartbeats, beatVars, wg>>, stuck' \in Deaf \cup {NoClient}
      PROVE  BeatsTyped' /\ LifeTyped' /\ \A d \in Client : EntryRight(d)'
  <2>1. LifeTyped'
    BY <1>1, <1>4 DEF ServerInv, LifeTyped, Live, Running, beatVars
  <2>2. at' \in [Client -> Place] /\ \A d \in Client : at[d] = "done" => at'[d] = "done"
    BY <1>1 DEF ServerInv, HandlersTyped
  <2> QED
    BY <1>1, <1>4, <2>1, <2>2, EntriesKept
<1>5. CASE WantHeartbeat(c, FALSE) /\ stuck' = NoClient
  BY <1>1, <1>2, <1>3, <1>5, WantStep DEF ServerInv
<1>6. CASE WantHeartbeat(c, TRUE) /\ stuck' = NoClient
  BY <1>1, <1>2, <1>3, <1>6, EntryGone DEF ServerInv, WantHeartbeat
<1>7. CASE packet = "disconnected" /\ Disconnected(c) /\ stuck' = NoClient
  BY <1>1, <1>2, <1>3, <1>7, EntryGone DEF ServerInv, Disconnected, beatVars
<1>8. CASE Write
  <2>1. stuck' \in Deaf \cup {NoClient}
    BY <1>8 DEF Write, Unread
  <2> QED
    BY <1>2, <1>3, <1>4, <1>8, <2>1 DEF ServerInv, Write
<1>9. CASE UNCHANGED <<heartbeats, beatVars, wg>> /\ stuck' = NoClient
  BY <1>2, <1>3, <1>4, <1>9 DEF ServerInv
<1> QED
  BY <1>1, <1>5, <1>6, <1>7, <1>8, <1>9
-----------------------------------------------------------------------------
(* A heartbeat, and the life of the server. *)

LEMMA BeatStep ==
  ASSUME ServerInv, NEW g, BeatBlocks(g) \/ BeatFails(g) \/ BeatReturns(g)
  PROVE  ServerInv'
<1> DEFINE n == Len(owner)
<1>1. /\ BeatsTyped /\ n \in Nat /\ DOMAIN owner = 1..n /\ DOMAIN beat = 1..n
      /\ IsFiniteSet(Live) /\ Cardinality(Live) \in Nat
  BY LiveFinite DEF ServerInv
<1>2. g \in 1..n /\ beat[g] # "returned"
  BY <1>1 DEF BeatBlocks, BeatFails, BeatReturns, Running
<1>3. UNCHANGED <<at, hungUp, pending, messages, internal, stuck, heartbeats, owner, cancelled,
                  starting, stopping>>
  BY DEF BeatBlocks, BeatFails, BeatReturns, Ends, handlerVars, internalVars, lifeVars
<1>4. \/ beat' = [beat EXCEPT ![g] = "writing"] /\ wg' = wg
      \/ beat' = [beat EXCEPT ![g] = "returned"] /\ wg' = wg - 1
  BY DEF BeatBlocks, BeatFails, BeatReturns, Ends, AfterError
<1>5. /\ beat' \in Seq(BeatState) /\ Len(beat') = n
      /\ \A h \in 1..n : h # g => beat'[h] = beat[h]
      /\ beat'[g] = "returned" <=> wg' = wg - 1
      /\ beat'[g] # "returned" <=> wg' = wg
  <2>1. wg \in Int
    BY <1>1 DEF ServerInv, LifeTyped
  <2>2. beat' \in Seq(BeatState) /\ Len(beat') = n /\ \A h \in 1..n : h # g => beat'[h] = beat[h]
    <3>1. beat \in Seq(BeatState) /\ Len(beat) = n
      BY <1>1 DEF BeatsTyped
    <3>2. "writing" \in BeatState /\ "returned" \in BeatState
      BY DEF BeatState
    <3>3. ASSUME NEW s \in BeatState, beat' = [beat EXCEPT ![g] = s]
          PROVE  /\ beat' \in Seq(BeatState) /\ Len(beat') = n
                 /\ \A h \in 1..n : h # g => beat'[h] = beat[h]
      BY <1>1, <1>2, <3>1, <3>3
    <3> QED
      BY <1>4, <3>2, <3>3
  <2>3. \/ beat'[g] = "writing" /\ wg' = wg
        \/ beat'[g] = "returned" /\ wg' = wg - 1
    BY <1>1, <1>2, <1>4
  <2> QED
    BY <2>1, <2>2, <2>3
<1>6. HandlersTyped' /\ MessagesTyped'
  BY <1>3 DEF ServerInv, HandlersTyped, MessagesTyped
<1>7. BeatsTyped' /\ DOMAIN beat' = 1..n /\ DOMAIN owner' = 1..n
  BY <1>1, <1>3, <1>5 DEF BeatsTyped
<1> HIDE DEF n
<1>8. LifeTyped'
  <2>1. CASE beat'[g] # "returned"
    <3>1. Live' = Live
      BY <1>1, <1>2, <1>5, <1>7, <2>1 DEF Live, Running
    <3> QED
      BY <1>3, <1>5, <2>1, <3>1 DEF ServerInv, LifeTyped
  <2>2. CASE beat'[g] = "returned"
    <3>1. Live' = Live \ {g} /\ g \in Live
      BY <1>1, <1>2, <1>5, <1>7, <2>2 DEF Live, Running
    <3>2. Cardinality(Live') = Cardinality(Live) - 1
      BY <1>1, <3>1, FS_RemoveElement
    <3> QED
      BY <1>1, <1>3, <1>5, <2>2, <3>2 DEF ServerInv, LifeTyped
  <2> QED
    BY <2>1, <2>2
<1>9. ASSUME NEW c \in Client PROVE EntryRight(c)'
  <2>1. EntryRight(c) /\ heartbeats[c] \in 0..n
    BY <1>1 DEF ServerInv, BeatsTyped, n
  <2>2. Beating(c)' \subseteq Beating(c)
    BY <1>1, <1>2, <1>3, <1>5, <1>7 DEF Beating, Running
  <2>3. ASSUME heartbeats[c] # 0, c \notin hungUp, at[c] # "done", stopping = "no"
        PROVE  Running(heartbeats[c])'
    <3>1. /\ heartbeats[c] \in 1..n /\ Running(heartbeats[c])
          /\ owner[heartbeats[c]] = c /\ heartbeats[c] \notin cancelled
      BY <1>1, <2>1, <2>3 DEF EntryRight
    <3>2. BeatBlocks(g) \/ g # heartbeats[c]
      BY <2>3, <3>1 DEF BeatFails, BeatReturns, ContextDone
    <3>3. BeatBlocks(g) => beat'[g] # "returned"
      BY <1>1, <1>2 DEF BeatBlocks
    <3>4. beat'[heartbeats[c]] # "returned"
      BY <1>5, <3>1, <3>2, <3>3 DEF Running
    <3> QED
      BY <1>3, <1>7, <3>1, <3>4 DEF Running
  <2> QED
    BY <1>3, <2>1, <2>2, <2>3 DEF EntryRight
<1> QED
  BY <1>6, <1>7, <1>8, <1>9 DEF ServerInv

LEMMA LifeStep ==
  ASSUME ServerInv, ShutDown \/ Start \/ StartReturns \/ Stop \/ UNCHANGED serverVars
  PROVE  ServerInv'
<1>1. UNCHANGED <<at, hungUp, pending, messages, stuck, heartbeats, beatVars>>
  BY DEF ShutDown, Start, StartReturns, Stop, serverVars, handlerVars, internalVars
<1>2. HandlersTyped' /\ MessagesTyped'
  BY <1>1 DEF ServerInv, HandlersTyped, MessagesTyped
<1>3. stopping = stopping' \/ stopping' # "no"
  BY DEF ShutDown, Start, StartReturns, Stop, serverVars, lifeVars
<1>4. BeatsTyped' /\ \A c \in Client : EntryRight(c)'
  BY <1>1, <1>3, EntriesKept DEF ServerInv, HandlersTyped
<1>5. LifeTyped'
  <2>1. Live' = Live /\ Cardinality(Live) \in Nat
    BY <1>1, LiveFinite DEF ServerInv, Live, Running, beatVars
  <2> QED
    BY <1>1, <2>1 DEF ServerInv, LifeTyped, ShutDown, Start, StartReturns, Stop, serverVars,
                      internalVars, lifeVars
<1> QED
  BY <1>2, <1>4, <1>5 DEF ServerInv
-----------------------------------------------------------------------------
LEMMA ServerInvInit == Init => ServerInv
<1> SUFFICES ASSUME Init PROVE ServerInv
  OBVIOUS
<1>1. HandlersTyped /\ MessagesTyped
  BY TrafficServerAssumption DEF Init, HandlersTyped, MessagesTyped, Place
<1>2. BeatsTyped
  BY DEF Init, BeatsTyped
<1>3. Live = {}
  BY DEF Init, Live, Running
<1>4. LifeTyped
  BY <1>3, FS_EmptySet DEF Init, LifeTyped
<1>5. \A c \in Client : EntryRight(c)
  BY DEF Init, EntryRight, Beating, Running
<1> QED
  BY <1>1, <1>2, <1>4, <1>5 DEF ServerInv

(* The inductive invariant of the traffic server's life: what the map of      *)
(* cancel functions, the heartbeats and the channel have to do with each      *)
(* other.                                                                     *)
THEOREM ServerInvHolds == Spec => []ServerInv
<1>1. ServerInv /\ [Next]_serverVars => ServerInv'
  BY HandlerStep, ReceiveStep, BeatStep, LifeStep DEF Next
<1> QED
  BY <1>1, ServerInvInit, PTL DEF Spec

(* A client that is served has one heartbeat, the one the map can cancel,     *)
(* however often it asks (traffic.go:173-189, 407-421, 440-476).              *)
THEOREM AlwaysOneHeartbeat == Spec => []OneHeartbeat
<1>1. ServerInv => OneHeartbeat
  <2> SUFFICES ASSUME ServerInv, NEW c \in Client, heartbeats[c] # 0, c \notin hungUp,
                      at[c] # "done", stopping = "no"
               PROVE  heartbeats[c] \in Beating(c)
    BY DEF ServerInv, EntryRight, OneHeartbeat
  <2> QED
    BY DEF ServerInv, EntryRight, Beating, Running
<1> QED
  BY <1>1, ServerInvHolds, PTL

(* Types, and that the wait group counts the goroutine and the heartbeats     *)
(* that have not returned (traffic.go:46, 188, 441): it never falls below     *)
(* zero, and a Stop that waits on it goes on only when none of them runs.     *)
(* Stop may come before Start has added the goroutine, when there are none.   *)
THEOREM ServerTypeCorrect == Spec => []ServerTypeOK
<1>1. ServerInv => ServerTypeOK
  BY DEF ServerInv, HandlersTyped, MessagesTyped, BeatsTyped, LifeTyped, Live, ServerTypeOK, Place
<1> QED
  BY <1>1, ServerInvHolds, PTL
=============================================================================
