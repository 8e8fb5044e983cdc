----------------------------- MODULE ChatProofs -----------------------------
(***************************************************************************)
(* Proofs about Chat, for any clients, names and bounds.                   *)
(*                                                                         *)
(* ChatInv is inductive.  What the properties do not say themselves:       *)
(*   - a name that no numbering yields keeps its key in usernameMaps as    *)
(*     long as someone in the room carries it (PlainCounted);              *)
(*   - a counter is at most the number of clients that have entered, so    *)
(*     that the next number is a member of Counter (CountersBounded).      *)
(***************************************************************************)
EXTENDS Chat, FiniteSetTheorems, TLAPS

Plain(n) == n \notin {Numbered(v, k) : v \in Choice, k \in Counter}

Entered == {c \in Client : username[c] # Empty \/ at[c] = "done"}

WeakTypeOK ==
  /\ at \in [Client -> {"none", "greet", "read", "send", "leave", "done"}]
  /\ line \in [Client -> Value]
  /\ lines \in 0..MaxLines
  /\ closed \in SUBSET Client
  /\ listening \in BOOLEAN
  /\ sessions \in SUBSET Client
  /\ username \in [Client -> Name \cup {Empty}]
  /\ usernameMaps \in [Name -> Nat]

(* Only clients with a session have a name. *)
NamesInSessions == \A c \in Client : username[c] # Empty => c \in sessions

CountersBounded == \A n \in Name : usernameMaps[n] <= Cardinality(Entered)

PlainCounted == \A c \in Room : Plain(username[c]) => usernameMaps[username[c]] > 0

ChatInv ==
  /\ WeakTypeOK
  /\ SessionKnown
  /\ NamesInSessions
  /\ CountersBounded
  /\ PlainCounted
  /\ PlainNameOnce
-----------------------------------------------------------------------------
(* The clients that have entered are finitely many, and one more once a       *)
(* client that has not enters.                                                *)
LEMMA EnteredFinite ==
  /\ IsFiniteSet(Entered)
  /\ Cardinality(Entered) \in Nat
  /\ Cardinality(Entered) <= Cardinality(Client)
BY ChatAssumption, FS_Subset, FS_CardinalityType DEF Entered

LEMMA OneMore ==
  ASSUME NEW c \in Client, c \notin Entered
  PROVE  /\ Cardinality(Entered \cup {c}) = Cardinality(Entered) + 1
         /\ Cardinality(Entered) + 1 <= Cardinality(Client)
         /\ Cardinality(Client) \in Nat
<1>1. IsFiniteSet(Entered \cup {c}) /\ Cardinality(Entered \cup {c}) = Cardinality(Entered) + 1
  BY EnteredFinite, FS_AddElement
<1>2. Entered \cup {c} \in SUBSET Client
  BY DEF Entered
<1>3. Cardinality(Entered \cup {c}) <= Cardinality(Client)
  BY <1>2, ChatAssumption, FS_Subset
<1> QED
  BY <1>1, <1>3, ChatAssumption, FS_CardinalityType

(* The name given to a newcomer is a name, and is not the empty string. *)
LEMMA NewNameIsName ==
  ASSUME ChatInv, NEW c \in Client, c \notin Entered, NEW v \in Choice
  PROVE  /\ NewName(v) \in Name
         /\ NewName(v) # Empty
         /\ v \in Name
         /\ Plain(NewName(v)) => NewName(v) = v /\ usernameMaps[v] = 0
<1>1. v \in Name /\ v # Empty
  BY ChatAssumption DEF Name
<1>2. usernameMaps[v] \in Counter
  <2>1. usernameMaps[v] \in Nat /\ usernameMaps[v] <= Cardinality(Entered)
    BY <1>1 DEF ChatInv, WeakTypeOK, CountersBounded
  <2>2. Cardinality(Entered) + 1 <= Cardinality(Client) /\ Cardinality(Client) \in Nat
    BY OneMore
  <2> QED
    BY <2>1, <2>2, EnteredFinite DEF Counter
<1>3. CASE usernameMaps[v] = 0
  BY <1>1, <1>3 DEF NewName
<1>4. CASE usernameMaps[v] # 0
  <2>1. NewName(v) = Numbered(v, usernameMaps[v])
    BY <1>4 DEF NewName
  <2>2. NewName(v) \in {Numbered(w, k) : w \in Choice, k \in Counter}
    BY <1>2, <2>1
  <2> QED
    BY <1>1, <2>2, ChatAssumption DEF Name, Plain
<1> QED
  BY <1>3, <1>4
-----------------------------------------------------------------------------
LEMMA InitChat == Init => ChatInv
BY ChatAssumption, EnteredFinite
DEF Init, ChatInv, WeakTypeOK, SessionKnown, NamesInSessions, CountersBounded,
    PlainCounted, PlainNameOnce, Nobody, Room, Value

(* The handlers' steps leave names and counters alone. *)
LEMMA QuietStep ==
  ASSUME ChatInv, Stop \/ UNCHANGED chatVars
  PROVE  ChatInv'
<1>1. /\ UNCHANGED <<at, line, lines, closed, sessions, username, usernameMaps>>
      /\ listening' \in {FALSE, listening}
  BY DEF Stop, chatVars, handlerVars
<1>2. Entered' = Entered /\ Room' = Room /\ WeakTypeOK' /\ SessionKnown'
  BY <1>1 DEF Entered, Room, ChatInv, WeakTypeOK, SessionKnown
<1> QED
  BY <1>1, <1>2
  DEF ChatInv, NamesInSessions, CountersBounded, PlainCounted, PlainNameOnce, Plain

LEMMA HandlerStep ==
  ASSUME ChatInv, NEW c \in Client,
         Accept(c) \/ HangUp(c) \/ ReadString(c) \/ ReadFails(c)
  PROVE  ChatInv'
<1>1. UNCHANGED <<sessions, username, usernameMaps>>
  BY DEF Accept, HangUp, ReadString, ReadFails
<1>2. /\ \A d \in Client : at'[d] = "done" <=> at[d] = "done"
      /\ SessionKnown'
      /\ WeakTypeOK'
  BY <1>1, ChatAssumption DEF ChatInv, WeakTypeOK, SessionKnown, Accept, HangUp, ReadString, ReadFails,
              GoTo
<1>3. Entered' = Entered
  BY <1>1, <1>2 DEF Entered
<1>4. Room' = Room
  BY <1>1 DEF Room
<1> QED
  BY <1>1, <1>2, <1>3, <1>4
  DEF ChatInv, NamesInSessions, CountersBounded, PlainCounted, PlainNameOnce, Plain

(* A session without a name changes nothing either. *)
LEMMA NamelessStep ==
  ASSUME ChatInv, NEW c \in Client, Connected(c) \/ Refuse(c) \/ Say(c)
  PROVE  ChatInv'
<1>1. UNCHANGED <<username, usernameMaps>> /\ sessions \subseteq sessions'
  BY DEF Connected, Refuse, Say, MessageFrom
<1>2. /\ \A d \in Client : at'[d] = "done" <=> at[d] = "done"
      /\ SessionKnown'
      /\ WeakTypeOK'
  BY <1>1 DEF ChatInv, WeakTypeOK, SessionKnown, Connected, Refuse, Say, MessageFrom, GoTo, Value
<1>3. Entered' = Entered
  BY <1>1, <1>2 DEF Entered
<1>4. Room' = Room
  BY <1>1, <1>2 DEF Room, ChatInv, NamesInSessions, WeakTypeOK
<1> QED
  BY <1>1, <1>2, <1>3, <1>4
  DEF ChatInv, NamesInSessions, CountersBounded, PlainCounted, PlainNameOnce, Plain

(* Someone enters: with a name of their own, or a numbered one. *)
LEMMA EnterStep ==
  ASSUME ChatInv, NEW c \in Client, Enter(c)
  PROVE  ChatInv'
<1> DEFINE v == line[c]
           n == NewName(v)
<1>1. /\ v \in Choice /\ c \notin Entered /\ at[c] = "send" /\ c \in sessions
      /\ username' = [username EXCEPT ![c] = n]
      /\ usernameMaps' = [usernameMaps EXCEPT ![v] = @ + 1]
      /\ sessions' = sessions
      /\ at' = [at EXCEPT ![c] = "read"]
      /\ line' = [line EXCEPT ![c] = Empty]
      /\ UNCHANGED <<lines, closed, listening>>
  BY DEF Enter, MessageFrom, NameTaken, GoTo, Entered, ChatInv, SessionKnown
<1>2. n \in Name /\ n # Empty /\ v \in Name /\ (Plain(n) => n = v /\ usernameMaps[v] = 0)
  BY <1>1, NewNameIsName
<1> HIDE DEF v, n
<1>3. WeakTypeOK' /\ SessionKnown' /\ NamesInSessions'
  BY <1>1, <1>2 DEF ChatInv, WeakTypeOK, SessionKnown, NamesInSessions, Value
<1>4. Entered' = Entered \cup {c} /\ Room' = Room \cup {c} /\ c \notin Room
  BY <1>1, <1>2 DEF Entered, Room, ChatInv, WeakTypeOK
<1>5. CountersBounded'
  <2>1. Cardinality(Entered') = Cardinality(Entered) + 1
    BY <1>1, <1>4, OneMore
  <2> QED
    BY <2>1, <1>1, EnteredFinite DEF CountersBounded, ChatInv, WeakTypeOK
<1>6. PlainCounted'
  <2> SUFFICES ASSUME NEW d \in Room', Plain(username'[d])
               PROVE  usernameMaps'[username'[d]] > 0
    BY DEF PlainCounted, Plain
  <2>1. CASE d = c
    BY <2>1, <1>1, <1>2 DEF ChatInv, WeakTypeOK
  <2>2. CASE d # c
    BY <2>2, <1>1, <1>4 DEF ChatInv, WeakTypeOK, PlainCounted, Room
  <2> QED
    BY <2>1, <2>2
<1>7. PlainNameOnce'
  <2> SUFFICES ASSUME NEW d \in Room', NEW e \in Room', username'[d] = username'[e],
                      Plain(username'[d])
               PROVE  d = e
    BY DEF PlainNameOnce, Plain
  <2>1. ASSUME NEW f \in Room, username[f] = n, Plain(n)
        PROVE  FALSE
    BY <2>1, <1>2 DEF ChatInv, PlainCounted
  <2>2. CASE d = c /\ e = c
    BY <2>2
  <2>3. CASE d = c /\ e # c
    BY <2>1, <2>3, <1>1, <1>4 DEF ChatInv, WeakTypeOK
  <2>4. CASE d # c /\ e = c
    BY <2>1, <2>4, <1>1, <1>4 DEF ChatInv, WeakTypeOK
  <2>5. CASE d # c /\ e # c
    BY <2>5, <1>1, <1>4 DEF ChatInv, WeakTypeOK, PlainNameOnce, Plain
  <2> QED
    BY <2>2, <2>3, <2>4, <2>5
<1> QED
  BY <1>3, <1>5, <1>6, <1>7 DEF ChatInv

(* Someone leaves: a counter that the others need is not touched. *)
LEMMA LeaveStep ==
  ASSUME ChatInv, NEW c \in Client, Disconnected(c)
  PROVE  ChatInv'
<1> DEFINE n == username[c]
<1>1. /\ at[c] = "leave" /\ at' = [at EXCEPT ![c] = "done"]
      /\ sessions' = sessions \ {c} /\ closed' = closed \cup {c}
      /\ username' = [username EXCEPT ![c] = Empty]
      /\ UNCHANGED <<line, lines, listening>>
  BY DEF Disconnected, GoTo
<1>2. \/ n = Empty /\ usernameMaps' = usernameMaps
      \/ n # Empty /\ usernameMaps' = NameLeft(n)
  BY DEF Disconnected
<1>3. usernameMaps' \in [Name -> Nat] /\ \A m \in Name : usernameMaps'[m] <= usernameMaps[m]
  BY <1>2 DEF NameLeft, ChatInv, WeakTypeOK
<1>4. \A m \in Name : m # n => usernameMaps'[m] = usernameMaps[m]
  BY <1>2 DEF NameLeft, ChatInv, WeakTypeOK
<1>5. c \in Room <=> n # Empty
  BY DEF Room, ChatInv, NamesInSessions
<1> HIDE DEF n
<1>6. WeakTypeOK' /\ SessionKnown' /\ NamesInSessions'
  BY <1>1, <1>3 DEF ChatInv, WeakTypeOK, SessionKnown, NamesInSessions
<1>7. Room' = Room \ {c} /\ \A d \in Room' : username'[d] = username[d]
  BY <1>1 DEF Room, ChatInv, WeakTypeOK
<1>8. CountersBounded'
  <2>1. Entered' = Entered \cup {c}
    BY <1>1 DEF Entered, ChatInv, WeakTypeOK
  <2>2. Cardinality(Entered) <= Cardinality(Entered') /\ Cardinality(Entered') \in Nat
    <3>1. c \in Client /\ Entered \subseteq Entered' /\ Entered' \subseteq Client
      BY <2>1 DEF Entered
    <3>2. IsFiniteSet(Entered')
      BY <3>1, ChatAssumption, FS_Subset
    <3> QED
      BY <3>1, <3>2, FS_Subset, FS_CardinalityType
  <2> QED
    BY <2>2, <1>3, EnteredFinite DEF CountersBounded, ChatInv, WeakTypeOK
<1>9. PlainCounted'
  <2> SUFFICES ASSUME NEW d \in Room', Plain(username'[d])
               PROVE  usernameMaps'[username'[d]] > 0
    BY DEF PlainCounted, Plain
  <2>1. d \in Room /\ d # c /\ username'[d] = username[d] /\ username[d] \in Name
    BY <1>7 DEF Room, ChatInv, WeakTypeOK
  <2>2. usernameMaps[username[d]] > 0
    BY <2>1 DEF ChatInv, PlainCounted
  <2>3. username[d] # n
    BY <2>1, <1>5 DEF n, ChatInv, PlainNameOnce, Plain, Room
  <2> QED
    BY <2>1, <2>2, <2>3, <1>4
<1>10. PlainNameOnce'
  BY <1>7 DEF ChatInv, PlainNameOnce
<1> QED
  BY <1>6, <1>8, <1>9, <1>10 DEF ChatInv

LEMMA ChatInvHolds == ChatSafety => []ChatInv
<1>1. ChatInv /\ [Next]_chatVars => ChatInv'
  <2> SUFFICES ASSUME ChatInv, [Next]_chatVars
               PROVE  ChatInv'
    OBVIOUS
  <2>1. ASSUME NEW c \in Client, Enter(c)
        PROVE  ChatInv'
    BY <2>1, EnterStep
  <2>2. ASSUME NEW c \in Client, Disconnected(c)
        PROVE  ChatInv'
    BY <2>2, LeaveStep
  <2>3. ASSUME NEW c \in Client, Connected(c) \/ Refuse(c) \/ Say(c)
        PROVE  ChatInv'
    BY <2>3, NamelessStep
  <2>4. ASSUME NEW c \in Client,
               Accept(c) \/ HangUp(c) \/ ReadString(c) \/ ReadFails(c)
        PROVE  ChatInv'
    BY <2>4, HandlerStep
  <2>5. CASE Stop \/ UNCHANGED chatVars
    BY <2>5, QuietStep
  <2> QED
    BY <2>1, <2>2, <2>3, <2>4, <2>5 DEF Next, Serve
<1> QED
  BY <1>1, InitChat, PTL DEF ChatSafety
-----------------------------------------------------------------------------
(* What the clients are told. *)

(* The others in the room who carry the name. *)
Others(c, n) == {d \in Room \ {c} : username[d] = n}

HeardInv ==
  /\ heard \in [Client -> [Name -> Int]]
  /\ RoomAgrees

LEMMA OthersFinite ==
  ASSUME NEW c \in Client, NEW n \in Name, sessions \in SUBSET Client
  PROVE  /\ IsFiniteSet(Others(c, n))
         /\ Cardinality(Others(c, n)) \in Counter
<1>1. Others(c, n) \in SUBSET Client
  BY DEF Others, Room
<1> QED
  BY <1>1, ChatAssumption, FS_Subset, FS_CardinalityType DEF Counter

LEMMA InitHeard == Init => HeardInv
BY DEF Init, HeardInv, RoomAgrees, Nobody, Room

(* Neither the room nor what anybody was told of it changes. *)
LEMMA HeardUnchanged ==
  ASSUME HeardInv, Room' = Room, UNCHANGED <<heard, username>>
  PROVE  HeardInv'
BY DEF HeardInv, RoomAgrees

LEMMA SameRoom ==
  ASSUME ChatInv, ChatInv', UNCHANGED username
  PROVE  Room' = Room
BY DEF ChatInv, WeakTypeOK, NamesInSessions, Room

LEMMA EnterHeard ==
  ASSUME ChatInv, HeardInv, NEW c \in Client, Enter(c)
  PROVE  HeardInv'
<1> DEFINE n == NewName(line[c])
<1>1. /\ line[c] \in Choice /\ c \notin Entered /\ c \in sessions /\ sessions' = sessions
      /\ username' = [username EXCEPT ![c] = n]
      /\ heard' = ToldEntered(c, n, Room)
  BY DEF Enter, MessageFrom, Entered, ChatInv, SessionKnown
<1>2. n \in Name /\ n # Empty
  BY <1>1, NewNameIsName
<1> HIDE DEF n
<1>3. /\ Room' = Room \cup {c} /\ c \notin Room
      /\ username'[c] = n /\ \A d \in Room : username'[d] = username[d]
      /\ Room \subseteq Client /\ sessions \in SUBSET Client
  BY <1>1, <1>2 DEF Entered, Room, ChatInv, WeakTypeOK
<1>4. ASSUME NEW m \in Name
      PROVE  heard'[c][m] = Cardinality(Others(c, m)')
  <2>1. Others(c, m)' = {e \in Room : username[e] = m}
    BY <1>3 DEF Others
  <2> QED
    BY <2>1, <1>1 DEF ToldEntered
<1>5. ASSUME NEW d \in Room, NEW m \in Name
      PROVE  heard'[d][m] = Cardinality(Others(d, m)')
  <2>1. heard[d][m] = Cardinality(Others(d, m)) /\ d # c /\ d \in Client
    BY <1>3 DEF HeardInv, RoomAgrees, Others
  <2>2. CASE m = n
    <3>1. Others(d, m)' = Others(d, m) \cup {c} /\ c \notin Others(d, m)
      BY <1>3, <2>1, <2>2 DEF Others
    <3>2. Cardinality(Others(d, m)') = Cardinality(Others(d, m)) + 1
      BY <3>1, <1>3, <2>1, OthersFinite, FS_AddElement
    <3>3. heard'[d][m] = heard[d][m] + 1
      BY <1>1, <2>1, <2>2 DEF ToldEntered, HeardInv
    <3> QED
      BY <3>2, <3>3, <2>1
  <2>3. CASE m # n
    <3>1. Others(d, m)' = Others(d, m)
      BY <1>3, <2>1, <2>3 DEF Others
    <3>2. heard'[d][m] = heard[d][m]
      BY <1>1, <2>1, <2>3 DEF ToldEntered, HeardInv
    <3> QED
      BY <3>1, <3>2, <2>1
  <2> QED
    BY <2>2, <2>3
<1>6. ASSUME NEW d \in Client, d \notin Room', NEW m \in Name
      PROVE  heard'[d][m] = 0
  BY <1>6, <1>1, <1>3 DEF ToldEntered, HeardInv, RoomAgrees
<1>7. heard' \in [Client -> [Name -> Int]]
  <2>1. \A m \in Name : Cardinality({e \in Room : username[e] = m}) \in Int
    <3> TAKE m \in Name
    <3>1. {e \in Room : username[e] = m} = Others(c, m)
      BY <1>3 DEF Others
    <3>2. sessions \in SUBSET Client
      BY <1>3
    <3>3. Cardinality(Others(c, m)) \in Counter
      BY <3>2, OthersFinite
    <3>4. \A k \in Counter : k \in Int
      BY DEF Counter
    <3> QED
      BY <3>1, <3>3, <3>4
  <2>2. \A d \in Client : heard'[d] \in [Name -> Int]
    BY <2>1, <1>1, <1>2 DEF ToldEntered, HeardInv
  <2>3. heard' = [d \in Client |-> heard'[d]]
    BY <1>1 DEF ToldEntered
  <2> QED
    BY <2>2, <2>3
<1> QED
  BY <1>3, <1>4, <1>5, <1>6, <1>7 DEF HeardInv, RoomAgrees, Others

LEMMA LeaveHeard ==
  ASSUME ChatInv, HeardInv, NEW c \in Client, Disconnected(c)
  PROVE  HeardInv'
<1> DEFINE n == username[c]
<1>1. /\ Room' = Room \ {c} /\ \A d \in Room \ {c} : username'[d] = username[d]
      /\ sessions \in SUBSET Client /\ Room \subseteq Client
  BY DEF Disconnected, Room, ChatInv, WeakTypeOK
<1>2. CASE n = Empty
  <2>1. Room' = Room /\ UNCHANGED <<heard, username>>
    BY <1>2, <1>1 DEF Disconnected, Room, ChatInv, WeakTypeOK
  <2> QED
    BY <2>1, HeardUnchanged
<1>3. CASE n # Empty
  <2>1. /\ heard' = [ToldLeft(n, Room \ {c}) EXCEPT ![c] = Nobody]
        /\ c \in Room /\ n \in Name
    BY <1>3 DEF Disconnected, ChatInv, NamesInSessions, WeakTypeOK, Room
  <2>2. /\ heard'[c] = Nobody
        /\ \A d \in Room \ {c} : heard'[d] = [heard[d] EXCEPT ![n] = @ - 1]
        /\ \A d \in Client \ Room : heard'[d] = heard[d]
        /\ heard' = [d \in Client |-> heard'[d]]
    BY <2>1, <1>1 DEF ToldLeft
  <2> HIDE DEF n
  <2>3. \A d \in Client : heard[d] \in [Name -> Int]
    BY DEF HeardInv
  <2>4. \A d \in Room \ {c}, m \in Name :
          heard'[d][m] = IF m = n THEN heard[d][m] - 1 ELSE heard[d][m]
    <3> TAKE d \in Room \ {c}, m \in Name
    <3>1. d \in Client
      BY <1>1
    <3>2. heard'[d] = [heard[d] EXCEPT ![n] = @ - 1]
      BY <2>2
    <3>3. heard[d] \in [Name -> Int]
      BY <2>3, <3>1
    <3> QED
      BY <3>2, <3>3
  <2>5. \A m \in Name : heard'[c][m] = 0
    BY <2>2 DEF Nobody
  <2>6. ASSUME NEW d \in Room', NEW m \in Name
        PROVE  heard'[d][m] = Cardinality(Others(d, m)')
    <3>1. d \in Room \ {c} /\ d \in Client /\ heard[d][m] = Cardinality(Others(d, m))
      BY <1>1 DEF HeardInv, RoomAgrees, Others
    <3>2. CASE m = n
      <4>1. Others(d, m)' = Others(d, m) \ {c} /\ c \in Others(d, m)
        BY <1>1, <2>1, <3>1, <3>2 DEF Others, n
      <4>2. Cardinality(Others(d, m)') = Cardinality(Others(d, m)) - 1
        BY <4>1, <1>1, <3>1, OthersFinite, FS_RemoveElement
      <4>3. heard'[d][m] = heard[d][m] - 1
        BY <2>4, <3>1, <3>2
      <4> QED
        BY <4>2, <4>3, <3>1
    <3>3. CASE m # n
      <4>1. Others(d, m)' = Others(d, m)
        BY <1>1, <3>1, <3>3 DEF Others, n
      <4>2. heard'[d][m] = heard[d][m]
        BY <2>4, <3>1, <3>3
      <4> QED
        BY <4>1, <4>2, <3>1
    <3> QED
      BY <3>2, <3>3
  <2>7. ASSUME NEW d \in Client, d \notin Room', NEW m \in Name
        PROVE  heard'[d][m] = 0
    <3>1. CASE d = c
      BY <3>1, <2>5
    <3>2. CASE d # c
      <4>1. d \in Client \ Room
        BY <3>2, <2>7, <1>1
      <4>2. heard'[d] = heard[d]
        BY <4>1, <2>2
      <4>3. heard[d][m] = 0
        BY <4>1 DEF HeardInv, RoomAgrees
      <4> QED
        BY <4>2, <4>3
    <3> QED
      BY <3>1, <3>2
  <2>8. heard' \in [Client -> [Name -> Int]]
    <3>1. \A d \in Client : heard'[d] \in [Name -> Int]
      <4> TAKE d \in Client
      <4>1. CASE d = c
        BY <4>1, <2>2 DEF Nobody
      <4>2. CASE d \in Room \ {c}
        <5>1. heard'[d] = [heard[d] EXCEPT ![n] = @ - 1]
          BY <4>2, <2>2
        <5>2. heard[d] \in [Name -> Int]
          BY <2>3
        <5> QED
          BY <5>1, <5>2, <2>1
      <4>3. CASE d \notin Room
        <5>1. heard'[d] = heard[d]
          BY <4>3, <2>2
        <5> QED
          BY <5>1, <2>3
      <4> QED
        BY <4>1, <4>2, <4>3
    <3> QED
      BY <3>1, <2>2
  <2> QED
    BY <1>1, <2>6, <2>7, <2>8 DEF HeardInv, RoomAgrees, Others
<1> QED
  BY <1>2, <1>3

LEMMA HeardInvHolds == ChatSafety => [](ChatInv /\ HeardInv)
<1>1. ASSUME ChatInv, ChatInv', HeardInv, [Next]_chatVars
      PROVE  HeardInv'
  <2>1. ASSUME NEW c \in Client, Enter(c)
        PROVE  HeardInv'
    BY <1>1, <2>1, EnterHeard
  <2>2. ASSUME NEW c \in Client, Disconnected(c)
        PROVE  HeardInv'
    BY <1>1, <2>2, LeaveHeard
  <2>3. CASE UNCHANGED <<heard, username>>
    BY <1>1, <2>3, SameRoom, HeardUnchanged
  <2> QED
    BY <1>1, <2>1, <2>2, <2>3
    DEF Next, Serve, Stop, Accept, HangUp, ReadString, ReadFails, Connected, Refuse, Say, chatVars
<1> QED
  BY <1>1, InitHeard, ChatInvHolds, PTL DEF ChatSafety

StuckTyped == stuck \in Deaf \cup {NoClient}

LEMMA StuckHolds == ChatSafety => []StuckTyped
<1>1. Init => StuckTyped
  BY DEF Init, StuckTyped
<1>2. StuckTyped /\ [Next]_chatVars => StuckTyped'
  <2> SUFFICES ASSUME StuckTyped, [Next]_chatVars
               PROVE  StuckTyped'
    OBVIOUS
  <2>1. ASSUME NEW members, WriteTo(members)
        PROVE  StuckTyped'
    BY <2>1 DEF WriteTo, StuckTyped
  <2>2. ASSUME NEW c \in Client, Serve(c)
        PROVE  StuckTyped'
    BY <2>1, <2>2, Zenon DEF Serve
  <2>3. CASE UNCHANGED stuck
    BY <2>3 DEF StuckTyped
  <2> QED
    BY <2>2, <2>3 DEF Next, chatVars
<1> QED
  BY <1>1, <1>2, PTL DEF ChatSafety
-----------------------------------------------------------------------------
(* The goroutine never uses a session that is not there: whoever sends it a   *)
(* message or leaves has one (lines 70-72, 88-89).                            *)
THEOREM SessionAlwaysKnown == Spec => []SessionKnown
BY ChatInvHolds, PTL DEF ChatInv, Spec

(* A name that no numbering yields is carried by one client at most, for any  *)
(* clients, however they come, are refused and go (lines 70-80, 89-103).      *)
THEOREM PlainNameAlwaysOnce == Spec => []PlainNameOnce
BY ChatInvHolds, PTL DEF ChatInv, Spec

(* What each client in the room was told adds up to who is in it, name by     *)
(* name, also when names repeat (lines 81-85 and 104-116).                    *)
THEOREM RoomAlwaysAgrees == Spec => []RoomAgrees
BY HeardInvHolds, PTL DEF HeardInv, Spec

(* Type correctness: numbers stay below the number of clients. *)
THEOREM ChatTypeCorrect == Spec => []ChatTypeOK
<1>1. ASSUME ChatInv, HeardInv, StuckTyped
      PROVE  ChatTypeOK
  <2>1. usernameMaps \in [Name -> Counter]
    <3>1. \A n \in Name : usernameMaps[n] \in Counter
      BY <1>1, EnteredFinite, ChatAssumption, FS_CardinalityType
      DEF ChatInv, WeakTypeOK, CountersBounded, Counter
    <3> QED
      BY <1>1, <3>1 DEF ChatInv, WeakTypeOK
  <2>2. \A c \in Client, n \in Name : heard[c][n] \in Counter
    <3>1. \A c \in Client, n \in Name : Cardinality(Others(c, n)) \in Counter /\ 0 \in Counter
      BY <1>1, OthersFinite, ChatAssumption, FS_CardinalityType DEF ChatInv, WeakTypeOK, Counter
    <3> QED
      BY <1>1, <3>1 DEF HeardInv, RoomAgrees, Others
  <2>3. heard \in [Client -> [Name -> Counter]]
    BY <1>1, <2>2 DEF HeardInv
  <2> QED
    BY <1>1, <2>1, <2>3 DEF ChatTypeOK, ChatInv, WeakTypeOK, StuckTyped
<1> QED
  BY <1>1, HeardInvHolds, StuckHolds, PTL DEF Spec
=============================================================================
