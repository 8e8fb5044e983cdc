-------------------------------- MODULE Chat --------------------------------
(***************************************************************************)
(* The chat server, chat/chat.go: one goroutine, runChatServer, owns the   *)
(* sessions and the names; every connection has a handler that talks to it *)
(* over three channels without a buffer, so that a send and its receive    *)
(* are one step, in which the goroutine also does all it does with what it *)
(* received.                                                               *)
(*                                                                         *)
(* A handler is at one of these places:                                    *)
(*   "none"   the connection has not been accepted                         *)
(*   "greet"  sending on `connected' (line 145)                            *)
(*   "read"   waiting for a line (line 149)                                *)
(*   "send"   sending on `message' (line 157)                              *)
(*   "leave"  sending on `disconnected' from the deferred function (142)   *)
(*   "done"   returned                                                     *)
(*                                                                         *)
(* A name is a sequence: a name a user chose and the number the server may *)
(* have put behind it.  No write has a deadline: one to a client in Deaf,  *)
(* which never reads, may block the goroutine until that client hangs up.  *)
(***************************************************************************)
EXTENDS Naturals, Sequences, FiniteSets

CONSTANTS Client,   \* connections
          Choice,   \* lines that are valid names
          Prose,    \* a line that is no valid name, and not empty
          Deaf,     \* clients that do not read what they are sent
          NoClient,
          MaxLines  \* bound: lines read from all clients

Empty == <<>>
Value == Choice \cup {Prose, Empty}

(* fmt.Sprintf("%s%d", value, counter) *)
Numbered(value, counter) == Append(value, counter)

(* Counters grow by one for each client that enters, and each enters once. *)
Counter == 0..Cardinality(Client)
Name == Choice \cup {Numbered(v, k) : v \in Choice, k \in Counter}

ASSUME ChatAssumption ==
  /\ IsFiniteSet(Client)
  /\ Empty \notin Name \cup {Prose}
  /\ Prose \notin Choice
  /\ Deaf \subseteq Client /\ NoClient \notin Client
  /\ MaxLines \in Nat

VARIABLES
  at,           \* client -> the place its handler is at
  line,         \* client -> the line its handler is sending
  lines,        \* lines read
  closed,       \* clients whose connection was closed, by either side
  listening,    \* the listener is open
  sessions,     \* clients with a session
  username,     \* client -> its session's name, Empty while it has none
  usernameMaps, \* name -> its counter, 0 when the map has no such key
  heard,        \* client -> name -> people of that name in the room, as told
  stuck         \* the client the goroutine cannot finish a write to, or NoClient

handlerVars == <<at, line, lines, closed, listening>>
chatVars == <<handlerVars, sessions, username, usernameMaps, heard, stuck>>

Nobody == [n \in Name |-> 0]

(* The sessions that IsConnected() *)
Room == {c \in sessions : username[c] # Empty}

ChatTypeOK ==
  /\ at \in [Client -> {"none", "greet", "read", "send", "leave", "done"}]
  /\ line \in [Client -> Value]
  /\ lines \in 0..MaxLines
  /\ closed \in SUBSET Client
  /\ listening \in BOOLEAN
  /\ sessions \in SUBSET Client
  /\ username \in [Client -> Name \cup {Empty}]
  /\ usernameMaps \in [Name -> Counter]
  /\ heard \in [Client -> [Name -> Counter]]
  /\ stuck \in Deaf \cup {NoClient}
-----------------------------------------------------------------------------
Init ==
  /\ at = [c \in Client |-> "none"]
  /\ line = [c \in Client |-> Empty]
  /\ lines = 0
  /\ closed = {}
  /\ listening = TRUE
  /\ sessions = {}
  /\ username = [c \in Client |-> Empty]
  /\ usernameMaps = Nobody
  /\ heard = [c \in Client |-> Nobody]
  /\ stuck = NoClient

GoTo(c, place) == at' = [at EXCEPT ![c] = place]

(* The handlers, and what happens to their connections. *)

(* Mutant: the goroutine is not told. *)
AcceptUnannounced(c) ==
  /\ listening
  /\ at[c] = "none"
  /\ GoTo(c, "read")
  /\ UNCHANGED <<line, lines, closed, listening, sessions, username, usernameMaps, heard>>

Accept(c) ==
  /\ listening
  /\ at[c] = "none"
  /\ GoTo(c, "greet")
  /\ UNCHANGED <<line, lines, closed, listening, sessions, username, usernameMaps, heard>>

HangUp(c) ==
  /\ at[c] \notin {"none", "done"}
  /\ c \notin closed
  /\ closed' = closed \cup {c}
  /\ UNCHANGED <<at, line, lines, listening, sessions, username, usernameMaps, heard>>

(* Lines that arrived before the connection was closed are still read. *)
ReadString(c) ==
  /\ at[c] = "read"
  /\ lines < MaxLines
  /\ \E v \in Value : line' = [line EXCEPT ![c] = v]
  /\ lines' = lines + 1
  /\ GoTo(c, "send")
  /\ UNCHANGED <<closed, listening, sessions, username, usernameMaps, heard>>

(* Mutant: the handler returns, and nothing is deferred. *)
ReturnAtOnce(c) ==
  /\ at[c] = "read"
  /\ c \in closed
  /\ GoTo(c, "done")
  /\ UNCHANGED <<line, lines, closed, listening, sessions, username, usernameMaps, heard>>

ReadFails(c) ==
  /\ at[c] = "read"
  /\ c \in closed
  /\ GoTo(c, "leave")
  /\ UNCHANGED <<line, lines, closed, listening, sessions, username, usernameMaps, heard>>

(* Stop closes the listener and nothing else. *)
Stop ==
  /\ listening
  /\ listening' = FALSE
  /\ UNCHANGED <<at, line, lines, closed, sessions, username, usernameMaps, heard>>
-----------------------------------------------------------------------------
(* The goroutine. *)

Connected(c) ==
  /\ at[c] = "greet"
  /\ GoTo(c, "read")
  /\ sessions' = sessions \cup {c}
  /\ UNCHANGED <<line, lines, closed, listening, username, usernameMaps, heard>>

(* The counter looked up is that of the name the session has, which is not *)
(* the one that was counted if the server put a number behind it.          *)
NameLeft(n) == [usernameMaps EXCEPT ![n] = IF @ <= 1 THEN 0 ELSE @ - 1]

(* "* name has left the room" *)
ToldLeft(n, members) ==
  [d \in Client |-> IF d \in members THEN [heard[d] EXCEPT ![n] = @ - 1] ELSE heard[d]]

Disconnected(c) ==
  /\ at[c] = "leave"
  /\ GoTo(c, "done")
  /\ closed' = closed \cup {c}
  /\ sessions' = sessions \ {c}
  /\ username' = [username EXCEPT ![c] = Empty]
  /\ \/ /\ username[c] = Empty
        /\ UNCHANGED <<usernameMaps, heard>>
     \/ /\ username[c] # Empty
        /\ usernameMaps' = NameLeft(username[c])
        /\ heard' = [ToldLeft(username[c], Room \ {c}) EXCEPT ![c] = Nobody]
  /\ UNCHANGED <<line, lines, listening>>

MessageFrom(c) ==
  /\ at[c] = "send"
  /\ GoTo(c, "read")
  /\ line' = [line EXCEPT ![c] = Empty]
  /\ UNCHANGED <<lines, listening, sessions>>

(* The name is no good.  The session stays, and the next line may be a name. *)
Refuse(c) ==
  /\ MessageFrom(c)
  /\ username[c] = Empty
  /\ line[c] \notin Choice
  /\ closed' = closed \cup {c}
  /\ UNCHANGED <<username, usernameMaps, heard>>

(* Mutant: a name that is not numbered is not counted. *)
OnlyNumberedCounted(v) ==
  [usernameMaps EXCEPT ![v] = IF @ = 0 THEN 0 ELSE @ + 1]

NameTaken(v) == [usernameMaps EXCEPT ![v] = @ + 1]

NewName(v) ==
  IF usernameMaps[v] = 0 THEN v ELSE Numbered(v, usernameMaps[v])

(* Mutant: the newcomer is listed among those in the room. *)
ToldThemselves(c, n, members) ==
  [d \in Client |->
     IF d = c THEN [m \in Name |-> Cardinality({e \in members : username[e] = m})
                                     + (IF m = n THEN 1 ELSE 0)]
     ELSE IF d \in members THEN [heard[d] EXCEPT ![n] = @ + 1]
     ELSE heard[d]]

(* "* name has entered the room", and to the newcomer "* The room contains" *)
ToldEntered(c, n, members) ==
  [d \in Client |->
     IF d = c THEN [m \in Name |-> Cardinality({e \in members : username[e] = m})]
     ELSE IF d \in members THEN [heard[d] EXCEPT ![n] = @ + 1]
     ELSE heard[d]]

Enter(c) ==
  /\ MessageFrom(c)
  /\ username[c] = Empty
  /\ line[c] \in Choice
  /\ username' = [username EXCEPT ![c] = NewName(line[c])]
  /\ usernameMaps' = NameTaken(line[c])
  /\ heard' = ToldEntered(c, NewName(line[c]), Room)
  /\ UNCHANGED closed

(* What is said, or an empty line that is ignored, changes nothing here. *)
Say(c) ==
  /\ MessageFrom(c)
  /\ username[c] # Empty
  /\ UNCHANGED <<closed, username, usernameMaps, heard>>

(* The goroutine is in no write that waits for its client. *)
Unblocked == stuck \notin Client \ closed

(* The lines of this step are written, or one of the writes does not return. *)
WriteTo(members) == stuck' \in {NoClient} \cup ((members \cap Deaf) \ closed)

Serve(c) ==
  /\ Unblocked
  /\ \/ Connected(c) /\ WriteTo({c})
     \/ Disconnected(c) /\ WriteTo(IF username[c] = Empty THEN {} ELSE Room \ {c})
     \/ Refuse(c) /\ WriteTo({})
     \/ Enter(c) /\ WriteTo(Room \cup {c})
     \/ Say(c) /\ WriteTo(IF line[c] = Empty THEN {} ELSE Room \ {c})

Next ==
  \/ UNCHANGED stuck /\ Stop
  \/ \E c \in Client :
       UNCHANGED stuck /\ (Accept(c) \/ HangUp(c) \/ ReadString(c) \/ ReadFails(c))
  \/ \E c \in Client : Serve(c)

ChatSafety == Init /\ [][Next]_chatVars

(* A read from a closed connection fails once its lines are read.  A send has *)
(* to wait for the goroutine only while it does something else, and then for  *)
(* those that were there before it: `select' takes any channel that is ready  *)
(* with equal chance.  Clients need not read, send or hang up.                *)
Fairness == \A c \in Client : WF_chatVars((UNCHANGED stuck /\ ReadFails(c)) \/ Serve(c))

Spec == ChatSafety /\ Fairness
-----------------------------------------------------------------------------
(* Properties. *)

(* The goroutine looks a client up in `sessions' and uses what it finds       *)
(* unchecked (lines 70-72, 88-89): a handler that may still send a message or *)
(* its `disconnected' has a session, and a session has a handler.             *)
SessionKnown ==
  \A c \in Client : c \in sessions <=> at[c] \in {"read", "send", "leave"}

(* Whoever is in the room can tell from the lines of the server who else is,  *)
(* name by name, also when names repeat; who is not in the room is told       *)
(* nothing of it (lines 81-85 and 104-116).                                   *)
RoomAgrees ==
  \A c \in Client, n \in Name :
    heard[c][n] = IF c \in Room
                  THEN Cardinality({d \in Room \ {c} : username[d] = n})
                  ELSE 0

(* A name that no numbering yields is carried by one client at most, whoever  *)
(* left or was refused in between and whatever became of its counter.         *)
PlainNameOnce ==
  \A c, d \in Room :
    /\ username[c] = username[d]
    /\ username[c] \notin {Numbered(v, k) : v \in Choice, k \in Counter}
    => c = d

(* A client whose connection is closed leaves the room for good, also when it *)
(* was refused a name and entered all the same with a later line, unless      *)
(* somebody who does not read holds the goroutine up for ever.                *)
ClosedLeave ==
  []<>Unblocked => \A c \in Client : c \in closed ~> c \notin sessions /\ at[c] # "greet"
=============================================================================
