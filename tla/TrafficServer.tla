---------------------------- MODULE TrafficServer ----------------------------
(***************************************************************************)
(* The life of the traffic server around the goroutine of Traffic: the     *)
(* connection handlers, the goroutines that send heartbeats, Start and     *)
(* Stop (traffic/traffic.go:45-136, 173-189, 407-421, 440-476, and the     *)
(* accept loop server/tcp_server.go:33-72).                                *)
(*                                                                         *)
(* A handler is at one of these places:                                    *)
(*   "none"    the connection has not been accepted                        *)
(*   "greet"   sending `connected' (line 65)                               *)
(*   "read"    reading a packet (line 72)                                  *)
(*   "refuse"  writing the error for an opcode there is not (line 124)     *)
(*   "send"    sending a packet (line 130)                                 *)
(*   "leave"   sending `disconnected' from the deferred function (line 59) *)
(*   "done"    returned, the connection closed                             *)
(* and a heartbeat goroutine is "ticking", "writing" (to a client that     *)
(* does not read) or "returned".  No write has a deadline.  A beat that is *)
(* written leaves the state as it is.                                      *)
(***************************************************************************)
EXTENDS Naturals, Sequences, FiniteSets

CONSTANTS
  Client,
  Deaf,        \* clients that do not read what they are sent
  NoClient,
  Capacity,    \* of the channel: 32 in the code
  MaxPackets   \* bound: packets read from all clients

ASSUME TrafficServerAssumption ==
  /\ Deaf \subseteq Client
  /\ NoClient \notin Client
  /\ Capacity \in Nat \ {0}
  /\ MaxPackets \in Nat

Beat == 1..MaxPackets

VARIABLES
  at,          \* client -> the place its handler is at
  hungUp,      \* clients that closed their connection
  pending,     \* client -> the packet its handler is sending
  packets,     \* packets read
  messages,    \* the channel
  internal,    \* "none", "running" or "returned": the goroutine of Traffic
  stuck,       \* the client the goroutine cannot finish a write to, or NoClient
  heartbeats,  \* client -> the heartbeat it can cancel; 0 if there is none
  owner,       \* heartbeat -> its client, for the heartbeats that were started
  beat,        \* heartbeat -> "ticking", "writing" or "returned"
  cancelled,   \* heartbeats whose own context was cancelled
  wg,          \* the wait group's counter
  starting,    \* "no", "accepting" or "returned": the call of Start
  stopping     \* "no", "waiting", "closing" or "returned": the call of Stop

handlerVars == <<at, hungUp, pending, packets>>
internalVars == <<internal, stuck, heartbeats>>
beatVars == <<owner, beat, cancelled>>
lifeVars == <<starting, stopping>>
serverVars == <<handlerVars, messages, internalVars, beatVars, wg, lifeVars>>

(* WantHeartbeat with and without an interval, the packets that Traffic       *)
(* models, and the nil packet that an unknown opcode leaves behind.           *)
Packet == {"want", "want none", "other", "nil"}

Running(g) == g \in DOMAIN owner /\ beat[g] # "returned"

ServerTypeOK ==
  /\ at \in [Client -> {"none", "greet", "read", "refuse", "send", "leave", "done"}]
  /\ \A c \in Client : pending[c] \in (IF at[c] = "send" THEN Packet ELSE {"none"})
  /\ Len(messages) <= Capacity
  /\ stuck \in Deaf \cup {NoClient}
  /\ heartbeats \in [Client -> 0..Len(owner)]
  /\ DOMAIN owner = DOMAIN beat /\ cancelled \subseteq DOMAIN owner
  /\ wg = (IF internal = "running" THEN 1 ELSE 0) + Cardinality({g \in DOMAIN owner : Running(g)})

Init ==
  /\ at = [c \in Client |-> "none"] /\ hungUp = {}
  /\ pending = [c \in Client |-> "none"] /\ packets = 0
  /\ messages = <<>>
  /\ internal = "none" /\ stuck = NoClient
  /\ heartbeats = [c \in Client |-> 0]
  /\ owner = <<>> /\ beat = <<>> /\ cancelled = {}
  /\ wg = 0 /\ starting = "no" /\ stopping = "no"
-----------------------------------------------------------------------------
(* The connections. *)

GoTo(c, place) == at' = [at EXCEPT ![c] = place]

(* The connection is open on both sides, and its client does not read. *)
Unread(c) == c \in Deaf \ hungUp /\ at[c] # "done"

Accept(c) ==
  /\ starting = "accepting" /\ stopping # "returned"
  /\ at[c] = "none"
  /\ GoTo(c, "greet")
  /\ UNCHANGED <<hungUp, pending, packets, messages, internalVars, beatVars, wg, lifeVars>>

HangUp(c) ==
  /\ at[c] \notin {"none", "done"}
  /\ c \notin hungUp
  /\ hungUp' = hungUp \cup {c}
  /\ UNCHANGED <<at, pending, packets, messages, internalVars, beatVars, wg, lifeVars>>

SendMessage(c, packet) ==
  /\ Len(messages) < Capacity
  /\ messages' = Append(messages, [client |-> c, packet |-> packet])

Greet(c) ==
  /\ at[c] = "greet"
  /\ SendMessage(c, "connected")
  /\ GoTo(c, "read")
  /\ UNCHANGED <<hungUp, pending, packets, internalVars, beatVars, wg, lifeVars>>

ReadPacket(c) ==
  /\ at[c] = "read"
  /\ packets < MaxPackets
  /\ packets' = packets + 1
  /\ \/ /\ pending' \in {[pending EXCEPT ![c] = p] : p \in Packet \ {"nil"}}
        /\ GoTo(c, "send")
     \/ GoTo(c, "refuse") /\ UNCHANGED pending
  /\ UNCHANGED <<hungUp, messages, internalVars, beatVars, wg, lifeVars>>

(* The error is written, and the nil packet goes on to the channel. *)
Refuse(c) ==
  /\ at[c] = "refuse"
  /\ ~Unread(c)
  /\ \/ pending' = [pending EXCEPT ![c] = "nil"] /\ GoTo(c, "send")
     \/ c \in hungUp /\ GoTo(c, "leave") /\ UNCHANGED pending
  /\ UNCHANGED <<hungUp, packets, messages, internalVars, beatVars, wg, lifeVars>>

Send(c) ==
  /\ at[c] = "send"
  /\ SendMessage(c, pending[c])
  /\ pending' = [pending EXCEPT ![c] = "none"]
  /\ GoTo(c, "read")
  /\ UNCHANGED <<hungUp, packets, internalVars, beatVars, wg, lifeVars>>

(* A read fails on the closed connection, or on a packet that comes in pieces.*)
ReadFails(c) ==
  /\ at[c] = "read"
  /\ GoTo(c, "leave")
  /\ UNCHANGED <<hungUp, pending, packets, messages, internalVars, beatVars, wg, lifeVars>>

(* The deferred calls: `disconnected' is sent, then the connection closed. *)
Leave(c) ==
  /\ at[c] = "leave"
  /\ SendMessage(c, "disconnected")
  /\ GoTo(c, "done")
  /\ UNCHANGED <<hungUp, pending, packets, internalVars, beatVars, wg, lifeVars>>
-----------------------------------------------------------------------------
(* The goroutine of Traffic. *)

(* Mutant: the goroutine is started without a call of Add. *)
NotAdded == wg

Added == wg + 1

(* Mutant: the map's entry is replaced and the old goroutine left alone. *)
NothingCancelled(c) == cancelled

OldCancelled(c) == cancelled \cup ({heartbeats[c]} \ {0})

WantHeartbeat(c, none) ==
  /\ cancelled' = OldCancelled(c)
  /\ \/ /\ none
        /\ heartbeats' = [heartbeats EXCEPT ![c] = 0]
        /\ UNCHANGED <<owner, beat, wg>>
     \/ /\ ~none
        /\ heartbeats' = [heartbeats EXCEPT ![c] = Len(owner) + 1]
        /\ owner' = Append(owner, c)
        /\ beat' = Append(beat, "ticking")
        /\ wg' = Added

(* A ticket or an error may be written to any client. *)
Write ==
  /\ stuck' \in {NoClient} \cup {c \in Client : Unread(c) /\ at[c] # "none"}
  /\ UNCHANGED <<heartbeats, beatVars, wg>>

(* Only the map forgets the heartbeat. *)
Disconnected(c) ==
  /\ heartbeats' = [heartbeats EXCEPT ![c] = 0]
  /\ UNCHANGED <<beatVars, wg>>

Receive ==
  /\ internal = "running" /\ (stuck = NoClient \/ ~Unread(stuck))
  /\ messages # <<>>
  /\ messages' = Tail(messages)
  /\ LET c == Head(messages).client
         packet == Head(messages).packet
     IN \/ packet = "want" /\ WantHeartbeat(c, FALSE) /\ stuck' = NoClient
        \/ packet = "want none" /\ WantHeartbeat(c, TRUE) /\ stuck' = NoClient
        \/ packet = "other" /\ Write
        \/ packet = "disconnected" /\ Disconnected(c) /\ stuck' = NoClient
        \/ /\ packet \in {"connected", "nil"}
           /\ stuck' = NoClient
           /\ UNCHANGED <<heartbeats, beatVars, wg>>
  /\ UNCHANGED <<handlerVars, internal, lifeVars>>

ShutDown ==
  /\ internal = "running" /\ (stuck = NoClient \/ ~Unread(stuck))
  /\ stopping # "no"
  /\ internal' = "returned"
  /\ wg' = wg - 1
  /\ UNCHANGED <<handlerVars, messages, stuck, heartbeats, beatVars, lifeVars>>
-----------------------------------------------------------------------------
(* A heartbeat. *)

(* Mutant: its context is not made from the server's. *)
OwnContextOnly(g) == g \in cancelled

(* Its context is done with the server's. *)
ContextDone(g) == g \in cancelled \/ stopping # "no"

(* Mutant: an error of a write is logged, and the goroutine ticks on. *)
TicksOn == "ticking"

AfterError == "returned"

Ends(g, state) ==
  /\ beat' = [beat EXCEPT ![g] = state]
  /\ wg' = IF state = "returned" THEN wg - 1 ELSE wg
  /\ UNCHANGED <<handlerVars, messages, internalVars, owner, cancelled, lifeVars>>

BeatBlocks(g) ==
  /\ g \in DOMAIN owner /\ beat[g] = "ticking"
  /\ Unread(owner[g])
  /\ beat' = [beat EXCEPT ![g] = "writing"]
  /\ UNCHANGED <<handlerVars, messages, internalVars, owner, cancelled, wg, lifeVars>>

(* A write fails once either side has closed the connection. *)
BeatFails(g) ==
  /\ Running(g)
  /\ owner[g] \in hungUp \/ at[owner[g]] = "done"
  /\ Ends(g, AfterError)

BeatReturns(g) ==
  /\ g \in DOMAIN owner /\ beat[g] = "ticking"
  /\ ContextDone(g)
  /\ Ends(g, "returned")
-----------------------------------------------------------------------------
(* Start and Stop, each called once. *)

Start ==
  /\ starting = "no"
  /\ starting' = "accepting"
  /\ internal' = "running"
  /\ wg' = wg + 1
  /\ UNCHANGED <<handlerVars, messages, stuck, heartbeats, beatVars, stopping>>

StartReturns ==
  /\ starting = "accepting" /\ stopping = "returned"
  /\ starting' = "returned"
  /\ UNCHANGED <<handlerVars, messages, internalVars, beatVars, wg, stopping>>

(* The context is cancelled, the group waited for, the listener closed. *)
Stop ==
  /\ \/ stopping = "no" /\ stopping' = "waiting"
     \/ stopping = "waiting" /\ wg = 0 /\ stopping' = "closing"
     \/ stopping = "closing" /\ stopping' = "returned"
  /\ UNCHANGED <<handlerVars, messages, internalVars, beatVars, wg, starting>>

Next ==
  \/ \E c \in Client :
       \/ Accept(c) \/ HangUp(c)
       \/ Greet(c) \/ ReadPacket(c) \/ Refuse(c) \/ Send(c) \/ ReadFails(c) \/ Leave(c)
  \/ Receive \/ ShutDown
  \/ \E g \in Beat : BeatBlocks(g) \/ BeatFails(g) \/ BeatReturns(g)
  \/ Start \/ StartReturns \/ Stop

Spec == Init /\ [][Next]_serverVars

(* Goroutines run when they can, tickers tick, senders that wait for room are *)
(* served in turn, and select picks at random.  No client need do anything,   *)
(* and nobody need call Stop.                                                 *)
Fairness ==
  /\ \A c \in Client :
       /\ SF_serverVars(Greet(c) \/ Send(c) \/ Leave(c))
       /\ WF_serverVars(c \in hungUp /\ (ReadFails(c) \/ Refuse(c)))
  /\ WF_serverVars(Receive)
  /\ SF_serverVars(ShutDown)
  /\ \A g \in Beat : WF_serverVars(BeatFails(g)) /\ SF_serverVars(BeatReturns(g))
  /\ WF_serverVars(Start)
  /\ WF_serverVars(stopping # "no" /\ Stop)

FairSpec == Spec /\ Fairness
-----------------------------------------------------------------------------
(* Properties. *)

(* The heartbeats of c that nothing has told to end. *)
Beating(c) == {g \in DOMAIN owner : Running(g) /\ owner[g] = c /\ g \notin cancelled}

(* A client that is still served has the one heartbeat the map can cancel, or *)
(* none, however often it asks, and as long as its connection holds and the   *)
(* server is not stopped the one it asked for last is running.                *)
OneHeartbeat ==
  \A c \in Client :
    /\ at[c] # "done" => Beating(c) \subseteq {heartbeats[c]}
    /\ heartbeats[c] # 0 /\ c \notin hungUp /\ at[c] # "done" /\ stopping = "no"
         => Beating(c) = {heartbeats[c]}

Quiet(c) == \A g \in Beat : Running(g) => owner[g] # c

(* In the end every client that does not read has hung up. *)
DeafGone == <>[](\A c \in Client : at[c] # "none" => ~Unread(c))

(* The heartbeats of a client that hung up end, although nobody cancels them. *)
HeartbeatsEnd ==
  DeafGone => \A c \in Client : c \in hungUp ~> stopping # "no" \/ []Quiet(c)

(* Stop returns with every goroutine of the group gone, when no client holds  *)
(* a write up for ever: a heartbeat that is inside its write does not see its *)
(* context.                                                                   *)
StopReturns ==
  DeafGone => (stopping = "waiting" ~> stopping = "returned" /\ wg = 0)
=============================================================================
