------------------------------ MODULE Database ------------------------------
(***************************************************************************)
(* The key-value database (db/db.go) on the UDP server it runs in          *)
(* (server/udp_server.go): the loop that reads datagrams and starts a      *)
(* handler for each address, the handlers, and the goroutine that owns the *)
(* map.                                                                    *)
(*                                                                         *)
(* The loop sends a datagram to its handler through the channel Msgs,      *)
(* which has no buffer.  A handler is at one of these places:              *)
(*   "none"      not started                                               *)
(*   "receive"   waiting for a datagram (db.go:58)                         *)
(*   "send"      sending an event to the goroutine (db.go:76, 86, 95)      *)
(*   "wait"      waiting for the answer to a read (db.go:96)               *)
(*   "answer"    writing the answer (db.go:111)                            *)
(*   "returned"  it saw Msgs closed (db.go:59)                             *)
(*   "failed"    it could not write an answer (db.go:112)                  *)
(*                                                                         *)
(* Datagrams come from any address in any order, so that loss, duplication *)
(* and reordering on their way are among the behaviours.                   *)
(***************************************************************************)
EXTENDS Integers, Sequences, Picking

CONSTANTS
  Addr, Key, Value,
  Version,       \* the key "version"
  Alpha,         \* its value
  Empty,         \* the zero value of a string, what a missing key yields
  Nothing,       \* no datagram, no value
  Oversized,     \* pairs of a key and a value that fit in a datagram when they
                 \* are written, and with the second "\r\n" no longer do
  Capacity,      \* of the channel of events: 128 in the code
  MaxHandlers,   \* bound: handlers started
  MaxDatagrams   \* bound: datagrams read

ASSUME DatabaseAssumption ==
  /\ Version \in Key
  /\ Oversized \subseteq Key \X Value
  /\ Nothing \notin Value \cup {Alpha, Empty}
  /\ Capacity \in Nat \ {0}
  /\ MaxHandlers \in Nat /\ MaxDatagrams \in Nat

Handler == 1..MaxHandlers

VARIABLES
  clients,  \* the handlers in the map, the longest without activity first
  peer,     \* handler -> its address, for the handlers that were started
  loop,     \* the handler the loop sends to; 0 while it reads, -1 once it has returned
  inHand,   \* the datagram the loop sends
  stopped,  \* the socket is closed
  taken,    \* datagrams read
  at,       \* handler -> the place it is at
  closed,   \* the handlers whose channel Msgs is closed
  request,  \* handler -> the request it is working on
  value,    \* handler -> the value it answers with
  ch,       \* the channel of events
  data      \* the map of the goroutine

loopVars == <<clients, peer, loop, inHand, stopped, taken, closed>>
handlerVars == <<at, request, value>>
databaseVars == <<loopVars, handlerVars, ch, data>>

(* A datagram with "=" is a write, the message "delete" clears the map, and   *)
(* anything else is a key to read.                                            *)
Request ==
  [op : {"write"}, key : Key, value : Value]
    \cup [op : {"read"}, key : Key] \cup [op : {"delete"}]

Erased == [k \in Key |-> Empty]

DatabaseTypeOK ==
  /\ \A i \in 1..Len(clients) : clients[i] \in DOMAIN peer
  /\ \E n \in 0..MaxHandlers : peer \in [1..n -> Addr]
  /\ loop \in -1..Len(peer)
  /\ IF loop > 0 THEN inHand \in Request ELSE inHand = Nothing
  /\ \A h \in Handler :
       /\ at[h] \in {"receive", "send", "wait", "answer", "returned", "failed"} <=> h <= Len(peer)
       /\ request[h] \in (IF at[h] \in {"send", "wait", "answer"} THEN Request ELSE {Nothing})
       /\ value[h] \in (IF at[h] = "answer" THEN Value \cup {Alpha, Empty} ELSE {Nothing})
  /\ Len(ch) <= Capacity
  /\ data \in [Key -> Value \cup {Empty}]

Init ==
  /\ clients = <<>> /\ peer = <<>>
  /\ loop = 0 /\ inHand = Nothing /\ stopped = FALSE /\ taken = 0
  /\ at = [h \in Handler |-> "none"]
  /\ closed = {}
  /\ request = [h \in Handler |-> Nothing]
  /\ value = [h \in Handler |-> Nothing]
  /\ ch = <<>> /\ data = Erased
-----------------------------------------------------------------------------
(* The loop of the UDP server. *)

HandlersOf(a) == {i \in 1..Len(clients) : peer[clients[i]] = a}

MovedToEnd(s, i) == Append(SubSeq(s, 1, i - 1) \o SubSeq(s, i + 1, Len(s)), s[i])

(* The read returns a datagram.  Its handler is the last active one now.      *)
ReadDatagram(a, r) ==
  /\ loop = 0 /\ ~stopped
  /\ taken < MaxDatagrams /\ taken' = taken + 1
  /\ inHand' = r
  /\ \/ \E i \in HandlersOf(a) :
          /\ loop' = clients[i]
          /\ clients' = MovedToEnd(clients, i)
          /\ UNCHANGED <<peer, at>>
     \/ /\ HandlersOf(a) = {}
        /\ Len(peer) < MaxHandlers
        /\ peer' = Append(peer, a)
        /\ loop' = Len(peer')
        /\ clients' = Append(clients, Len(peer'))
        /\ at' = [at EXCEPT ![Len(peer')] = "receive"]
  /\ UNCHANGED <<stopped, closed, request, value, ch, data>>

(* Mutant: the handler stays in the map. *)
StillListed == clients

OthersListed == Tail(clients)

(* The deadline of the address that has been silent longest passes.           *)
TimeOut ==
  /\ loop = 0 /\ ~stopped
  /\ clients # <<>>
  /\ closed' = closed \cup {Head(clients)}
  /\ clients' = OthersListed
  /\ UNCHANGED <<peer, loop, inHand, stopped, taken, handlerVars, ch, data>>

(* The send on Msgs and its receive, with what the handler makes of it: a     *)
(* write to "version" is skipped and a read of it answered at once.           *)
HandOver ==
  /\ loop > 0
  /\ at[loop] = "receive"
  /\ loop' = 0 /\ inHand' = Nothing
  /\ LET constant == inHand.op # "delete" /\ inHand.key = Version IN
       \/ /\ ~constant
          /\ at' = [at EXCEPT ![loop] = "send"]
          /\ request' = [request EXCEPT ![loop] = inHand]
          /\ UNCHANGED value
       \/ /\ constant /\ inHand.op = "read"
          /\ at' = [at EXCEPT ![loop] = "answer"]
          /\ request' = [request EXCEPT ![loop] = inHand]
          /\ value' = [value EXCEPT ![loop] = Alpha]
       \/ /\ constant /\ inHand.op = "write"
          /\ UNCHANGED handlerVars
  /\ UNCHANGED <<clients, peer, stopped, taken, closed, ch, data>>

(* Stop closes the socket, and nothing else. *)
Stop ==
  /\ ~stopped
  /\ stopped' = TRUE
  /\ UNCHANGED <<clients, peer, loop, inHand, taken, closed, handlerVars, ch, data>>

StartReturns ==
  /\ loop = 0 /\ stopped
  /\ loop' = -1
  /\ UNCHANGED <<clients, peer, inHand, stopped, taken, closed, handlerVars, ch, data>>
-----------------------------------------------------------------------------
(* The handlers and the goroutine of the map. *)

(* Mutant: an event that finds the channel full is dropped. *)
EnqueueOrDrop(e) == ch' = IF Len(ch) < Capacity THEN Append(ch, e) ELSE ch

Enqueue(e) == Len(ch) < Capacity /\ ch' = Append(ch, e)

SendEvent(h) ==
  /\ at[h] = "send"
  /\ Enqueue([from |-> h, request |-> request[h]])
  /\ \/ request[h].op = "read" /\ at' = [at EXCEPT ![h] = "wait"] /\ UNCHANGED request
     \/ /\ request[h].op # "read"
        /\ at' = [at EXCEPT ![h] = "receive"]
        /\ request' = [request EXCEPT ![h] = Nothing]
  /\ UNCHANGED <<loopVars, value, data>>

(* A datagram holds no more than 65507 bytes, and a closed socket sends none. *)
MustFail(h) == stopped \/ <<request[h].key, value[h]>> \in Oversized

(* Any other write may fail as well: by its deadline of ten seconds, by an    *)
(* error of the system, or because not all of it was sent.                    *)

WriteAnswer(h) ==
  /\ at[h] = "answer"
  /\ \/ at' = [at EXCEPT ![h] = "failed"]
     \/ ~MustFail(h) /\ at' = [at EXCEPT ![h] = "receive"]
  /\ request' = [request EXCEPT ![h] = Nothing]
  /\ value' = [value EXCEPT ![h] = Nothing]
  /\ UNCHANGED <<loopVars, ch, data>>

SeeClosed(h) ==
  /\ at[h] = "receive"
  /\ h \in closed
  /\ at' = [at EXCEPT ![h] = "returned"]
  /\ UNCHANGED <<loopVars, request, value, ch, data>>

(* Mutant: the new map is assigned to a new variable. *)
ShadowedMap == data

(* Mutant: no new map is made. *)
NilMap == [k \in {} |-> Empty]

Cleared == Erased

Serve ==
  /\ ch # <<>>
  /\ ch' = Tail(ch)
  /\ LET h == Head(ch).from
         r == Head(ch).request
     IN \/ /\ r.op = "write"
           /\ data' = [data EXCEPT ![r.key] = r.value]
           /\ UNCHANGED <<at, value>>
        \/ r.op = "delete" /\ data' = Cleared /\ UNCHANGED <<at, value>>
        \/ /\ r.op = "read"
           /\ at' = [at EXCEPT ![h] = "answer"]
           /\ value' = [value EXCEPT ![h] = data[r.key]]
           /\ UNCHANGED data
  /\ UNCHANGED <<loopVars, request>>

Next ==
  \/ \E a \in Addr, r \in Request : ReadDatagram(a, r)
  \/ TimeOut \/ HandOver \/ Stop \/ StartReturns
  \/ \E h \in Handler : SendEvent(h) \/ WriteAnswer(h) \/ SeeClosed(h)
  \/ Serve

(* The goroutines run when they can, and blocked senders are served in turn.  *)
(* Nobody need send a datagram, and time need not pass.                       *)
Fairness ==
  /\ WF_databaseVars(HandOver)
  /\ WF_databaseVars(Serve)
  /\ \A h \in Handler :
       /\ SF_databaseVars(SendEvent(h))
       /\ WF_databaseVars(WriteAnswer(h) \/ SeeClosed(h))

Spec == Init /\ [][Next]_databaseVars

FairSpec == Spec /\ Fairness
-----------------------------------------------------------------------------
(* Properties. *)

(* The map has one handler for an address, and its channel is open: nothing   *)
(* is sent on a closed channel, and none is closed twice, either of which     *)
(* would panic (udp_server.go:89, 120).                                       *)
ListedHandlersOpen ==
  /\ \A i, j \in 1..Len(clients) : peer[clients[i]] = peer[clients[j]] => i = j
  /\ \A i \in 1..Len(clients) : clients[i] \notin closed
  /\ loop > 0 => \E i \in 1..Len(clients) : clients[i] = loop

(* The loop hands every datagram over and reads on, whatever times out in the *)
(* meantime, except to a handler that failed to write an answer: nobody       *)
(* receives from that one's channel any more, and the loop stands still for   *)
(* every address.                                                             *)
DatagramsTaken ==
  loop > 0 ~> loop <= 0 \/ at[loop] = "failed"

(* A request that was handed over is finished, also when its handler times    *)
(* out, the socket is closed, or the loop stands still.                       *)
RequestsFinished ==
  \A h \in Handler : request[h] # Nothing ~> request[h] = Nothing

(* The database implements a map whose sessions are the handlers.  A session  *)
(* ends with a time-out: the next handler of the address is a session of its  *)
(* own, and may overtake what the last one has still to send.                 *)
RequestsOf(h) ==
  Picked([i \in 1..Len(ch) |-> ch[i].request], {i \in 1..Len(ch) : ch[i].from = h})
    \o (IF at[h] = "send" THEN <<request[h]>> ELSE <<>>)

KV == INSTANCE KeyValue WITH
  Session <- Handler,
  Reserved <- Version,
  Fixed <- Alpha,
  store <- data,
  pending <- [h \in Handler |-> RequestsOf(h)],
  answer <- value

ImplementsKeyValue == KV!Spec
=============================================================================
