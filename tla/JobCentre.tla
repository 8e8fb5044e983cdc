------------------------------ MODULE JobCentre ------------------------------
(***************************************************************************)
(* The whole job centre: the goroutine of JobStore, the connection         *)
(* handlers that feed it through the channel `messages', Start and Stop    *)
(* (jobcentre/jobcentre.go:145-168, 185-200, 372-429, and the accept loop  *)
(* server/tcp_server.go:33-72).                                            *)
(*                                                                         *)
(* A handler is at one of these places:                                    *)
(*   "none"   the connection has not been accepted                         *)
(*   "greet"  sending `connected' (line 380)                               *)
(*   "read"   waiting for a line (line 389)                                *)
(*   "send"   sending a request (line 427)                                 *)
(*   "leave"  sending `disconnected' from the deferred function (line 374) *)
(*   "done"   returned, the connection closed                              *)
(*                                                                         *)
(* No write to a client has a deadline.  A write to one of the clients in  *)
(* Deaf, which never read, may block the goroutine until that client hangs *)
(* up; the other clients read what they are sent.                          *)
(***************************************************************************)
EXTENDS JobStore

CONSTANTS Deaf,     \* the clients that do not read
          Unnamed,  \* the queue with the empty name
          Capacity, \* of the channel: 1024 in the code
          MaxLines  \* bound: lines read from all clients

(* The bounds of JobStore never hold the goroutine up. *)
ASSUME CentreAssumption ==
  /\ Deaf \subseteq Client
  /\ Unnamed \in Queue
  /\ 0 \in Priority
  /\ Capacity \in Nat \ {0}
  /\ MaxLines \in 0..MaxJobs /\ MaxLines \in 0..MaxWaiters /\ MaxLines \in 0..MaxCopies

VARIABLES
  at,        \* client -> the place its handler is at
  hungUp,    \* clients that closed their connection
  request,   \* client -> the type named by the last line that named one
  pending,   \* client -> the message its handler is sending
  messages,  \* the channel
  internal,  \* "none", "running" or "returned": the goroutine
  stuck,     \* the client the goroutine cannot finish a write to, or NoClient
  wg,        \* the wait group's counter
  starting,  \* "no", "accepting" or "returned": the call of Start
  stopping,  \* "no", "waiting", "closing" or "returned": the call of Stop
  lines      \* lines read

handlerVars == <<at, hungUp, request, pending, lines>>
lifeVars == <<internal, stuck, wg, starting, stopping>>
centreVars == <<storeVars, handlerVars, messages, lifeVars>>

HandlerPlace == {"none", "greet", "read", "send", "leave", "done"}
RequestType == {"put", "get", "abort", "delete"}

(* A decoded request.  Ids that were never handed out are ids too. *)
Body ==
  [kind : {"put"}, queue : Queue, priority : Priority]
    \cup [kind : {"get"}, queues : SUBSET Queue, wait : BOOLEAN]
    \cup [kind : {"abort", "delete"}, id : 0..MaxJobs]

(* `garbled': the line this message was made from was no JSON object.  The   *)
(* code does not note it.                                                    *)
Message(c, body, garbled) == [from |-> c, body |-> body, garbled |-> garbled]
Notice(c, kind) == Message(c, [kind |-> kind], FALSE)
NoMessage == [garbled |-> FALSE]

CentreTypeOK ==
  /\ StoreTypeOK
  /\ at \in [Client -> HandlerPlace]
  /\ hungUp \in SUBSET Client
  /\ request \in [Client -> RequestType \cup {"none"}]
  /\ \A c \in Client : IF at[c] = "send" THEN pending[c].from = c /\ pending[c].body \in Body
                                         ELSE pending[c] = NoMessage
  /\ Len(messages) <= Capacity
  /\ internal \in {"none", "running", "returned"}
  /\ stuck \in Deaf \cup {NoClient}
  /\ wg = (IF internal = "running" THEN 1 ELSE 0)
  /\ starting \in {"no", "accepting", "returned"}
  /\ stopping \in {"no", "waiting", "closing", "returned"}
-----------------------------------------------------------------------------
CentreInit ==
  /\ Init
  /\ at = [c \in Client |-> "none"]
  /\ hungUp = {}
  /\ request = [c \in Client |-> "none"]
  /\ pending = [c \in Client |-> NoMessage]
  /\ messages = <<>>
  /\ internal = "none" /\ stuck = NoClient /\ wg = 0
  /\ starting = "no" /\ stopping = "no"
  /\ lines = 0

GoTo(c, place) == at' = [at EXCEPT ![c] = place]

(* Mutant: the handler reads at once. *)
ReadFirst == "read"

FirstPlace == "greet"

(* The listener is open until Stop closes it. *)
Accept(c) ==
  /\ starting = "accepting"
  /\ stopping # "returned"
  /\ at[c] = "none"
  /\ GoTo(c, FirstPlace)
  /\ UNCHANGED <<storeVars, hungUp, request, pending, lines, messages, lifeVars>>

HangUp(c) ==
  /\ at[c] \notin {"none", "done"}
  /\ c \notin hungUp
  /\ hungUp' = hungUp \cup {c}
  /\ UNCHANGED <<storeVars, at, request, pending, lines, messages, lifeVars>>

(* A send on the channel waits for room. *)
SendMessage(m) ==
  /\ Len(messages) < Capacity
  /\ messages' = Append(messages, m)

Greet(c) ==
  /\ at[c] = "greet"
  /\ SendMessage(Notice(c, "connected"))
  /\ GoTo(c, "read")
  /\ UNCHANGED <<storeVars, hungUp, request, pending, lines, lifeVars>>

ReadLine(c) ==
  /\ at[c] = "read"
  /\ lines < MaxLines
  /\ lines' = lines + 1
  /\ UNCHANGED <<storeVars, hungUp, messages, lifeVars>>

(* The line is JSON: it names a type, or the type is still the last one.  A   *)
(* field of the wrong type is answered with an error, and the request is sent *)
(* on with that field zero or half decoded: a member of Body all the same.    *)
ReadRequest(c) ==
  /\ ReadLine(c)
  /\ \E body \in Body :
       /\ request' = [request EXCEPT ![c] = body.kind]
       /\ pending' = [pending EXCEPT ![c] = Message(c, body, FALSE)]
  /\ GoTo(c, "send")

(* The line names a type there is not. *)
ReadUnknown(c) ==
  /\ ReadLine(c)
  /\ request' = [request EXCEPT ![c] = "none"]
  /\ UNCHANGED <<at, pending>>

(* Mutant: what an earlier request of the type held is still there. *)
EarlierBody(kind) ==
  CHOOSE body \in Body :
    /\ body.kind = kind
    /\ kind = "put" => body.queue = Unnamed /\ body.priority = 0
    /\ kind = "get" => body.queues = {Unnamed} /\ body.wait
    /\ kind \in {"abort", "delete"} => body.id = 1

(* What new(PutRequest), and its like, hold before anything is decoded. *)
ZeroBody(kind) ==
  CHOOSE body \in Body :
    /\ body.kind = kind
    /\ kind = "put" => body.queue = Unnamed /\ body.priority = 0
    /\ kind = "get" => body.queues = {} /\ ~body.wait
    /\ kind \in {"abort", "delete"} => body.id = 0

(* The line is no JSON object: it is answered with an error, and then handled *)
(* as a request of the last type that was named, with an empty body.          *)
ReadGarbage(c) ==
  /\ ReadLine(c)
  /\ \/ /\ request[c] = "none"
        /\ UNCHANGED <<at, pending>>
     \/ /\ request[c] # "none"
        /\ pending' = [pending EXCEPT ![c] = Message(c, ZeroBody(request[c]), TRUE)]
        /\ GoTo(c, "send")
  /\ UNCHANGED request

(* The line is JSON, and its field `request' has a wrong type: it is answered *)
(* with an error, and then handled as a request of the last type that was     *)
(* named, with the other fields of the line.                                  *)
ReadMistyped(c) ==
  /\ ReadLine(c)
  /\ \/ /\ request[c] = "none"
        /\ UNCHANGED <<at, pending>>
     \/ /\ \E body \in Body :
             /\ body.kind = request[c]
             /\ pending' = [pending EXCEPT ![c] = Message(c, body, FALSE)]
        /\ GoTo(c, "send")
  /\ UNCHANGED request

Send(c) ==
  /\ at[c] = "send"
  /\ SendMessage(pending[c])
  /\ GoTo(c, "read")
  /\ pending' = [pending EXCEPT ![c] = NoMessage]
  /\ UNCHANGED <<storeVars, hungUp, request, lines, lifeVars>>

(* Mutant: nothing is deferred. *)
ReturnAtOnce == "done"

LastPlace == "leave"

(* A read from, or a write to, the closed connection fails. *)
ReadEnd(c) ==
  /\ at[c] = "read"
  /\ c \in hungUp
  /\ GoTo(c, LastPlace)
  /\ UNCHANGED <<storeVars, hungUp, request, pending, lines, messages, lifeVars>>

Leave(c) ==
  /\ at[c] = "leave"
  /\ SendMessage(Notice(c, "disconnected"))
  /\ GoTo(c, "done")
  /\ UNCHANGED <<storeVars, hungUp, request, pending, lines, lifeVars>>
-----------------------------------------------------------------------------
(* The goroutine. *)

(* The goroutine is in no write that waits for its client. *)
Unblocked == stuck \notin Client \ hungUp

(* The responses of this step are written, or one of the writes does not return. *)
WriteOut ==
  /\ stuck' \in {NoClient} \cup {out'[i].to : i \in 1..Len(out')}
  /\ stuck' = NoClient \/ stuck' \in Deaf \ hungUp

Handle(c, body) ==
  \/ body.kind = "connected" /\ Connected(c)
  \/ body.kind = "disconnected" /\ Disconnected(c)
  \/ body.kind = "put" /\ Put(c, body.queue, body.priority)
  \/ body.kind = "get" /\ Get(c, body.queues, body.wait)
  \/ body.kind = "abort" /\ Abort(c, body.id)
  \/ body.kind = "delete" /\ Delete(c, body.id)

Receive ==
  /\ internal = "running" /\ Unblocked
  /\ Idle
  /\ messages # <<>>
  /\ Handle(Head(messages).from, Head(messages).body)
  /\ WriteOut
  /\ messages' = Tail(messages)
  /\ UNCHANGED <<handlerVars, internal, wg, starting, stopping>>

(* The rest of a `disconnected' message: the select is not reached before. *)
Requeue ==
  /\ internal = "running" /\ Unblocked
  /\ RequeueJob \/ EndDisconnected
  /\ WriteOut
  /\ UNCHANGED <<handlerVars, messages, internal, wg, starting, stopping>>

Done == wg - 1

(* Mutant: Stop waits for the goroutine before it cancels the context. *)
CancelledLate == stopping \notin {"no", "waiting"}

(* ctx.Done() is ready from the call of cancel_ctx on.                        *)
Cancelled == stopping # "no"

(* When the channel has a message too, select chooses at random. *)
ShutDown ==
  /\ internal = "running" /\ Unblocked
  /\ Idle
  /\ Cancelled
  /\ internal' = "returned"
  /\ wg' = Done
  /\ UNCHANGED <<storeVars, handlerVars, messages, stuck, starting, stopping>>
-----------------------------------------------------------------------------
(* Start and Stop.  main runs Start in a goroutine of its own: Stop may come  *)
(* before it has begun, and then waits for nobody.                            *)

Start ==
  /\ starting = "no"
  /\ starting' = "accepting"
  /\ internal' = "running"
  /\ wg' = wg + 1
  /\ UNCHANGED <<storeVars, handlerVars, messages, stuck, stopping>>

StartReturns ==
  /\ starting = "accepting"
  /\ stopping = "returned"
  /\ starting' = "returned"
  /\ UNCHANGED <<storeVars, handlerVars, messages, internal, stuck, wg, stopping>>

Stop ==
  /\ stopping = "no"
  /\ stopping' = "waiting"
  /\ UNCHANGED <<storeVars, handlerVars, messages, internal, stuck, wg, starting>>

StopWaited ==
  /\ stopping = "waiting"
  /\ wg = 0
  /\ stopping' = "closing"
  /\ UNCHANGED <<storeVars, handlerVars, messages, internal, stuck, wg, starting>>

CloseListener ==
  /\ stopping = "closing"
  /\ stopping' = "returned"
  /\ UNCHANGED <<storeVars, handlerVars, messages, internal, stuck, wg, starting>>

CentreNext ==
  \/ \E c \in Client :
       \/ Accept(c) \/ HangUp(c)
       \/ Greet(c) \/ Send(c) \/ ReadEnd(c) \/ Leave(c)
       \/ ReadRequest(c) \/ ReadUnknown(c) \/ ReadGarbage(c) \/ ReadMistyped(c)
  \/ Receive \/ Requeue \/ ShutDown
  \/ Start \/ StartReturns \/ Stop \/ StopWaited \/ CloseListener

CentreSafety == CentreInit /\ [][CentreNext]_centreVars

(* Every goroutine that can run does in the end.  Senders that wait for room  *)
(* in a channel are served in turn, and select chooses at random among what   *)
(* is ready: an action of theirs that is enabled again and again is taken.    *)
(* Clients need not connect, send or hang up, and nobody need call Stop.      *)
CentreFairness ==
  /\ \A c \in Client :
       /\ SF_centreVars(Greet(c) \/ Send(c) \/ Leave(c))
       /\ WF_centreVars(ReadEnd(c))
  /\ WF_centreVars(Receive \/ Requeue)
  /\ SF_centreVars(ShutDown)
  /\ WF_centreVars(Start)
  /\ WF_centreVars(StopWaited \/ CloseListener)

CentreSpec == CentreSafety /\ CentreFairness
-----------------------------------------------------------------------------
(* Properties. *)

(* The message the goroutine takes next comes from a client it knows, and a   *)
(* greeting from one it has not seen: the three kinds of messages of a client *)
(* pass the channel in their order, whatever the other handlers send between  *)
(* them.  The guards of JobStore's actions rest on it.                        *)
SenderKnown ==
  Idle /\ messages # <<>> =>
    IF Head(messages).body.kind = "connected"
    THEN Head(messages).from \notin clients \cup departed
    ELSE Head(messages).from \in clients

(* A line that is no JSON object was answered with an error.  It is handled   *)
(* as a request all the same, and may put an empty job, but it never touches  *)
(* one that is there and makes nobody wait: no id is 0, no queue is searched, *)
(* and the zero `wait' is false.  Not so a JSON line whose `request' has the  *)
(* wrong type: it gets the same answer (393-398) and acts on its id (417).    *)
GarbageTouchesNoJob ==
  [][messages # <<>> /\ messages' = Tail(messages) /\ Head(messages).garbled =>
       /\ jobs \subseteq jobs'
       /\ \A j \in JobId : job'[j] = job[j]
       /\ Len(waiters') <= Len(waiters)]_centreVars

(* As long as no client that does not read holds the goroutine up for ever,   *)
(* the jobs of a client that hung up get free, through the handler's deferred *)
(* message and a full channel, unless the server is stopped first.            *)
JobsReleased ==
  []<>Unblocked =>
    \A c \in Client :
      c \in hungUp ~> stopping # "no" \/ (c \in departed /\ OwnedBy(c) = {})

(* On the same condition, Stop returns and the goroutine has returned, even   *)
(* when Stop was called before Start had added it to the wait group, and      *)
(* while handlers keep the channel full.                                      *)
StopReturns ==
  []<>Unblocked =>
    (stopping = "waiting" ~> stopping = "returned" /\ internal = "returned")
=============================================================================
