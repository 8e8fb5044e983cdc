# Verification of protohackers-go

`main.go` starts one of eight network servers by name and stops it at a
signal. This directory holds TLA+ models of the servers that have a logic of
their own, the instances TLC checks, and theorems the TLAPS proof system
checks. Lines are quoted as `file:line` below `src/`.

1. [Inventory](#1-inventory)
2. [Modules](#2-modules-and-the-code-they-model)
3. [Runs](#3-runs-bounds-and-what-they-show)
4. [Fairness and deadlock](#4-fairness-and-deadlock)
5. [Theorems](#5-theorems)
6. [Disagreements found, and other observations](#6-disagreements-and-observations)
7. [What is not modelled](#7-what-is-not-modelled)
8. [Plan](#8-plan)

## 1. Inventory

The servers share one shape. `server/tcp_server.go` accepts connections,
numbers them from 1 without ever reusing a number, and runs a handler goroutine
for each, after which it closes the connection. The servers with shared state
(job centre, traffic, chat, database) have one more goroutine that owns that
state; handlers talk to it over a channel. Nothing else is shared, so what is
hard is not data races: it is the *order* in which the owner meets the messages
of several connections, what it still knows of a connection that has gone, and
what happens to senders when nobody receives.

| component | state | operations | interaction |
|---|---|---|---|
| job centre, dispatcher (`jobcentre.go:185-370`) | jobs, their queues and owners, the clients, the waiters slice | connected, disconnected, put, get, abort, delete | sole receiver of `messages`; writes to connections |
| job centre, handlers and life cycle (`jobcentre.go:145-168, 372-429`) | per connection: the last request; the channel (1024), wait group, context | greet, read a line, send, farewell; Start, Stop | send to the dispatcher; Stop waits for it |
| traffic, dispatcher (`traffic.go:150-424`) | cameras, dispatchers, balancers per road, waiting tickets, ticketed days, readings | IAmCamera, IAmDispatcher, Plate, connected, disconnected, WantHeartbeat | sole receiver of `messages` (32); writes tickets |
| traffic, balancer (`balancer.go`) | a list of clients, an index | Add, Remove, Get | called by the dispatcher |
| traffic, handlers and heartbeats (`traffic.go:51-148, 174-189, 440-476`) | per connection: a ticker and its cancel function; wait group | parse packets; tick; Stop | write to the same connections as the dispatcher |
| chat (`chat.go`) | sessions, names, name counters | connected, disconnected, message | three channels without a buffer |
| UDP server and database (`udp_server.go`, `db.go`) | address to handler, last activity; the map | datagram, time-out; read, write, delete | handlers send to the map's goroutine and wait for answers |
| mob proxy (`mob.go`) | two connections, a channel (32), a context | copy and rewrite lines both ways | two readers, one writer |
| means, prime time, smoke test | one connection's own data | insert and mean; primality; echo | none |
| reader, packets, packet generator | none | decode and encode | used by traffic and means |
| main, TCP server | listener, signal | start, accept, stop | starts the others |

### What makes each correct

* **Job centre.** A submitted job is never lost and never at two workers; it
  changes hands only when its holder gives it back, disconnects, or somebody
  deletes it; a worker gets the job of the highest priority; a worker that
  waits is not forgotten; nobody is looked up after it has gone; the jobs of a
  worker that vanishes become free; Stop returns.
* **Traffic.** A car gets at most one ticket a day, every speeding pair of
  sightings leads to one, no ticket is unjustified, whatever the order reports
  arrive in; every ticket waits or is written once, to a dispatcher of its road.
  A client has one heartbeat, which ends with its connection or with the server.
* **Balancer.** It never reads outside its list and takes turns.
* **Wire format.** What one side marshals the other unmarshals, from a stream
  that arrives in any pieces.
* **Chat.** Each member can tell from what it was told who is in the room; the
  owner never uses a session that is not there; closed connections leave.
* **UDP server, database.** An address has one handler whose channel is open,
  requests of a handler keep their order, no handler holds up the server.
* **Proxy.** Each line is passed on once, rewritten, in order, until a side
  closes; then both connections close and every goroutine ends.
* **Means, prime time.** The answers are right at the edges of the integers.

### What is hard to test

`PROJECT.json` lists the hazards at their lines. The ones that shaped the
models: the loop that puts back a departed client's jobs while it consumes
waiters from a slice that shares its array with another variable
(`jobcentre.go:205-244`); requests, disconnections and hand-overs of several
clients in any order; writes without a deadline to clients that do not read
(`jobcentre.go:318`, `traffic.go:53`, `mob.go:177`); reports of several cameras
in any order, over several days, with readings thrown away in between
(`traffic.go:240-405`); dispatchers that come and go while tickets wait
(`traffic.go:205-239, 371-421`); heartbeats that the map forgets without
cancelling them (`traffic.go:420`); a time-out that closes a channel the loop
may be about to send on (`udp_server.go:84-120`); names counted under one key
and released under another (`chat.go:75-103`).

## 2. Modules and the code they model

    WorkQueue  <=implemented by=  JobStore  <=implemented by=  JobCentre
                                     ^
                               JobStoreClients
    Balancer   <=EXTENDS=  Traffic             TrafficServer
               <=EXTENDS=  BalancerUse  <=
                                  Wire  <=  Parts
                             PrimeTime  <=
                                 Means  <=
    KeyValue   <=implemented by=  Database
    Relay      <=implemented by=  Proxy
    Chat

**`WorkQueue`** is the abstract promise of the job centre: each item is
available, at one worker, or removed. Workers join, submit, take, return, pass
on (only while quitting), quit, and leave when they hold nothing.

**`JobStore`** is the goroutine `internal`. Each `case` of its switch is an
action: `Connected`, `Put`, `Get` (`GetJob`, `GetWait`, `GetNothing`), `Abort`,
`Delete`, and `Disconnected`. The last one starts a loop over the jobs of the
departed client, of which each iteration is an action (`RequeueJob`), ended by
`EndDisconnected`; no other message is handled meanwhile (`Idle`). The heap
objects `Job` are `job`, the live ones `jobs`; a deleted object that is still
queued stays visible, as in the code. A queue is modelled by how many entries
it has for a job (`copies`), since an aborted job may be queued twice; which of
several jobs with equal priority comes first is left open. `waiters` is the
slice as the loop sees its backing array, and `inner` the length of the second
slice of that name that line 207 declares, so that `slices.DeleteFunc` and the
in-place removals are modelled by what they do to the shared array. `out` holds
the responses the step writes.

**`JobStoreClients`** adds one history variable, how many answers a client is
`owed`, for the two runs about comments the code does not keep.

**`JobCentre`** EXTENDS `JobStore` with the handlers (`at` is the place a
handler is at), the bounded channel, the context, wait group, Start and Stop.
`Receive` takes the head of the channel and does the whole action of
`JobStore` for it. `ReadGarbage` is a line that is no JSON object: the code
answers with an error and goes on with the request type of an earlier line and an
empty body. `ReadMistyped` is one whose field `request` has the wrong type: it gets
the same answer, and is handled as an earlier line's type with its own ids. Clients
in `Deaf` never read: a write to one may leave the goroutine `stuck` until that client hangs up.

**`Balancer`** has `Add`, `Remove`, `Get` as operators on a record like the Go
struct; **`BalancerUse`** is any sequence of calls on one, with the history that
says whose turn is due.

**`Traffic`** is the goroutine `handlingServer`; it uses the operators of
`Balancer` for its `road_dispatchers`. A packet is an action: `Connected`,
`IAmCamera`, `IAmDispatcher`, `PlateReport`, `Disconnected`; `HangUp` is the
moment the connection closes, which the goroutine does not see until it meets
the farewell in its channel. `seen` and `issued` are histories, which the slices
`plateReadings` and the waiting tickets point into. Speeds are compared by
cross multiplication of whole numbers.

**`TrafficServer`** is what surrounds that goroutine: the connection handlers,
the bounded channel, the heartbeat goroutines with the map of their cancel
functions, the wait group, Start and Stop, and writes that do not return. Here
the goroutine only knows of a packet whether it asks for a heartbeat, for none,
or may lead to a write to any client; what the packets mean is `Traffic`'s. A
beat that is written changes nothing; one to a client that does not read leaves
its goroutine inside the write (`BeatBlocks`), where it does not see its context.

**`Chat`** is the whole chat server. Its channels have no buffer, so a send, its
receive and what the goroutine does with it are one action. A name is a
sequence: what the user chose, and the number the server may put behind it, so
that a chosen name may equal a made-up one. `heard` is what the lines written to
a client add up to. `Serve` puts the writes of a step behind it: one to a client
in `Deaf` may leave the goroutine `stuck`. A step writes to several clients, of
which at most one holds it up: here as in `JobCentre`, what is left of the step's
writes after that client has hung up is taken to return.

**`KeyValue`** is the abstract promise of the database: one map, and sessions
whose requests are applied in their order, each at one moment before its answer.
**`Database`** is the UDP server's loop with its map of handlers in the order of
their deadlines, the handlers, the channel of events and the goroutine that owns
the map. Writing an answer may fail at any time, as `UDPClient.Write` does by its
deadline, an error or a short write, and must when the socket is closed or the
answer does not fit (`MustFail`). The channel `Msgs` has no buffer, so the loop's send and its receive are
one action (`HandOver`), and between the read and that action the loop is
`loop > 0`. A session of `KeyValue` is a *handler*, not an address: the mapping
gives it the events in the channel and the one it is sending.

**`Relay`** is the abstract promise of the proxy: two streams, wallets replaced,
nothing lost while both sides are there. **`Proxy`** is one connection: a reader
per side, the channel, the context, and the handler. A flush that fails shows at the
next message for that side (`Forward`, `FlushFails`, `Return`); a line in `Long`,
beyond the 4096 bytes a `bufio.Writer` holds, fails before its flush and ends the
handler at once (`WriteFails`). The mapping concatenates
what is in the channel, in the reader's hand and not yet read. **`Picking`** has the
operator with which this mapping and that of `Database` take the elements of one
sender out of the channel the senders share.

**`Wire`** has `Marshal` and `Unmarshal` as the generator's template makes them
for each type of field, over the three reads the generated code calls: `ReadByte`
and `ReadN` ask for everything in one `Read`, `ReadB` (`binary.Read`) reads on.
`Fields` and `FieldEnds` are the statements the template generates for the fields,
one after another: what has been written after each, and where each read ends; a
read that fails is the last, so every later one ends at `Failed` too. The sender
may stop inside a packet, and the stream arrives whole, cut in up to `MaxCuts`
places, or byte by byte. The values are what the fields can hold
(`WireAssumption`): integers of their width, strings and lists of at most 255, as
are all that the servers write, which they have read before or are short messages.

**`PrimeTime`** and **`Means`** are one connection each; the largest integers,
and the largest fraction of a float, are constants. `Loop` in `Means` is the loop
over the stored prices, of which `Round` is the body. **`Parts`** puts the four sequential parts side by side; its variable
`part` says which of them runs, as `main` starts one server.

`MC*` modules give the constants their values. Operators marked `Mutant:` are
not part of a specification: each is a plausible slip in the code that makes one
of the properties fail, and shows that the property depends on that line.

## 3. Runs, bounds and what they show

All runs are exhaustive for their instance.

| run | instance | properties |
|---|---|---|
| `job_store` | the dispatcher: 3 clients, 1 queue, 2 priorities, 2 jobs, 2 waiter entries, 2 copies; or the whole job centre: 2 clients, channel of 3, 4 lines | `WaitersConnected`, `NoJobStranded`, `HeldJobStays`, `OwnerTold`, `OnlyServedWaiterGoes`, `ImplementsWorkQueue`, `SenderKnown`, `GarbageTouchesNoJob` |
| `job_hand_over` | 3 clients, 2 jobs | `HandedToSomeoneWaiting`: violated |
| `job_put_back` | 3 clients, 2 jobs | `OnlyAssignedPutBack`: violated |
| `job_centre` | 2 clients of which one does not read, channel of 1, 2 lines | `JobsReleased`, `StopReturns` |
| `traffic` | 3 clients, 4 reports; "ticketing": 1 road, 1 plate, 3 positions, 4 times on 3 days; or "dispatching": 2 roads, 2 plates, 2 positions, 2 times | `OneTicketPerDay`, `NoSpeederEscapes`, `TicketsJustified`, `BalancersMatchDispatchers`, `TicketsConserved`, `NoTicketStranded`, `TicketsReachTheRoad` |
| `readings_cleaned` | as `traffic`, 3 reports | `ReadingsCleaned`: violated |
| `traffic_server` | 2 clients of which one does not read, channel of 1, 2 packets | `ServerTypeOK`, `OneHeartbeat`, `HeartbeatsEnd`, `StopReturns` |
| `chat` | 3 clients of which one does not read, 2 names of which one looks like the other numbered, 4 lines | `SessionKnown`, `RoomAgrees`, `PlainNameOnce`, `ClosedLeave` |
| `database` | 2 addresses, 1 key and `version`, 2 values, channel of 2, 2 handlers, 3 datagrams | `DatabaseTypeOK`, `ListedHandlersOpen`, `DatagramsTaken`, `RequestsFinished`, `ImplementsKeyValue` |
| `proxy` | 2 lines per side, channel of 1, a client that does not read | `ImplementsRelay`, `LinesArrive`, `EndReachesBoth`, `ReadersReturn` |
| `parts` | 4 items; 2 packets of 7 kinds; ints of 9 bits and floats of 6; 3 inserts of 4 bits | `IndexInRange`, `FairBetweenRemovals`, `PacketsArrive`, `OnlyCutStringsStop`, `PrimeRight`, `MeanRight` |
| `cut_strings` | as `parts`, with the packets of clients | `StopsForWantOfBytes`: violated |

What each shows beyond its properties' comments: `job_store` that the shared
array of two slices never drops the waiter of a connected client, never keeps
one of a departed client in the part that is read, and that the dispatcher is an
implementation of the work queue; and, with the handlers, that a client's greeting,
requests and farewell keep their order among another's, and that a garbled get,
abort, delete or put leaves a job alone that the same client has put before.
`job_centre`, `traffic_server` and `chat` that one
client that does not read is the only thing that keeps departed clients' jobs
owned, heartbeats running, closed ones in the room, or Stop from returning.
`database` that the map of handlers never holds a closed channel, and exactly
which handler stops the loop.
`proxy` that cancelling both directions loses lines only after an end.

Why these bounds. Three clients are what a hand-over needs: one that leaves, one
that is served, one whose waiter must survive. Two jobs make the loop over a
departed client's jobs run twice, with a slice already changed; two waiter
entries make a removal move another entry; two copies are an aborted job queued
twice. `MaxJobs`, `MaxWaiters`, `MaxCopies`, `MaxLines`, `MaxReports`,
`MaxPackets`, `MaxDatagrams`, `MaxHandlers`, `MaxSent` and `MaxInserts` are
guards on what clients do (and `MaxCuts` on the network), never on what a server
does with it, and each is named where the constant is declared. Three cameras at miles 0, 10 and 100 with
a limit of 1 make tickets of one to three days and pairs that are not speeding;
with four reports of one plate a day can be ticketed, cleaned, reported on again
and crossed by a longer pair (the scenario "ticketing" of `MCTraffic`). In "dispatching" two
roads with two plates give two tickets that wait for different or the same dispatchers. In `chat`,
four lines are a refusal, an entry after it and two more names, or three entries and something said.

In the part of `job_store` that has the handlers, a channel of three places holds
two messages of one client with one of the other before, between or behind them,
and four lines are a put, a second request about that job and a garbled line after
either. Its requests are of one priority and about the first job; what requests
mean is the other part's matter.

The channel of one place in `job_centre`, `traffic_server` and `proxy` is full after
one message, which is what the deferred sends, the readers and Stop have to survive;
the code's 1024 and 32 differ only in how long that takes. Two packets let a second `WantHeartbeat` replace or
end the first. In `database` two handlers are an address that times out and
comes back while its first handler still works, or two addresses; the third
datagram meets a handler that has failed. One of the two values is `Oversized`; in
`proxy` one of the two lines is `Long`.

In `parts`, an int of 9 bits and a float with a fraction of 6 stand for 64 and
53: as there, the fraction is longer than half an int, so a number whose root's
square may wrap is beyond it and even; it is more than two bits shorter than an
int, so conversions round; and the largest int is composite. Prices of 4 bits with sums of 8 stand for 32 and 64: three inserts
overflow a sum of 4 bits. One cut reaches every place inside a packet; strings cut
twice are cut once, and byte by byte is every cut.

Where a bound could hide something, the theorems of section 5 have none: every
safety property of every passing run is proved for any instance.

## 4. Fairness and deadlock

`JobCentre`, `TrafficServer`, `Chat`, `Database` and `Proxy` state fairness,
since they have liveness properties; everything else is safety.

* Weak fairness of the goroutines' own steps (receiving and serving messages,
  failing reads, writing answers, `HandOver`, `Forward`, the calls of Start and
  Stop once begun): the Go scheduler runs whatever can run.
* Strong fairness of a send on a bounded channel, and of what `select` may pick
  when a message is there too (`ShutDown`, `Return`, a heartbeat's context): a
  place in the channel, or the choice, may come and go. Go serves blocked senders
  in order, and `select` picks at random among the ready cases.
* In `Chat` a send is enabled from the moment the handler is there until it is
  received, so weak fairness is enough.

Clients owe nothing: no fairness on connecting, sending, hanging up or reading,
on time-outs, nor on calling Stop. The properties start from what has happened
(`c \in hungUp`, `stopping = "waiting"`, `loop > 0`, `ended # {}`).

The code sets no deadline on writes to TCP connections. Where that matters the
property has it as its condition, on the clients and not on the code:
`[]<>Unblocked` in `JobCentre` and `Chat` (no client keeps the goroutine in a
write for ever), `DeafGone` in `TrafficServer` (in the end every client that does not read
has hung up), `[]<>(handler \notin Stuck)` in `Proxy`. Without them the properties
fail, which is the code's behaviour.

`CHECK_DEADLOCK FALSE` stands in every run, because a bounded instance stops when
its jobs, lines, packets or reports are used up and all clients have gone.

## 5. Theorems

`tlapm` checks every proof below, from the named assumptions on the constants
(`ConstantsAssumption`, `CentreAssumption`, `TrafficAssumption`,
`TrafficServerAssumption`, `ChatAssumption`, `DatabaseAssumption`, `ProxyAssumption`,
`PrimeTimeAssumption`, `MeansAssumption`, `WireAssumption`), for all values of the constants.
These say that special values are not clients, that numbers are natural, that
capacities and the length of a day are not zero, that clients are finitely many
(chat), that no name is empty, that a line is a sequence (proxy), that the
values of packets fit their fields, and how the
widths of the integers are related (below).

**Job store** (`JobCentreProofs`, first part). `StoreInv` is inductive: the type invariant,
`WaitersConnected`, `NoJobStranded`, and `LeavingGone` (the client that is being
disconnected is no longer among the clients, and the second slice is empty when
no loop runs). The parts cannot be proved one by one: the recipient of a
response is a client only because a waiter that is served is connected, and that
rests on the departed client having no waiter left in the part of the array that
is still read. `CloseGap` and `RemoveWaiter` have lemmas of their own: they bring
no new element into the slice. The action properties follow from the invariant
and a case for each action. `OnlyServedWaitersGo` counts a client's entries in the
slice in use through each removal, by a bijection between the entries before and
after it, which is where the two slices of one array matter. The one step it says
less of is the end of the loop, where the outer slice is back and lists served
waiters again (section 6): there it says that none is lost.

`StoreImplementsWorkQueue`: under `StoreInv`, each action of
`JobStore` is the action of `WorkQueue` of its name, or leaves the mapped state
unchanged. The mapping is by `Place`: a job that is queued is available even if
its `owner` field is set. A put that hands the new job to a waiter leaves the job
queued, and maps to `Submit` alone. The loop at a disconnection maps to `PassOn`
or `Return`, and its end to `Leave`, which needs that the departed client owns
nothing that is not queued.

**Job centre** (`JobCentreProofs`, second part). `CentreInv` adds to `StoreInv` what the
channel may hold. `InOrder` is its core: for each client, the place its handler
is at, whether the dispatcher knows it, and the positions of its greeting, its
requests and its farewell in the channel fit together. From it the head of the
channel is always a message `JobStore` has an action for (`SenderAlwaysKnown`),
so every step of the composition is a step of `JobStore` or leaves its variables
alone: `CentreImplementsStore`, by which the theorems about `JobStore`, the
refinement of `WorkQueue` among them, hold of the job centre.
`GarbageNeverTouchesAJob` rests on the part that a message made from a garbled
line carries the zero body of its type.

**Balancer** (lemmas in `DataLemmas`, theorems in `PartsProofs`). `Sound`: no duplicates, and the index is below
the length or zero. Add, Remove and Get preserve it; Get returns a member; Add
and Remove change the members by the one item. `TurnInv` says
where the items are that had no turn since an item's last one: from the index,
around the end of the list, up to that item's place. When the index gets there,
none is left.

**Tickets** (`TrafficProofs`). `TicketInv` adds to `OneTicketPerDay` that the
two-level map marks exactly the days the tickets cover (`TicketsMarked`).
`SpeedingInv` gives `NoSpeederEscapes`: each sighting is still in the readings or
its day is marked (`SightingsAccounted`), marked days have a ticket
(`MarksBacked`), and a speeding pair has a marked day (`SpeedersMarked`). It
holds although the cleaning loop skips readings (section 6), because a reading
that stays too long is harmless. `DispatchInv`: each road's balancer is `Sound`
and lists that road's dispatchers, and each ticket is in one waiting list or was
written once. The last four properties of `traffic` follow.

**Heartbeats** (`TrafficServerProofs`). `ServerInv`: a farewell is in the channel
only of a handler that has returned; the wait group's counter is the goroutine
and the heartbeats that have not returned, counted; and `EntryRight` for each
client: the entry of the map is a heartbeat of that client that nobody cancelled,
every other heartbeat of a client still served is cancelled or has returned, and
the entry runs as long as the connection holds and the server is not stopped. The
first part is needed because `Disconnected` drops an entry without cancelling it,
and would leave a served client with a heartbeat out of reach. That a Stop waits for
anybody is not part of `ServerTypeCorrect`: one that comes before Start finds the
counter at zero.

**Chat** (`ChatProofs`). `ChatInv`: a name that no numbering yields keeps a
counter above zero while somebody carries it (`PlainCounted`), and counters stay
at or below the number of clients that ever entered (`CountersBounded`). With it,
`HeardInv` shows `RoomAgrees`, by counting the others who carry a name.

**Database** (`DatabaseProofs`). `LoopInv`: listed handlers were started, have
addresses of their own and open channels, and the one the loop sends to is
listed. It needs that moving a handler to the end permutes the list
(`MovedToEnd`). `HandlerInv` and `EventInv` tie a handler's place to its request
and value: a read in the channel is of a handler that waits, and of no handler
twice, so the answer finds its handler waiting.

`DatabaseImplementsKeyValue`: under these invariants each step is a step of
`KeyValue` or leaves the mapped state alone. A handler's pending requests are
those in its events, and the one it works on. What makes it hold is that a handler
puts its own event at the end of the channel and after a read sends nothing more until
it has the answer, so a read in the channel is the last event of its handler, and the answer it
is handed is the value the map has at the moment the read was applied.

**Proxy** (`ProxyProofs`). `ProxyInv`: a reader holds a line exactly while it
sends it (`LinesTyped`), and a writer is broken, the context cancelled or the
handler gone only after a side has ended (`FailuresExplained`), without which the
proxy might close first. `ProxyImplementsRelay`: reading a line and sending it to
the channel move it between the three stages of the mapping and change nothing in
their concatenation; `Forward` takes the head of the channel, which is the first
line of its side's stream and of no other's; `Return` and `WriteFails` close, which
drops what is on its way in both directions. It is a safety theorem: that lines
arrive while both sides are there is `LinesArrive`, which TLC checks.

Both refinements cut a shared channel into the streams of its senders. `DataLemmas`
has what `Picked` does when an element is appended (`StreamAppend`), taken off the
front (`StreamTail`) or changed elsewhere; it also has `MinElement`, that a
non-empty set of numbers has a smallest element, which stands in for induction in
the next paragraph, and the lemmas on the balancer's list.

**Prime time** (`PartsProofs`). The widths are related as 2^63 - 1 and 2^53 are:
the largest int is odd and composite, four times the fraction is no more than the
ints, and a float is a fraction times 1, 2 or a multiple of 4
(`PrimeTimeAssumption`). A composite number has a divisor up to its root, so the
test meets one before a square can wrap (`CompositeRefused`). For a prime the test
must get past the root, whose square is at most 3n + 1; it cannot wrap if n is 2
or below the fraction (`PrimeAccepted`), and every float that is odd is
(`FloatShape`). Floats no int holds become one of the two limits, neither of which
is a prime.

**Means** (`PartsProofs`). `MeansInv`: an answer is `Mean` of what is stored, and
what is stored is whole until the stream ends. `RoundRight` says that after each
round the code's sum and count are the true ones and the sum is within count
times the limits of a price; that no round is the first to break it is shown with
`MinElement`, as is that the recursive functions exist (`Recursion`). The
assumption `MaxInt32 * (MaxInt32 + 1) <= MaxInt64` is true of 31 and 63 bits. The
bound `MaxInserts` is at most `MaxInt32`: the code's `count` is an int32 too, and
wraps with more stored prices than that.

**Wire format** (`PartsProofs`, last part). `Number` undoes `BigEndian`
(`BigEndianRead`), so a field whose bytes are in the stream is read back, and fails
only for want of bytes or, if it is a string, when it is cut after its length
(`FieldRead`). `PacketRead` goes from field to field: each begins where the one
before ended, and only the first can be a string. `WireInv` is then inductive: the
stream begins with what was sent and may end with the beginning of one more packet
(`Sending`), the reader stands where a packet ends (`Taking`), and
`OnlyCutStringsStop`. `PacketsArrive` needs all three: the next byte the reader
takes is an opcode only because of where it stands, and an unfinished packet makes
nothing only because a read that wants more than the stream has fails. The values
of recursive functions come from `Recursion`, and what holds at every index from
`Climb`, which takes the place of an induction over a set of numbers; both rest on
`MinElement`.

| theorem | property |
|---|---|
| `WaitersStayConnected`, `JobsNeverStranded`, `HeldJobsStay`, `OwnersAlwaysTold`, `OnlyServedWaitersGo` | the first five of `job_store`; `OwnerTold` both ways: no owner that was not told, and nobody told that is not the owner, the waiter of `Put` excepted |
| `StoreImplementsWorkQueue` | `ImplementsWorkQueue` |
| `SenderAlwaysKnown`, `GarbageNeverTouchesAJob` | the last two of `job_store` |
| `CentreImplementsStore` | that `JobCentre` implements `JobStore` |
| `IndexAlwaysInRange`, `TurnsAlwaysTaken` | `IndexInRange`, `FairBetweenRemovals` |
| `OneTicketEachDay`, `NoSpeederEverEscapes`, `TicketsAlwaysJustified` | the first three of `traffic` |
| `BalancersAlwaysMatch`, `TicketsAlwaysConserved`, `TicketsNeverStranded`, `TicketsGoToTheRoad` | the last four of `traffic` |
| `ServerTypeCorrect`, `AlwaysOneHeartbeat` | the first two of `traffic_server` |
| `ListedStayOpen`, `DatabaseTyped`, `DatabaseImplementsKeyValue` | `ListedHandlersOpen`, `DatabaseTypeOK`, `ImplementsKeyValue` |
| `ProxyImplementsRelay` | `ImplementsRelay` |
| `PrimesAlwaysRight`, `MeansAlwaysRight` | `PrimeRight`, `MeanRight` |
| `PacketsAlwaysArrive`, `OnlyCutStringsEverStop` | `PacketsArrive`, `OnlyCutStringsStop` |
| `SessionAlwaysKnown`, `RoomAlwaysAgrees`, `PlainNameAlwaysOnce` | the first three of `chat` |
| `StoreTypeCorrect`, `CentreTypeCorrect`, `TrafficTypeCorrect`, `ChatTypeCorrect` | `StoreTypeOK`, `CentreTypeOK`, `TrafficTypeOK`, `ChatTypeOK`, which the runs need not repeat |

**Only model-checked:** liveness (`JobsReleased`, both `StopReturns`,
`ClosedLeave`, `HeartbeatsEnd`, `DatagramsTaken`, `RequestsFinished`,
`LinesArrive`, `EndReachesBoth`, `ReadersReturn`), which the prover cannot do
under fairness. The theorems of `PartsProofs` are about each part on its own
(`BalancerSpec`, `PrimeSpec`, `MeansSpec`, `WireSpec`), which is what the run
`parts` puts side by side.

## 6. Disagreements and observations

Four runs show the code doing other than a comment of the repository says. TLC
prints the shortest behaviour.

1. `job_hand_over`. "If there is someone waiting on that queue, give it to them"
   (`jobcentre.go:215`). Line 207 declares a new `waiters` in the case. The
   waiter that is served is removed from that one, and stays in the outer slice,
   so that it is handed another job later without waiting.
2. `job_put_back`. "If assigned jobs, put them back in their queue" (line 211).
   Abort (329-343) queues the job and leaves `job.owner` set, so the departure of
   that client queues it a second time.
3. `readings_cleaned`. "We must clean all the plate readings ..." (`traffic.go:
   396`). The loop removes an element and steps over the one that takes its
   place. No ticket is lost or doubled by it.
4. `cut_strings`. "ReadNBytes reads first N bytes from the reader and returns it.
   When can't read from enough bytes from the stream, it will throw an error."
   (`reader.go:80-81`). `ReadN` reads once and fails when that read returns fewer
   bytes (line 90), so a string of a packet that arrives in two pieces ends the
   connection although all of it is in the stream. Integers and lists may be cut
   anywhere (`OnlyCutStringsStop`).

Behaviour the models have and a reader should know:

* A put that finds a waiter sends it the job, but leaves the job queued and
  without an owner (`jobcentre.go:268-285`); a second client may be given it, and
  the first may not abort it. `ImplementsWorkQueue` therefore counts it available.
* After a garbled line a put, if that was the last request, puts an empty job of
  priority 0 in the queue without a name. A JSON line whose `request` has the wrong
  type is answered with an error, and still deletes or aborts the job it names if
  the last request was a delete or an abort.
* Delete takes a job out of its queue only if nobody owns it (`jobcentre.go:360`
  onwards). An aborted job keeps its owner, so after a delete it stays queued and a
  later get is answered with it. No comment or test says otherwise; `ImplementsWorkQueue`
  calls it removed.
* A ticket written to a connection that has just closed is gone: `sendTicket`'s
  error is ignored, and `TicketsConserved` counts calls.
* `Remove` of the balancer resets the index at each removal (`balancer.go:31`
  compares the wrong way round), so the first item may have a second turn before
  others have had one; `TestBalancerCanRoundRobin` (`balancer_test.go:10, 42`)
  does not remove in between. Between removals turns are taken
  (`FairBetweenRemovals`).
* Stop of the job centre, or of the traffic server, may run before Start has
  added to the wait group, and then waits for nobody.
* A heartbeat inside a write to a client that does not read does not see its
  context, and Stop waits for it.
* After an opcode there is not, the traffic server's handler writes the error and
  sends a nil packet on to the goroutine, which ignores it.
* Chat releases the counter of the name a session *has*, not of the name that was
  counted. With bob and bob1 in the room, bob leaves, and the next to choose bob
  is bob1 too. A user who chooses bob1 literally may also meet a made-up one.
  Hence `PlainNameOnce` speaks of names no numbering yields, and `RoomAgrees`
  counts names with their multiplicity.
* A chat client whose name was refused is closed but keeps its session, and
  enters if a further line it had sent is a good name; it leaves when its read
  fails.
* The UDP loop stands still for ever once it sends to a handler that failed to
  write an answer: by the deadline of ten seconds or an error of the system, or when
  the key and value of an answer fitted in a datagram and with the `"\r\n"` that the
  handler adds no longer do. Hence the exception in `DatagramsTaken`.
* Stop of the UDP server closes the socket and leaves the handlers, whose
  channels stay open, and the goroutine of the map.
* A read of `version` whose datagram ends in `"\r\n"` is a read of another key
  (`db.go:91` compares the message as it came).
* The message `delete` clears the whole map, and a key of that name can be
  written but not read.
* An address that times out gets a new handler while its old one may still have
  an event to send: the order of an address's requests is kept within a handler
  only, which is why `ImplementsKeyValue` has handlers as sessions.
* The proxy drops an unfinished last line; a reader that waits for a place in the
  full channel when the handler has returned waits for ever (`mob.go:130`;
  `ReadersReturn` has it as its exception).
* The means server handles a message that the end of the stream cuts off with
  zeros for what is missing. Such an insert counts in no answer; such a query is
  answered.
* Numbers beyond 2^53 reach the prime test as the floats they were rounded to.

## 7. What is not modelled

* **Smoke test**: `io.Copy` from a connection to itself.
* **The generator's parsing and formatting** (`genpackets.go`): it runs at build
  time. What it generates is in `Wire`.
* **Reads of `reader.go` and `counting_reader.go` no server calls**, and the
  balancer's `Index`, `ResetIndex` and `Reset`, which tests call.
* **A proxied server that cannot be dialled** (`mob.go:58-61`): the handler returns
  before it has started anything, and the client's connection is closed. `Proxy`
  begins once both connections are there.
* **Accept errors** other than the closed listener, the logger, flags, and the
  signal itself.
* **Data**: job bodies, JSON beyond what decides a handler's path, the text of
  chat lines, the regular expression of the proxy, the speed printed on a ticket
  (`traffic.go:355`, whose conversion is out of range above 655.35), rounding of
  `float32`.

## 8. Plan

Done, in this order: `WorkQueue`, `JobStore` and its proofs and refinement;
`JobStoreClients`; `Balancer`, `Traffic` and their proofs; `JobCentre`; `Chat`
and its proofs; `KeyValue` and `Database`; `Relay` and `Proxy`; `TrafficServer`
and its proofs; `Wire`, `PrimeTime`, `Means` and `Parts`; writes that block in
`JobCentre` and `Chat`, and the proofs of `JobCentre`; the turns of the balancer;
`DatabaseProofs` and `ProxyProofs` with their refinements; the proofs of
`PrimeTime`, `Means` and `Wire`.

What would come next:

1. `Traffic` under `TrafficServer`'s channel, as `JobStore` is under `JobCentre`'s,
   and the proof that it implements `Traffic`.
