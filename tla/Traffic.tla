------------------------------- MODULE Traffic -------------------------------
(***************************************************************************)
(* The state the goroutine TrafficServer.handlingServer keeps for cameras, *)
(* dispatchers and tickets, and one action per packet it handles           *)
(* (traffic/traffic.go:150-424).  It alone reads and writes this state, so *)
(* a packet is one step.                                                   *)
(*                                                                         *)
(* A client's packets travel through one channel, in the order it sent     *)
(* them, so the order in which the goroutine meets the packets of several  *)
(* clients is any.  What the channel does add is time: a connection may be *)
(* closed while the goroutine has yet to meet `disconnected' (HangUp).     *)
(*                                                                         *)
(* Left out: heartbeats, the error packets a client gets for a packet of   *)
(* the wrong role (the connection stays open and no state changes), the    *)
(* ticket's speed field, and the rounding of float32: speeds are compared  *)
(* as whole numbers.                                                       *)
(***************************************************************************)
EXTENDS Naturals, Sequences, FiniteSets, FiniteSetsExt, Balancer

CONSTANTS Client,      \* connection ids; TCPServer.Start never reuses one
          Road,
          Plate,
          Announcement, \* the [road, mile, limit] a camera may announce
          Timestamp,   \* the times that are reported
          DaySeconds,  \* 86400
          MaxReports   \* bound: plate packets from cameras

ASSUME TrafficAssumption ==
  /\ Announcement \subseteq [road : Road, mile : Nat, limit : Nat]
  /\ Timestamp \subseteq Nat
  /\ DaySeconds \in Nat \ {0}
  /\ MaxReports \in Nat

VARIABLES
  clients,          \* the keys of the map `clients': never deleted
  gone,             \* ids whose `disconnected' was handled
  hungUp,           \* ids whose connection is closed, at either end
  cameras,          \* client -> announcement
  dispatchers,      \* client -> roads
  road_dispatchers, \* road -> Balancer, for the keys of the map
  tickets,          \* road -> the waiting tickets, as positions in `issued'
  dayPlates,        \* the <<day, plate>> pairs of the two-level map
  seen,             \* every report a camera made, in order of arrival
  plateReadings,    \* plate -> positions in `seen', the slice being ascending
  issued,           \* every TicketPacket made, in order
  deliveries        \* position in `issued' -> the calls of sendTicket, in order

roleVars == <<clients, gone, hungUp, cameras, dispatchers>>
ticketVars == <<road_dispatchers, tickets, issued, deliveries>>
readingVars == <<dayPlates, seen, plateReadings>>
trafficVars == <<roleVars, ticketVars, readingVars>>

Report == [plate : Plate, road : Road, mile : Nat, limit : Nat, time : Nat]
Ticket == [plate : Plate, road : Road, mile1 : Nat, time1 : Nat, mile2 : Nat, time2 : Nat]
Delivery == [to : Client, arrives : BOOLEAN]

TrafficTypeOK ==
  /\ clients \in SUBSET Client /\ gone \in SUBSET clients /\ hungUp \in SUBSET clients
  /\ cameras \in UNION {[S -> Announcement] : S \in SUBSET clients}
  /\ dispatchers \in UNION {[S -> SUBSET Road] : S \in SUBSET clients}
  /\ \A c \in gone : c \notin DOMAIN cameras \cup DOMAIN dispatchers
  /\ DOMAIN cameras \cap DOMAIN dispatchers = {}
  /\ tickets \in [Road -> SUBSET (1..Len(issued))]
  /\ dayPlates \in SUBSET (Nat \X Plate)
  /\ seen \in Seq(Report)
  /\ plateReadings \in [Plate -> SUBSET (1..Len(seen))]
  /\ issued \in Seq(Ticket)
  /\ deliveries \in [1..Len(issued) -> Seq(Delivery)]
-----------------------------------------------------------------------------
Init ==
  /\ clients = {} /\ gone = {} /\ hungUp = {}
  /\ cameras = [c \in {} |-> {}]
  /\ dispatchers = [c \in {} |-> {}]
  /\ road_dispatchers = [r \in {} |-> NewBalancer]
  /\ tickets = [r \in Road |-> {}]
  /\ dayPlates = {}
  /\ seen = <<>>
  /\ plateReadings = [p \in Plate |-> {}]
  /\ issued = <<>> /\ deliveries = <<>>

(* A packet of client c is at the head of the channel. *)
FromClient(c) == c \in clients \ gone

Connected(c) ==
  /\ c \notin clients
  /\ clients' = clients \cup {c}
  /\ UNCHANGED <<gone, hungUp, cameras, dispatchers, ticketVars, readingVars>>

(* The connection closes.  What the goroutine writes to it from now on fails *)
(* or goes nowhere, and sendTicket's error is ignored.                       *)
HangUp(c) ==
  /\ FromClient(c)
  /\ c \notin hungUp
  /\ hungUp' = hungUp \cup {c}
  /\ UNCHANGED <<clients, gone, cameras, dispatchers, ticketVars, readingVars>>

(* A client has one role and keeps it; a second announcement changes nothing. *)
HasRole(c) == c \in DOMAIN cameras \cup DOMAIN dispatchers

IAmCamera(c, announcement) ==
  /\ FromClient(c)
  /\ ~HasRole(c)
  /\ cameras' = [x \in DOMAIN cameras \cup {c} |->
                   IF x = c THEN announcement ELSE cameras[x]]
  /\ UNCHANGED <<clients, gone, hungUp, dispatchers, ticketVars, readingVars>>

(* sendTicket: a write to a closed connection is lost, and nobody is told.   *)
Delivered(c) == [to |-> c, arrives |-> c \notin hungUp]

(* Mutant: the balancer is always a new one. *)
FreshBalancer(r) == NewBalancer

(* The balancer of a road, made if the road has none. *)
BalancerOf(r) ==
  IF r \in DOMAIN road_dispatchers THEN road_dispatchers[r] ELSE NewBalancer

(* Mutant: the last dispatcher in the list is missed. *)
CanDispatchButLast(r) ==
  r \in DOMAIN road_dispatchers
  /\ road_dispatchers[r].index + 1 < Len(road_dispatchers[r].set)

(* Get finds somebody to send a ticket of the road to. *)
CanDispatch(r) == r \in DOMAIN road_dispatchers /\ road_dispatchers[r].set # <<>>

(* Mutant: the waiting tickets are sent and kept. *)
AllTicketsLeft(roads) == tickets

TicketsLeft(roads) == [r \in Road |-> IF r \in roads THEN {} ELSE tickets[r]]

(* A new dispatcher is sent every ticket that waits for one of its roads. *)
IAmDispatcher(c, roads) ==
  /\ FromClient(c)
  /\ ~HasRole(c)
  /\ dispatchers' = [x \in DOMAIN dispatchers \cup {c} |->
                       IF x = c THEN roads ELSE dispatchers[x]]
  /\ road_dispatchers' = [r \in DOMAIN road_dispatchers \cup roads |->
                            IF r \in roads THEN Add(BalancerOf(r), c)
                            ELSE road_dispatchers[r]]
  /\ deliveries' = [n \in DOMAIN deliveries |->
                      IF \E r \in roads : n \in tickets[r]
                      THEN Append(deliveries[n], Delivered(c))
                      ELSE deliveries[n]]
  /\ tickets' = TicketsLeft(roads)
  /\ UNCHANGED <<clients, gone, hungUp, cameras, issued, readingVars>>

Without(f, x) == [y \in DOMAIN f \ {x} |-> f[y]]

(* Mutant: the balancers are left as they are. *)
BalancersUntouched(c) == road_dispatchers

(* A road keeps its balancer only while somebody is in it. *)
WithoutDispatcher(c) ==
  LET left == [r \in DOMAIN road_dispatchers |-> Remove(road_dispatchers[r], c)]
  IN [r \in {x \in DOMAIN left : left[x].set # <<>>} |-> left[r]]

Disconnected(c) ==
  /\ FromClient(c)
  /\ gone' = gone \cup {c}
  /\ hungUp' = hungUp \cup {c}
  /\ cameras' = Without(cameras, c)
  /\ dispatchers' = Without(dispatchers, c)
  /\ road_dispatchers' =
       IF c \in DOMAIN dispatchers THEN WithoutDispatcher(c) ELSE road_dispatchers
  /\ UNCHANGED <<clients, tickets, issued, deliveries, readingVars>>
-----------------------------------------------------------------------------
(* Plate packets. *)

Day(time) == time \div DaySeconds

(* The earlier and the later of two reports, the newest being the later one  *)
(* only if it is strictly later (line 294).                                  *)
Prev(old, new) == IF old.time < new.time THEN old ELSE new
Current(old, new) == IF old.time < new.time THEN new ELSE old

DaysOf(first, last) == Day(first.time)..Day(last.time)

Ticketed(days, plate) == \E d \in days : <<d, plate>> \in dayPlates

Distance(x, y) == IF x.mile < y.mile THEN y.mile - x.mile ELSE x.mile - y.mile

(* distance * 3600 / timeDiff > limit, for a positive distance and time. *)
TooFast(first, last, limit) ==
  /\ Distance(first, last) > 0
  /\ last.time > first.time
  /\ Distance(first, last) * 3600 > limit * (last.time - first.time)

(* Mutant: only the first and the last day are looked up. *)
SpeedingOnEndDays(old, new) ==
  LET prev == Prev(old, new)
      current == Current(old, new)
  IN /\ ~Ticketed({Day(prev.time), Day(current.time)}, new.plate)
     /\ old.road = new.road
     /\ TooFast(prev, current, new.limit)

(* Mutant: a report that arrives late is not compared. *)
SpeedingInOrder(old, new) ==
  /\ ~Ticketed(DaysOf(old, new), new.plate)
  /\ old.road = new.road
  /\ TooFast(old, new, new.limit)

(* The loop's conditions for the sighting `old', in their order. *)
Speeding(old, new) ==
  LET prev == Prev(old, new)
      current == Current(old, new)
  IN /\ ~Ticketed(DaysOf(prev, current), new.plate)
     /\ old.road = new.road
     /\ TooFast(prev, current, new.limit)

(* Mutant: the miles stay with the reports, the times are put in order. *)
TicketMixedUp(old, new) ==
  [plate |-> new.plate, road |-> new.road,
   mile1 |-> old.mile, time1 |-> Prev(old, new).time,
   mile2 |-> new.mile, time2 |-> Current(old, new).time]

TicketFor(old, new) ==
  LET prev == Prev(old, new)
      current == Current(old, new)
  IN [plate |-> new.plate, road |-> new.road,
      mile1 |-> prev.mile, time1 |-> prev.time,
      mile2 |-> current.mile, time2 |-> current.time]

MarkedDays(ticket) ==
  {<<d, ticket.plate>> : d \in Day(ticket.time1)..Day(ticket.time2)}

(* The ticket goes to the road's next dispatcher, or waits for one. *)
Issue(ticket) ==
  LET r == ticket.road
      n == Len(issued) + 1
  IN /\ issued' = Append(issued, ticket)
     /\ dayPlates' = dayPlates \cup MarkedDays(ticket)
     /\ \/ /\ CanDispatch(r)
           /\ LET b == road_dispatchers[r] IN
                /\ deliveries' = Append(deliveries, <<Delivered(GetItem(b))>>)
                /\ road_dispatchers' = [road_dispatchers EXCEPT ![r] = Turned(b)]
           /\ UNCHANGED tickets
        \/ /\ ~CanDispatch(r)
           /\ deliveries' = Append(deliveries, <<>>)
           /\ tickets' = [tickets EXCEPT ![r] = @ \cup {n}]
           /\ UNCHANGED road_dispatchers

(* The readings the last loop keeps.  It removes the reading at hand when    *)
(* that is on a ticketed day, and then goes on with the one after the next:  *)
(* of a stretch of such readings every second one stays.  `all' is what      *)
(* `seen' has become, `marked' what `dayPlates' has become.                  *)
Cleaned(readings, all, marked) ==
  LET OnTicketedDay(k) == <<Day(all[k].time), all[k].plate>> \in marked
      Stretch(k) == {h \in readings : h < k /\ \A i \in readings : h <= i /\ i < k => OnTicketedDay(i)}
  IN {k \in readings : OnTicketedDay(k) => Cardinality(Stretch(k)) % 2 = 1}

(* A report on a day the plate was ticketed for is dropped.  Any other is     *)
(* compared with the readings kept so far, the oldest first, until one makes *)
(* a ticket; then the readings are cleaned, unless this is the only one.      *)
PlateReport(c, plate, time) ==
  /\ FromClient(c)
  /\ c \in DOMAIN cameras
  /\ Len(seen) < MaxReports
  /\ LET new == [plate |-> plate, road |-> cameras[c].road, mile |-> cameras[c].mile,
                 limit |-> cameras[c].limit, time |-> time]
         old == plateReadings[plate]
         speeding == {k \in old : Speeding(seen[k], new)}
         readings == old \cup {Len(seen) + 1}
     IN /\ seen' = Append(seen, new)
        /\ \/ /\ Ticketed({Day(time)}, plate)
              /\ UNCHANGED <<dayPlates, plateReadings, ticketVars>>
           \/ /\ ~Ticketed({Day(time)}, plate)
              /\ \/ /\ speeding # {}
                    /\ Issue(TicketFor(seen[Min(speeding)], new))
                 \/ /\ speeding = {}
                    /\ UNCHANGED <<dayPlates, ticketVars>>
              /\ plateReadings' = [plateReadings EXCEPT ![plate] =
                                     IF old = {} THEN readings
                                     ELSE Cleaned(readings, seen', dayPlates')]
  /\ UNCHANGED roleVars

Next ==
  \E c \in Client :
    \/ Connected(c)
    \/ HangUp(c)
    \/ \E announcement \in Announcement : IAmCamera(c, announcement)
    \/ \E roads \in SUBSET Road : IAmDispatcher(c, roads)
    \/ \E plate \in Plate, time \in Timestamp : PlateReport(c, plate, time)
    \/ Disconnected(c)

Spec == Init /\ [][Next]_trafficVars
-----------------------------------------------------------------------------
(* Properties. *)

(* No plate has two tickets that share a day, in whatever order the reports   *)
(* arrive and however many days a ticket spans.                               *)
OneTicketPerDay ==
  \A m, n \in 1..Len(issued) :
    m # n /\ issued[m].plate = issued[n].plate
      => Day(issued[m].time2) < Day(issued[n].time1)
         \/ Day(issued[n].time2) < Day(issued[m].time1)

(* Nobody gets away: of any two reports of a plate on one road that show it   *)
(* above the limit, by the camera that reported last, one of the days between *)
(* them has a ticket for that plate.  Readings are dropped on arrival, and    *)
(* cleaned away, long before the report that would have convicted with them.  *)
NoSpeederEscapes ==
  \A i, j \in 1..Len(seen) :
    /\ i < j
    /\ seen[i].plate = seen[j].plate
    /\ seen[i].road = seen[j].road
    /\ TooFast(Prev(seen[i], seen[j]), Current(seen[i], seen[j]), seen[j].limit)
    => \E d \in DaysOf(Prev(seen[i], seen[j]), Current(seen[i], seen[j])) :
         \E n \in 1..Len(issued) :
           /\ issued[n].plate = seen[i].plate
           /\ d \in Day(issued[n].time1)..Day(issued[n].time2)

(* Every ticket rests on two reports of that plate from cameras of its road   *)
(* which together show it above the limit one of them announced.              *)
TicketsJustified ==
  \A n \in 1..Len(issued) : \E i, j \in 1..Len(seen) :
    LET t == issued[n] IN
    /\ {seen[i].plate, seen[j].plate} = {t.plate}
    /\ {seen[i].road, seen[j].road} = {t.road}
    /\ <<seen[i].mile, seen[i].time>> = <<t.mile1, t.time1>>
    /\ <<seen[j].mile, seen[j].time>> = <<t.mile2, t.time2>>
    /\ \E limit \in {seen[i].limit, seen[j].limit} : TooFast(seen[i], seen[j], limit)

(* A ticket is waiting, or was written to one client, once: registrations,    *)
(* new tickets and disconnections never duplicate or drop it.                 *)
TicketsConserved ==
  \A n \in 1..Len(issued) :
    Len(deliveries[n]) + Cardinality({r \in Road : n \in tickets[r]}) = 1

(* A ticket is only ever written to a client that dispatches for its road at  *)
(* that moment, never to one whose disconnection was handled.                 *)
Dispatches(c, r) == c \in DOMAIN dispatchers /\ r \in dispatchers[c]

TicketsReachTheRoad ==
  [][\A n \in 1..Len(issued') :
       deliveries'[n] # <<>> /\ (n \in 1..Len(issued) => deliveries[n] # deliveries'[n])
         => Dispatches(deliveries[n][Len(deliveries[n])].to, issued[n].road)']_trafficVars

(* Tickets wait only for roads nobody dispatches for. *)
NoTicketStranded ==
  \A r \in Road : tickets[r] # {} =>
    /\ \A c \in Client : ~Dispatches(c, r)
    /\ \A n \in tickets[r] : issued[n].road = r

(* The two maps agree: a road has a balancer just when somebody dispatches    *)
(* for it, the balancer lists exactly those clients, and its next one exists. *)
BalancersMatchDispatchers ==
  /\ DOMAIN road_dispatchers = {r \in Road : \E c \in Client : Dispatches(c, r)}
  /\ \A r \in DOMAIN road_dispatchers :
       LET b == road_dispatchers[r] IN
       /\ Members(b) = {c \in Client : Dispatches(c, r)}
       /\ \A j, k \in 1..Len(b.set) : b.set[j] = b.set[k] => j = k
       /\ b.index < Len(b.set)

(* "We must clean all the plate readings and remove all of them which are on  *)
(* days that received a ticket" (line 396).                                   *)
ReadingsCleaned ==
  \A p \in Plate : \A k \in plateReadings[p] : ~Ticketed({Day(seen[k].time)}, p)
=============================================================================
