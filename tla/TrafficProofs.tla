---------------------------- MODULE TrafficProofs ----------------------------
(***************************************************************************)
(* Theorems about Traffic, for every set of clients, roads, plates and     *)
(* announcements, any times and any length of a day.                       *)
(***************************************************************************)
EXTENDS Traffic, DataLemmas

(* The inductive invariant behind OneTicketPerDay: the days a ticket spans    *)
(* are marked for its plate, and it does not end before it begins.            *)
ReportsTyped ==
  /\ cameras \in UNION {[S -> Announcement] : S \in SUBSET Client}
  /\ seen \in Seq(Report)
  /\ plateReadings \in [Plate -> SUBSET (1..Len(seen))]
  /\ issued \in Seq(Ticket)

TicketsMarked ==
  \A n \in 1..Len(issued) :
    /\ issued[n].time1 <= issued[n].time2
    /\ MarkedDays(issued[n]) \subseteq dayPlates

TicketInv == ReportsTyped /\ TicketsMarked /\ OneTicketPerDay
-----------------------------------------------------------------------------
LEMMA DayMonotone ==
  ASSUME NEW s \in Nat, NEW t \in Nat, s <= t
  PROVE  Day(s) \in Nat /\ Day(t) \in Nat /\ Day(s) <= Day(t)
  BY TrafficAssumption DEF Day

(* Two non-empty stretches of days that share none follow one another. *)
LEMMA ApartInOrder ==
  ASSUME NEW a \in Nat, NEW b \in Nat, NEW c \in Nat, NEW d \in Nat,
         a <= b, c <= d, \A x \in a..b : x \notin c..d
  PROVE  b < c \/ d < a
  OBVIOUS

(* A pair of reports that is ticketed makes a ticket that ends after it       *)
(* begins, on days the plate has no ticket for.                               *)
LEMMA TicketForSpeeding ==
  ASSUME NEW old \in Report, NEW new \in Report, Speeding(old, new)
  PROVE  /\ TicketFor(old, new) \in Ticket
         /\ TicketFor(old, new).time1 <= TicketFor(old, new).time2
         /\ ~Ticketed(Day(TicketFor(old, new).time1)..Day(TicketFor(old, new).time2),
                      TicketFor(old, new).plate)
<1>1. Prev(old, new) \in Report /\ Current(old, new) \in Report
  BY DEF Prev, Current
<1>2. Prev(old, new).time < Current(old, new).time
  BY <1>1 DEF Speeding, TooFast, Report
<1>3. TicketFor(old, new) \in Ticket
  BY <1>1 DEF TicketFor, Ticket, Report
<1>4. /\ TicketFor(old, new).time1 = Prev(old, new).time
      /\ TicketFor(old, new).time2 = Current(old, new).time
      /\ TicketFor(old, new).plate = new.plate
  BY DEF TicketFor
<1>5. ~Ticketed(Day(Prev(old, new).time)..Day(Current(old, new).time), new.plate)
  BY DEF Speeding, DaysOf
<1> QED
  BY <1>1, <1>2, <1>3, <1>4, <1>5 DEF Report

LEMMA IssueKeepsTickets ==
  ASSUME TicketInv, NEW ticket \in Ticket, ticket.time1 <= ticket.time2,
         ~Ticketed(Day(ticket.time1)..Day(ticket.time2), ticket.plate),
         Issue(ticket)
  PROVE  issued' \in Seq(Ticket) /\ TicketsMarked' /\ OneTicketPerDay'
<1> DEFINE l == Len(issued)
<1>1. issued \in Seq(Ticket) /\ l \in Nat
  BY DEF TicketInv, ReportsTyped
<1>2. issued' = Append(issued, ticket) /\ dayPlates' = dayPlates \cup MarkedDays(ticket)
  BY DEF Issue
<1>3. /\ issued' \in Seq(Ticket) /\ Len(issued') = l + 1
      /\ \A n \in 1..l : issued'[n] = issued[n]
      /\ issued'[l + 1] = ticket
  BY <1>1, <1>2, AppendProperties
<1>4. TicketsMarked'
  <2> SUFFICES ASSUME NEW n \in 1..(l + 1)
               PROVE  /\ issued'[n].time1 <= issued'[n].time2
                      /\ MarkedDays(issued'[n]) \subseteq dayPlates'
    BY <1>3 DEF TicketsMarked, MarkedDays, Day
  <2>1. CASE n = l + 1
    BY <2>1, <1>2, <1>3
  <2>2. CASE n \in 1..l
    BY <2>2, <1>2, <1>3 DEF TicketInv, TicketsMarked
  <2> QED
    BY <1>1, <2>1, <2>2
<1>5. ASSUME NEW n \in 1..l, issued[n].plate = ticket.plate
      PROVE  \/ Day(issued[n].time2) < Day(ticket.time1)
             \/ Day(ticket.time2) < Day(issued[n].time1)
  <2>1. issued[n] \in Ticket
    BY <1>1
  <2>2. issued[n].time1 <= issued[n].time2 /\ MarkedDays(issued[n]) \subseteq dayPlates
    BY DEF TicketInv, TicketsMarked
  <2>3. \A d \in Day(issued[n].time1)..Day(issued[n].time2) : <<d, ticket.plate>> \in dayPlates
    BY <1>5, <2>2 DEF MarkedDays
  <2>4. \A d \in Day(ticket.time1)..Day(ticket.time2) : <<d, ticket.plate>> \notin dayPlates
    BY DEF Ticketed
  <2>5. /\ Day(issued[n].time1) \in Nat /\ Day(issued[n].time2) \in Nat
        /\ Day(issued[n].time1) <= Day(issued[n].time2)
    BY <2>1, <2>2, DayMonotone DEF Ticket
  <2>6. /\ Day(ticket.time1) \in Nat /\ Day(ticket.time2) \in Nat
        /\ Day(ticket.time1) <= Day(ticket.time2)
    BY DayMonotone DEF Ticket
  <2>7. \A d \in Day(issued[n].time1)..Day(issued[n].time2) :
          d \notin Day(ticket.time1)..Day(ticket.time2)
    BY <2>3, <2>4
  <2> QED
    BY <2>5, <2>6, <2>7, ApartInOrder
<1>6. OneTicketPerDay'
  <2> SUFFICES ASSUME NEW m \in 1..(l + 1), NEW n \in 1..(l + 1), m # n,
                      issued'[m].plate = issued'[n].plate
               PROVE  \/ Day(issued'[m].time2) < Day(issued'[n].time1)
                      \/ Day(issued'[n].time2) < Day(issued'[m].time1)
    BY <1>3 DEF OneTicketPerDay, Day
  <2>1. CASE m \in 1..l /\ n \in 1..l
    BY <2>1, <1>3 DEF TicketInv, OneTicketPerDay
  <2>2. CASE m = l + 1 /\ n \in 1..l
    BY <2>2, <1>3, <1>5
  <2>3. CASE m \in 1..l /\ n = l + 1
    BY <2>3, <1>3, <1>5
  <2> QED
    BY <1>1, <2>1, <2>2, <2>3
<1> QED
  BY <1>3, <1>4, <1>6

(* A plate packet makes no ticket, or one as above. *)
LEMMA PlateReportIssues ==
  ASSUME TicketInv, NEW c \in Client, NEW plate \in Plate, NEW time \in Timestamp,
         PlateReport(c, plate, time)
  PROVE  \/ UNCHANGED <<dayPlates, ticketVars>>
         \/ \E ticket \in Ticket :
              /\ ticket.time1 <= ticket.time2
              /\ ~Ticketed(Day(ticket.time1)..Day(ticket.time2), ticket.plate)
              /\ Issue(ticket)
<1> DEFINE new == [plate |-> plate, road |-> cameras[c].road, mile |-> cameras[c].mile,
                   limit |-> cameras[c].limit, time |-> time]
           old == plateReadings[plate]
           speeding == {k \in old : Speeding(seen[k], new)}
<1>1. old \in SUBSET (1..Len(seen)) /\ \A k \in 1..Len(seen) : seen[k] \in Report
  BY DEF TicketInv, ReportsTyped
<1>2. cameras[c] \in Announcement
  BY DEF PlateReport, TicketInv, ReportsTyped
<1>3. new \in Report
  BY <1>2, TrafficAssumption DEF Report
<1>4. CASE speeding # {} /\ Issue(TicketFor(seen[Min(speeding)], new))
  <2>1. Min(speeding) \in speeding
    <3>1. speeding \in SUBSET Nat
      BY <1>1
    <3> QED
      BY <3>1, <1>4, MinElement
  <2>2. seen[Min(speeding)] \in Report /\ Speeding(seen[Min(speeding)], new)
    BY <1>1, <2>1
  <2> DEFINE ticket == TicketFor(seen[Min(speeding)], new)
  <2>3. /\ ticket \in Ticket
        /\ ticket.time1 <= ticket.time2
        /\ ~Ticketed(Day(ticket.time1)..Day(ticket.time2), ticket.plate)
    <3> HIDE DEF new, speeding
    <3> QED
      BY <1>3, <2>2, TicketForSpeeding
  <2>4. Issue(ticket)
    BY <1>4
  <2> HIDE DEF ticket
  <2> QED
    BY <2>3, <2>4
<1>5. CASE UNCHANGED <<dayPlates, ticketVars>>
  BY <1>5
<1> QED
  BY <1>4, <1>5 DEF PlateReport, ticketVars

(* A plate packet, the one message that makes tickets. *)
LEMMA PlateReportKeepsTickets ==
  ASSUME TicketInv, NEW c \in Client, NEW plate \in Plate, NEW time \in Timestamp,
         PlateReport(c, plate, time)
  PROVE  TicketInv'
<1> DEFINE new == [plate |-> plate, road |-> cameras[c].road, mile |-> cameras[c].mile,
                   limit |-> cameras[c].limit, time |-> time]
           l == Len(seen)
           readings == plateReadings[plate] \cup {l + 1}
<1>1. seen \in Seq(Report) /\ l \in Nat /\ plateReadings[plate] \in SUBSET (1..l)
  BY DEF TicketInv, ReportsTyped
<1>2. cameras[c] \in Announcement
  BY DEF PlateReport, TicketInv, ReportsTyped
<1>3. new \in Report
  BY <1>2, TrafficAssumption DEF Report
<1>4. seen' = Append(seen, new) /\ cameras' = cameras
  BY DEF PlateReport, roleVars
<1>5. seen' \in Seq(Report) /\ Len(seen') = l + 1
  <2> HIDE DEF new
  <2> QED
    BY <1>1, <1>3, <1>4, AppendProperties
<1>6. plateReadings' \in [Plate -> SUBSET (1..Len(seen'))]
  <2>1. readings \in SUBSET (1..(l + 1)) /\ 1..l \subseteq 1..(l + 1)
    BY <1>1
  <2>2. Cleaned(readings, seen', dayPlates') \subseteq readings
    BY DEF Cleaned
  <2>3. plateReadings \in [Plate -> SUBSET (1..l)]
    BY DEF TicketInv, ReportsTyped
  <2>4. \/ plateReadings' = plateReadings
        \/ plateReadings' = [plateReadings EXCEPT ![plate] = readings]
        \/ plateReadings' = [plateReadings EXCEPT ![plate] = Cleaned(readings, seen', dayPlates')]
    BY DEF PlateReport
  <2> DEFINE cleaned == Cleaned(readings, seen', dayPlates')
  <2> HIDE DEF readings, l, cleaned
  <2>5. \/ plateReadings' = plateReadings
        \/ \E kept \in SUBSET (1..(l + 1)) : plateReadings' = [plateReadings EXCEPT ![plate] = kept]
    BY <2>1, <2>2, <2>4 DEF cleaned
  <2> QED
    BY <1>5, <2>1, <2>3, <2>5
<1>7. cameras' \in UNION {[S -> Announcement] : S \in SUBSET Client}
  BY <1>4 DEF TicketInv, ReportsTyped
<1>8. issued' \in Seq(Ticket) /\ TicketsMarked' /\ OneTicketPerDay'
  <2>1. CASE UNCHANGED <<dayPlates, ticketVars>>
    BY <2>1 DEF TicketInv, ReportsTyped, TicketsMarked, OneTicketPerDay, MarkedDays, Day, ticketVars
  <2> QED
    BY <2>1, PlateReportIssues, IssueKeepsTickets
<1> QED
  BY <1>5, <1>6, <1>7, <1>8 DEF TicketInv, ReportsTyped

(* No other packet touches the tickets or the readings. *)
LEMMA OthersKeepTickets ==
  ASSUME TicketInv, UNCHANGED <<seen, plateReadings, issued, dayPlates>>,
         cameras' \in UNION {[S -> Announcement] : S \in SUBSET Client}
  PROVE  TicketInv'
  BY DEF TicketInv, ReportsTyped, TicketsMarked, OneTicketPerDay, MarkedDays, Day

THEOREM TicketInvHolds == Spec => []TicketInv
<1>1. Init => TicketInv
  <2> SUFFICES ASSUME Init PROVE TicketInv
    OBVIOUS
  <2>1. cameras \in [{} -> Announcement]
    BY DEF Init
  <2>2. seen = <<>> /\ issued = <<>>
    BY DEF Init
  <2>3. plateReadings \in [Plate -> SUBSET (1..Len(seen))]
    BY DEF Init
  <2> QED
    BY <2>1, <2>2, <2>3 DEF TicketInv, ReportsTyped, TicketsMarked, OneTicketPerDay
<1>2. TicketInv /\ [Next]_trafficVars => TicketInv'
  <2> SUFFICES ASSUME TicketInv, [Next]_trafficVars PROVE TicketInv'
    OBVIOUS
  <2>1. CASE UNCHANGED trafficVars
    <3>1. UNCHANGED <<seen, plateReadings, issued, dayPlates, cameras>>
      BY <2>1 DEF trafficVars, roleVars, ticketVars, readingVars
    <3> QED
      BY <3>1, OthersKeepTickets DEF TicketInv, ReportsTyped
  <2>2. ASSUME NEW c \in Client, Connected(c) \/ HangUp(c)
        PROVE  TicketInv'
    <3>1. UNCHANGED <<seen, plateReadings, issued, dayPlates, cameras>>
      BY <2>2 DEF Connected, HangUp, ticketVars, readingVars
    <3> QED
      BY <3>1, OthersKeepTickets DEF TicketInv, ReportsTyped
  <2>3. ASSUME NEW c \in Client, NEW roads, IAmDispatcher(c, roads)
        PROVE  TicketInv'
    <3>1. UNCHANGED <<seen, plateReadings, issued, dayPlates, cameras>>
      BY <2>3 DEF IAmDispatcher, readingVars
    <3> QED
      BY <3>1, OthersKeepTickets DEF TicketInv, ReportsTyped
  <2>4. ASSUME NEW c \in Client, NEW announcement \in Announcement, IAmCamera(c, announcement)
        PROVE  TicketInv'
    <3>1. UNCHANGED <<seen, plateReadings, issued, dayPlates>>
      BY <2>4 DEF IAmCamera, ticketVars, readingVars
    <3>2. PICK S \in SUBSET Client : cameras \in [S -> Announcement]
      BY DEF TicketInv, ReportsTyped
    <3>3. cameras' \in [S \cup {c} -> Announcement]
      BY <2>4, <3>2 DEF IAmCamera
    <3>4. S \cup {c} \in SUBSET Client
      OBVIOUS
    <3> QED
      BY <3>1, <3>3, <3>4, OthersKeepTickets
  <2>5. ASSUME NEW c \in Client, Disconnected(c)
        PROVE  TicketInv'
    <3>1. UNCHANGED <<seen, plateReadings, issued, dayPlates>>
      BY <2>5 DEF Disconnected, readingVars
    <3>2. PICK S \in SUBSET Client : cameras \in [S -> Announcement]
      BY DEF TicketInv, ReportsTyped
    <3>3. cameras' \in [S \ {c} -> Announcement]
      BY <2>5, <3>2 DEF Disconnected, Without
    <3>4. S \ {c} \in SUBSET Client
      OBVIOUS
    <3> QED
      BY <3>1, <3>3, <3>4, OthersKeepTickets
  <2> QED
    BY <2>1, <2>2, <2>3, <2>4, <2>5, PlateReportKeepsTickets DEF Next
<1> QED
  BY <1>1, <1>2, PTL DEF Spec

(* No plate gets two tickets that share a day, however many days a ticket     *)
(* spans and in whatever order the reports come in (traffic.go:306-316, 369). *)
THEOREM OneTicketEachDay == Spec => []OneTicketPerDay
<1>1. TicketInv => OneTicketPerDay
  BY DEF TicketInv
<1> QED
  BY <1>1, TicketInvHolds, PTL
-----------------------------------------------------------------------------
(* Why no speeder escapes.  A sighting is either kept or on a ticketed day,   *)
(* every marked day is a day of a ticket, and between two sightings that show *)
(* a plate above the limit some day is marked.                                *)
SightingsAccounted ==
  \A k \in 1..Len(seen) :
    \/ k \in plateReadings[seen[k].plate]
    \/ <<Day(seen[k].time), seen[k].plate>> \in dayPlates

MarksBacked ==
  \A mark \in dayPlates : \E n \in 1..Len(issued) : mark \in MarkedDays(issued[n])

Above(i, j) ==
  /\ i < j
  /\ seen[i].plate = seen[j].plate
  /\ seen[i].road = seen[j].road
  /\ TooFast(Prev(seen[i], seen[j]), Current(seen[i], seen[j]), seen[j].limit)

SpeedersMarked ==
  \A i, j \in 1..Len(seen) : Above(i, j) =>
    Ticketed(DaysOf(Prev(seen[i], seen[j]), Current(seen[i], seen[j])), seen[i].plate)

SpeedingInv == SightingsAccounted /\ MarksBacked /\ SpeedersMarked

NewReport(c, plate, time) ==
  [plate |-> plate, road |-> cameras[c].road, mile |-> cameras[c].mile,
   limit |-> cameras[c].limit, time |-> time]
-----------------------------------------------------------------------------
(* What a plate packet does, with its list searches resolved. *)
LEMMA PlateReportCases ==
  ASSUME TicketInv, NEW c \in Client, NEW plate \in Plate, NEW time \in Timestamp,
         PlateReport(c, plate, time)
  PROVE  \/ \E k \in plateReadings[plate] :
              /\ Speeding(seen[k], NewReport(c, plate, time))
              /\ Issue(TicketFor(seen[k], NewReport(c, plate, time)))
         \/ /\ UNCHANGED <<dayPlates, ticketVars>>
            /\ \/ Ticketed({Day(time)}, plate)
               \/ \A k \in plateReadings[plate] : ~Speeding(seen[k], NewReport(c, plate, time))
<1> DEFINE new == NewReport(c, plate, time)
           speeding == {k \in plateReadings[plate] : Speeding(seen[k], new)}
<1>1. CASE speeding # {} /\ Issue(TicketFor(seen[Min(speeding)], new))
  <2>1. Min(speeding) \in speeding
    <3>1. speeding \in SUBSET Nat
      BY DEF TicketInv, ReportsTyped
    <3> QED
      BY <3>1, <1>1, MinElement
  <2> QED
    BY <1>1, <2>1
<1>2. CASE UNCHANGED <<dayPlates, ticketVars>> /\ Ticketed({Day(time)}, plate)
  BY <1>2
<1>3. CASE UNCHANGED <<dayPlates, ticketVars>> /\ speeding = {}
  BY <1>3
<1> QED
  BY <1>1, <1>2, <1>3 DEF PlateReport, NewReport, ticketVars

(* Both days of two sightings are among the days between them. *)
LEMMA EndsOfDays ==
  ASSUME NEW x \in Report, NEW y \in Report
  PROVE  /\ Day(x.time) \in DaysOf(Prev(x, y), Current(x, y))
         /\ Day(y.time) \in DaysOf(Prev(x, y), Current(x, y))
<1>1. x.time \in Nat /\ y.time \in Nat
  BY DEF Report
<1>2. CASE x.time < y.time
  <2>1. Day(x.time) \in Nat /\ Day(y.time) \in Nat /\ Day(x.time) <= Day(y.time)
    BY <1>1, <1>2, DayMonotone
  <2> QED
    BY <1>2, <2>1 DEF DaysOf, Prev, Current
<1>3. CASE ~(x.time < y.time)
  <2>1. Day(x.time) \in Nat /\ Day(y.time) \in Nat /\ Day(y.time) <= Day(x.time)
    BY <1>1, <1>3, DayMonotone
  <2> QED
    BY <1>3, <2>1 DEF DaysOf, Prev, Current
<1> QED
  BY <1>2, <1>3

(* A new ticket marks the day of the newest sighting. *)
LEMMA TicketMarksNewest ==
  ASSUME NEW old \in Report, NEW new \in Report
  PROVE  <<Day(new.time), new.plate>> \in MarkedDays(TicketFor(old, new))
<1>1. Day(new.time) \in DaysOf(Prev(old, new), Current(old, new))
  BY EndsOfDays
<1> QED
  BY <1>1 DEF MarkedDays, TicketFor, DaysOf

LEMMA PlateReportKeepsSpeeding ==
  ASSUME TicketInv, TicketInv', SpeedingInv,
         NEW c \in Client, NEW plate \in Plate, NEW time \in Timestamp,
         PlateReport(c, plate, time)
  PROVE  SpeedingInv'
<1>0. PICK l \in Nat : l = Len(seen)
  BY LenProperties DEF TicketInv, ReportsTyped
<1> DEFINE new == NewReport(c, plate, time)
           m == l + 1
<1>1. new \in Report
  <2>1. cameras[c] \in Announcement
    BY DEF PlateReport, TicketInv, ReportsTyped
  <2> QED
    BY <2>1, TrafficAssumption DEF Report, NewReport
<1>2. PICK w \in Report : w = new
  BY <1>1
<1>3. w.plate = plate /\ w.time = time
  BY <1>2 DEF NewReport
<1>4. /\ seen \in Seq(Report)
      /\ Len(seen') = m
      /\ seen'[m] = w
      /\ \A k \in 1..l : seen'[k] = seen[k] /\ seen[k] \in Report
  <2>1. seen' = Append(seen, w) /\ seen \in Seq(Report)
    BY <1>2 DEF PlateReport, NewReport, TicketInv, ReportsTyped
  <2> QED
    BY <1>0, <2>1, AppendProperties
<1>5. /\ plateReadings \in [Plate -> SUBSET (1..l)]
      /\ DOMAIN plateReadings' = Plate
      /\ \A k \in 1..l : seen[k].plate \in Plate
  BY <1>0, <1>4 DEF TicketInv, ReportsTyped, Report
<1>6. dayPlates \subseteq dayPlates' /\ MarksBacked'
  <2>1. CASE UNCHANGED <<dayPlates, ticketVars>>
    BY <2>1 DEF SpeedingInv, MarksBacked, MarkedDays, Day, ticketVars
  <2>2. ASSUME NEW ticket \in Ticket, Issue(ticket)
        PROVE  dayPlates \subseteq dayPlates' /\ MarksBacked'
    <3>1. PICK h \in Nat : h = Len(issued)
      BY LenProperties DEF TicketInv, ReportsTyped
    <3>2. /\ dayPlates' = dayPlates \cup MarkedDays(ticket)
          /\ issued' = Append(issued, ticket) /\ issued \in Seq(Ticket)
      BY <2>2 DEF Issue, TicketInv, ReportsTyped
    <3>3. /\ Len(issued') = h + 1 /\ issued'[h + 1] = ticket
          /\ \A n \in 1..h : issued'[n] = issued[n]
      BY <3>1, <3>2, AppendProperties
    <3>4. ASSUME NEW mark \in dayPlates'
          PROVE  \E n \in 1..(h + 1) : mark \in MarkedDays(issued'[n])
      <4>1. CASE mark \in MarkedDays(ticket)
        BY <3>3, <4>1
      <4>2. CASE mark \in dayPlates
        <5>1. PICK n \in 1..h : mark \in MarkedDays(issued[n])
          BY <3>1, <4>2 DEF SpeedingInv, MarksBacked
        <5> QED
          BY <3>3, <5>1
      <4> QED
        BY <3>2, <4>1, <4>2
    <3> QED
      BY <3>2, <3>3, <3>4 DEF MarksBacked, MarkedDays, Day
  <2> QED
    BY <2>1, <2>2, PlateReportIssues
<1>7. SightingsAccounted'
  <2>1. ASSUME NEW k \in 1..m
        PROVE  \/ k \in plateReadings'[seen'[k].plate]
               \/ <<Day(seen'[k].time), seen'[k].plate>> \in dayPlates'
    <3>1. CASE Ticketed({Day(time)}, plate)
      <4>1. UNCHANGED <<dayPlates, plateReadings>>
        BY <3>1 DEF PlateReport
      <4>2. CASE k \in 1..l
        BY <1>0, <1>4, <4>1, <4>2 DEF SpeedingInv, SightingsAccounted
      <4>3. CASE k = m
        BY <1>3, <1>4, <3>1, <4>1, <4>3 DEF Ticketed
      <4> QED
        BY <4>2, <4>3
    <3>2. CASE ~Ticketed({Day(time)}, plate)
      <4> DEFINE old == plateReadings[plate]
                 readings == old \cup {m}
      <4>1. plateReadings' = [plateReadings EXCEPT ![plate] =
                                IF old = {} THEN readings
                                ELSE Cleaned(readings, seen', dayPlates')]
        BY <1>0, <3>2 DEF PlateReport
      <4>2. \A p \in Plate : p # plate => plateReadings'[p] = plateReadings[p]
        BY <1>5, <4>1
      <4>3. ASSUME NEW h \in readings
            PROVE  h \in plateReadings'[plate] \/ <<Day(seen'[h].time), seen'[h].plate>> \in dayPlates'
        <5>1. \/ plateReadings'[plate] = readings
              \/ plateReadings'[plate] = Cleaned(readings, seen', dayPlates')
          BY <1>5, <4>1
        <5> QED
          BY <5>1 DEF Cleaned
      <4>4. CASE k = m
        BY <1>3, <1>4, <4>3, <4>4
      <4>5. CASE k \in 1..l
        <5>1. \/ k \in plateReadings[seen[k].plate]
              \/ <<Day(seen[k].time), seen[k].plate>> \in dayPlates
          BY <1>0, <4>5 DEF SpeedingInv, SightingsAccounted
        <5>2. CASE <<Day(seen[k].time), seen[k].plate>> \in dayPlates
          BY <1>4, <1>6, <4>5, <5>2
        <5>3. CASE k \in plateReadings[seen[k].plate] /\ seen[k].plate # plate
          BY <1>4, <1>5, <4>2, <4>5, <5>3
        <5>4. CASE k \in plateReadings[seen[k].plate] /\ seen[k].plate = plate
          BY <1>4, <4>3, <4>5, <5>4
        <5> QED
          BY <5>1, <5>2, <5>3, <5>4
      <4> QED
        BY <4>4, <4>5
    <3> QED
      BY <3>1, <3>2
  <2> QED
    BY <1>4, <2>1 DEF SightingsAccounted, Day
<1>8. ASSUME NEW i \in 1..l, Above(i, m)'
      PROVE  Ticketed(DaysOf(Prev(seen[i], w), Current(seen[i], w)), plate)'
  <2> DEFINE days == DaysOf(Prev(seen[i], w), Current(seen[i], w))
  <2>1. /\ seen[i].plate = plate
        /\ seen[i].road = w.road
        /\ TooFast(Prev(seen[i], w), Current(seen[i], w), w.limit)
    BY <1>3, <1>4, <1>8 DEF Above, TooFast, Prev, Current, Distance
  <2>2. Day(seen[i].time) \in days /\ Day(w.time) \in days
    BY <1>4, EndsOfDays
  <2>3. \E d \in days : <<d, plate>> \in dayPlates'
    <3>1. CASE \E k \in plateReadings[plate] : Speeding(seen[k], w) /\ Issue(TicketFor(seen[k], w))
      <4>1. PICK k \in plateReadings[plate] : Speeding(seen[k], w) /\ Issue(TicketFor(seen[k], w))
        BY <3>1
      <4>2. seen[k] \in Report
        BY <1>4, <1>5
      <4>3. <<Day(w.time), w.plate>> \in MarkedDays(TicketFor(seen[k], w))
        BY <4>2, TicketMarksNewest
      <4> QED
        BY <1>3, <2>2, <4>1, <4>3 DEF Issue
    <3>2. CASE UNCHANGED dayPlates /\ Ticketed({Day(time)}, plate)
      BY <1>3, <2>2, <3>2 DEF Ticketed
    <3>3. CASE UNCHANGED dayPlates /\ \A k \in plateReadings[plate] : ~Speeding(seen[k], w)
      <4>1. CASE i \in plateReadings[plate]
        BY <1>3, <2>1, <3>3, <4>1 DEF Speeding, Ticketed
      <4>2. CASE i \notin plateReadings[plate]
        <5>1. <<Day(seen[i].time), plate>> \in dayPlates
          BY <1>0, <2>1, <4>2 DEF SpeedingInv, SightingsAccounted
        <5> QED
          BY <2>2, <3>3, <5>1
      <4> QED
        BY <4>1, <4>2
    <3> QED
      BY <1>2, <3>1, <3>2, <3>3, PlateReportCases
  <2> QED
    BY <1>4, <2>3 DEF Ticketed, DaysOf, Prev, Current, Day
<1>9. SpeedersMarked'
  <2>1. ASSUME NEW i \in 1..m, NEW j \in 1..m, Above(i, j)'
        PROVE  Ticketed(DaysOf(Prev(seen[i], seen[j]), Current(seen[i], seen[j])), seen[i].plate)'
    <3>1. CASE j = m
      <4>1. i \in 1..l
        BY <2>1, <3>1 DEF Above
      <4>2. Ticketed(DaysOf(Prev(seen[i], w), Current(seen[i], w)), plate)'
        BY <1>8, <2>1, <3>1, <4>1
      <4>3. seen'[i].plate = plate
        BY <1>3, <1>4, <2>1, <3>1 DEF Above
      <4> QED
        BY <1>4, <3>1, <4>2, <4>3 DEF Ticketed, DaysOf, Prev, Current, Day
    <3>2. CASE j \in 1..l
      <4>1. i \in 1..l
        BY <2>1, <3>2 DEF Above
      <4>2. Above(i, j)
        BY <1>4, <2>1, <3>2, <4>1 DEF Above, TooFast, Prev, Current, Distance
      <4>3. Ticketed(DaysOf(Prev(seen[i], seen[j]), Current(seen[i], seen[j])), seen[i].plate)
        BY <1>0, <3>2, <4>1, <4>2 DEF SpeedingInv, SpeedersMarked
      <4> QED
        BY <1>4, <1>6, <3>2, <4>1, <4>3 DEF Ticketed, DaysOf, Prev, Current, Day
    <3> QED
      BY <3>1, <3>2
  <2> QED
    BY <1>4, <2>1 DEF SpeedersMarked
<1> QED
  BY <1>6, <1>7, <1>9 DEF SpeedingInv

THEOREM SpeedingInvHolds == Spec => [](TicketInv /\ SpeedingInv)
<1>1. Init => SpeedingInv
  BY DEF Init, SpeedingInv, SightingsAccounted, MarksBacked, SpeedersMarked
<1>2. TicketInv /\ TicketInv' /\ SpeedingInv /\ [Next]_trafficVars => SpeedingInv'
  <2> SUFFICES ASSUME TicketInv, TicketInv', SpeedingInv, [Next]_trafficVars PROVE SpeedingInv'
    OBVIOUS
  <2>1. CASE UNCHANGED <<readingVars, issued>>
    BY <2>1 DEF readingVars, SpeedingInv, SightingsAccounted, MarksBacked, SpeedersMarked, Above,
                Ticketed, DaysOf, Prev, Current, TooFast, Distance, MarkedDays, Day
  <2>2. CASE UNCHANGED trafficVars
    BY <2>1, <2>2 DEF trafficVars, ticketVars
  <2>3. ASSUME NEW c \in Client,
               \/ Connected(c) \/ HangUp(c) \/ Disconnected(c)
               \/ \E announcement \in Announcement : IAmCamera(c, announcement)
               \/ \E roads \in SUBSET Road : IAmDispatcher(c, roads)
        PROVE  SpeedingInv'
    <3>1. UNCHANGED <<readingVars, issued>>
      BY <2>3 DEF Connected, HangUp, Disconnected, IAmCamera, IAmDispatcher, ticketVars
    <3> QED
      BY <2>1, <3>1
  <2> QED
    BY <2>2, <2>3, PlateReportKeepsSpeeding DEF Next
<1> QED
  BY <1>1, <1>2, TicketInvHolds, PTL DEF Spec

(* Of two sightings of a plate on a road that show it above the limit, some   *)
(* day between them is covered by a ticket for that plate, although sightings *)
(* are dropped on ticketed days, every second one survives the cleaning, and  *)
(* only the first pair found is ticketed (traffic.go:240-405).                *)
THEOREM NoSpeederEverEscapes == Spec => []NoSpeederEscapes
<1>1. TicketInv /\ SpeedingInv => NoSpeederEscapes
  <2> SUFFICES ASSUME TicketInv, SpeedingInv,
                      NEW i \in 1..Len(seen), NEW j \in 1..Len(seen), Above(i, j)
               PROVE  \E d \in DaysOf(Prev(seen[i], seen[j]), Current(seen[i], seen[j])) :
                        \E n \in 1..Len(issued) :
                          /\ issued[n].plate = seen[i].plate
                          /\ d \in Day(issued[n].time1)..Day(issued[n].time2)
    BY DEF NoSpeederEscapes, Above
  <2>1. PICK d \in DaysOf(Prev(seen[i], seen[j]), Current(seen[i], seen[j])) :
          <<d, seen[i].plate>> \in dayPlates
    BY DEF SpeedingInv, SpeedersMarked, Ticketed
  <2>2. PICK n \in 1..Len(issued) : <<d, seen[i].plate>> \in MarkedDays(issued[n])
    BY <2>1 DEF SpeedingInv, MarksBacked
  <2>3. issued[n].plate = seen[i].plate /\ d \in Day(issued[n].time1)..Day(issued[n].time2)
    BY <2>2 DEF MarkedDays
  <2> QED
    BY <2>1, <2>3
<1> QED
  BY <1>1, SpeedingInvHolds, PTL
-----------------------------------------------------------------------------
(* A list of readings holds sightings of its own plate. *)
PlatesMatch == \A p \in Plate : \A k \in plateReadings[p] : seen[k].plate = p

(* What the two sightings behind a ticket have to do with it. *)
Justifies(x, y, ticket) ==
  /\ {x.plate, y.plate} = {ticket.plate}
  /\ {x.road, y.road} = {ticket.road}
  /\ <<x.mile, x.time>> = <<ticket.mile1, ticket.time1>>
  /\ <<y.mile, y.time>> = <<ticket.mile2, ticket.time2>>
  /\ \E limit \in {x.limit, y.limit} : TooFast(x, y, limit)

TicketsBacked ==
  \A n \in 1..Len(issued) : \E i, j \in 1..Len(seen) : Justifies(seen[i], seen[j], issued[n])

LEMMA PlateReportKeepsJustified ==
  ASSUME TicketInv, PlatesMatch, TicketsBacked,
         NEW c \in Client, NEW plate \in Plate, NEW time \in Timestamp,
         PlateReport(c, plate, time)
  PROVE  PlatesMatch' /\ TicketsBacked'
<1>0. PICK l \in Nat : l = Len(seen)
  BY LenProperties DEF TicketInv, ReportsTyped
<1>1. PICK w \in Report : w = NewReport(c, plate, time)
  <2>1. cameras[c] \in Announcement
    BY DEF PlateReport, TicketInv, ReportsTyped
  <2>2. NewReport(c, plate, time) \in Report
    BY <2>1, TrafficAssumption DEF Report, NewReport
  <2> QED
    BY <2>2
<1>2. w.plate = plate
  BY <1>1 DEF NewReport
<1>3. /\ Len(seen') = l + 1
      /\ seen'[l + 1] = w
      /\ \A k \in 1..l : seen'[k] = seen[k] /\ seen[k] \in Report
  <2>1. seen' = Append(seen, w) /\ seen \in Seq(Report)
    BY <1>1 DEF PlateReport, NewReport, TicketInv, ReportsTyped
  <2> QED
    BY <1>0, <2>1, AppendProperties
<1>4. plateReadings \in [Plate -> SUBSET (1..l)]
  BY <1>0 DEF TicketInv, ReportsTyped
<1>5. PlatesMatch'
  <2>1. ASSUME NEW p \in Plate, NEW k \in plateReadings'[p]
        PROVE  seen'[k].plate = p
    <3>1. k \in plateReadings[p] \/ (p = plate /\ k = l + 1)
      <4> DEFINE readings == plateReadings[plate] \cup {l + 1}
      <4>1. \/ plateReadings' = plateReadings
            \/ plateReadings' = [plateReadings EXCEPT ![plate] = readings]
            \/ plateReadings' = [plateReadings EXCEPT ![plate] = Cleaned(readings, seen', dayPlates')]
        BY <1>0 DEF PlateReport
      <4>2. Cleaned(readings, seen', dayPlates') \subseteq readings
        BY DEF Cleaned
      <4>3. p # plate => plateReadings'[p] = plateReadings[p]
        BY <1>4, <4>1
      <4>4. plateReadings'[plate] \subseteq readings
        BY <1>4, <4>1, <4>2
      <4> QED
        BY <2>1, <4>3, <4>4
    <3> QED
      BY <1>2, <1>3, <1>4, <3>1 DEF PlatesMatch
  <2> QED
    BY <2>1 DEF PlatesMatch
<1>7. CASE UNCHANGED issued
  <2>1. ASSUME NEW n \in 1..Len(issued)
        PROVE  \E i, j \in 1..(l + 1) : Justifies(seen'[i], seen'[j], issued'[n])
    <3>1. PICK i \in 1..l, j \in 1..l : Justifies(seen[i], seen[j], issued[n])
      BY <1>0 DEF TicketsBacked
    <3>2. i \in 1..(l + 1) /\ j \in 1..(l + 1) /\ Justifies(seen'[i], seen'[j], issued'[n])
      BY <1>3, <1>7, <3>1
    <3> QED
      BY <3>2
  <2> QED
    BY <1>3, <1>5, <1>7, <2>1 DEF TicketsBacked
<1>8. ASSUME NEW k \in plateReadings[plate], Speeding(seen[k], w), Issue(TicketFor(seen[k], w))
      PROVE  TicketsBacked'
  <2>1. k \in 1..l /\ seen[k] \in Report /\ seen[k].plate = plate
    BY <1>3, <1>4 DEF PlatesMatch
  <2>2. PICK ticket \in Ticket : ticket = TicketFor(seen[k], w)
    BY <1>8, <2>1, TicketForSpeeding
  <2>3. PICK h \in Nat : h = Len(issued)
    BY LenProperties DEF TicketInv, ReportsTyped
  <2>4. /\ Len(issued') = h + 1 /\ issued'[h + 1] = ticket
        /\ \A n \in 1..h : issued'[n] = issued[n]
    BY <1>8, <2>2, <2>3, AppendProperties DEF Issue, TicketInv, ReportsTyped
  <2>5. seen[k].road = w.road /\ TooFast(Prev(seen[k], w), Current(seen[k], w), w.limit)
    BY <1>8 DEF Speeding
  <2>6. \E i, j \in 1..(l + 1) : Justifies(seen'[i], seen'[j], ticket)
    <3>1. CASE seen[k].time < w.time
      <4>1. Justifies(seen[k], w, ticket)
        BY <1>2, <1>3, <2>1, <2>2, <2>5, <3>1 DEF Justifies, TicketFor, Prev, Current, TooFast, Distance
      <4> QED
        BY <1>3, <2>1, <4>1
    <3>2. CASE ~(seen[k].time < w.time)
      <4>1. Justifies(w, seen[k], ticket)
        BY <1>2, <1>3, <2>1, <2>2, <2>5, <3>2 DEF Justifies, TicketFor, Prev, Current, TooFast, Distance
      <4> QED
        BY <1>3, <2>1, <4>1
    <3> QED
      BY <3>1, <3>2
  <2>7. ASSUME NEW n \in 1..h
        PROVE  \E i, j \in 1..(l + 1) : Justifies(seen'[i], seen'[j], issued'[n])
    <3>1. PICK i \in 1..l, j \in 1..l : Justifies(seen[i], seen[j], issued[n])
      BY <1>0, <2>3 DEF TicketsBacked
    <3>2. i \in 1..(l + 1) /\ j \in 1..(l + 1) /\ Justifies(seen'[i], seen'[j], issued'[n])
      BY <1>3, <2>4, <3>1
    <3> QED
      BY <3>2
  <2>8. ASSUME NEW n \in 1..(h + 1)
        PROVE  \E i, j \in 1..(l + 1) : Justifies(seen'[i], seen'[j], issued'[n])
    <3>1. CASE n \in 1..h
      BY <2>7, <3>1
    <3>2. CASE n = h + 1
      BY <2>4, <2>6, <3>2
    <3> QED
      BY <3>1, <3>2
  <2> QED
    BY <1>3, <2>4, <2>8 DEF TicketsBacked
<1> QED
  BY <1>1, <1>5, <1>7, <1>8, PlateReportCases DEF ticketVars

(* A ticket names two sightings of its plate on its road, in their order in   *)
(* time, which together are above a limit one of them saw (lines 294-356).    *)
THEOREM TicketsAlwaysJustified == Spec => []TicketsJustified
<1>1. Init => PlatesMatch /\ TicketsBacked
  BY DEF Init, PlatesMatch, TicketsBacked
<1>2. TicketInv /\ PlatesMatch /\ TicketsBacked /\ [Next]_trafficVars
        => PlatesMatch' /\ TicketsBacked'
  <2> SUFFICES ASSUME TicketInv, PlatesMatch, TicketsBacked, [Next]_trafficVars
               PROVE  PlatesMatch' /\ TicketsBacked'
    OBVIOUS
  <2>1. CASE UNCHANGED <<readingVars, issued>>
    BY <2>1 DEF readingVars, PlatesMatch, TicketsBacked
  <2>2. CASE UNCHANGED trafficVars
    BY <2>1, <2>2 DEF trafficVars, ticketVars
  <2>3. ASSUME NEW c \in Client,
               \/ Connected(c) \/ HangUp(c) \/ Disconnected(c)
               \/ \E announcement \in Announcement : IAmCamera(c, announcement)
               \/ \E roads \in SUBSET Road : IAmDispatcher(c, roads)
        PROVE  PlatesMatch' /\ TicketsBacked'
    <3>1. UNCHANGED <<readingVars, issued>>
      BY <2>3 DEF Connected, HangUp, Disconnected, IAmCamera, IAmDispatcher, ticketVars
    <3> QED
      BY <2>1, <3>1
  <2> QED
    BY <2>2, <2>3, PlateReportKeepsJustified DEF Next
<1>3. TicketsBacked => TicketsJustified
  BY DEF TicketsBacked, TicketsJustified, Justifies
<1> QED
  BY <1>1, <1>2, <1>3, TicketInvHolds, PTL DEF Spec
-----------------------------------------------------------------------------
(* The dispatchers, and the tickets that wait for them. *)

DispatchersOf(r) == {c \in Client : Dispatches(c, r)}

(* BalancersMatchDispatchers, with the types of its parts. *)
BalancersSound ==
  /\ dispatchers \in UNION {[S -> SUBSET Road] : S \in SUBSET Client}
  /\ DOMAIN road_dispatchers = {r \in Road : DispatchersOf(r) # {}}
  /\ \A r \in DOMAIN road_dispatchers :
       /\ Sound(road_dispatchers[r], Client)
       /\ Members(road_dispatchers[r]) = DispatchersOf(r)

(* A ticket that waits is on its road's list only and was written to nobody;  *)
(* any other was written once.                                                *)
TicketSettled(n) ==
  /\ \A r \in Road : n \in tickets[r] => r = issued[n].road
  /\ IF n \in tickets[issued[n].road] THEN deliveries[n] = <<>> ELSE Len(deliveries[n]) = 1

QueuesSound ==
  /\ tickets \in [Road -> SUBSET (1..Len(issued))]
  /\ deliveries \in Seq(Seq(Delivery)) /\ Len(deliveries) = Len(issued)
  /\ \A n \in 1..Len(issued) : TicketSettled(n)
  /\ \A r \in Road : tickets[r] # {} => DispatchersOf(r) = {}

DispatchInv == BalancersSound /\ QueuesSound
-----------------------------------------------------------------------------
(* A balancer lists somebody just when it has members. *)
LEMMA MembersOfSound ==
  ASSUME NEW S, NEW b, Sound(b, S)
  PROVE  b.set # <<>> <=> Members(b) # {}
<1>1. b.set \in Seq(S)
  BY DEF Sound
<1>2. b.set # <<>> <=> 1 \in 1..Len(b.set)
  BY <1>1
<1> QED
  BY <1>1, <1>2 DEF Members

(* Get finds somebody just when somebody dispatches for the road. *)
LEMMA CanDispatchIff ==
  ASSUME BalancersSound, NEW r \in Road
  PROVE  CanDispatch(r) <=> DispatchersOf(r) # {}
<1>1. r \in DOMAIN road_dispatchers <=> DispatchersOf(r) # {}
  BY DEF BalancersSound
<1>2. ASSUME r \in DOMAIN road_dispatchers
      PROVE  road_dispatchers[r].set # <<>>
  <2>1. Sound(road_dispatchers[r], Client) /\ Members(road_dispatchers[r]) = DispatchersOf(r)
    BY <1>2 DEF BalancersSound
  <2> QED
    BY <1>1, <1>2, <2>1, MembersOfSound
<1> QED
  BY <1>1, <1>2 DEF CanDispatch

(* A registration. *)
LEMMA IAmDispatcherKeepsBalancers ==
  ASSUME BalancersSound, NEW c \in Client, NEW roads \in SUBSET Road, IAmDispatcher(c, roads)
  PROVE  /\ BalancersSound'
         /\ \A r \in Road : DispatchersOf(r)' =
              IF r \in roads THEN DispatchersOf(r) \cup {c} ELSE DispatchersOf(r)
<1>1. PICK S \in SUBSET Client : dispatchers \in [S -> SUBSET Road]
  BY DEF BalancersSound
<1>2. dispatchers' = [x \in DOMAIN dispatchers \cup {c} |-> IF x = c THEN roads ELSE dispatchers[x]]
      /\ c \notin DOMAIN dispatchers
  BY DEF IAmDispatcher, HasRole
<1>3. dispatchers' \in [S \cup {c} -> SUBSET Road] /\ S \cup {c} \in SUBSET Client
  BY <1>1, <1>2
<1>4. ASSUME NEW r \in Road, NEW x \in Client
      PROVE  Dispatches(x, r)' <=> Dispatches(x, r) \/ (x = c /\ r \in roads)
  BY <1>1, <1>2 DEF Dispatches
<1>5. ASSUME NEW r \in Road
      PROVE  DispatchersOf(r)' = IF r \in roads THEN DispatchersOf(r) \cup {c} ELSE DispatchersOf(r)
  BY <1>4 DEF DispatchersOf
<1>6. road_dispatchers' = [r \in DOMAIN road_dispatchers \cup roads |->
                             IF r \in roads THEN Add(BalancerOf(r), c) ELSE road_dispatchers[r]]
  BY DEF IAmDispatcher
<1>7. DOMAIN road_dispatchers = {r \in Road : DispatchersOf(r) # {}}
  BY DEF BalancersSound
<1>8. DOMAIN road_dispatchers' = {r \in Road : DispatchersOf(r)' # {}}
  <2>1. \A r \in Road : DispatchersOf(r)' # {} <=> r \in roads \/ DispatchersOf(r) # {}
    BY <1>5
  <2> QED
    BY <1>6, <1>7, <2>1
<1>9. ASSUME NEW r \in DOMAIN road_dispatchers'
      PROVE  Sound(road_dispatchers'[r], Client) /\ Members(road_dispatchers'[r]) = DispatchersOf(r)'
  <2>1. r \in Road
    BY <1>8
  <2>2. CASE r \notin roads
    <3>1. r \in DOMAIN road_dispatchers /\ road_dispatchers'[r] = road_dispatchers[r]
      BY <1>6, <2>2
    <3>2. DispatchersOf(r)' = DispatchersOf(r)
      BY <1>5, <2>1, <2>2
    <3> QED
      BY <3>1, <3>2 DEF BalancersSound
  <2>3. CASE r \in roads
    <3>1. Sound(BalancerOf(r), Client) /\ Members(BalancerOf(r)) = DispatchersOf(r)
      <4>1. CASE r \in DOMAIN road_dispatchers
        BY <4>1 DEF BalancersSound, BalancerOf
      <4>2. CASE r \notin DOMAIN road_dispatchers
        <5>1. BalancerOf(r) = NewBalancer /\ DispatchersOf(r) = {}
          BY <1>7, <2>1, <4>2 DEF BalancerOf
        <5> QED
          BY <5>1, NewBalancerSound
      <4> QED
        BY <4>1, <4>2
    <3>2. road_dispatchers'[r] = Add(BalancerOf(r), c)
      BY <1>6, <2>3
    <3>3. DispatchersOf(r)' = DispatchersOf(r) \cup {c}
      BY <1>5, <2>1, <2>3
    <3> QED
      BY <3>1, <3>2, <3>3, AddSound
  <2> QED
    BY <2>2, <2>3
<1> QED
  BY <1>3, <1>5, <1>8, <1>9 DEF BalancersSound

(* A disconnection, of a dispatcher or of anybody else. *)
LEMMA DisconnectedKeepsBalancers ==
  ASSUME BalancersSound, NEW c \in Client, Disconnected(c)
  PROVE  /\ BalancersSound'
         /\ \A r \in Road : DispatchersOf(r)' = DispatchersOf(r) \ {c}
<1>1. PICK S \in SUBSET Client : dispatchers \in [S -> SUBSET Road]
  BY DEF BalancersSound
<1>2. dispatchers' = [x \in DOMAIN dispatchers \ {c} |-> dispatchers[x]]
  BY DEF Disconnected, Without
<1>3. dispatchers' \in [S \ {c} -> SUBSET Road] /\ S \ {c} \in SUBSET Client
  BY <1>1, <1>2
<1>4. ASSUME NEW r \in Road, NEW x \in Client
      PROVE  Dispatches(x, r)' <=> Dispatches(x, r) /\ x # c
  BY <1>1, <1>2 DEF Dispatches
<1>5. ASSUME NEW r \in Road
      PROVE  DispatchersOf(r)' = DispatchersOf(r) \ {c}
  BY <1>4 DEF DispatchersOf
<1>6. DOMAIN road_dispatchers = {r \in Road : DispatchersOf(r) # {}}
  BY DEF BalancersSound
<1>7. CASE c \notin DOMAIN dispatchers
  <2>1. road_dispatchers' = road_dispatchers
    BY <1>7 DEF Disconnected
  <2>2. \A r \in Road : DispatchersOf(r)' = DispatchersOf(r)
    BY <1>5, <1>7 DEF DispatchersOf, Dispatches
  <2> QED
    BY <1>3, <1>5, <1>6, <2>1, <2>2 DEF BalancersSound
<1>8. CASE c \in DOMAIN dispatchers
  <2> DEFINE left == [r \in DOMAIN road_dispatchers |-> Remove(road_dispatchers[r], c)]
  <2>1. road_dispatchers' = [r \in {x \in DOMAIN left : left[x].set # <<>>} |-> left[r]]
    BY <1>8 DEF Disconnected, WithoutDispatcher
  <2>2. ASSUME NEW r \in DOMAIN road_dispatchers
        PROVE  /\ Sound(left[r], Client)
               /\ Members(left[r]) = DispatchersOf(r)'
               /\ left[r].set # <<>> <=> DispatchersOf(r)' # {}
    <3>1. Sound(road_dispatchers[r], Client) /\ Members(road_dispatchers[r]) = DispatchersOf(r)
      BY DEF BalancersSound
    <3>2. left[r] = Remove(road_dispatchers[r], c)
      OBVIOUS
    <3>3. DispatchersOf(r)' = DispatchersOf(r) \ {c}
      BY <1>5, <1>6
    <3>4. Sound(left[r], Client) /\ Members(left[r]) = DispatchersOf(r)'
      BY <3>1, <3>2, <3>3, RemoveSound
    <3> QED
      BY <3>4, MembersOfSound
  <2>3. DOMAIN left = DOMAIN road_dispatchers
    OBVIOUS
  <2> HIDE DEF left
  <2>4. DOMAIN road_dispatchers' = {r \in DOMAIN road_dispatchers : DispatchersOf(r)' # {}}
    BY <2>1, <2>2, <2>3
  <2>5. DOMAIN road_dispatchers' = {r \in Road : DispatchersOf(r)' # {}}
    BY <1>5, <1>6, <2>4
  <2>6. \A r \in DOMAIN road_dispatchers' : road_dispatchers'[r] = left[r]
    BY <2>1
  <2> QED
    BY <1>3, <1>5, <2>2, <2>4, <2>5, <2>6 DEF BalancersSound
<1> QED
  BY <1>7, <1>8
(* A new ticket is sent to the road's next dispatcher, or waits. *)
LEMMA IssueKeepsDispatch ==
  ASSUME DispatchInv, issued \in Seq(Ticket), NEW ticket \in Ticket, Issue(ticket),
         UNCHANGED dispatchers
  PROVE  DispatchInv'
<1>0. PICK l \in Nat : l = Len(issued)
  BY LenProperties
<1> DEFINE r == ticket.road
           b == road_dispatchers[r]
           n == l + 1
           d == Delivered(GetItem(b))
<1>1. r \in Road
  BY DEF Ticket
<1>2. /\ issued' = Append(issued, ticket)
      /\ Len(issued') = n
      /\ issued'[n] = ticket
      /\ \A m \in 1..l : issued'[m] = issued[m]
  BY <1>0, AppendProperties DEF Issue
<1>3. \A q \in Road : DispatchersOf(q)' = DispatchersOf(q)
  BY DEF DispatchersOf, Dispatches
<1>4. /\ tickets \in [Road -> SUBSET (1..l)]
      /\ deliveries \in Seq(Seq(Delivery)) /\ Len(deliveries) = l
      /\ \A m \in 1..l : TicketSettled(m)
      /\ \A q \in Road : tickets[q] # {} => DispatchersOf(q) = {}
  BY <1>0 DEF DispatchInv, QueuesSound
<1>5. \A m \in 1..l : issued[m].road \in Road
  <2>1. \A m \in 1..l : issued[m] \in Ticket
    BY <1>0, LenProperties
  <2> QED
    BY <2>1 DEF Ticket
<1>6. ASSUME CanDispatch(r)
      PROVE  b.set # <<>> /\ Sound(b, Client) /\ Members(b) = DispatchersOf(r)
  BY <1>6 DEF CanDispatch, DispatchInv, BalancersSound
<1>7. CASE /\ CanDispatch(r)
           /\ deliveries' = Append(deliveries, <<d>>)
           /\ road_dispatchers' = [road_dispatchers EXCEPT ![r] = Turned(b)]
           /\ UNCHANGED tickets
  <2>1. Sound(Turned(b), Client) /\ Members(Turned(b)) = DispatchersOf(r) /\ GetItem(b) \in Client
    BY <1>6, <1>7, TurnedSound
  <2>2. BalancersSound'
    <3> HIDE DEF b
    <3>1. DOMAIN road_dispatchers' = DOMAIN road_dispatchers
      BY <1>7
    <3>2. \A q \in DOMAIN road_dispatchers : q \in Road
      BY DEF DispatchInv, BalancersSound
    <3>3. ASSUME NEW q \in DOMAIN road_dispatchers'
          PROVE  /\ Sound(road_dispatchers'[q], Client)
                 /\ Members(road_dispatchers'[q]) = DispatchersOf(q)'
      <4>1. CASE q = r
        BY <1>1, <1>3, <1>7, <2>1, <3>1, <3>3, <4>1
      <4>2. CASE q # r
        BY <1>3, <1>7, <3>1, <3>2, <3>3, <4>2 DEF DispatchInv, BalancersSound
      <4> QED
        BY <4>1, <4>2
    <3> QED
      BY <1>3, <3>1, <3>3 DEF DispatchInv, BalancersSound
  <2>3. /\ deliveries' \in Seq(Seq(Delivery)) /\ Len(deliveries') = n
        /\ deliveries'[n] = <<d>>
        /\ \A m \in 1..l : deliveries'[m] = deliveries[m]
    <3>1. d \in Delivery
      BY <2>1 DEF Delivered, Delivery
    <3> HIDE DEF d
    <3>2. <<d>> \in Seq(Delivery)
      BY <3>1
    <3> QED
      BY <1>2, <1>4, <1>7, <3>2, AppendProperties
  <2>4. Len(<<d>>) = 1
    OBVIOUS
  <2>5. n \notin tickets[r]
    BY <1>1, <1>2, <1>4
  <2>6. TicketSettled(n)'
    <3>2. \A q \in Road : n \notin tickets'[q]
      BY <1>2, <1>4, <1>7
    <3> QED
      BY <1>1, <1>2, <2>3, <2>4, <3>2 DEF TicketSettled
  <2>7. \A m \in 1..l : TicketSettled(m)'
    BY <1>2, <1>4, <1>7, <2>3 DEF TicketSettled
  <2>8. \A m \in 1..n : TicketSettled(m)'
    BY <1>2, <2>6, <2>7
  <2>9. tickets' \in [Road -> SUBSET (1..n)]
    BY <1>4, <1>7
  <2>10. \A q \in Road : tickets'[q] # {} => DispatchersOf(q)' = {}
    BY <1>3, <1>4, <1>7
  <2>11. QueuesSound'
    BY <1>2, <2>3, <2>8, <2>9, <2>10 DEF QueuesSound
  <2> QED
    BY <2>2, <2>11 DEF DispatchInv
<1>8. CASE /\ ~CanDispatch(r)
           /\ deliveries' = Append(deliveries, <<>>)
           /\ tickets' = [tickets EXCEPT ![r] = @ \cup {n}]
           /\ UNCHANGED road_dispatchers
  <2>1. BalancersSound'
    BY <1>3, <1>8 DEF DispatchInv, BalancersSound
  <2>2. DispatchersOf(r) = {}
    BY <1>1, <1>8, CanDispatchIff DEF DispatchInv
  <2>3. /\ deliveries' \in Seq(Seq(Delivery)) /\ Len(deliveries') = n
        /\ deliveries'[n] = <<>>
        /\ \A m \in 1..l : deliveries'[m] = deliveries[m]
    BY <1>2, <1>4, <1>8, AppendProperties
  <2>4. /\ tickets' \in [Road -> SUBSET (1..n)]
        /\ \A q \in Road : q # r => tickets'[q] = tickets[q]
        /\ tickets'[r] = tickets[r] \cup {n}
    <3> HIDE DEF r
    <3> QED
      BY <1>1, <1>2, <1>4, <1>8
  <2>5. TicketSettled(n)'
    <3>1. \A q \in Road : n \in tickets'[q] => q = r
      BY <1>2, <1>4, <2>4
    <3> QED
      BY <1>1, <1>2, <2>3, <2>4, <3>1 DEF TicketSettled
  <2>6. ASSUME NEW m \in 1..l
        PROVE  TicketSettled(m)'
    <3>1. \A q \in Road : m \in tickets'[q] <=> m \in tickets[q]
      BY <1>2, <2>4
    <3> QED
      BY <1>2, <1>4, <1>5, <2>3, <3>1 DEF TicketSettled
  <2>7. \A q \in Road : tickets'[q] # {} => DispatchersOf(q)' = {}
    BY <1>3, <1>4, <2>2, <2>4
  <2>8. \A m \in 1..n : TicketSettled(m)'
    BY <1>2, <2>5, <2>6
  <2>9. QueuesSound'
    BY <1>2, <2>3, <2>4, <2>7, <2>8 DEF QueuesSound
  <2> QED
    BY <2>1, <2>9 DEF DispatchInv
<1> QED
  BY <1>0, <1>7, <1>8 DEF Issue

(* A dispatcher that registers empties the queues of its roads. *)
LEMMA IAmDispatcherKeepsDispatch ==
  ASSUME DispatchInv, issued \in Seq(Ticket), NEW c \in Client, NEW roads \in SUBSET Road, IAmDispatcher(c, roads)
  PROVE  DispatchInv'
<1>0. PICK l \in Nat : l = Len(issued)
  BY LenProperties
<1>1. /\ BalancersSound'
      /\ \A r \in Road : DispatchersOf(r)' =
           IF r \in roads THEN DispatchersOf(r) \cup {c} ELSE DispatchersOf(r)
  BY IAmDispatcherKeepsBalancers DEF DispatchInv
<1>2. /\ tickets \in [Road -> SUBSET (1..l)]
      /\ deliveries \in Seq(Seq(Delivery)) /\ Len(deliveries) = l
      /\ \A n \in 1..l : TicketSettled(n)
      /\ \A r \in Road : tickets[r] # {} => DispatchersOf(r) = {}
  BY <1>0 DEF DispatchInv, QueuesSound
<1>3. /\ issued' = issued
      /\ tickets' \in [Road -> SUBSET (1..l)]
      /\ \A r \in Road : tickets'[r] = IF r \in roads THEN {} ELSE tickets[r]
  BY <1>2 DEF IAmDispatcher, TicketsLeft
<1>4. DOMAIN deliveries = 1..l /\ \A n \in 1..l : deliveries[n] \in Seq(Delivery)
  BY <1>2, LenProperties
<1>5. deliveries' = [n \in 1..l |-> IF \E r \in roads : n \in tickets[r]
                                     THEN Append(deliveries[n], Delivered(c))
                                     ELSE deliveries[n]]
  BY <1>4 DEF IAmDispatcher
<1>6. \A n \in 1..l : /\ Append(deliveries[n], Delivered(c)) \in Seq(Delivery)
                      /\ Len(Append(deliveries[n], Delivered(c))) = Len(deliveries[n]) + 1
  <2>1. Delivered(c) \in Delivery
    BY DEF Delivered, Delivery
  <2> QED
    BY <1>4, <2>1, AppendProperties
<1>7. deliveries' \in Seq(Seq(Delivery)) /\ Len(deliveries') = l
  <2>1. deliveries' \in [1..l -> Seq(Delivery)]
    BY <1>4, <1>5, <1>6
  <2> QED
    BY <2>1
<1>8. ASSUME NEW n \in 1..l
      PROVE  TicketSettled(n)'
  <2>1. /\ \A r \in Road : n \in tickets[r] => r = issued[n].road
        /\ IF n \in tickets[issued[n].road] THEN deliveries[n] = <<>> ELSE Len(deliveries[n]) = 1
    BY <1>2 DEF TicketSettled
  <2>2. CASE \E r \in roads : n \in tickets[r]
    <3>1. issued[n].road \in roads /\ n \in tickets[issued[n].road]
      BY <2>1, <2>2
    <3>2. Len(deliveries'[n]) = 1
      BY <1>5, <1>6, <2>1, <2>2, <3>1
    <3> QED
      BY <1>3, <2>1, <3>1, <3>2 DEF TicketSettled
  <2>3. CASE ~ \E r \in roads : n \in tickets[r]
    <3>1. deliveries'[n] = deliveries[n]
      BY <1>5, <2>3
    <3>2. \A r \in Road : n \in tickets'[r] <=> n \in tickets[r]
      BY <1>3, <2>3
    <3>3. issued[n].road \in Road
      <4>1. issued[n] \in Ticket
        BY <1>0, LenProperties
      <4> QED
        BY <4>1 DEF Ticket
    <3> QED
      BY <1>3, <2>1, <3>1, <3>2, <3>3 DEF TicketSettled
  <2> QED
    BY <2>2, <2>3
<1>9. \A r \in Road : tickets'[r] # {} => DispatchersOf(r)' = {}
  BY <1>1, <1>2, <1>3
<1> QED
  BY <1>0, <1>1, <1>3, <1>7, <1>8, <1>9 DEF DispatchInv, QueuesSound

LEMMA DisconnectedKeepsDispatch ==
  ASSUME DispatchInv, NEW c \in Client, Disconnected(c)
  PROVE  DispatchInv'
<1>1. BalancersSound' /\ \A r \in Road : DispatchersOf(r)' = DispatchersOf(r) \ {c}
  BY DisconnectedKeepsBalancers DEF DispatchInv
<1>2. UNCHANGED <<tickets, issued, deliveries>>
  BY DEF Disconnected
<1>3. \A r \in Road : tickets'[r] # {} => DispatchersOf(r)' = {}
  BY <1>1, <1>2 DEF DispatchInv, QueuesSound
<1> QED
  BY <1>1, <1>2, <1>3 DEF DispatchInv, QueuesSound, TicketSettled

LEMMA OthersKeepDispatch ==
  ASSUME DispatchInv, UNCHANGED <<dispatchers, ticketVars>>
  PROVE  DispatchInv'
  BY DEF DispatchInv, BalancersSound, QueuesSound, TicketSettled, DispatchersOf, Dispatches, ticketVars

THEOREM DispatchInvHolds == Spec => [](TicketInv /\ DispatchInv)
<1>1. Init => DispatchInv
  <2> SUFFICES ASSUME Init PROVE DispatchInv
    OBVIOUS
  <2>1. \A r \in Road : DispatchersOf(r) = {}
    BY DEF Init, DispatchersOf, Dispatches
  <2>2. dispatchers \in [{} -> SUBSET Road]
    BY DEF Init
  <2>3. DOMAIN road_dispatchers = {}
    BY DEF Init
  <2>4. BalancersSound
    BY <2>1, <2>2, <2>3 DEF BalancersSound
  <2>5. /\ issued = <<>> /\ deliveries = <<>> /\ tickets = [r \in Road |-> {}]
    BY DEF Init
  <2>6. QueuesSound
    BY <2>1, <2>5 DEF QueuesSound
  <2> QED
    BY <2>4, <2>6 DEF DispatchInv
<1>2. TicketInv /\ DispatchInv /\ [Next]_trafficVars => DispatchInv'
  <2> SUFFICES ASSUME TicketInv, DispatchInv, [Next]_trafficVars PROVE DispatchInv'
    OBVIOUS
  <2>1. CASE UNCHANGED trafficVars
    BY <2>1, OthersKeepDispatch DEF trafficVars, roleVars
  <2>2. ASSUME NEW c \in Client, Connected(c) \/ HangUp(c)
        PROVE  DispatchInv'
    BY <2>2, OthersKeepDispatch DEF Connected, HangUp
  <2>3. ASSUME NEW c \in Client, NEW announcement \in Announcement, IAmCamera(c, announcement)
        PROVE  DispatchInv'
    BY <2>3, OthersKeepDispatch DEF IAmCamera
  <2>4. ASSUME NEW c \in Client, NEW roads \in SUBSET Road, IAmDispatcher(c, roads)
        PROVE  DispatchInv'
    BY <2>4, IAmDispatcherKeepsDispatch DEF TicketInv, ReportsTyped
  <2>5. ASSUME NEW c \in Client, Disconnected(c)
        PROVE  DispatchInv'
    BY <2>5, DisconnectedKeepsDispatch
  <2>6. ASSUME NEW c \in Client, NEW plate \in Plate, NEW time \in Timestamp,
               PlateReport(c, plate, time)
        PROVE  DispatchInv'
    <3>1. UNCHANGED dispatchers
      BY <2>6 DEF PlateReport, roleVars
    <3>2. CASE UNCHANGED ticketVars
      BY <3>1, <3>2, OthersKeepDispatch
    <3>3. CASE \E ticket \in Ticket : Issue(ticket)
      BY <3>1, <3>3, IssueKeepsDispatch DEF TicketInv, ReportsTyped
    <3> QED
      BY <2>6, <3>2, <3>3, PlateReportIssues
  <2> QED
    BY <2>1, <2>2, <2>3, <2>4, <2>5, <2>6 DEF Next
<1> QED
  BY <1>1, <1>2, TicketInvHolds, PTL DEF Spec
-----------------------------------------------------------------------------
(* The list of a road's balancer names each of its dispatchers once, and      *)
(* nobody else, and Get stays inside it (traffic.go:205-227, 413-418).        *)
THEOREM BalancersAlwaysMatch == Spec => []BalancersMatchDispatchers
<1>1. DispatchInv => BalancersMatchDispatchers
  <2> SUFFICES ASSUME DispatchInv PROVE BalancersMatchDispatchers
    OBVIOUS
  <2>1. \A r : DispatchersOf(r) = {c \in Client : Dispatches(c, r)}
    BY DEF DispatchersOf
  <2>2. DOMAIN road_dispatchers = {r \in Road : \E c \in Client : Dispatches(c, r)}
    BY DEF DispatchInv, BalancersSound, DispatchersOf
  <2>3. ASSUME NEW r \in DOMAIN road_dispatchers
        PROVE  LET b == road_dispatchers[r] IN
               /\ Members(b) = {c \in Client : Dispatches(c, r)}
               /\ \A j, k \in 1..Len(b.set) : b.set[j] = b.set[k] => j = k
               /\ b.index < Len(b.set)
    <3>1. Sound(road_dispatchers[r], Client) /\ Members(road_dispatchers[r]) = DispatchersOf(r)
      BY DEF DispatchInv, BalancersSound
    <3>2. DispatchersOf(r) # {}
      BY DEF DispatchInv, BalancersSound
    <3>3. road_dispatchers[r].set # <<>>
      BY <3>1, <3>2, MembersOfSound
    <3> QED
      BY <2>1, <3>1, <3>3 DEF Sound
  <2> QED
    BY <2>2, <2>3 DEF BalancersMatchDispatchers
<1> QED
  BY <1>1, DispatchInvHolds, PTL

(* A ticket waits only while nobody dispatches for its road                   *)
(* (traffic.go:228-239, 371-392).                                             *)
THEOREM TicketsNeverStranded == Spec => []NoTicketStranded
<1>1. DispatchInv => NoTicketStranded
  <2> SUFFICES ASSUME DispatchInv, NEW r \in Road, tickets[r] # {}
               PROVE  /\ \A c \in Client : ~Dispatches(c, r)
                      /\ \A n \in tickets[r] : issued[n].road = r
    BY DEF NoTicketStranded
  <2>1. DispatchersOf(r) = {}
    BY DEF DispatchInv, QueuesSound
  <2>2. \A n \in tickets[r] : issued[n].road = r
    BY DEF DispatchInv, QueuesSound, TicketSettled
  <2> QED
    BY <2>1, <2>2 DEF DispatchersOf
<1> QED
  BY <1>1, DispatchInvHolds, PTL

(* A ticket is written to one client, once, or it waits.                      *)
THEOREM TicketsAlwaysConserved == Spec => []TicketsConserved
<1>1. TicketInv /\ DispatchInv => TicketsConserved
  <2> SUFFICES ASSUME TicketInv, DispatchInv, NEW n \in 1..Len(issued)
               PROVE  Len(deliveries[n]) + Cardinality({r \in Road : n \in tickets[r]}) = 1
    BY DEF TicketsConserved
  <2>1. issued[n].road \in Road
    <3>1. issued[n] \in Ticket
      BY LenProperties DEF TicketInv, ReportsTyped
    <3> QED
      BY <3>1 DEF Ticket
  <2>2. TicketSettled(n)
    BY DEF DispatchInv, QueuesSound
  <2> DEFINE W == {r \in Road : n \in tickets[r]}
  <2>3. CASE n \in tickets[issued[n].road]
    <3>1. W = {issued[n].road}
      BY <2>1, <2>2, <2>3 DEF TicketSettled
    <3>2. Len(deliveries[n]) = 0
      BY <2>2, <2>3 DEF TicketSettled
    <3>3. Cardinality(W) = 1
      <4> HIDE DEF W
      <4> QED
        BY <3>1, FS_Singleton
    <3> QED
      BY <3>2, <3>3
  <2>4. CASE n \notin tickets[issued[n].road]
    <3>1. W = {}
      BY <2>2, <2>4 DEF TicketSettled
    <3>2. Len(deliveries[n]) = 1
      BY <2>2, <2>4 DEF TicketSettled
    <3>3. Cardinality(W) = 0
      <4> HIDE DEF W
      <4> QED
        BY <3>1, FS_EmptySet
    <3> QED
      BY <3>2, <3>3
  <2> QED
    BY <2>3, <2>4
<1> QED
  BY <1>1, DispatchInvHolds, PTL

(* A step that writes a ticket writes it to a dispatcher of its road. *)
LEMMA WrittenToTheRoad ==
  ASSUME TicketInv, DispatchInv, [Next]_trafficVars, NEW n \in 1..Len(issued'),
         deliveries'[n] # <<>>,
         n \in 1..Len(issued) => deliveries[n] # deliveries'[n]
  PROVE  Dispatches(deliveries[n][Len(deliveries[n])].to, issued[n].road)'
<1> DEFINE Goal == Dispatches(deliveries[n][Len(deliveries[n])].to, issued[n].road)
<1>1. ~ UNCHANGED <<issued, deliveries>>
  OBVIOUS
<1>2. ~ UNCHANGED ticketVars
  BY <1>1 DEF ticketVars
<1>3. /\ issued \in Seq(Ticket)
      /\ deliveries \in Seq(Seq(Delivery)) /\ Len(deliveries) = Len(issued)
      /\ \A m \in 1..Len(issued) : TicketSettled(m)
  BY DEF TicketInv, ReportsTyped, DispatchInv, QueuesSound
<1>4. ASSUME NEW c \in Client, NEW roads \in SUBSET Road, IAmDispatcher(c, roads)
      PROVE  Goal'
  <2>1. issued' = issued /\ n \in 1..Len(issued)
    BY <1>4 DEF IAmDispatcher
  <2>2. n \in DOMAIN deliveries /\ deliveries[n] \in Seq(Delivery)
    BY <1>3, <2>1, LenProperties
  <2>3. /\ \E r \in roads : n \in tickets[r]
        /\ deliveries'[n] = Append(deliveries[n], Delivered(c))
    BY <1>4, <2>1, <2>2 DEF IAmDispatcher
  <2>4. issued[n].road \in roads
    BY <1>3, <2>1, <2>3 DEF TicketSettled
  <2>5. deliveries'[n][Len(deliveries'[n])] = Delivered(c)
    <3>1. Delivered(c) \in Delivery
      BY DEF Delivered, Delivery
    <3> QED
      BY <2>2, <2>3, <3>1, AppendProperties
  <2>6. Dispatches(c, issued[n].road)'
    BY <1>4, <2>1, <2>4 DEF IAmDispatcher, Dispatches
  <2> QED
    BY <2>5, <2>6 DEF Delivered
<1>5. ASSUME NEW ticket \in Ticket, Issue(ticket), UNCHANGED dispatchers
      PROVE  Goal'
  <2>1. PICK l \in Nat : l = Len(issued)
    BY <1>3, LenProperties
  <2> DEFINE r == ticket.road
             b == road_dispatchers[r]
  <2>2. /\ Len(issued') = l + 1
        /\ issued'[l + 1] = ticket
    BY <1>3, <1>5, <2>1, AppendProperties DEF Issue
  <2>3. CASE CanDispatch(r) /\ deliveries' = Append(deliveries, <<Delivered(GetItem(b))>>)
    <3>1. b.set # <<>> /\ Sound(b, Client) /\ Members(b) = DispatchersOf(r)
      BY <2>3 DEF CanDispatch, DispatchInv, BalancersSound
    <3>2. PICK x \in Client : x = GetItem(b) /\ Dispatches(x, r)
      BY <3>1, TurnedSound DEF DispatchersOf
    <3>3. Delivered(x) \in Delivery /\ Delivered(x).to = x
      BY DEF Delivered, Delivery
    <3>4. /\ deliveries'[l + 1] = <<Delivered(x)>>
          /\ \A k \in 1..l : deliveries'[k] = deliveries[k]
      <4> DEFINE d == Delivered(x)
      <4>1. deliveries' = Append(deliveries, <<d>>)
        BY <2>3, <3>2
      <4>2. <<d>> \in Seq(Delivery)
        BY <3>3
      <4> HIDE DEF d
      <4>3. /\ deliveries'[l + 1] = <<d>>
            /\ \A k \in 1..l : deliveries'[k] = deliveries[k]
        BY <1>3, <2>1, <4>1, <4>2, AppendProperties
      <4> QED
        BY <4>3 DEF d
    <3>5. n = l + 1
      BY <2>1, <2>2, <3>4
    <3>6. deliveries'[n][Len(deliveries'[n])].to = x
      BY <3>3, <3>4, <3>5
    <3>7. Dispatches(x, issued[n].road)'
      BY <1>5, <2>2, <3>2, <3>5 DEF Dispatches
    <3> QED
      BY <3>6, <3>7
  <2>4. CASE deliveries' = Append(deliveries, <<>>)
    <3>1. <<>> \in Seq(Delivery)
      OBVIOUS
    <3>2. /\ deliveries'[l + 1] = <<>>
          /\ \A k \in 1..l : deliveries'[k] = deliveries[k]
      BY <1>3, <2>1, <2>4, <3>1, AppendProperties
    <3> QED
      BY <2>1, <2>2, <3>2
  <2> QED
    BY <1>5, <2>3, <2>4 DEF Issue
<1>6. ASSUME NEW c \in Client, NEW plate \in Plate, NEW time \in Timestamp,
             PlateReport(c, plate, time)
      PROVE  Goal'
  <2>1. UNCHANGED dispatchers
    BY <1>6 DEF PlateReport, roleVars
  <2>2. PICK ticket \in Ticket : Issue(ticket)
    BY <1>2, <1>6, PlateReportIssues
  <2> HIDE DEF Goal
  <2> QED
    BY <1>5, <2>1, <2>2
<1>7. ~ UNCHANGED trafficVars
  BY <1>2 DEF trafficVars
<1>8. \A c \in Client :
        /\ ~Connected(c) /\ ~HangUp(c) /\ ~Disconnected(c)
        /\ \A announcement \in Announcement : ~IAmCamera(c, announcement)
  BY <1>1, <1>2 DEF Connected, HangUp, Disconnected, IAmCamera
<1> HIDE DEF Goal
<1>9. Goal'
  BY <1>4, <1>6, <1>7, <1>8 DEF Next
<1> QED
  BY <1>9 DEF Goal

(* The client a ticket is written to dispatches for its road at that moment:  *)
(* the balancer's next, or the one that registers.                            *)
THEOREM TicketsGoToTheRoad == Spec => TicketsReachTheRoad
<1>1. TicketInv /\ DispatchInv /\ [Next]_trafficVars
        => [\A n \in 1..Len(issued') :
              deliveries'[n] # <<>> /\ (n \in 1..Len(issued) => deliveries[n] # deliveries'[n])
                => Dispatches(deliveries[n][Len(deliveries[n])].to, issued[n].road)']_trafficVars
  BY WrittenToTheRoad
<1> QED
  BY <1>1, DispatchInvHolds, PTL DEF Spec, TicketsReachTheRoad

(* Type correctness: who has which role, and what the lists hold. *)
RolesSound ==
  /\ clients \in SUBSET Client /\ gone \in SUBSET clients /\ hungUp \in SUBSET clients
  /\ cameras \in UNION {[S -> Announcement] : S \in SUBSET clients}
  /\ dispatchers \in UNION {[S -> SUBSET Road] : S \in SUBSET clients}
  /\ \A c \in gone : c \notin DOMAIN cameras \cup DOMAIN dispatchers
  /\ DOMAIN cameras \cap DOMAIN dispatchers = {}
  /\ dayPlates \in SUBSET (Nat \X Plate)

LEMMA IssueMarksDays ==
  ASSUME NEW ticket \in Ticket, Issue(ticket), dayPlates \in SUBSET (Nat \X Plate)
  PROVE  dayPlates' \in SUBSET (Nat \X Plate)
<1>1. Day(ticket.time1) \in Nat /\ Day(ticket.time2) \in Nat
  BY DayMonotone DEF Ticket
<1>2. MarkedDays(ticket) \subseteq Nat \X Plate
  BY <1>1 DEF MarkedDays, Ticket
<1> QED
  BY <1>2 DEF Issue

THEOREM TrafficTypeCorrect == Spec => []TrafficTypeOK
<1>1. Init => RolesSound
  <2> SUFFICES ASSUME Init PROVE RolesSound
    OBVIOUS
  <2>1. cameras \in [{} -> Announcement] /\ dispatchers \in [{} -> SUBSET Road]
    BY DEF Init
  <2> QED
    BY <2>1 DEF Init, RolesSound
<1>2. TicketInv /\ RolesSound /\ [Next]_trafficVars => RolesSound'
  <2> SUFFICES ASSUME TicketInv, RolesSound, [Next]_trafficVars PROVE RolesSound'
    OBVIOUS
  <2>1. CASE UNCHANGED <<roleVars, dayPlates>>
    BY <2>1 DEF RolesSound, roleVars
  <2>2. CASE UNCHANGED trafficVars
    BY <2>1, <2>2 DEF trafficVars, readingVars
  <2>3. PICK S \in SUBSET clients, D \in SUBSET clients :
          cameras \in [S -> Announcement] /\ dispatchers \in [D -> SUBSET Road]
    BY DEF RolesSound
  <2>4. ASSUME NEW c \in Client, Connected(c)
        PROVE  RolesSound'
    <3>1. clients' = clients \cup {c} /\ UNCHANGED <<gone, hungUp, cameras, dispatchers, dayPlates>>
      BY <2>4 DEF Connected, readingVars
    <3>2. S \in SUBSET clients' /\ D \in SUBSET clients'
      BY <3>1
    <3> QED
      BY <2>3, <3>1, <3>2 DEF RolesSound
  <2>5. ASSUME NEW c \in Client, HangUp(c)
        PROVE  RolesSound'
    BY <2>5 DEF HangUp, RolesSound, FromClient, readingVars
  <2>6. ASSUME NEW c \in Client, NEW announcement \in Announcement, IAmCamera(c, announcement)
        PROVE  RolesSound'
    <3>1. /\ c \in clients \ gone /\ c \notin DOMAIN dispatchers
          /\ cameras' = [x \in DOMAIN cameras \cup {c} |->
                           IF x = c THEN announcement ELSE cameras[x]]
          /\ UNCHANGED <<clients, gone, hungUp, dispatchers, dayPlates>>
      BY <2>6 DEF IAmCamera, FromClient, HasRole, readingVars
    <3>2. cameras' \in [S \cup {c} -> Announcement] /\ S \cup {c} \in SUBSET clients
      BY <2>3, <3>1
    <3> QED
      BY <2>3, <3>1, <3>2 DEF RolesSound
  <2>7. ASSUME NEW c \in Client, NEW roads \in SUBSET Road, IAmDispatcher(c, roads)
        PROVE  RolesSound'
    <3>1. /\ c \in clients \ gone /\ c \notin DOMAIN cameras
          /\ dispatchers' = [x \in DOMAIN dispatchers \cup {c} |->
                               IF x = c THEN roads ELSE dispatchers[x]]
          /\ UNCHANGED <<clients, gone, hungUp, cameras, dayPlates>>
      BY <2>7 DEF IAmDispatcher, FromClient, HasRole, readingVars
    <3>2. dispatchers' \in [D \cup {c} -> SUBSET Road] /\ D \cup {c} \in SUBSET clients
      BY <2>3, <3>1
    <3> QED
      BY <2>3, <3>1, <3>2 DEF RolesSound
  <2>8. ASSUME NEW c \in Client, Disconnected(c)
        PROVE  RolesSound'
    <3>1. /\ c \in clients \ gone
          /\ gone' = gone \cup {c} /\ hungUp' = hungUp \cup {c}
          /\ cameras' = [x \in DOMAIN cameras \ {c} |-> cameras[x]]
          /\ dispatchers' = [x \in DOMAIN dispatchers \ {c} |-> dispatchers[x]]
          /\ UNCHANGED <<clients, dayPlates>>
      BY <2>8 DEF Disconnected, FromClient, Without, readingVars
    <3>2. /\ cameras' \in [S \ {c} -> Announcement] /\ S \ {c} \in SUBSET clients
          /\ dispatchers' \in [D \ {c} -> SUBSET Road] /\ D \ {c} \in SUBSET clients
      BY <2>3, <3>1
    <3> QED
      BY <2>3, <3>1, <3>2 DEF RolesSound
  <2>9. ASSUME NEW c \in Client, NEW plate \in Plate, NEW time \in Timestamp,
               PlateReport(c, plate, time)
        PROVE  RolesSound'
    <3>1. UNCHANGED roleVars
      BY <2>9 DEF PlateReport
    <3>2. dayPlates' \in SUBSET (Nat \X Plate)
      BY <2>9, PlateReportIssues, IssueMarksDays DEF RolesSound
    <3> QED
      BY <3>1, <3>2 DEF RolesSound, roleVars
  <2> QED
    BY <2>2, <2>4, <2>5, <2>6, <2>7, <2>8, <2>9 DEF Next
<1>3. TicketInv /\ DispatchInv /\ RolesSound => TrafficTypeOK
  <2> SUFFICES ASSUME TicketInv, DispatchInv, RolesSound PROVE TrafficTypeOK
    OBVIOUS
  <2>1. deliveries \in [1..Len(issued) -> Seq(Delivery)]
    <3>1. deliveries \in Seq(Seq(Delivery)) /\ Len(deliveries) = Len(issued)
      BY DEF DispatchInv, QueuesSound
    <3> QED
      BY <3>1, LenProperties
  <2> QED
    BY <2>1 DEF TrafficTypeOK, TicketInv, ReportsTyped, DispatchInv, QueuesSound, RolesSound
<1> QED
  BY <1>1, <1>2, <1>3, DispatchInvHolds, TicketInvHolds, PTL DEF Spec
=============================================================================
