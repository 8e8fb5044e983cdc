--------------------------- MODULE DatabaseProofs ---------------------------
(***************************************************************************)
(* Theorems about Database: its type invariant, that the loop of the UDP   *)
(* server sends on no closed channel and closes none twice, and that the   *)
(* handlers and the goroutine of the map implement KeyValue.               *)
(*                                                                         *)
(* LoopInv is what the loop keeps of its list, HandlerInv and EventInv     *)
(* what the handlers and the goroutine of the map keep of the places the   *)
(* handlers are at and of the channel between them.                        *)
(***************************************************************************)
EXTENDS Database, DataLemmas

Place == {"receive", "send", "wait", "answer", "returned", "failed"}

Listed(h) == \E i \in 1..Len(clients) : clients[i] = h

(* Every listed handler was started, has its own address and an open channel. *)
LoopInv ==
  /\ peer \in Seq(Addr) /\ Len(peer) <= MaxHandlers
  /\ clients \in Seq(1..Len(peer))
  /\ closed \subseteq 1..Len(peer)
  /\ loop \in -1..Len(peer)
  /\ loop > 0 => Listed(loop)
  /\ \A i, j \in 1..Len(clients) : peer[clients[i]] = peer[clients[j]] => i = j
  /\ \A i \in 1..Len(clients) : clients[i] \notin closed

(* What each place says of the request and the value of the handler there.    *)
HandlerInv ==
  /\ IF loop > 0 THEN inHand \in Request ELSE inHand = Nothing
  /\ at \in [Handler -> Place \cup {"none"}]
  /\ DOMAIN request = Handler /\ DOMAIN value = Handler
  /\ \A h \in Handler :
       /\ at[h] = "none" <=> h > Len(peer)
       /\ request[h] \in (IF at[h] \in {"send", "wait", "answer"} THEN Request ELSE {Nothing})
       /\ value[h] \in (IF at[h] = "answer" THEN Value \cup {Alpha, Empty} ELSE {Nothing})
  /\ data \in [Key -> Value \cup {Empty}]

Event == [from : Handler, request : Request]

Reads(i) == ch[i].request.op = "read"

(* A handler waits for the answer to the one read it has in the channel.      *)
EventInv ==
  /\ ch \in Seq(Event) /\ Len(ch) <= Capacity
  /\ \A i \in 1..Len(ch) : Reads(i) => at[ch[i].from] = "wait"
  /\ \A i, j \in 1..Len(ch) : Reads(i) /\ Reads(j) /\ ch[i].from = ch[j].from => i = j
-----------------------------------------------------------------------------
(* Moving an element to the end of a list permutes the list. *)
LEMMA MovedProperties ==
  ASSUME NEW S, NEW s \in Seq(S), NEW i \in 1..Len(s)
  PROVE  /\ MovedToEnd(s, i) \in Seq(S) /\ Len(MovedToEnd(s, i)) = Len(s)
         /\ \A j \in 1..Len(s) : MovedToEnd(s, i)[j] = s[IF j < i THEN j ELSE IF j < Len(s) THEN j + 1 ELSE i]
<1> DEFINE t == MovedToEnd(s, i)
           n == Len(s)
           front == SubSeq(s, 1, i - 1)
           back == SubSeq(s, i + 1, n)
<1>1. n \in Nat /\ i \in Nat /\ 1 <= i /\ i <= n /\ s[i] \in S
  BY LenProperties, ElementOfSeq
<1>2. /\ front \in Seq(S) /\ Len(front) = i - 1
      /\ \A j \in 1..(i - 1) : front[j] = s[j]
  BY <1>1
<1>3. /\ back \in Seq(S) /\ Len(back) = n - i
      /\ \A j \in 1..(n - i) : back[j] = s[i + j]
  BY <1>1
<1>4. t = Append(front \o back, s[i])
  BY DEF MovedToEnd
<1> HIDE DEF front, back, n, t
<1>5. /\ front \o back \in Seq(S) /\ Len(front \o back) = n - 1
      /\ \A j \in 1..(n - 1) : (front \o back)[j] = s[IF j < i THEN j ELSE j + 1]
  <2>1. \A j \in 1..(n - 1) : (front \o back)[j] = IF j <= i - 1 THEN front[j] ELSE back[j - (i - 1)]
    BY <1>1, <1>2, <1>3
  <2>2. \A j \in 1..(n - 1) : ~(j < i) => j - (i - 1) \in 1..(n - i) /\ i + (j - (i - 1)) = j + 1
    BY <1>1
  <2>3. \A j \in 1..(n - 1) : (front \o back)[j] = s[IF j < i THEN j ELSE j + 1]
    BY <1>1, <1>2, <1>3, <2>1, <2>2
  <2>4. front \o back \in Seq(S) /\ Len(front \o back) = (i - 1) + (n - i)
    <3>1. front \in Seq(S) /\ back \in Seq(S)
      BY <1>2, <1>3
    <3>2. front \o back \in Seq(S) /\ Len(front \o back) = Len(front) + Len(back)
      BY <3>1, ConcatProperties, Zenon
    <3> QED
      BY <1>2, <1>3, <3>2
  <2> QED
    BY <1>1, <2>3, <2>4
<1>6. /\ t \in Seq(S) /\ Len(t) = n
      /\ \A j \in 1..n : t[j] = IF j <= n - 1 THEN (front \o back)[j] ELSE s[i]
  BY <1>1, <1>4, <1>5, AppendProperties
<1>7. \A j \in 1..n : t[j] = s[IF j < i THEN j ELSE IF j < n THEN j + 1 ELSE i]
  <2> TAKE j \in 1..n
  <2>1. CASE j < n
    <3>1. j \in 1..(n - 1) /\ j <= n - 1
      BY <1>1, <2>1
    <3>2. t[j] = (front \o back)[j]
      BY <1>6, <3>1
    <3>3. (front \o back)[j] = s[IF j < i THEN j ELSE j + 1]
      BY <1>5, <3>1
    <3> QED
      BY <2>1, <3>2, <3>3
  <2>2. CASE ~(j < n)
    <3>1. j = n /\ ~(j <= n - 1) /\ ~(j < i)
      BY <1>1, <2>2
    <3> QED
      BY <1>6, <2>2, <3>1
  <2> QED
    BY <2>1, <2>2
<1> QED
  BY <1>6, <1>7 DEF n, t
-----------------------------------------------------------------------------
LEMMA LoopStart == ASSUME Init PROVE LoopInv
<1>1. peer \in Seq(Addr) /\ Len(peer) = 0 /\ clients \in Seq(1..Len(peer)) /\ Len(clients) = 0
  BY DEF Init
<1> QED
  BY <1>1, DatabaseAssumption DEF Init, LoopInv

LEMMA LoopRead ==
  ASSUME LoopInv, NEW a \in Addr, NEW r \in Request, ReadDatagram(a, r)
  PROVE  LoopInv'
<1> DEFINE n == Len(clients)
<1>1. clients \in Seq(1..Len(peer)) /\ n \in Nat /\ Len(peer) \in Nat
  BY DEF LoopInv
<1>2. ASSUME NEW i \in HandlersOf(a),
             loop' = clients[i], clients' = MovedToEnd(clients, i), peer' = peer
      PROVE  LoopInv'
  <2> DEFINE from(j) == IF j < i THEN j ELSE IF j < n THEN j + 1 ELSE i
  <2>1. i \in 1..n
    BY DEF HandlersOf
  <2>2. /\ clients' \in Seq(1..Len(peer)) /\ Len(clients') = n
        /\ \A j \in 1..n : clients'[j] = clients[from(j)]
    <3>1. clients' = MovedToEnd(clients, i) /\ i \in 1..Len(clients)
      BY <1>2, <2>1
    <3>2. /\ MovedToEnd(clients, i) \in Seq(1..Len(peer)) /\ Len(MovedToEnd(clients, i)) = Len(clients)
          /\ \A j \in 1..Len(clients) :
               MovedToEnd(clients, i)[j] = clients[IF j < i THEN j ELSE IF j < Len(clients) THEN j + 1 ELSE i]
      BY <1>1, <2>1, MovedProperties, Zenon
    <3> QED
      BY <3>1, <3>2, Zenon
  <2>3. \A j \in 1..n : from(j) \in 1..n
    BY <1>1, <2>1
  <2>4. \A j, k \in 1..n : from(j) = from(k) => j = k
    BY <1>1, <2>1
  <2>5. clients'[n] = clients[i] /\ n \in 1..n
    BY <1>1, <2>1, <2>2
  <2>6. clients[i] \in 1..Len(peer)
    BY <1>1, <2>1, ElementOfSeq
  <2> HIDE DEF from
  <2>7. \A j, k \in 1..n : peer[clients'[j]] = peer[clients'[k]] => j = k
    <3> TAKE j, k \in 1..n
    <3>1. from(j) \in 1..n /\ from(k) \in 1..n
      BY <2>3
    <3>2. peer[clients[from(j)]] = peer[clients[from(k)]] => from(j) = from(k)
      BY <3>1, Zenon DEF LoopInv
    <3> QED
      BY <2>2, <2>4, <3>2
  <2>8. \A j \in 1..n : clients'[j] \notin closed
    BY <2>2, <2>3 DEF LoopInv
  <2>9. closed' = closed
    BY DEF ReadDatagram
  <2>10. /\ peer \in Seq(Addr) /\ Len(peer) <= MaxHandlers
         /\ closed \subseteq 1..Len(peer)
    BY DEF LoopInv
  <2>11. loop' \in -1..Len(peer) /\ Listed(loop)'
    BY <1>1, <1>2, <2>2, <2>5, <2>6 DEF Listed
  <2> QED
    BY <1>2, <2>2, <2>7, <2>8, <2>9, <2>10, <2>11 DEF LoopInv
<1>3. ASSUME HandlersOf(a) = {}, Len(peer) < MaxHandlers,
             peer' = Append(peer, a), loop' = Len(peer'), clients' = Append(clients, Len(peer'))
      PROVE  LoopInv'
  <2> DEFINE new == Len(peer) + 1
  <2>1. /\ peer' \in Seq(Addr) /\ Len(peer') = new /\ peer'[new] = a
        /\ \A h \in 1..Len(peer) : peer'[h] = peer[h]
    BY <1>1, <1>3 DEF LoopInv
  <2>2. clients \in Seq(1..Len(peer'))
    BY <1>1, <2>1, SeqDef DEF LoopInv
  <2>3. /\ clients' \in Seq(1..Len(peer')) /\ Len(clients') = n + 1 /\ clients'[n + 1] = new
        /\ \A j \in 1..n : clients'[j] = clients[j]
    BY <1>1, <1>3, <2>1, <2>2
  <2>4. \A j \in 1..n : clients[j] \in 1..Len(peer)
    BY <1>1, ElementOfSeq
  <2>5. \A j \in 1..n : peer[clients[j]] # a
    BY <1>3 DEF HandlersOf
  <2>6. \A j \in 1..n : peer'[clients'[j]] = peer[clients[j]]
    BY <2>1, <2>3, <2>4
  <2>7. peer'[clients'[n + 1]] = a
    BY <2>1, <2>3
  <2>8. \A j, k \in 1..(n + 1) : peer'[clients'[j]] = peer'[clients'[k]] => j = k
    <3> TAKE j, k \in 1..(n + 1)
    <3>1. CASE j \in 1..n /\ k \in 1..n
      BY <2>6, <3>1 DEF LoopInv
    <3>2. CASE j \in 1..n /\ k = n + 1
      BY <2>5, <2>6, <2>7, <3>2
    <3>3. CASE j = n + 1 /\ k \in 1..n
      BY <2>5, <2>6, <2>7, <3>3
    <3> QED
      BY <1>1, <3>1, <3>2, <3>3
  <2>9. closed' = closed /\ closed \subseteq 1..Len(peer)
    BY DEF ReadDatagram, LoopInv
  <2>10. \A j \in 1..(n + 1) : clients'[j] \notin closed
    <3>1. \A j \in 1..n : clients'[j] \notin closed
      BY <2>3 DEF LoopInv
    <3>2. clients'[n + 1] \notin closed
      BY <1>1, <2>3, <2>9
    <3> QED
      BY <1>1, <3>1, <3>2
  <2>11. Len(peer') <= MaxHandlers /\ closed' \subseteq 1..Len(peer')
    BY <1>1, <1>3, <2>1, <2>9, DatabaseAssumption
  <2>12. loop' \in -1..Len(peer') /\ Listed(loop)'
    <3>1. n + 1 \in 1..Len(clients') /\ clients'[n + 1] = loop'
      BY <1>1, <1>3, <2>1, <2>3
    <3> QED
      BY <1>1, <1>3, <2>1, <3>1 DEF Listed
  <2> QED
    BY <2>1, <2>3, <2>8, <2>9, <2>10, <2>11, <2>12 DEF LoopInv
<1> QED
  BY <1>2, <1>3 DEF ReadDatagram

LEMMA LoopTimeOut ==
  ASSUME LoopInv, TimeOut
  PROVE  LoopInv'
<1> DEFINE n == Len(clients)
<1>1. /\ clients \in Seq(1..Len(peer)) /\ n \in Nat /\ n > 0 /\ loop = 0 /\ loop' = 0
      /\ peer' = peer /\ closed' = closed \cup {clients[1]}
  BY DEF LoopInv, TimeOut
<1>2. /\ clients' \in Seq(1..Len(peer)) /\ Len(clients') = n - 1
      /\ \A j \in 1..(n - 1) : clients'[j] = clients[j + 1]
  BY <1>1 DEF TimeOut, OthersListed
<1>3. \A j \in 1..n : clients[j] \in 1..Len(peer)
  BY <1>1, ElementOfSeq
<1>4. \A j, k \in 1..(n - 1) : peer[clients'[j]] = peer[clients'[k]] => j = k
  <2> TAKE j, k \in 1..(n - 1)
  <2>1. j + 1 \in 1..n /\ k + 1 \in 1..n
    BY <1>1
  <2>2. peer[clients[j + 1]] = peer[clients[k + 1]] => j + 1 = k + 1
    BY <2>1, Zenon DEF LoopInv
  <2>3. clients'[j] = clients[j + 1] /\ clients'[k] = clients[k + 1]
    BY <1>2
  <2>4. peer[clients'[j]] = peer[clients'[k]] => j + 1 = k + 1
    BY <2>2, <2>3, Zenon
  <2> QED
    BY <1>1, <2>4
<1>5. \A j \in 1..(n - 1) : clients'[j] \notin closed'
  <2> TAKE j \in 1..(n - 1)
  <2>1. j + 1 \in 1..n /\ 1 \in 1..n /\ j + 1 # 1
    BY <1>1
  <2>2. peer[clients[j + 1]] # peer[clients[1]] /\ clients[j + 1] \notin closed
    BY <2>1 DEF LoopInv
  <2> QED
    BY <1>1, <1>2, <2>2
<1>6. /\ peer \in Seq(Addr) /\ Len(peer) <= MaxHandlers /\ Len(peer) \in Nat
      /\ closed \subseteq 1..Len(peer)
  BY DEF LoopInv
<1>7. closed' \subseteq 1..Len(peer) /\ loop' \in -1..Len(peer) /\ ~(loop' > 0)
  <2>1. 1 \in 1..n
    BY <1>1
  <2>2. clients[1] \in 1..Len(peer)
    BY <1>3, <2>1
  <2>3. closed' \subseteq 1..Len(peer)
    BY <1>1, <1>6, <2>2
  <2> QED
    BY <1>1, <1>6, <2>3
<1> QED
  BY <1>1, <1>2, <1>4, <1>5, <1>6, <1>7 DEF LoopInv

LEMMA LoopStep ==
  ASSUME LoopInv, [Next]_databaseVars
  PROVE  LoopInv'
<1>1. CASE \E a \in Addr, r \in Request : ReadDatagram(a, r)
  BY <1>1, LoopRead
<1>2. CASE TimeOut
  BY <1>2, LoopTimeOut
<1>3. ASSUME loop' \in {loop, 0, -1}, UNCHANGED <<clients, peer, closed>>
      PROVE  LoopInv'
  <2>1. Len(peer) \in Nat
    BY DEF LoopInv
  <2> QED
    BY <1>3, <2>1 DEF LoopInv, Listed
<1>4. CASE HandOver \/ Stop \/ StartReturns
  BY <1>3, <1>4 DEF HandOver, Stop, StartReturns
<1>5. CASE Serve \/ \E h \in Handler : SendEvent(h) \/ WriteAnswer(h) \/ SeeClosed(h)
  BY <1>3, <1>5 DEF Serve, SendEvent, WriteAnswer, SeeClosed, loopVars
<1>6. CASE UNCHANGED databaseVars
  BY <1>3, <1>6 DEF databaseVars, loopVars
<1> QED
  BY <1>1, <1>2, <1>4, <1>5, <1>6 DEF Next
-----------------------------------------------------------------------------
(* The list of the UDP server holds one handler for an address, whose channel *)
(* is open, and the one a datagram is being sent to is among them             *)
(* (udp_server.go:75-120), however time-outs and datagrams alternate.         *)
THEOREM ListedStayOpen == Spec => []ListedHandlersOpen
<1>1. LoopInv => ListedHandlersOpen
  <2> SUFFICES ASSUME LoopInv PROVE ListedHandlersOpen
    OBVIOUS
  <2>1. clients \in Seq(1..Len(peer)) /\ DOMAIN clients = 1..Len(clients)
    BY DEF LoopInv
  <2>2. loop > 0 => \E i \in 1..Len(clients) : clients[i] = loop
    BY DEF LoopInv, Listed
  <2> QED
    BY <2>2 DEF LoopInv, ListedHandlersOpen
<1> QED
  BY <1>1, LoopStart, LoopStep, PTL DEF Spec
-----------------------------------------------------------------------------
TypedInv == LoopInv /\ HandlerInv /\ EventInv

LEMMA TypedStart == ASSUME Init PROVE TypedInv
<1>1. ch \in Seq(Event) /\ Len(ch) = 0 /\ Len(peer) = 0
  BY DEF Init
<1>2. HandlerInv
  BY <1>1, DatabaseAssumption DEF Init, HandlerInv, Handler, Erased
<1>3. EventInv
  BY <1>1, DatabaseAssumption DEF EventInv
<1> QED
  BY <1>2, <1>3, LoopStart DEF TypedInv

(* An event of the channel is a handler and a request. *)
LEMMA EventElements ==
  ASSUME EventInv, NEW i \in 1..Len(ch)
  PROVE  ch[i].from \in Handler /\ ch[i].request \in Request
<1>1. ch[i] \in Event
  BY ElementOfSeq DEF EventInv
<1> QED
  BY <1>1, Zenon DEF Event

(* A handler that is not waiting for an answer may go anywhere. *)
LEMMA EventsKept ==
  ASSUME EventInv, ch' = ch, \A h \in Handler : at[h] = "wait" => at'[h] = "wait"
  PROVE  EventInv'
<1>1. \A i \in 1..Len(ch) : ch[i].from \in Handler
  BY EventElements
<1> QED
  BY <1>1 DEF EventInv, Reads

LEMMA TypedRead ==
  ASSUME TypedInv, NEW a \in Addr, NEW r \in Request, ReadDatagram(a, r)
  PROVE  HandlerInv' /\ EventInv'
<1>1. /\ Len(peer) \in Nat /\ \A h \in Handler : h \in Nat /\ h > 0
      /\ inHand' = r /\ UNCHANGED <<request, value, ch, data>>
  BY DEF TypedInv, LoopInv, ReadDatagram, Handler
<1>2. CASE \E i \in HandlersOf(a) : loop' = clients[i] /\ UNCHANGED <<peer, at>>
  <2>1. loop' > 0
    BY <1>2, ElementOfSeq DEF HandlersOf, TypedInv, LoopInv
  <2>2. HandlerInv'
    BY <1>1, <1>2, <2>1 DEF TypedInv, HandlerInv
  <2> QED
    BY <1>1, <1>2, <2>2, EventsKept DEF TypedInv
<1>3. ASSUME Len(peer) < MaxHandlers, peer' = Append(peer, a), loop' = Len(peer'),
             at' = [at EXCEPT ![Len(peer')] = "receive"]
      PROVE  HandlerInv' /\ EventInv'
  <2> DEFINE new == Len(peer) + 1
  <2>1. Len(peer') = new /\ new \in Handler /\ loop' > 0
    BY <1>1, <1>3, DatabaseAssumption DEF TypedInv, LoopInv, Handler
  <2>2. at[new] = "none"
    BY <1>1, <2>1 DEF TypedInv, HandlerInv
  <2>3. \A h \in Handler : at'[h] = IF h = new THEN "receive" ELSE at[h]
    BY <1>3, <2>1 DEF TypedInv, HandlerInv
  <2>4. at' \in [Handler -> Place \cup {"none"}]
    BY <1>3, <2>1 DEF TypedInv, HandlerInv, Place
  <2>5. \A h \in Handler : at'[h] = "none" <=> h > Len(peer')
    BY <1>1, <2>1, <2>3 DEF TypedInv, HandlerInv
  <2>6. HandlerInv'
    BY <1>1, <2>1, <2>2, <2>3, <2>4, <2>5 DEF TypedInv, HandlerInv
  <2>7. EventInv'
    BY <1>1, <2>2, <2>3, EventsKept DEF TypedInv
  <2> QED
    BY <2>6, <2>7
<1> QED
  BY <1>2, <1>3 DEF ReadDatagram

(* A handler moves on, and no other does. *)
LEMMA HandlerMoves ==
  ASSUME TypedInv, NEW h \in Handler, at[h] # "none", NEW p \in Place,
         at' = [at EXCEPT ![h] = p], UNCHANGED <<peer, data>>,
         DOMAIN request' = Handler /\ DOMAIN value' = Handler,
         \A g \in Handler \ {h} : request'[g] = request[g] /\ value'[g] = value[g],
         request'[h] \in (IF p \in {"send", "wait", "answer"} THEN Request ELSE {Nothing}),
         value'[h] \in (IF p = "answer" THEN Value \cup {Alpha, Empty} ELSE {Nothing}),
         IF loop' > 0 THEN inHand' \in Request ELSE inHand' = Nothing
  PROVE  HandlerInv'
<1>1. at' \in [Handler -> Place \cup {"none"}]
  BY DEF TypedInv, HandlerInv
<1>2. at'[h] = p /\ \A g \in Handler \ {h} : at'[g] = at[g]
  BY DEF TypedInv, HandlerInv
<1>3. p # "none"
  BY DEF Place
<1>4. \A g \in Handler : at'[g] = "none" <=> g > Len(peer')
  BY <1>2, <1>3 DEF TypedInv, HandlerInv
<1>5. \A g \in Handler :
        /\ request'[g] \in (IF at'[g] \in {"send", "wait", "answer"} THEN Request ELSE {Nothing})
        /\ value'[g] \in (IF at'[g] = "answer" THEN Value \cup {Alpha, Empty} ELSE {Nothing})
  <2> TAKE g \in Handler
  <2>1. CASE g = h
    BY <1>2, <2>1
  <2>2. CASE g # h
    BY <1>2, <2>2 DEF TypedInv, HandlerInv
  <2> QED
    BY <2>1, <2>2
<1> QED
  BY <1>1, <1>4, <1>5 DEF TypedInv, HandlerInv

LEMMA TypedHandOver ==
  ASSUME TypedInv, HandOver
  PROVE  HandlerInv' /\ EventInv'
<1>1. /\ loop \in Handler /\ at[loop] = "receive" /\ inHand \in Request /\ loop' = 0
      /\ inHand' = Nothing /\ request[loop] = Nothing /\ value[loop] = Nothing
      /\ UNCHANGED <<peer, data, ch>>
  BY DatabaseAssumption DEF TypedInv, LoopInv, HandlerInv, HandOver, Handler
<1>2. CASE UNCHANGED handlerVars
  <2>1. HandlerInv'
    BY <1>1, <1>2 DEF TypedInv, HandlerInv, handlerVars
  <2> QED
    BY <1>1, <1>2, <2>1, EventsKept DEF TypedInv, handlerVars
<1>3. ASSUME NEW p \in {"send", "answer"}, at' = [at EXCEPT ![loop] = p],
             request' = [request EXCEPT ![loop] = inHand],
             IF p = "answer" THEN value' = [value EXCEPT ![loop] = Alpha] ELSE value' = value
      PROVE  HandlerInv' /\ EventInv'
  <2>1. /\ DOMAIN request' = Handler /\ DOMAIN value' = Handler
        /\ \A g \in Handler \ {loop} : request'[g] = request[g] /\ value'[g] = value[g]
        /\ request'[loop] = inHand
        /\ value'[loop] = IF p = "answer" THEN Alpha ELSE Nothing
    BY <1>1, <1>3 DEF TypedInv, HandlerInv
  <2>2. p \in Place /\ at[loop] # "none" /\ ~(loop' > 0)
    BY <1>1 DEF Place
  <2>3. HandlerInv'
    BY <1>1, <1>3, <2>1, <2>2, HandlerMoves
  <2>4. \A h \in Handler : at[h] = "wait" => at'[h] = "wait"
    BY <1>1, <1>3 DEF TypedInv, HandlerInv
  <2> QED
    BY <1>1, <2>3, <2>4, EventsKept DEF TypedInv
<1> QED
  BY <1>2, <1>3 DEF HandOver

LEMMA TypedSend ==
  ASSUME TypedInv, NEW h \in Handler, SendEvent(h)
  PROVE  HandlerInv' /\ EventInv'
<1> DEFINE e == [from |-> h, request |-> request[h]]
           n == Len(ch)
           p == IF request[h].op = "read" THEN "wait" ELSE "receive"
<1>1. /\ at[h] = "send" /\ request[h] \in Request /\ value[h] = Nothing
      /\ UNCHANGED <<peer, data, value, loop, inHand>>
  BY DEF TypedInv, HandlerInv, SendEvent, loopVars
<1>2. /\ at' = [at EXCEPT ![h] = p]
      /\ request' = IF p = "wait" THEN request ELSE [request EXCEPT ![h] = Nothing]
  BY DEF SendEvent
<1>3. /\ DOMAIN request' = Handler /\ DOMAIN value' = Handler
      /\ \A g \in Handler \ {h} : request'[g] = request[g] /\ value'[g] = value[g]
      /\ request'[h] = IF p = "wait" THEN request[h] ELSE Nothing
      /\ value'[h] = Nothing
  BY <1>1, <1>2 DEF TypedInv, HandlerInv
<1>4. HandlerInv'
  <2>1. /\ p \in Place /\ p # "answer" /\ p # "send" /\ at[h] # "none"
        /\ (IF loop' > 0 THEN inHand' \in Request ELSE inHand' = Nothing)
        /\ request'[h] \in (IF p \in {"send", "wait", "answer"} THEN Request ELSE {Nothing})
    BY <1>1, <1>3 DEF Place, TypedInv, HandlerInv
  <2> HIDE DEF p
  <2> QED
    BY <1>1, <1>2, <1>3, <2>1, HandlerMoves
<1>5. /\ ch \in Seq(Event) /\ n \in Nat /\ n < Capacity /\ e \in Event
      /\ ch' = Append(ch, e)
  BY <1>1 DEF TypedInv, EventInv, SendEvent, Enqueue, Event
<1>6. /\ ch' \in Seq(Event) /\ Len(ch') = n + 1 /\ Len(ch') <= Capacity /\ ch'[n + 1] = e
      /\ \A i \in 1..n : ch'[i] = ch[i]
  BY <1>5, AppendProperties, DatabaseAssumption
<1>7. \A g \in Handler : at'[g] = IF g = h THEN p ELSE at[g]
  BY <1>2 DEF TypedInv, HandlerInv
<1>8. \A i \in 1..n : ch[i].from \in Handler
  BY EventElements DEF TypedInv
<1>9. \A i \in 1..n : Reads(i) => ch[i].from # h /\ at[ch[i].from] = "wait"
  BY <1>1 DEF TypedInv, EventInv
<1>10. \A i \in 1..n : Reads(i)' <=> Reads(i)
  BY <1>6 DEF Reads
<1>11. ch'[n + 1].request.op = "read" => p = "wait"
  BY <1>6
<1>12. \A i \in 1..(n + 1) : Reads(i)' => at'[ch'[i].from] = "wait"
  <2> TAKE i \in 1..(n + 1)
  <2>1. CASE i \in 1..n
    BY <1>6, <1>7, <1>8, <1>9, <1>10, <2>1
  <2>2. CASE i = n + 1
    <3>1. ch'[i].from = h
      BY <1>6, <2>2
    <3>2. at'[h] = p
      BY <1>7
    <3>3. Reads(i)' => ch'[n + 1].request.op = "read"
      BY <2>2 DEF Reads
    <3> HIDE DEF p
    <3> QED
      BY <1>11, <3>1, <3>2, <3>3, Zenon
  <2> QED
    BY <1>5, <2>1, <2>2
<1>13. \A i, j \in 1..(n + 1) : Reads(i)' /\ Reads(j)' /\ ch'[i].from = ch'[j].from => i = j
  <2> TAKE i, j \in 1..(n + 1)
  <2>1. CASE i \in 1..n /\ j \in 1..n
    BY <1>6, <1>10, <2>1 DEF TypedInv, EventInv
  <2>2. CASE i \in 1..n /\ j = n + 1
    BY <1>6, <1>9, <1>10, <2>2
  <2>3. CASE i = n + 1 /\ j \in 1..n
    BY <1>6, <1>9, <1>10, <2>3
  <2> QED
    BY <1>5, <2>1, <2>2, <2>3
<1> QED
  BY <1>4, <1>6, <1>12, <1>13 DEF EventInv

LEMMA TypedServe ==
  ASSUME TypedInv, Serve
  PROVE  HandlerInv' /\ EventInv'
<1> DEFINE n == Len(ch)
           h == ch[1].from
           r == ch[1].request
<1>1. /\ ch \in Seq(Event) /\ n \in Nat /\ n > 0 /\ h \in Handler /\ r \in Request
      /\ UNCHANGED <<peer, loop, inHand, request>>
  <2>1. ch \in Seq(Event) /\ n \in Nat /\ n > 0 /\ 1 \in 1..n
    BY DEF TypedInv, EventInv, Serve
  <2>2. h \in Handler /\ r \in Request
    BY <2>1, EventElements, Zenon DEF TypedInv
  <2> QED
    BY <2>1, <2>2 DEF Serve, loopVars
<1>2. /\ ch' \in Seq(Event) /\ Len(ch') = n - 1 /\ Len(ch') <= Capacity
      /\ \A i \in 1..(n - 1) : ch'[i] = ch[i + 1]
  BY <1>1, DatabaseAssumption DEF Serve, TypedInv, EventInv
<1>3. \A i \in 1..(n - 1) : i + 1 \in 1..n /\ (Reads(i)' <=> Reads(i + 1))
  BY <1>1, <1>2 DEF Reads
<1>4. \A i, j \in 1..(n - 1) : Reads(i)' /\ Reads(j)' /\ ch'[i].from = ch'[j].from => i = j
  <2> TAKE i, j \in 1..(n - 1)
  <2>1. Reads(i + 1) /\ Reads(j + 1) /\ ch[i + 1].from = ch[j + 1].from => i + 1 = j + 1
    BY <1>3 DEF TypedInv, EventInv
  <2> QED
    BY <1>1, <1>2, <1>3, <2>1
<1>5. ASSUME \A i \in 1..(n - 1) : Reads(i)' => at'[ch'[i].from] = "wait"
      PROVE  EventInv'
  BY <1>2, <1>4, <1>5 DEF EventInv
<1>6. CASE r.op # "read"
  <2>1. at' = at /\ value' = value
    BY <1>6 DEF Serve
  <2>2. data' \in [Key -> Value \cup {Empty}]
    <3>1. r.op = "write" => r.key \in Key /\ r.value \in Value
      BY <1>1 DEF Request
    <3> QED
      BY <1>6, <3>1 DEF Serve, Cleared, Erased, TypedInv, HandlerInv
  <2>3. HandlerInv'
    BY <1>1, <2>1, <2>2 DEF TypedInv, HandlerInv
  <2>4. EventInv'
    BY <1>2, <1>3, <1>5, <2>1 DEF TypedInv, EventInv
  <2> QED
    BY <2>3, <2>4
<1>7. CASE r.op = "read"
  <2>1. /\ at' = [at EXCEPT ![h] = "answer"] /\ data' = data
        /\ value' = [value EXCEPT ![h] = data[r.key]]
    BY <1>7 DEF Serve
  <2>2. at[h] = "wait" /\ Reads(1) /\ 1 \in 1..n
    BY <1>1, <1>7 DEF Reads, TypedInv, EventInv
  <2>3. request[h] \in Request
    BY <1>1, <2>2 DEF TypedInv, HandlerInv
  <2>4. data[r.key] \in Value \cup {Empty}
    BY <1>1, <1>7 DEF Request, TypedInv, HandlerInv
  <2>5. /\ DOMAIN request' = Handler /\ DOMAIN value' = Handler
        /\ \A g \in Handler \ {h} : request'[g] = request[g] /\ value'[g] = value[g]
        /\ request'[h] \in Request /\ value'[h] \in Value \cup {Alpha, Empty}
    BY <1>1, <2>1, <2>3, <2>4 DEF TypedInv, HandlerInv
  <2>6. HandlerInv'
    <3>1. /\ "answer" \in Place /\ at[h] # "none"
          /\ (IF loop' > 0 THEN inHand' \in Request ELSE inHand' = Nothing)
      BY <1>1, <2>2 DEF Place, TypedInv, HandlerInv
    <3> QED
      BY <1>1, <2>1, <2>5, <3>1, HandlerMoves
  <2>7. \A g \in Handler : at'[g] = IF g = h THEN "answer" ELSE at[g]
    BY <2>1 DEF TypedInv, HandlerInv
  <2>8. \A i \in 1..(n - 1) : Reads(i)' => at'[ch'[i].from] = "wait"
    <3> TAKE i \in 1..(n - 1)
    <3>1. i + 1 \in 1..n /\ i + 1 # 1 /\ ch'[i] = ch[i + 1]
      BY <1>1, <1>2
    <3>2. ch[i + 1].from \in Handler
      BY <3>1, EventElements, Zenon DEF TypedInv
    <3>3. Reads(i + 1) => at[ch[i + 1].from] = "wait" /\ ch[i + 1].from # h
      BY <2>2, <3>1 DEF TypedInv, EventInv
    <3> QED
      BY <1>3, <2>7, <3>1, <3>2, <3>3
  <2> QED
    BY <1>5, <2>6, <2>8
<1> QED
  BY <1>6, <1>7

LEMMA TypedStep ==
  ASSUME TypedInv, [Next]_databaseVars
  PROVE  TypedInv'
<1>1. LoopInv'
  BY LoopStep DEF TypedInv
<1>2. ASSUME UNCHANGED <<peer, inHand, at, request, value, ch, data>>,
             loop' = loop \/ (loop = 0 /\ loop' = -1)
      PROVE  HandlerInv' /\ EventInv'
  <2>1. HandlerInv'
    BY <1>2 DEF TypedInv, HandlerInv
  <2> QED
    BY <1>2, <2>1, EventsKept DEF TypedInv
<1>3. CASE \E a \in Addr, r \in Request : ReadDatagram(a, r)
  BY <1>1, <1>3, TypedRead DEF TypedInv
<1>4. CASE TimeOut \/ Stop \/ StartReturns \/ UNCHANGED databaseVars
  BY <1>1, <1>2, <1>4 DEF TimeOut, Stop, StartReturns, databaseVars, loopVars, handlerVars, TypedInv
<1>5. CASE HandOver
  BY <1>1, <1>5, TypedHandOver DEF TypedInv
<1>6. CASE \E h \in Handler : SendEvent(h)
  BY <1>1, <1>6, TypedSend DEF TypedInv
<1>7. CASE Serve
  BY <1>1, <1>7, TypedServe DEF TypedInv
<1>8. ASSUME NEW h \in Handler, WriteAnswer(h) \/ SeeClosed(h)
      PROVE  HandlerInv' /\ EventInv'
  <2>1. PICK p \in {"failed", "receive", "returned"} : at' = [at EXCEPT ![h] = p]
    BY <1>8 DEF WriteAnswer, SeeClosed
  <2>2. /\ at[h] \in {"answer", "receive"}
        /\ UNCHANGED <<peer, data, ch, loop, inHand>>
    BY <1>8 DEF WriteAnswer, SeeClosed, loopVars
  <2>3. /\ DOMAIN request' = Handler /\ DOMAIN value' = Handler
        /\ \A g \in Handler \ {h} : request'[g] = request[g] /\ value'[g] = value[g]
        /\ request'[h] = Nothing /\ value'[h] = Nothing
    BY <1>8 DEF WriteAnswer, SeeClosed, TypedInv, HandlerInv
  <2>4. /\ p \in Place /\ p \notin {"send", "wait", "answer"} /\ at[h] # "none"
        /\ (IF loop' > 0 THEN inHand' \in Request ELSE inHand' = Nothing)
    BY <2>2 DEF Place, TypedInv, HandlerInv
  <2>5. HandlerInv'
    BY <2>1, <2>2, <2>3, <2>4, HandlerMoves
  <2>6. \A g \in Handler : at[g] = "wait" => at'[g] = "wait"
    BY <2>1, <2>2 DEF TypedInv, HandlerInv
  <2> QED
    BY <2>2, <2>5, <2>6, EventsKept DEF TypedInv
<1> QED
  BY <1>1, <1>3, <1>4, <1>5, <1>6, <1>7, <1>8 DEF Next, TypedInv

(* Every handler holds a request exactly while it works on one (db.go:71-111),*)
(* and what it waits for is the answer to the one read it has in the channel. *)
THEOREM DatabaseTyped == Spec => []DatabaseTypeOK
<1>1. TypedInv => DatabaseTypeOK
  <2> SUFFICES ASSUME TypedInv PROVE DatabaseTypeOK
    OBVIOUS
  <2>1. /\ Len(peer) \in 0..MaxHandlers /\ DOMAIN peer = 1..Len(peer)
        /\ peer \in [1..Len(peer) -> Addr]
    BY DatabaseAssumption DEF TypedInv, LoopInv
  <2>2. \A i \in 1..Len(clients) : clients[i] \in DOMAIN peer
    BY <2>1, ElementOfSeq DEF TypedInv, LoopInv
  <2>3. \A h \in Handler : at[h] \in Place <=> h <= Len(peer)
    <3>1. \A h \in Handler : h \in Nat /\ at[h] \in Place \cup {"none"}
      BY DEF Handler, TypedInv, HandlerInv
    <3>2. "none" \notin Place
      BY DEF Place
    <3> QED
      BY <2>1, <3>1, <3>2 DEF TypedInv, HandlerInv
  <2>4. loop \in -1..Len(peer) /\ Len(ch) <= Capacity
    BY DEF TypedInv, LoopInv, EventInv
  <2> QED
    BY <2>1, <2>2, <2>3, <2>4 DEF TypedInv, HandlerInv, DatabaseTypeOK, Place
<1> QED
  BY <1>1, TypedStart, TypedStep, PTL DEF Spec
-----------------------------------------------------------------------------
(* The refinement of KeyValue.  What a session has pending is what its        *)
(* handler has in the channel, in order, and the request it is sending.       *)

Requests == [i \in 1..Len(ch) |-> ch[i].request]

EventsOf(h) == {i \in 1..Len(ch) : ch[i].from = h}

Queued(h) == Picked(Requests, EventsOf(h))

Sending(h) == IF at[h] = "send" THEN <<request[h]>> ELSE <<>>

Pending == [h \in Handler |-> Queued(h) \o Sending(h)]

Senders == [i \in 1..Len(ch) |-> ch[i].from]

LEMMA QueuedStream ==
  ASSUME NEW h
  PROVE  /\ Queued(h) = Picked(Requests, PositionsOf(Senders, Len(ch), h))
         /\ Queued(h)' = Picked(Requests', PositionsOf(Senders', Len(ch'), h))
<1>1. EventsOf(h) = PositionsOf(Senders, Len(ch), h)
  BY DEF EventsOf, Senders, PositionsOf
<1>2. EventsOf(h)' = PositionsOf(Senders', Len(ch'), h)
  BY DEF EventsOf, Senders, PositionsOf
<1> QED
  BY <1>1, <1>2 DEF Queued

LEMMA QueuedSeq ==
  ASSUME EventInv, NEW h
  PROVE  /\ Queued(h) \in Seq(Request)
         /\ \A k \in 1..Len(Queued(h)) :
              \E i \in 1..Len(ch) : ch[i].from = h /\ Queued(h)[k] = ch[i].request
<1>1. Len(ch) \in Nat /\ \A i \in 1..Len(ch) : Requests[i] \in Request
  BY EventElements DEF EventInv, Requests
<1>2. /\ Queued(h) \in Seq(Request)
      /\ \A k \in 1..Len(Queued(h)) : \E i \in 1..Len(ch) : Senders[i] = h /\ Queued(h)[k] = Requests[i]
  BY <1>1, QueuedStream, StreamSeq
<1> QED
  BY <1>2 DEF Senders, Requests

(* An event that is sent is the last of its handler. *)
LEMMA QueuedAppend ==
  ASSUME EventInv, NEW e \in Event, ch' = Append(ch, e), NEW h
  PROVE  Queued(h)' = IF e.from = h THEN Append(Queued(h), e.request) ELSE Queued(h)
<1>1. /\ Len(ch) \in Nat /\ Len(ch') = Len(ch) + 1 /\ ch'[Len(ch) + 1] = e
      /\ \A i \in 1..Len(ch) : ch'[i] = ch[i]
  BY DEF EventInv
<1>2. SameFirst(Len(ch), Senders, Requests, Senders', Requests')
  BY <1>1 DEF SameFirst, Senders, Requests
<1>3. Senders'[Len(ch) + 1] = e.from /\ Requests'[Len(ch) + 1] = e.request
  BY <1>1 DEF Senders, Requests
<1> QED
  BY <1>1, <1>2, <1>3, StreamAppend, QueuedStream

(* The event at the head of the channel is the first of its handler. *)
LEMMA QueuedTail ==
  ASSUME EventInv, ch # <<>>, ch' = Tail(ch), NEW h
  PROVE  /\ Queued(h) = IF ch[1].from = h THEN <<ch[1].request>> \o Queued(h)' ELSE Queued(h)'
         /\ Queued(h)' \in Seq(Request)
<1> PICK n : n = Len(ch')
  OBVIOUS
<1>1. n \in Nat /\ Len(ch) = n + 1 /\ \A i \in 1..n : ch'[i] = ch[i + 1] /\ i + 1 \in 1..Len(ch)
  BY DEF EventInv
<1>2. SameLast(n, Senders, Requests, Senders', Requests')
  BY <1>1 DEF SameLast, Senders, Requests
<1>3. Senders[1] = ch[1].from /\ Requests[1] = ch[1].request
  BY <1>1 DEF Senders, Requests
<1>4. Queued(h)' \in Seq(Request)
  <2>1. \A i \in 1..n : Requests'[i] \in Request
    BY <1>1, EventElements DEF Requests
  <2> QED
    BY <1>1, <2>1, StreamSeq, QueuedStream
<1> QED
  BY <1>1, <1>2, <1>3, <1>4, StreamTail, QueuedStream

(* The mapped state of KeyValue does not change. *)
LEMMA PendingKept ==
  ASSUME ch' = ch, \A h \in Handler : Sending(h)' = Sending(h), UNCHANGED <<data, value>>
  PROVE  Pending' = Pending /\ UNCHANGED KV!keyValueVars
<1>1. \A h \in Handler : Queued(h)' = Queued(h)
  BY DEF Queued, Requests, EventsOf
<1>2. Pending' = Pending
  BY <1>1 DEF Pending
<1> QED
  BY <1>2 DEF Pending, KV!keyValueVars, RequestsOf, Queued, Requests, EventsOf, Sending

LEMMA PendingInit ==
  ASSUME Init
  PROVE  KV!Init
<1>1. \A h : EventsOf(h) = {}
  BY DEF Init, EventsOf
<1>2. \A h \in Handler : RequestsOf(h) = <<>>
  <2>1. \A h \in Handler : Picked(Requests, EventsOf(h)) = <<>>
    BY <1>1, FS_EmptySet DEF Picked
  <2>2. \A h \in Handler : Sending(h) = <<>>
    BY DEF Init, Sending
  <2>3. \A h \in Handler : RequestsOf(h) = Picked(Requests, EventsOf(h)) \o Sending(h)
    BY DEF RequestsOf, Requests, EventsOf, Sending
  <2> QED
    BY <2>1, <2>2, <2>3
<1> QED
  BY <1>2 DEF Init, KV!Init, Erased, KV!Erased

LEMMA PendingMapped ==
  /\ Pending = [h \in Handler |-> RequestsOf(h)]
  /\ Pending' = [h \in Handler |-> RequestsOf(h)']
BY DEF Pending, RequestsOf, Queued, Requests, EventsOf, Sending

(* A session has a read pending only in what its handler is sending, or while *)
(* its handler waits for the answer.                                          *)
LEMMA NoReadQueued ==
  ASSUME TypedInv, NEW h \in Handler, at[h] # "wait"
  PROVE  \A k \in 1..Len(Queued(h)) : Queued(h)[k].op # "read"
<1> SUFFICES ASSUME NEW k \in 1..Len(Queued(h)) PROVE Queued(h)[k].op # "read"
  OBVIOUS
<1>1. PICK i \in 1..Len(ch) : ch[i].from = h /\ Queued(h)[k] = ch[i].request
  BY QueuedSeq DEF TypedInv
<1> QED
  BY <1>1 DEF TypedInv, EventInv, Reads

LEMMA HandOverRefines ==
  ASSUME TypedInv, HandOver
  PROVE  KV!Next \/ UNCHANGED KV!keyValueVars
<1>1. /\ loop \in Handler /\ at[loop] = "receive" /\ inHand \in Request
      /\ value[loop] = Nothing /\ UNCHANGED <<ch, data>>
  BY DatabaseAssumption DEF TypedInv, LoopInv, HandlerInv, HandOver, Handler
<1>2. /\ \A h \in Handler : Queued(h)' = Queued(h)
      /\ Queued(loop) \in Seq(Request)
  BY <1>1, QueuedSeq DEF Queued, Requests, EventsOf, TypedInv
<1>3. /\ DOMAIN at = Handler /\ DOMAIN request = Handler /\ DOMAIN value = Handler
  BY DEF TypedInv, HandlerInv
<1>4. Sending(loop) = <<>>
  BY <1>1 DEF Sending
<1>5. CASE UNCHANGED handlerVars
  BY <1>1, <1>5, PendingKept DEF handlerVars, Sending
<1>6. ASSUME at' = [at EXCEPT ![loop] = "answer"], request' = [request EXCEPT ![loop] = inHand],
             value' = [value EXCEPT ![loop] = Alpha]
      PROVE  KV!ReadReserved(loop)
  <2>1. \A h \in Handler : Sending(h)' = Sending(h)
    BY <1>1, <1>3, <1>4, <1>6 DEF Sending
  <2>2. Pending' = Pending
    BY <1>2, <2>1 DEF Pending
  <2> QED
    BY <1>1, <1>6, <2>2, PendingMapped DEF KV!ReadReserved
<1>7. ASSUME at' = [at EXCEPT ![loop] = "send"], request' = [request EXCEPT ![loop] = inHand],
             value' = value
      PROVE  KV!Accept(loop, inHand) /\ inHand \in KV!Operation
  <2>1. \A h \in Handler : Sending(h)' = IF h = loop THEN <<inHand>> ELSE Sending(h)
    BY <1>1, <1>3, <1>7 DEF Sending
  <2>2. Pending[loop] = Queued(loop)
    BY <1>1, <1>2, <1>4 DEF Pending
  <2>3. Queued(loop) \o <<inHand>> = Append(Queued(loop), inHand)
    BY <1>1, <1>2
  <2>4. Pending' = [Pending EXCEPT ![loop] = Append(Pending[loop], inHand)]
    BY <1>1, <1>2, <2>1, <2>2, <2>3 DEF Pending
  <2>5. \A k \in 1..Len(Pending[loop]) : Pending[loop][k].op # "read"
    BY <1>1, <2>2, NoReadQueued
  <2>6. inHand \in KV!Operation
    BY <1>1 DEF Request, KV!Operation
  <2> QED
    BY <1>1, <1>7, <2>4, <2>5, <2>6, PendingMapped, Zenon DEF KV!Accept
<1> QED
  BY <1>1, <1>5, <1>6, <1>7 DEF HandOver, KV!Next

(* A request passes from its handler to the end of the channel, and is as     *)
(* pending as before.                                                         *)
LEMMA SendEventRefines ==
  ASSUME TypedInv, NEW h \in Handler, SendEvent(h)
  PROVE  UNCHANGED KV!keyValueVars
<1> DEFINE e == [from |-> h, request |-> request[h]]
<1>1. /\ at[h] = "send" /\ request[h] \in Request /\ UNCHANGED <<data, value>>
      /\ ch' = Append(ch, e) /\ e \in Event /\ e.from = h /\ e.request = request[h]
  BY DEF TypedInv, HandlerInv, SendEvent, loopVars, Enqueue, Event
<1>2. /\ \A g \in Handler \ {h} : at'[g] = at[g] /\ request'[g] = request[g]
      /\ at'[h] # "send"
  BY DEF TypedInv, HandlerInv, SendEvent
<1>3. \A g \in Handler : Queued(g)' = IF g = h THEN Append(Queued(g), request[h]) ELSE Queued(g)
  <2> TAKE g \in Handler
  <2>1. Queued(g)' = IF e.from = g THEN Append(Queued(g), e.request) ELSE Queued(g)
    <3>1. e \in Event /\ ch' = Append(ch, e) /\ EventInv
      BY <1>1 DEF TypedInv
    <3> HIDE DEF e
    <3> QED
      BY <3>1, QueuedAppend
  <2> QED
    BY <1>1, <2>1
<1>4. \A g \in Handler : Queued(g) \in Seq(Request)
  BY QueuedSeq DEF TypedInv
<1>5. \A g \in Handler : Queued(g)' \o Sending(g)' = Queued(g) \o Sending(g)
  <2> TAKE g \in Handler
  <2>1. CASE g = h
    <3>1. Queued(g)' = Append(Queued(g), request[h]) /\ Sending(g)' = <<>> /\ Sending(g) = <<request[h]>>
      BY <1>1, <1>2, <1>3, <2>1 DEF Sending
    <3>2. Append(Queued(g), request[h]) \o <<>> = Queued(g) \o <<request[h]>>
      BY <1>1, <1>4
    <3> QED
      BY <3>1, <3>2
  <2>2. CASE g # h
    BY <1>2, <1>3, <2>2 DEF Sending
  <2> QED
    BY <2>1, <2>2
<1>6. Pending' = Pending
  BY <1>5 DEF Pending
<1> QED
  BY <1>1, <1>6, PendingMapped DEF KV!keyValueVars

LEMMA WriteAnswerRefines ==
  ASSUME TypedInv, NEW h \in Handler, WriteAnswer(h)
  PROVE  KV!Answer(h)
<1>1. /\ at[h] = "answer" /\ value[h] # Nothing /\ UNCHANGED <<data, ch>>
      /\ value' = [value EXCEPT ![h] = Nothing]
  BY DatabaseAssumption DEF TypedInv, HandlerInv, WriteAnswer, loopVars
<1>2. \A g \in Handler : Queued(g)' = Queued(g)
  BY <1>1 DEF Queued, Requests, EventsOf
<1>3. \A g \in Handler : Sending(g)' = Sending(g)
  BY DEF TypedInv, HandlerInv, WriteAnswer, Sending
<1>4. Pending' = Pending
  BY <1>2, <1>3 DEF Pending
<1> QED
  BY <1>1, <1>4, PendingMapped DEF KV!Answer

LEMMA OldestFirst ==
  ASSUME NEW T, NEW s \in Seq(T), NEW t \in Seq(T), NEW x \in T
  PROVE  /\ (<<x>> \o s) \o t # <<>> /\ Head((<<x>> \o s) \o t) = x
         /\ Tail((<<x>> \o s) \o t) = s \o t
<1>1. (<<x>> \o s) \o t = <<x>> \o (s \o t) /\ s \o t \in Seq(T)
  OBVIOUS
<1>2. <<x>> \o (s \o t) # <<>> /\ Head(<<x>> \o (s \o t)) = x /\ Tail(<<x>> \o (s \o t)) = s \o t
  BY <1>1
<1> QED
  BY <1>1, <1>2

(* The goroutine applies the oldest request its session has pending.          *)
LEMMA ServeRefines ==
  ASSUME TypedInv, Serve
  PROVE  KV!Apply(ch[1].from) /\ ch[1].from \in Handler
<1> PICK h, r : h = ch[1].from /\ r = ch[1].request
  OBVIOUS
<1>1. /\ ch # <<>> /\ ch' = Tail(ch) /\ Head(ch) = ch[1] /\ h \in Handler /\ r \in Request
      /\ UNCHANGED request
  <2>1. ch # <<>> /\ ch' = Tail(ch) /\ ch \in Seq(Event) /\ UNCHANGED request
    BY DEF Serve, TypedInv, EventInv
  <2>2. 1 \in 1..Len(ch) /\ Head(ch) = ch[1]
    BY <2>1
  <2> QED
    BY <2>1, <2>2, EventElements DEF TypedInv
<1>2. \A g \in Handler : /\ Queued(g) = IF h = g THEN <<r>> \o Queued(g)' ELSE Queued(g)'
                      /\ Queued(g)' \in Seq(Request)
  BY <1>1, QueuedTail DEF TypedInv
<1>3. \A g \in Handler : Sending(g)' = Sending(g)
  <2>1. at' = at \/ (at' = [at EXCEPT ![h] = "answer"] /\ r.op = "read")
    BY <1>1 DEF Serve
  <2>2. r.op = "read" => at[h] = "wait"
    <3>1. 1 \in 1..Len(ch)
      BY <1>1 DEF TypedInv, EventInv
    <3> QED
      BY <3>1 DEF TypedInv, EventInv, Reads
  <2> QED
    BY <1>1, <2>1, <2>2 DEF TypedInv, HandlerInv, Sending
<1>4. \A g \in Handler : Sending(g) \in Seq(Request)
  BY DEF TypedInv, HandlerInv, Sending
<1>5. Pending[h] # <<>> /\ Head(Pending[h]) = r /\ Tail(Pending[h]) = Queued(h)' \o Sending(h)
  <2>1. Pending[h] = (<<r>> \o Queued(h)') \o Sending(h)
    BY <1>1, <1>2 DEF Pending
  <2>2. Queued(h)' \in Seq(Request) /\ Sending(h) \in Seq(Request) /\ r \in Request
    BY <1>1, <1>2, <1>4
  <2>3. /\ (<<r>> \o Queued(h)') \o Sending(h) # <<>>
        /\ Head((<<r>> \o Queued(h)') \o Sending(h)) = r
        /\ Tail((<<r>> \o Queued(h)') \o Sending(h)) = Queued(h)' \o Sending(h)
    BY <2>2, OldestFirst
  <2> QED
    BY <2>1, <2>3
<1>6. Pending' = [Pending EXCEPT ![h] = Tail(Pending[h])]
  BY <1>1, <1>2, <1>3, <1>5 DEF Pending
<1>7. \/ r.op = "write" /\ data' = [data EXCEPT ![r.key] = r.value] /\ UNCHANGED value
      \/ r.op = "delete" /\ data' = KV!Erased /\ UNCHANGED value
      \/ r.op = "read" /\ value' = [value EXCEPT ![h] = data[r.key]] /\ UNCHANGED data
  BY <1>1 DEF Serve, Cleared, Erased, KV!Erased
<1>8. KV!Apply(h)
  BY <1>1, <1>5, <1>6, <1>7, PendingMapped DEF KV!Apply
<1> QED
  BY <1>1, <1>8

(* The database is one map, which applies the requests of a session in the    *)
(* order in which its handler received them, each once and before its answer, *)
(* and answers a read with what the map held then (db.go:28-53, 73-97),       *)
(* however many handlers share the channel and whatever times out.            *)
THEOREM DatabaseImplementsKeyValue == Spec => ImplementsKeyValue
<1>1. ASSUME TypedInv, [Next]_databaseVars
      PROVE  [KV!Next]_(KV!keyValueVars)
  <2>1. CASE \E a \in Addr, r \in Request : ReadDatagram(a, r)
    <3>1. UNCHANGED <<ch, data, value, request>>
      BY <2>1 DEF ReadDatagram
    <3>2. \A h \in Handler : at[h] = at'[h] \/ (at[h] = "none" /\ at'[h] = "receive")
      <4>1. at' = at \/ (/\ Len(peer) < MaxHandlers
                         /\ at' = [at EXCEPT ![Len(peer) + 1] = "receive"])
        <5>1. \A a : Len(Append(peer, a)) = Len(peer) + 1
          BY <1>1 DEF TypedInv, LoopInv
        <5> QED
          BY <2>1, <5>1 DEF ReadDatagram
      <4>2. Len(peer) \in Nat
        BY <1>1 DEF TypedInv, LoopInv
      <4>3. at[Len(peer) + 1] = "none" \/ Len(peer) + 1 \notin Handler
        BY <1>1, <4>2 DEF TypedInv, HandlerInv
      <4> QED
        BY <1>1, <4>1, <4>3 DEF TypedInv, HandlerInv
    <3> QED
      BY <3>1, <3>2, PendingKept DEF Sending
  <2>2. CASE TimeOut \/ Stop \/ StartReturns \/ UNCHANGED databaseVars
    BY <2>2, PendingKept DEF TimeOut, Stop, StartReturns, databaseVars, loopVars, handlerVars, Sending
  <2>3. CASE HandOver
    BY <1>1, <2>3, HandOverRefines
  <2>4. ASSUME NEW h \in Handler, SendEvent(h) \/ WriteAnswer(h) \/ SeeClosed(h)
        PROVE  [KV!Next]_(KV!keyValueVars)
    <3>1. CASE SendEvent(h)
      BY <1>1, <3>1, SendEventRefines
    <3>2. CASE WriteAnswer(h)
      BY <1>1, <3>2, WriteAnswerRefines DEF KV!Next
    <3>3. CASE SeeClosed(h)
      <4>1. UNCHANGED <<ch, data, value, request>>
        BY <3>3 DEF SeeClosed, loopVars
      <4>2. \A g \in Handler : Sending(g)' = Sending(g)
        BY <1>1, <3>3 DEF SeeClosed, TypedInv, HandlerInv, Sending
      <4> QED
        BY <4>1, <4>2, PendingKept
    <3> QED
      BY <2>4, <3>1, <3>2, <3>3
  <2>5. CASE Serve
    BY <1>1, <2>5, ServeRefines DEF KV!Next
  <2> QED
    BY <1>1, <2>1, <2>2, <2>3, <2>4, <2>5 DEF Next
<1> QED
  BY <1>1, PendingInit, TypedStart, TypedStep, PTL DEF Spec, KV!Spec, ImplementsKeyValue
=============================================================================
