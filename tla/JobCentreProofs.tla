--------------------------- MODULE JobCentreProofs ---------------------------
(***************************************************************************)
(* Theorems about the job centre.  The first part is about JobStore, for   *)
(* every set of clients, queues and priorities and every bound; the second *)
(* about JobCentre, for any capacity of the channel and any clients that   *)
(* do not read.                                                            *)
(***************************************************************************)
EXTENDS JobCentre, DataLemmas

(* The inductive invariant.  The type of `out' holds only because a waiter  *)
(* that is served is connected, and that needs the departed client to have  *)
(* no waiter left, so the parts are proved together.                        *)
LeavingGone ==
  /\ clients \cap departed = {}
  /\ leaving \notin clients
  /\ Idle => inner = 0

StoreInv == StoreTypeOK /\ WaitersConnected /\ NoJobStranded /\ LeavingGone
-----------------------------------------------------------------------------
(* Closing a gap neither lengthens a slice nor brings in a new element. *)
LEMMA CloseGapProperties ==
  ASSUME NEW S, NEW w \in Seq(S), NEW n \in 0..Len(w), NEW i \in 1..n
  PROVE  /\ CloseGap(w, i, n) \in Seq(S)
         /\ Len(CloseGap(w, i, n)) = Len(w)
         /\ \A k \in 1..Len(w) : \E h \in 1..Len(w) : CloseGap(w, i, n)[k] = w[h]
<1> DEFINE g == CloseGap(w, i, n)
<1>1. Len(w) \in Nat /\ \A k \in 1..Len(w) : w[k] \in S
  BY LenProperties
<1>2. g \in [1..Len(w) -> S]
  BY <1>1 DEF CloseGap
<1>3. g \in Seq(S) /\ Len(g) = Len(w)
  BY <1>1, <1>2
<1>4. ASSUME NEW k \in 1..Len(w)
      PROVE  \E h \in 1..Len(w) : g[k] = w[h]
  <2>1. CASE i <= k /\ k < n
    BY <1>1, <2>1 DEF CloseGap
  <2>2. CASE ~(i <= k /\ k < n)
    BY <1>1, <2>2 DEF CloseGap
  <2> QED
    BY <2>1, <2>2
<1> QED
  BY <1>3, <1>4

(* The same for the slice that loses its last place. *)
LEMMA RemoveWaiterProperties ==
  ASSUME StoreTypeOK, NEW i \in 1..Len(waiters), RemoveWaiter(i)
  PROVE  /\ waiters' \in Seq(Waiter)
         /\ Len(waiters') = Len(waiters) - 1
         /\ \A k \in 1..Len(waiters') : \E h \in 1..Len(waiters) : waiters'[k] = waiters[h]
<1> DEFINE n == Len(waiters)
           g == CloseGap(waiters, i, n)
<1>1. waiters \in Seq(Waiter) /\ n \in Nat \ {0}
  BY LenProperties DEF StoreTypeOK
<1>2. /\ g \in Seq(Waiter)
      /\ Len(g) = n
      /\ \A k \in 1..n : \E h \in 1..n : g[k] = waiters[h]
  BY <1>1, CloseGapProperties
<1>3. \A k \in 1..(n - 1) : g[k] \in Waiter
  BY <1>1, <1>2, LenProperties
<1>4. waiters' = SubSeq(g, 1, n - 1)
  BY DEF RemoveWaiter
<1> HIDE DEF g, n
<1>5. /\ SubSeq(g, 1, n - 1) \in Seq(Waiter)
      /\ Len(SubSeq(g, 1, n - 1)) = n - 1
      /\ \A k \in 1..(n - 1) : SubSeq(g, 1, n - 1)[k] = g[k]
  BY <1>1, <1>3, SubSeqProperties
<1>6. /\ waiters' \in Seq(Waiter)
      /\ Len(waiters') = n - 1
      /\ \A k \in 1..(n - 1) : waiters'[k] = g[k]
  BY <1>4, <1>5
<1>7. \A k \in 1..(n - 1) : \E h \in 1..n : waiters'[k] = waiters[h]
  <2> TAKE k \in 1..(n - 1)
  <2>1. k \in 1..n
    BY <1>1
  <2>2. PICK h \in 1..n : g[k] = waiters[h]
    BY <1>2, <2>1, Zenon
  <2>3. waiters'[k] = g[k]
    BY <1>6
  <2> QED
    BY <2>2, <2>3, Zenon
<1> QED
  BY <1>6, <1>7 DEF n

(* After DeleteFunc every entry is a waiter of another client or zeroed. *)
LEMMA DeleteWaitersProperties ==
  ASSUME StoreTypeOK, NEW c \in Client
  PROVE  /\ DeleteWaitersOf(c) \in Seq(Waiter)
         /\ Len(DeleteWaitersOf(c)) = Len(waiters)
         /\ \A k \in 1..Len(waiters) :
              \/ DeleteWaitersOf(c)[k] = ZeroWaiter
              \/ \E h \in KeptWaiters(c) : DeleteWaitersOf(c)[k] = waiters[h]
         /\ Cardinality(KeptWaiters(c)) \in 0..Len(waiters)
<1> DEFINE n == Len(waiters)
           d == DeleteWaitersOf(c)
<1>1. n \in Nat /\ \A h \in 1..n : waiters[h] \in Waiter
  BY LenProperties DEF StoreTypeOK
<1>2. ASSUME NEW k \in 1..n
      PROVE  d[k] = ZeroWaiter \/ \E h \in KeptWaiters(c) : d[k] = waiters[h]
  <2>1. CASE MovedTo(c, k) = {}
    BY <2>1 DEF DeleteWaitersOf
  <2>2. CASE MovedTo(c, k) # {}
    <3>1. PICK h : h = CHOOSE i \in MovedTo(c, k) : TRUE
      OBVIOUS
    <3>2. h \in MovedTo(c, k)
      BY <2>2, <3>1
    <3>3. h \in KeptWaiters(c)
      BY <3>2 DEF MovedTo
    <3> QED
      BY <2>2, <3>1, <3>3 DEF DeleteWaitersOf
  <2> QED
    BY <2>1, <2>2
<1>3. ZeroWaiter \in Waiter
  BY DEF ZeroWaiter, Waiter, Owner
<1>4. \A k \in 1..n : d[k] \in Waiter
  BY <1>1, <1>2, <1>3 DEF KeptWaiters
<1>5. d \in Seq(Waiter) /\ Len(d) = n
  <2>1. d = [k \in 1..n |-> d[k]]
    BY DEF DeleteWaitersOf
  <2> HIDE DEF d
  <2> QED
    BY <1>1, <1>4, <2>1
<1>6. Cardinality(KeptWaiters(c)) \in 0..n
  <2>1. IsFiniteSet(1..n) /\ Cardinality(1..n) = n
    BY <1>1, FS_Interval
  <2>2. KeptWaiters(c) \in SUBSET (1..n)
    BY DEF KeptWaiters
  <2>3. /\ IsFiniteSet(KeptWaiters(c))
        /\ Cardinality(KeptWaiters(c)) <= n
    BY <2>1, <2>2, FS_Subset
  <2> QED
    BY <1>1, <2>3, FS_CardinalityType
<1> QED
  BY <1>2, <1>5, <1>6

(* A waiter that is found listening is a connected client: the zeroed       *)
(* entries listen on nothing.                                               *)
LEMMA ServedIsConnected ==
  ASSUME StoreTypeOK, WaitersConnected,
         NEW q \in Queue, NEW n \in 0..Len(waiters), Listening(n, q) # {}
  PROVE  /\ Min(Listening(n, q)) \in 1..n
         /\ Min(Listening(n, q)) \in 1..Len(waiters)
         /\ waiters[Min(Listening(n, q))].client \in clients
         /\ waiters[Min(Listening(n, q))].client \in Client
<1> DEFINE m == Min(Listening(n, q))
<1>1. Len(waiters) \in Nat
  BY LenProperties DEF StoreTypeOK
<1>2. Listening(n, q) \in SUBSET Nat
  BY <1>1 DEF Listening
<1>3. m \in Listening(n, q)
  BY <1>2, MinElement
<1>4. m \in 1..n /\ m \in 1..Len(waiters) /\ q \in waiters[m].queues
  BY <1>1, <1>3 DEF Listening
<1>5. waiters[m] # ZeroWaiter
  BY <1>4 DEF ZeroWaiter
<1>6. waiters[m].client \in clients
  BY <1>4, <1>5 DEF WaitersConnected
<1> QED
  BY <1>4, <1>6 DEF StoreTypeOK

(* A sequence of one or two responses is a sequence of responses. *)
LEMMA ResponsesTyped ==
  /\ <<>> \in Seq(Response)
  /\ \A x \in Response : <<x>> \in Seq(Response)
  /\ \A x, y \in Response : <<x, y>> \in Seq(Response)
OBVIOUS

LEMMA ReplyTyped ==
  ASSUME NEW c \in Client, NEW id \in Nat
  PROVE  /\ PutReply(c, id) \in Response
         /\ JobReply(c, id) \in Response
         /\ Ok(c) \in Response
         /\ NoJob(c) \in Response
BY DEF PutReply, JobReply, Ok, NoJob, Response
-----------------------------------------------------------------------------
LEMMA StoreInvInit == Init => StoreInv
<1> SUFFICES ASSUME Init PROVE StoreInv
  OBVIOUS
<1>1. StoreTypeOK
  BY DEF Init, StoreTypeOK, JobId, Owner
<1>2. WaitersConnected
  BY DEF Init, WaitersConnected
<1>3. NoJobStranded
  BY DEF Init, NoJobStranded
<1>4. LeavingGone
  BY ConstantsAssumption DEF Init, LeavingGone, Idle
<1> QED
  BY <1>1, <1>2, <1>3, <1>4 DEF StoreInv

(* Each action preserves the invariant. *)
LEMMA ConnectedStep ==
  ASSUME StoreInv, NEW c \in Client, Connected(c)
  PROVE  StoreInv'
<1> USE DEF StoreInv
<1>1. StoreTypeOK'
  BY DEF Connected, StoreTypeOK, JobId, Idle
<1>2. WaitersConnected'
  BY DEF Connected, WaitersConnected, ZeroWaiter
<1>3. NoJobStranded'
  BY DEF Connected, NoJobStranded, Idle
<1>4. LeavingGone'
  BY ConstantsAssumption DEF Connected, LeavingGone, Idle
<1> QED
  BY <1>1, <1>2, <1>3, <1>4

LEMMA PutStep ==
  ASSUME StoreInv, NEW c \in Client, NEW q \in Queue, NEW p \in Priority, Put(c, q, p)
  PROVE  StoreInv'
<1> DEFINE listening == Listening(Len(waiters), q)
           w == waiters[Min(listening)].client
<1>1. StoreTypeOK /\ WaitersConnected /\ NoJobStranded /\ LeavingGone
  BY DEF StoreInv
<1>2. /\ jobNextId \in Nat \ {0}
      /\ jobNextId' \in Nat \ {0}
      /\ JobId' = JobId \cup {jobNextId}
      /\ jobNextId \notin JobId
  BY <1>1 DEF StoreTypeOK, Put, JobId
<1>3. /\ job' \in [JobId' -> Job]
      /\ job'[jobNextId].copies = 1
      /\ \A j \in JobId : job'[j] = job[j]
  <2>1. JobId' = 1..jobNextId
    BY <1>2 DEF JobId, Put
  <2>2. [queue |-> q, priority |-> p, owner |-> NoClient, copies |-> 1] \in Job
    BY ConstantsAssumption DEF Job, Owner
  <2>3. job \in [JobId -> Job]
    BY <1>1 DEF StoreTypeOK
  <2> QED
    BY <1>2, <2>1, <2>2, <2>3 DEF Put
<1>4. /\ jobs \subseteq JobId
      /\ jobs' = jobs \cup {jobNextId}
  BY <1>1 DEF StoreTypeOK, Put
<1>5. NoJobStranded'
  BY <1>1, <1>2, <1>3, <1>4 DEF NoJobStranded, Put, FromClient, Idle
<1>6. LeavingGone'
  BY <1>1 DEF LeavingGone, Put, Idle
<1>7. CASE listening = {}
  <2>1. waiters' = waiters /\ out' = <<PutReply(c, jobNextId)>>
    BY <1>7 DEF Put
  <2>2. out' \in Seq(Response)
    BY <1>2, <2>1, ReplyTyped, ResponsesTyped
  <2>3. StoreTypeOK'
    BY <1>1, <1>2, <1>3, <1>4, <2>1, <2>2 DEF StoreTypeOK, Put
  <2>4. WaitersConnected'
    BY <1>1, <2>1 DEF WaitersConnected, Put, ZeroWaiter
  <2> QED
    BY <1>5, <1>6, <2>3, <2>4 DEF StoreInv
<1>8. CASE listening # {}
  <2>1. /\ RemoveWaiter(Min(listening))
        /\ out' = <<PutReply(c, jobNextId), JobReply(w, jobNextId)>>
    BY <1>8 DEF Put
  <2>2. Len(waiters) \in 0..Len(waiters) /\ inner = 0
    BY <1>1, LenProperties DEF StoreTypeOK, LeavingGone, Put, FromClient
  <2>3. Min(listening) \in 1..Len(waiters) /\ w \in Client
    BY <1>1, <1>8, <2>2, ServedIsConnected
  <2>4. out' \in Seq(Response)
    BY <1>2, <2>1, <2>3, ReplyTyped, ResponsesTyped
  <2>5. /\ waiters' \in Seq(Waiter)
        /\ Len(waiters') = Len(waiters) - 1
        /\ \A k \in 1..Len(waiters') : \E h \in 1..Len(waiters) : waiters'[k] = waiters[h]
    BY <1>1, <2>1, <2>3, RemoveWaiterProperties
  <2>6. StoreTypeOK'
    BY <1>1, <1>2, <1>3, <1>4, <2>2, <2>4, <2>5 DEF StoreTypeOK, Put
  <2>7. WaitersConnected'
    BY <1>1, <2>5 DEF WaitersConnected, Put, ZeroWaiter
  <2> QED
    BY <1>5, <1>6, <2>6, <2>7 DEF StoreInv
<1> QED
  BY <1>7, <1>8

LEMMA GetStep ==
  ASSUME StoreInv, NEW c \in Client, NEW qs \in SUBSET Queue, NEW wait \in BOOLEAN,
         Get(c, qs, wait)
  PROVE  StoreInv'
<1>1. /\ StoreTypeOK /\ WaitersConnected /\ NoJobStranded /\ LeavingGone
      /\ Idle /\ c \in clients
  BY DEF StoreInv, Get, GetJob, GetWait, GetNothing, FromClient
<1>2. CASE GetJob(c, qs)
  <2>1. PICK j \in Best(qs) : job' = Assign(c, j) /\ out' = <<JobReply(c, j)>>
    BY <1>2 DEF GetJob
  <2>2. j \in JobId /\ j \in Nat /\ job \in [JobId -> Job] /\ c \in Owner
    BY <1>1 DEF Best, Offered, JobId, StoreTypeOK, Owner
  <2>3. /\ job' \in [JobId -> Job]
        /\ job'[j].owner = c
        /\ \A k \in JobId \ {j} : job'[k] = job[k]
    BY <2>1, <2>2 DEF Assign, Job
  <2>4. out' \in Seq(Response)
    BY <2>1, <2>2, ReplyTyped, ResponsesTyped
  <2>5. StoreTypeOK'
    BY <1>1, <1>2, <2>3, <2>4 DEF StoreTypeOK, GetJob, JobId
  <2>6. NoJobStranded'
    BY <1>1, <1>2, <2>2, <2>3 DEF NoJobStranded, GetJob, Idle, StoreTypeOK
  <2> QED
    BY <1>1, <1>2, <2>5, <2>6
       DEF StoreInv, GetJob, WaitersConnected, LeavingGone, ZeroWaiter, Idle
<1>3. CASE GetWait(c, qs)
  <2> DEFINE new == [client |-> c, queues |-> qs]
  <2>1. new \in Waiter /\ Len(waiters) \in Nat /\ waiters \in Seq(Waiter)
    BY <1>1, LenProperties DEF Waiter, Owner, StoreTypeOK
  <2>2. /\ waiters' = Append(waiters, new)
        /\ UNCHANGED <<jobNextId, job, jobs, clients, departed, leaving, inner>>
        /\ out' = <<>>
    BY <1>3 DEF GetWait
  <2>3. /\ waiters' \in Seq(Waiter)
        /\ Len(waiters') = Len(waiters) + 1
        /\ \A k \in 1..Len(waiters) : waiters'[k] = waiters[k]
        /\ waiters'[Len(waiters) + 1] = new
    <3> HIDE DEF new
    <3> QED
      BY <2>1, <2>2
  <2>4. StoreTypeOK'
    BY <1>1, <2>1, <2>2, <2>3 DEF StoreTypeOK, JobId
  <2>5. ASSUME NEW k \in 1..Len(waiters')
        PROVE  waiters'[k].client \in clients' \/ waiters'[k] = ZeroWaiter
    <3>1. CASE k = Len(waiters) + 1
      BY <1>1, <2>2, <2>3, <3>1
    <3>2. CASE k \in 1..Len(waiters)
      BY <1>1, <2>2, <2>3, <3>2 DEF WaitersConnected
    <3> QED
      BY <2>1, <2>3, <3>1, <3>2
  <2>6. WaitersConnected'
    BY <2>5 DEF WaitersConnected, ZeroWaiter
  <2> QED
    BY <1>1, <2>2, <2>4, <2>6 DEF StoreInv, NoJobStranded, LeavingGone, Idle
<1>4. CASE GetNothing(c, qs)
  <2>1. out' \in Seq(Response)
    BY <1>1, <1>4, ReplyTyped, ResponsesTyped DEF GetNothing, StoreTypeOK
  <2> QED
    BY <1>1, <1>4, <2>1
       DEF StoreInv, StoreTypeOK, JobId, GetNothing, WaitersConnected, NoJobStranded,
           LeavingGone, ZeroWaiter, Idle
<1> QED
  BY <1>2, <1>3, <1>4 DEF Get

LEMMA AbortStep ==
  ASSUME StoreInv, NEW c \in Client, NEW id \in {0} \cup JobId, Abort(c, id)
  PROVE  StoreInv'
<1>1. /\ StoreTypeOK /\ WaitersConnected /\ NoJobStranded /\ LeavingGone
      /\ Idle /\ c \in clients
  BY DEF StoreInv, Abort, FromClient
<1>2. /\ UNCHANGED <<jobNextId, jobs, clients, departed, waiters, leaving, inner>>
      /\ out' \in {<<Ok(c)>>, <<NoJob(c)>>}
  BY DEF Abort
<1>3. out' \in Seq(Response)
  BY <1>2, ReplyTyped, ResponsesTyped
<1>4. /\ job' \in [JobId -> Job]
      /\ \A j \in JobId : job'[j].owner = job[j].owner /\ job'[j].copies >= job[j].copies
      /\ \A j \in JobId : job[j].copies > 0 => job'[j].copies > 0
  <2>1. job \in [JobId -> Job] /\ \A j \in JobId : job[j].copies \in Nat
    BY <1>1 DEF StoreTypeOK, Job
  <2>2. CASE MayAbort(c, id) /\ job' = [job EXCEPT ![id].copies = @ + 1]
    <3>1. id \in JobId
      BY <1>1, <2>2 DEF MayAbort, StoreTypeOK
    <3> QED
      BY <2>1, <2>2, <3>1 DEF Job
  <2>3. CASE job' = job
    BY <2>1, <2>3
  <2> QED
    BY <2>2, <2>3 DEF Abort
<1>5. StoreTypeOK'
  BY <1>1, <1>2, <1>3, <1>4 DEF StoreTypeOK, JobId
<1>6. NoJobStranded'
  BY <1>1, <1>2, <1>4 DEF NoJobStranded, Idle, StoreTypeOK
<1> QED
  BY <1>1, <1>2, <1>5, <1>6 DEF StoreInv, WaitersConnected, LeavingGone, ZeroWaiter, Idle

LEMMA DeleteStep ==
  ASSUME StoreInv, NEW c \in Client, NEW id \in {0} \cup JobId, Delete(c, id)
  PROVE  StoreInv'
<1>1. /\ StoreTypeOK /\ WaitersConnected /\ NoJobStranded /\ LeavingGone
      /\ Idle /\ c \in clients
  BY DEF StoreInv, Delete, FromClient
<1>2. /\ UNCHANGED <<jobNextId, clients, departed, waiters, leaving, inner>>
      /\ out' \in {<<Ok(c)>>, <<NoJob(c)>>}
  BY DEF Delete
<1>3. out' \in Seq(Response)
  BY <1>2, ReplyTyped, ResponsesTyped
<1>4. /\ job' \in [JobId -> Job]
      /\ jobs' \in SUBSET jobs
      /\ \A j \in jobs' : job'[j] = job[j]
  <2>1. job \in [JobId -> Job] /\ jobs \subseteq JobId
    BY <1>1 DEF StoreTypeOK
  <2>2. CASE id \in jobs /\ jobs' = jobs \ {id} /\ job' = Unqueue(id)
    <3>1. id \in JobId /\ job[id] \in Job /\ job[id].copies \in Nat
      BY <2>1, <2>2 DEF Job
    <3> QED
      BY <2>1, <2>2, <3>1 DEF Unqueue, Job
  <2>3. CASE job' = job /\ jobs' = jobs
    BY <2>1, <2>3
  <2> QED
    BY <2>2, <2>3 DEF Delete
<1>5. StoreTypeOK'
  BY <1>1, <1>2, <1>3, <1>4 DEF StoreTypeOK, JobId
<1>6. NoJobStranded'
  BY <1>1, <1>2, <1>4 DEF NoJobStranded, Idle, StoreTypeOK
<1> QED
  BY <1>1, <1>2, <1>5, <1>6 DEF StoreInv, WaitersConnected, LeavingGone, ZeroWaiter, Idle

LEMMA DisconnectedStep ==
  ASSUME StoreInv, NEW c \in Client, Disconnected(c)
  PROVE  StoreInv'
<1>1. /\ StoreTypeOK /\ WaitersConnected /\ NoJobStranded /\ LeavingGone
      /\ Idle /\ c \in clients
  BY DEF StoreInv, Disconnected, FromClient
<1>2. /\ DeleteWaitersOf(c) \in Seq(Waiter)
      /\ Len(DeleteWaitersOf(c)) = Len(waiters)
      /\ \A k \in 1..Len(waiters) :
           \/ DeleteWaitersOf(c)[k] = ZeroWaiter
           \/ \E h \in KeptWaiters(c) : DeleteWaitersOf(c)[k] = waiters[h]
      /\ Cardinality(KeptWaiters(c)) \in 0..Len(waiters)
  BY <1>1, DeleteWaitersProperties
<1>3. /\ waiters' = DeleteWaitersOf(c)
      /\ inner' = Cardinality(KeptWaiters(c))
      /\ clients' = clients \ {c}
      /\ departed' = departed \cup {c}
      /\ leaving' = c
      /\ out' = <<>>
      /\ UNCHANGED <<jobNextId, job, jobs>>
  BY DEF Disconnected
<1>4. StoreTypeOK'
  BY <1>1, <1>2, <1>3 DEF StoreTypeOK, JobId, Owner
<1>5. ASSUME NEW k \in 1..Len(waiters')
      PROVE  waiters'[k].client \in clients' \/ waiters'[k] = ZeroWaiter
  <2>1. k \in 1..Len(waiters)
    BY <1>2, <1>3
  <2>2. CASE waiters'[k] # ZeroWaiter
    <3>1. PICK h \in KeptWaiters(c) : waiters'[k] = waiters[h]
      BY <1>2, <1>3, <2>1, <2>2, Zenon
    <3>2. h \in 1..Len(waiters) /\ waiters[h].client # c
      BY DEF KeptWaiters
    <3> QED
      BY <1>1, <1>3, <2>2, <3>1, <3>2 DEF WaitersConnected
  <2> QED
    BY <2>2
<1>6. WaitersConnected'
  BY <1>5 DEF WaitersConnected, ZeroWaiter
<1>7. NoJobStranded'
  BY <1>1, <1>3, ConstantsAssumption DEF NoJobStranded, Idle
<1>8. LeavingGone'
  BY <1>1, <1>3, ConstantsAssumption DEF LeavingGone, Idle
<1> QED
  BY <1>4, <1>6, <1>7, <1>8 DEF StoreInv

(* RequeueJob works on a job that the departed client owns. *)
LEMMA LowestOwned ==
  ASSUME StoreTypeOK, RequeueJob
  PROVE  Min(OwnedBy(leaving)) \in OwnedBy(leaving)
<1>1. OwnedBy(leaving) # {}
  BY DEF RequeueJob
<1>2. jobs \subseteq JobId /\ JobId \subseteq Nat
  BY DEF StoreTypeOK, JobId
<1>3. OwnedBy(leaving) \in SUBSET Nat
  BY <1>2 DEF OwnedBy
<1> QED
  BY <1>1, <1>3, MinElement

LEMMA RequeueJobStep ==
  ASSUME StoreInv, RequeueJob
  PROVE  StoreInv'
<1> DEFINE j == Min(OwnedBy(leaving))
           listening == Listening(inner, job[j].queue)
           i == Min(listening)
           w == waiters[i].client
<1>1. /\ StoreTypeOK /\ WaitersConnected /\ NoJobStranded /\ LeavingGone
      /\ ~Idle
      /\ UNCHANGED <<jobNextId, jobs, clients, departed, leaving>>
  BY DEF StoreInv, RequeueJob
<1>2. j \in jobs /\ j \in JobId /\ job[j].owner = leaving
  <2>1. j \in OwnedBy(leaving)
    BY <1>1, LowestOwned
  <2> HIDE DEF j
  <2> QED
    BY <1>1, <2>1 DEF OwnedBy, StoreTypeOK
<1>3. /\ job \in [JobId -> Job]
      /\ job[j] \in Job
      /\ job[j].copies \in Nat
      /\ job[j].queue \in Queue
      /\ j \in Nat
  BY <1>1, <1>2 DEF StoreTypeOK, Job, JobId
<1>4. CASE listening = {}
  <2>1. job' = PutBack(j) /\ out' = <<>> /\ UNCHANGED <<waiters, inner>>
    BY <1>4 DEF RequeueJob
  <2>2. /\ job' \in [JobId -> Job]
        /\ job'[j].copies > 0
        /\ \A k \in JobId \ {j} : job'[k] = job[k]
    <3> HIDE DEF j
    <3> QED
      BY <1>2, <1>3, <2>1 DEF PutBack, Job, Owner
  <2>3. StoreTypeOK'
    BY <1>1, <2>1, <2>2 DEF StoreTypeOK, JobId
  <2>4. NoJobStranded'
    <3> HIDE DEF j
    <3> QED
      BY <1>1, <2>2 DEF NoJobStranded, Idle, StoreTypeOK
  <2> QED
    BY <1>1, <2>1, <2>3, <2>4 DEF StoreInv, WaitersConnected, LeavingGone, ZeroWaiter, Idle
<1>5. CASE listening # {}
  <2>1. /\ job' = HandOver(j, w)
        /\ waiters' = CloseGap(waiters, i, inner)
        /\ inner' = inner - 1
        /\ out' = <<JobReply(w, j)>>
    BY <1>5 DEF RequeueJob
  <2>2. inner \in 0..Len(waiters) /\ waiters \in Seq(Waiter) /\ Len(waiters) \in Nat
    BY <1>1, LenProperties DEF StoreTypeOK
  <2>3. i \in 1..inner /\ w \in clients /\ w \in Client
    BY <1>1, <1>3, <1>5, <2>2, ServedIsConnected
  <2>4. /\ waiters' \in Seq(Waiter)
        /\ Len(waiters') = Len(waiters)
        /\ \A k \in 1..Len(waiters) : \E h \in 1..Len(waiters) : waiters'[k] = waiters[h]
    <3> HIDE DEF i
    <3> QED
      BY <2>1, <2>2, <2>3, CloseGapProperties
  <2>5. inner' \in 0..Len(waiters')
    BY <2>1, <2>2, <2>3, <2>4
  <2>6. /\ job' \in [JobId -> Job]
        /\ job'[j].owner = w
        /\ \A k \in JobId \ {j} : job'[k] = job[k]
    <3> HIDE DEF j, w
    <3> QED
      BY <1>2, <1>3, <2>1, <2>3 DEF HandOver, Job, Owner
  <2>7. out' \in Seq(Response)
    <3> HIDE DEF j, w
    <3> QED
      BY <1>3, <2>1, <2>3, ReplyTyped, ResponsesTyped
  <2>8. StoreTypeOK'
    BY <1>1, <2>4, <2>5, <2>6, <2>7 DEF StoreTypeOK, JobId
  <2>9. NoJobStranded'
    <3> HIDE DEF j, w
    <3> QED
      BY <1>1, <2>3, <2>6 DEF NoJobStranded, Idle, StoreTypeOK
  <2>10. WaitersConnected'
    BY <1>1, <2>4 DEF WaitersConnected, ZeroWaiter
  <2> QED
    BY <1>1, <2>8, <2>9, <2>10 DEF StoreInv, LeavingGone, Idle
<1> QED
  BY <1>4, <1>5

LEMMA EndDisconnectedStep ==
  ASSUME StoreInv, EndDisconnected
  PROVE  StoreInv'
<1>1. StoreTypeOK'
  BY LenProperties DEF StoreInv, EndDisconnected, StoreTypeOK, JobId, Owner
<1>2. NoJobStranded'
  BY DEF StoreInv, EndDisconnected, NoJobStranded, OwnedBy, Idle
<1>3. LeavingGone'
  BY ConstantsAssumption DEF StoreInv, StoreTypeOK, EndDisconnected, LeavingGone, Idle
<1> QED
  BY <1>1, <1>2, <1>3 DEF StoreInv, EndDisconnected, WaitersConnected, ZeroWaiter

LEMMA StutterStep ==
  ASSUME StoreInv, UNCHANGED storeVars
  PROVE  StoreInv'
BY DEF storeVars, StoreInv, StoreTypeOK, JobId, WaitersConnected, ZeroWaiter,
       NoJobStranded, LeavingGone, Idle
-----------------------------------------------------------------------------
LEMMA StoreInvStep ==
  ASSUME StoreInv, [Next]_storeVars
  PROVE  StoreInv'
<1>1. ASSUME NEW c \in Client, Connected(c) \/ Request(c) \/ Disconnected(c)
      PROVE  StoreInv'
  <2>1. CASE Connected(c)
    BY <2>1, ConnectedStep
  <2>2. CASE \E q \in Queue, p \in Priority : Put(c, q, p)
    BY <2>2, PutStep
  <2>3. CASE \E qs \in SUBSET Queue, wait \in BOOLEAN : Get(c, qs, wait)
    BY <2>3, GetStep
  <2>4. CASE \E id \in {0} \cup JobId : Abort(c, id) \/ Delete(c, id)
    BY <2>4, AbortStep, DeleteStep
  <2>5. CASE Disconnected(c)
    BY <2>5, DisconnectedStep
  <2> QED
    BY <1>1, <2>1, <2>2, <2>3, <2>4, <2>5 DEF Request
<1> QED
  BY <1>1, RequeueJobStep, EndDisconnectedStep, StutterStep DEF Next

(* The invariant holds in every reachable state. *)
THEOREM StoreInvHolds == Spec => []StoreInv
BY StoreInvInit, StoreInvStep, PTL DEF Spec

(* Type correctness of the state of JobCentreServer.internal. *)
THEOREM StoreTypeCorrect == Spec => []StoreTypeOK
BY StoreInvHolds, PTL DEF StoreInv

(* internal never writes a response to a client it no longer knows (the nil  *)
(* client of lines 230 and 279).                                             *)
THEOREM WaitersStayConnected == Spec => []WaitersConnected
BY StoreInvHolds, PTL DEF StoreInv

(* A job nobody deleted is always queued, or held by a client that can still *)
(* abort it, or about to be put back.                                        *)
THEOREM JobsNeverStranded == Spec => []NoJobStranded
BY StoreInvHolds, PTL DEF StoreInv

(* A GetResponse for a job somebody holds is written in one case only: the   *)
(* holder has disconnected and the job goes to a waiter.                     *)
GivenFreely(r) ==
  r.kind = "job" /\ r.id \in JobId /\ Held(r.id) => ~Idle /\ job[r.id].owner = leaving

THEOREM HeldJobsStayPut == Spec => HeldJobNotGivenOut
<1>1. ASSUME StoreInv, Next
      PROVE  \A i \in 1..Len(out') : GivenFreely(out'[i])
  <2>1. JobId \subseteq Nat /\ jobNextId \notin JobId
    BY <1>1 DEF StoreInv, StoreTypeOK, JobId
  <2> USE <2>1 DEF GivenFreely, PutReply, JobReply, Ok, NoJob
  <2>2. ASSUME NEW c \in Client, Connected(c) \/ Request(c) \/ Disconnected(c)
        PROVE  \A i \in 1..Len(out') : GivenFreely(out'[i])
    <3>1. CASE Connected(c) \/ Disconnected(c)
      BY <3>1 DEF Connected, Disconnected
    <3>2. ASSUME NEW q \in Queue, NEW p \in Priority, Put(c, q, p)
          PROVE  \A i \in 1..Len(out') : GivenFreely(out'[i])
      <4>1. \A i \in 1..Len(out') : out'[i].id = jobNextId
        BY <3>2 DEF Put
      <4> QED
        BY <4>1
    <3>3. ASSUME NEW qs \in SUBSET Queue, GetJob(c, qs)
          PROVE  \A i \in 1..Len(out') : GivenFreely(out'[i])
      <4>1. PICK j \in Best(qs) : out' = <<JobReply(c, j)>>
        BY <3>3 DEF GetJob
      <4>2. ~Held(j)
        <5>1. j \in JobId /\ job[j].copies > 0 /\ job[j].copies \in Nat
          BY <1>1 DEF Best, Offered, StoreInv, StoreTypeOK, Job
        <5> QED
          BY <5>1 DEF Held
      <4> QED
        BY <4>1, <4>2
    <3>4. ASSUME NEW qs \in SUBSET Queue, GetWait(c, qs) \/ GetNothing(c, qs)
          PROVE  \A i \in 1..Len(out') : GivenFreely(out'[i])
      BY <3>4 DEF GetWait, GetNothing
    <3>5. ASSUME NEW id \in {0} \cup JobId, Abort(c, id) \/ Delete(c, id)
          PROVE  \A i \in 1..Len(out') : GivenFreely(out'[i])
      BY <3>5 DEF Abort, Delete
    <3> QED
      BY <2>2, <3>1, <3>2, <3>3, <3>4, <3>5 DEF Request, Get
  <2>3. CASE RequeueJob
    <3> DEFINE j == Min(OwnedBy(leaving))
    <3>1. j \in OwnedBy(leaving)
      BY <1>1, <2>3, LowestOwned DEF StoreInv
    <3>2. ~Idle /\ job[j].owner = leaving
      BY <2>3, <3>1 DEF OwnedBy, RequeueJob
    <3>3. \A i \in 1..Len(out') : out'[i].id = j
      <4> HIDE DEF j
      <4>1. out' = <<>> \/ \E w : out' = <<JobReply(w, j)>>
        BY <2>3 DEF RequeueJob, j
      <4> QED
        BY <4>1
    <3> QED
      BY <3>2, <3>3
  <2>4. CASE EndDisconnected
    BY <2>4 DEF EndDisconnected
  <2> QED
    BY <1>1, <2>2, <2>3, <2>4 DEF Next
<1>2. ASSUME StoreInv, [Next]_storeVars
      PROVE  [\A i \in 1..Len(out') : GivenFreely(out'[i])]_storeVars
  BY <1>1, <1>2
<1>3. Spec => [][\A i \in 1..Len(out') : GivenFreely(out'[i])]_storeVars
  BY <1>2, StoreInvHolds, PTL DEF Spec
<1> QED
  BY <1>3 DEF HeldJobNotGivenOut, GivenFreely

(* While a client holds a job, only its own abort, a delete or its own        *)
(* departure changes anything about that job.                                 *)
KeptUnless(j) ==
  Held(j) /\ job[j].owner # leaving
    => job'[j] = job[j] \/ j \notin jobs' \/ out' = <<Ok(job[j].owner)>>

THEOREM HoldersKeepJobs == Spec => HolderKeepsJob
<1>1. ASSUME StoreInv, Next, NEW j \in jobs
      PROVE  KeptUnless(j)
  <2>1. /\ jobs \subseteq JobId
        /\ jobNextId \notin JobId
        /\ jobNextId \in Nat \ {0}
        /\ job \in [JobId -> Job]
        /\ j \in JobId
    BY <1>1 DEF StoreInv, StoreTypeOK, JobId
  <2> USE DEF KeptUnless
  <2>2. ASSUME NEW c \in Client, Connected(c) \/ Request(c) \/ Disconnected(c)
        PROVE  KeptUnless(j)
    <3>1. CASE Connected(c) \/ Disconnected(c)
      BY <3>1 DEF Connected, Disconnected
    <3>2. ASSUME NEW q \in Queue, NEW p \in Priority, Put(c, q, p)
          PROVE  KeptUnless(j)
      BY <2>1, <3>2 DEF Put, JobId
    <3>3. ASSUME NEW qs \in SUBSET Queue, GetJob(c, qs)
          PROVE  KeptUnless(j)
      <4>1. PICK k \in Best(qs) : job' = Assign(c, k)
        BY <3>3 DEF GetJob
      <4>2. job[k].copies > 0
        BY DEF Best, Offered
      <4> QED
        BY <2>1, <4>1, <4>2 DEF Held, Assign
    <3>4. ASSUME NEW qs \in SUBSET Queue, GetWait(c, qs) \/ GetNothing(c, qs)
          PROVE  KeptUnless(j)
      BY <3>4 DEF GetWait, GetNothing
    <3>5. ASSUME NEW id \in {0} \cup JobId, Abort(c, id)
          PROVE  KeptUnless(j)
      <4>1. CASE MayAbort(c, id) /\ job' = [job EXCEPT ![id].copies = @ + 1]
                 /\ out' = <<Ok(c)>>
        BY <2>1, <4>1 DEF MayAbort
      <4>2. CASE job' = job
        BY <4>2
      <4> QED
        BY <3>5, <4>1, <4>2 DEF Abort
    <3>6. ASSUME NEW id \in {0} \cup JobId, Delete(c, id)
          PROVE  KeptUnless(j)
      BY <2>1, <3>6 DEF Delete, Unqueue
    <3> QED
      BY <2>2, <3>1, <3>2, <3>3, <3>4, <3>5, <3>6 DEF Request, Get
  <2>3. CASE RequeueJob
    <3> DEFINE k == Min(OwnedBy(leaving))
               w == waiters[Min(Listening(inner, job[k].queue))].client
    <3>1. k \in OwnedBy(leaving)
      BY <1>1, <2>3, LowestOwned DEF StoreInv
    <3>2. job' = PutBack(k) \/ job' = HandOver(k, w)
      BY <2>3 DEF RequeueJob
    <3> HIDE DEF k, w
    <3> QED
      BY <2>1, <3>1, <3>2 DEF OwnedBy, PutBack, HandOver
  <2>4. CASE EndDisconnected
    BY <2>4 DEF EndDisconnected
  <2> QED
    BY <1>1, <2>2, <2>3, <2>4 DEF Next
<1>2. ASSUME StoreInv, [Next]_storeVars
      PROVE  [\A j \in jobs : Held(j) /\ job[j].owner # leaving =>
                \/ job'[j] = job[j]
                \/ j \notin jobs'
                \/ out' = <<Ok(job[j].owner)>>]_storeVars
  BY <1>1, <1>2 DEF KeptUnless
<1> QED
  BY <1>2, StoreInvHolds, PTL DEF Spec, HolderKeepsJob

(* Both together: whatever the clients send and in whatever order they leave, *)
(* a job somebody holds stays with its holder.                               *)
THEOREM HeldJobsStay == Spec => HeldJobStays
BY HeldJobsStayPut, HoldersKeepJobs DEF HeldJobStays

(* Owners are told, and whoever is sent a job owns it, unless it is new. *)
TellsOwner(j, c) ==
  /\ job'[j].owner = c /\ (j \in JobId => job[j].owner # c) => j \in SentTo(c)
  /\ j \in SentTo(c) => job'[j].owner = c \/ j \notin JobId

LEMMA JobSent ==
  ASSUME NEW c, NEW j, out' = <<JobReply(c, j)>>
  PROVE  j \in SentTo(c)
<1>1. 1 \in {k \in 1..Len(out') : out'[k].to = c /\ out'[k].kind = "job"}
  BY DEF JobReply
<1>2. out'[1].id = j
  BY DEF JobReply
<1> QED
  BY <1>1, <1>2 DEF SentTo

LEMMA OneJobSent ==
  ASSUME NEW c, NEW d, NEW j, NEW k, out' = <<JobReply(d, k)>>, j \in SentTo(c)
  PROVE  d = c /\ k = j
<1>1. \A h \in 1..Len(out') : h = 1
  OBVIOUS
<1>2. out'[1].to = d /\ out'[1].id = k
  BY DEF JobReply
<1> QED
  BY <1>1, <1>2 DEF SentTo

LEMMA NothingSent ==
  ASSUME NEW c, out' = <<>> \/ \E r : out' = <<r>> /\ r.kind # "job"
  PROVE  SentTo(c) = {}
<1>1. \A h \in 1..Len(out') : out'[h].kind # "job"
  <2>1. CASE out' = <<>>
    BY <2>1
  <2>2. ASSUME NEW r, out' = <<r>>, r.kind # "job"
        PROVE  \A h \in 1..Len(out') : out'[h].kind # "job"
    BY <2>2
  <2> QED
    BY <2>1, <2>2
<1> QED
  BY <1>1 DEF SentTo

(* The store and the clients agree on who has a job: a new owner is told in   *)
(* the same step, and whoever a job is written to owns it, except the waiter  *)
(* Put writes a new job to.                                                   *)
THEOREM OwnersAlwaysTold == Spec => OwnerTold
<1>1. ASSUME StoreInv, Next, NEW j \in JobId', NEW c \in Client
      PROVE  TellsOwner(j, c)
  <2>1. /\ jobs \subseteq JobId
        /\ jobNextId \notin JobId
        /\ jobNextId \in Nat \ {0}
        /\ job \in [JobId -> Job]
    BY <1>1 DEF StoreInv, StoreTypeOK, JobId
  <2> USE DEF TellsOwner
  <2>2. ASSUME jobNextId' = jobNextId
        PROVE  j \in JobId
    BY <1>1, <2>2 DEF JobId
  <2>3. ASSUME NEW d \in Client, Connected(d) \/ Request(d) \/ Disconnected(d)
        PROVE  TellsOwner(j, c)
    <3>1. CASE Connected(d) \/ Disconnected(d)
      <4>1. job' = job /\ out' = <<>> /\ jobNextId' = jobNextId
        BY <3>1 DEF Connected, Disconnected
      <4> QED
        BY <2>2, <4>1, NothingSent
    <3>2. ASSUME NEW q \in Queue, NEW p \in Priority, Put(d, q, p)
          PROVE  TellsOwner(j, c)
      <4>1. /\ JobId' = 1..jobNextId /\ JobId = 1..(jobNextId - 1)
            /\ \A i \in JobId : job'[i] = job[i]
            /\ job'[jobNextId].owner = NoClient
        BY <2>1, <3>2 DEF Put, JobId
      <4>2. \A k \in SentTo(c) : k = jobNextId
        <5>1. \A h \in 1..Len(out') : out'[h].kind = "job" => out'[h].id = jobNextId
          BY <3>2 DEF Put, PutReply, JobReply
        <5> QED
          BY <5>1 DEF SentTo
      <4>3. j = jobNextId \/ j \in JobId
        BY <1>1, <2>1, <4>1
      <4> QED
        BY <2>1, <4>1, <4>2, <4>3, ConstantsAssumption
    <3>3. ASSUME NEW qs \in SUBSET Queue, GetJob(d, qs)
          PROVE  TellsOwner(j, c)
      <4>1. PICK k \in Best(qs) : job' = Assign(d, k) /\ out' = <<JobReply(d, k)>>
        BY <3>3 DEF GetJob
      <4>2. k \in JobId /\ j \in JobId
        BY <2>2, <3>3, <4>1 DEF Best, Offered, GetJob
      <4>3. job'[k].owner = d /\ (job'[j] = job[j] \/ j = k)
        BY <2>1, <4>1, <4>2 DEF Assign, Job
      <4>4. k \in SentTo(d)
        BY <4>1, JobSent
      <4>5. j \in SentTo(c) => d = c /\ k = j
        BY <4>1, OneJobSent
      <4> QED
        BY <4>2, <4>3, <4>4, <4>5
    <3>4. ASSUME NEW qs \in SUBSET Queue, GetWait(d, qs) \/ GetNothing(d, qs)
          PROVE  TellsOwner(j, c)
      <4>1. job' = job /\ jobNextId' = jobNextId /\ (out' = <<>> \/ out' = <<NoJob(d)>>)
        BY <3>4 DEF GetWait, GetNothing
      <4>2. SentTo(c) = {}
        BY <4>1, NothingSent DEF NoJob
      <4> QED
        BY <2>2, <4>1, <4>2
    <3>5. ASSUME NEW id \in {0} \cup JobId, Abort(d, id) \/ Delete(d, id)
          PROVE  TellsOwner(j, c)
      <4>1. j \in JobId
        BY <2>2, <3>5 DEF Abort, Delete
      <4>2. job'[j].owner = job[j].owner
        <5>1. CASE job' = job
          BY <5>1
        <5>2. CASE job' = [job EXCEPT ![id].copies = @ + 1]
          BY <2>1, <4>1, <5>2 DEF Job
        <5>3. CASE job' = Unqueue(id)
          BY <2>1, <4>1, <5>3 DEF Unqueue, Job
        <5> QED
          BY <3>5, <5>1, <5>2, <5>3 DEF Abort, Delete
      <4>3. out' = <<Ok(d)>> \/ out' = <<NoJob(d)>>
        BY <3>5 DEF Abort, Delete
      <4>4. SentTo(c) = {}
        BY <4>3, NothingSent DEF Ok, NoJob
      <4> QED
        BY <4>1, <4>2, <4>4
    <3> QED
      BY <2>3, <3>1, <3>2, <3>3, <3>4, <3>5 DEF Request, Get
  <2>4. CASE RequeueJob
    <3> DEFINE k == Min(OwnedBy(leaving))
               listening == Listening(inner, job[k].queue)
               w == waiters[Min(listening)].client
    <3>1. /\ \/ job' = PutBack(k) /\ out' = <<>>
             \/ job' = HandOver(k, w) /\ out' = <<JobReply(w, k)>>
          /\ jobNextId' = jobNextId
      BY <2>4 DEF RequeueJob
    <3>2. k \in JobId /\ j \in JobId
      <4>1. k \in OwnedBy(leaving)
        BY <1>1, <2>4, LowestOwned DEF StoreInv
      <4> QED
        BY <2>1, <2>2, <3>1, <4>1 DEF OwnedBy
    <3> HIDE DEF k, w
    <3>3. CASE job' = PutBack(k) /\ out' = <<>>
      <4>1. SentTo(c) = {}
        BY <3>3, NothingSent
      <4> QED
        BY <2>1, <3>2, <3>3, <4>1, ConstantsAssumption DEF PutBack, Job
    <3>4. CASE job' = HandOver(k, w) /\ out' = <<JobReply(w, k)>>
      <4>1. job'[k].owner = w /\ (job'[j] = job[j] \/ j = k)
        BY <2>1, <3>2, <3>4 DEF HandOver, Job
      <4>2. k \in SentTo(w)
        BY <3>4, JobSent
      <4>3. j \in SentTo(c) => w = c /\ k = j
        BY <3>4, OneJobSent
      <4> QED
        BY <3>2, <4>1, <4>2, <4>3
    <3> QED
      BY <3>1, <3>3, <3>4
  <2>5. CASE EndDisconnected
    <3>1. job' = job /\ out' = <<>> /\ jobNextId' = jobNextId
      BY <2>5 DEF EndDisconnected
    <3> QED
      BY <2>2, <3>1, NothingSent
  <2> QED
    BY <1>1, <2>3, <2>4, <2>5 DEF Next
<1>2. ASSUME StoreInv, [Next]_storeVars
      PROVE  [\A j \in JobId', c \in Client :
                /\ job'[j].owner = c /\ (j \in JobId => job[j].owner # c) => j \in SentTo(c)
                /\ j \in SentTo(c) => job'[j].owner = c \/ j \notin JobId]_storeVars
  BY <1>1, <1>2 DEF TellsOwner
<1> QED
  BY <1>2, StoreInvHolds, PTL DEF Spec, OwnerTold
-----------------------------------------------------------------------------
(* Counting waiters: what a step moves without merging two of them is still   *)
(* there.                                                                     *)
LEMMA InjectedSmaller ==
  ASSUME NEW S, NEW T, IsFiniteSet(T), NEW f \in [S -> T],
         \A x, y \in S : f[x] = f[y] => x = y
  PROVE  Cardinality(S) <= Cardinality(T)
<1>1. f \in Injection(S, T)
  BY DEF Injection, IsInjective
<1> QED
  BY <1>1, FS_Injection

PlacesIn(w, n, c) == {k \in 1..n : w[k].client = c}

LEMMA PlacesFinite ==
  ASSUME NEW w, NEW n \in Nat, NEW c
  PROVE  IsFiniteSet(PlacesIn(w, n, c)) /\ Cardinality(PlacesIn(w, n, c)) \in Nat
<1>1. IsFiniteSet(1..n) /\ PlacesIn(w, n, c) \in SUBSET (1..n)
  BY FS_Interval DEF PlacesIn
<1>2. IsFiniteSet(PlacesIn(w, n, c))
  BY <1>1, FS_Subset
<1> QED
  BY <1>2, FS_CardinalityType

LEMMA InUseTyped ==
  ASSUME StoreTypeOK, NEW c
  PROVE  /\ InUse \in Nat /\ InUse <= Len(waiters)
         /\ WaitersOf(c) = PlacesIn(waiters, InUse, c)
         /\ IsFiniteSet(WaitersOf(c)) /\ Cardinality(WaitersOf(c)) \in Nat
<1>1. InUse \in Nat /\ InUse <= Len(waiters)
  BY LenProperties DEF StoreTypeOK, InUse
<1>2. WaitersOf(c) = PlacesIn(waiters, InUse, c)
  BY DEF WaitersOf, PlacesIn
<1> QED
  BY <1>1, <1>2, PlacesFinite

LEMMA NewInUseTyped ==
  ASSUME StoreTypeOK', NEW c
  PROVE  /\ InUse' \in Nat
         /\ WaitersOf(c)' = PlacesIn(waiters', InUse', c)
         /\ IsFiniteSet(WaitersOf(c)') /\ Cardinality(WaitersOf(c)') \in Nat
<1>1. InUse' \in Nat
  BY LenProperties DEF StoreTypeOK, InUse
<1>2. WaitersOf(c)' = PlacesIn(waiters', InUse', c)
  BY DEF WaitersOf, PlacesIn
<1> QED
  BY <1>1, <1>2, PlacesFinite

(* The first n - 1 places of v are those of w with place i closed. *)
GapAt(w, v, n, i) ==
  \A k \in 1..(n - 1) : v[k] = IF i <= k THEN w[k + 1] ELSE w[k]

LEMMA GapClosed ==
  ASSUME NEW w, NEW v, NEW c, NEW n \in Nat, NEW i \in 1..n, GapAt(w, v, n, i)
  PROVE  Cardinality(PlacesIn(v, n - 1, c)) =
           IF w[i].client = c THEN Cardinality(PlacesIn(w, n, c)) - 1
                              ELSE Cardinality(PlacesIn(w, n, c))
<1> DEFINE W == PlacesIn(w, n, c)
           V == PlacesIn(v, n - 1, c)
           f == [k \in W \ {i} |-> IF i < k THEN k - 1 ELSE k]
           g == [k \in V |-> IF i <= k THEN k + 1 ELSE k]
<1>1. /\ IsFiniteSet(W) /\ Cardinality(W) \in Nat
      /\ IsFiniteSet(V) /\ Cardinality(V) \in Nat
  <2>1. n - 1 \in Nat
    OBVIOUS
  <2> QED
    BY <2>1, PlacesFinite
<1>2. /\ Cardinality(W \ {i}) = IF i \in W THEN Cardinality(W) - 1 ELSE Cardinality(W)
      /\ IsFiniteSet(W \ {i})
  <2> HIDE DEF W
  <2> QED
    BY <1>1, FS_RemoveElement
<1>3. f \in [W \ {i} -> V]
  <2> SUFFICES ASSUME NEW k \in W \ {i} PROVE f[k] \in V
    OBVIOUS
  <2>1. CASE i < k
    BY <2>1 DEF PlacesIn, GapAt
  <2>2. CASE ~(i < k)
    <3>1. k \in 1..(n - 1) /\ ~(i <= k)
      BY <2>2 DEF PlacesIn
    <3> QED
      BY <2>2, <3>1 DEF PlacesIn, GapAt
  <2> QED
    BY <2>1, <2>2
<1>4. \A x, y \in W \ {i} : f[x] = f[y] => x = y
  BY DEF PlacesIn
<1>5. g \in [V -> W \ {i}]
  BY DEF PlacesIn, GapAt
<1>6. \A x, y \in V : g[x] = g[y] => x = y
  BY DEF PlacesIn
<1>7. i \in W <=> w[i].client = c
  BY DEF PlacesIn
<1> HIDE DEF f, g, W, V
<1>8. Cardinality(W \ {i}) <= Cardinality(V)
  BY <1>1, <1>3, <1>4, InjectedSmaller
<1>9. Cardinality(V) <= Cardinality(W \ {i})
  BY <1>2, <1>5, <1>6, InjectedSmaller
<1>10. Cardinality(V) = IF w[i].client = c THEN Cardinality(W) - 1 ELSE Cardinality(W)
  BY <1>1, <1>2, <1>7, <1>8, <1>9
<1> QED
  BY <1>10 DEF W, V

(* DeleteFunc moves the waiters of another client, each to a place of its own *)
(* in the shorter slice, which holds no others of that client.                *)
LEMMA OthersMoved ==
  ASSUME StoreTypeOK, StoreTypeOK', NEW gone \in Client, NEW c \in Client, c # gone,
         Disconnected(gone)
  PROVE  Cardinality(WaitersOf(c)') = Cardinality(WaitersOf(c))
<1> DEFINE n == Len(waiters)
           K == KeptWaiters(gone)
           m == Cardinality(K)
           UpTo(i) == {h \in K : h <= i}
           f == [i \in WaitersOf(c) |-> Cardinality(UpTo(i))]
           g == [k \in WaitersOf(c)' |-> CHOOSE i \in MovedTo(gone, k) : TRUE]
<1>1. n \in Nat /\ IsFiniteSet(1..n) /\ Cardinality(1..n) = n
  <2>1. n \in Nat
    BY LenProperties DEF StoreTypeOK
  <2> HIDE DEF n
  <2> QED
    BY <2>1, FS_Interval
<1>2. K \in SUBSET (1..n) /\ IsFiniteSet(K)
  BY <1>1, FS_Subset DEF KeptWaiters
<1>3. m \in Nat /\ m <= n
  BY <1>1, <1>2, FS_Subset, FS_CardinalityType
<1>4. waiters' = DeleteWaitersOf(gone) /\ InUse = n /\ InUse' = m
  <2>1. /\ Idle /\ inner' = m /\ leaving' = gone
        /\ waiters' = DeleteWaitersOf(gone)
    BY DEF Disconnected, FromClient
  <2> QED
    BY <2>1, ConstantsAssumption DEF InUse, Idle
<1>5. WaitersOf(c) = {i \in K : waiters[i].client = c}
  BY <1>4 DEF WaitersOf, KeptWaiters
<1>6. WaitersOf(c)' = {k \in 1..m : waiters'[k].client = c}
  BY <1>4 DEF WaitersOf
<1>7. ASSUME NEW i \in K
      PROVE  /\ IsFiniteSet(UpTo(i)) /\ Cardinality(UpTo(i)) \in Nat
             /\ Cardinality(UpTo(i)) \in 1..m
  <2>1. UpTo(i) \in SUBSET K /\ i \in UpTo(i)
    BY <1>1, <1>2
  <2> HIDE DEF UpTo
  <2>2. IsFiniteSet(UpTo(i)) /\ Cardinality(UpTo(i)) <= Cardinality(K)
    BY <1>2, <2>1, FS_Subset
  <2>3. Cardinality(UpTo(i)) \in Nat
    BY <2>2, FS_CardinalityType
  <2>4. Cardinality(UpTo(i)) # 0
    BY <2>1, <2>2, FS_EmptySet
  <2> QED
    BY <1>1, <1>3, <2>2, <2>3, <2>4
<1>8. ASSUME NEW i \in K, NEW h \in K, h < i
      PROVE  Cardinality(UpTo(h)) # Cardinality(UpTo(i))
  <2>1. UpTo(h) \in SUBSET UpTo(i) /\ i \in UpTo(i) /\ i \notin UpTo(h)
    BY <1>1, <1>2, <1>8
  <2>2. IsFiniteSet(UpTo(i))
    BY <1>7
  <2> HIDE DEF UpTo
  <2> QED
    BY <2>1, <2>2, FS_Subset
<1>9. ASSUME NEW i \in K, NEW h \in K, Cardinality(UpTo(h)) = Cardinality(UpTo(i))
      PROVE  h = i
  <2>1. h \in Nat /\ i \in Nat
    BY <1>1, <1>2
  <2>2. ~(h < i) /\ ~(i < h)
    BY <1>8, <1>9
  <2> QED
    BY <2>1, <2>2
<1>10. ASSUME NEW i \in K
       PROVE  waiters'[Cardinality(UpTo(i))] = waiters[i]
  <2>1. MovedTo(gone, Cardinality(UpTo(i))) = {i}
    BY <1>9, Zenon DEF MovedTo
  <2>2. (CHOOSE h \in {i} : TRUE) = i
    OBVIOUS
  <2>3. Cardinality(UpTo(i)) \in 1..n
    <3>1. Cardinality(UpTo(i)) \in 1..m
      BY <1>7
    <3> HIDE DEF UpTo, m, n
    <3> QED
      BY <1>1, <1>3, <3>1
  <2> HIDE DEF UpTo
  <2> QED
    BY <1>4, <2>1, <2>2, <2>3 DEF DeleteWaitersOf
<1>11. f \in [WaitersOf(c) -> WaitersOf(c)']
  <2> SUFFICES ASSUME NEW i \in WaitersOf(c) PROVE Cardinality(UpTo(i)) \in WaitersOf(c)'
    OBVIOUS
  <2>1. i \in K /\ waiters[i].client = c
    BY <1>5
  <2>2. /\ Cardinality(UpTo(i)) \in 1..m
        /\ waiters'[Cardinality(UpTo(i))] = waiters[i]
    BY <1>7, <1>10, <2>1, Zenon
  <2> HIDE DEF UpTo
  <2> QED
    BY <1>6, <2>1, <2>2
<1>12. \A x, y \in WaitersOf(c) : f[x] = f[y] => x = y
  <2> SUFFICES ASSUME NEW x \in WaitersOf(c), NEW y \in WaitersOf(c), f[x] = f[y]
               PROVE  x = y
    OBVIOUS
  <2>1. x \in K /\ y \in K
    BY <1>5
  <2>2. Cardinality(UpTo(x)) = Cardinality(UpTo(y))
    OBVIOUS
  <2> QED
    BY <1>9, <2>1, <2>2, Zenon
<1>13. ASSUME NEW k \in WaitersOf(c)'
       PROVE  /\ g[k] \in K /\ Cardinality(UpTo(g[k])) = k
              /\ waiters[g[k]].client = c
  <2>1. k \in 1..m /\ k \in 1..n /\ waiters'[k].client = c
    BY <1>1, <1>3, <1>6
  <2>2. waiters'[k] = IF MovedTo(gone, k) = {} THEN ZeroWaiter ELSE waiters[g[k]]
    BY <1>4, <2>1 DEF DeleteWaitersOf
  <2>3. MovedTo(gone, k) # {}
    BY <2>1, <2>2, ConstantsAssumption DEF ZeroWaiter
  <2>4. g[k] \in MovedTo(gone, k)
    BY <2>3
  <2>5. MovedTo(gone, k) = {i \in K : Cardinality(UpTo(i)) = k}
    BY DEF MovedTo
  <2> HIDE DEF g, UpTo
  <2> QED
    BY <2>1, <2>2, <2>3, <2>4, <2>5
<1>14. g \in [WaitersOf(c)' -> WaitersOf(c)]
  <2> SUFFICES ASSUME NEW k \in WaitersOf(c)' PROVE g[k] \in WaitersOf(c)
    OBVIOUS
  <2> HIDE DEF g
  <2> QED
    BY <1>5, <1>13
<1>15. \A x, y \in WaitersOf(c)' : g[x] = g[y] => x = y
  <2> SUFFICES ASSUME NEW x \in WaitersOf(c)', NEW y \in WaitersOf(c)', g[x] = g[y]
               PROVE  x = y
    OBVIOUS
  <2>1. Cardinality(UpTo(g[x])) = x /\ Cardinality(UpTo(g[y])) = y
    BY <1>13, Zenon
  <2> HIDE DEF g, UpTo
  <2> QED
    BY <2>1
<1>16. /\ IsFiniteSet(WaitersOf(c)) /\ Cardinality(WaitersOf(c)) \in Nat
       /\ IsFiniteSet(WaitersOf(c)') /\ Cardinality(WaitersOf(c)') \in Nat
  BY InUseTyped, NewInUseTyped
<1> HIDE DEF f, g
<1>17. Cardinality(WaitersOf(c)) <= Cardinality(WaitersOf(c)')
  BY <1>11, <1>12, <1>16, InjectedSmaller
<1>18. Cardinality(WaitersOf(c)') <= Cardinality(WaitersOf(c))
  BY <1>14, <1>15, <1>16, InjectedSmaller
<1> QED
  BY <1>16, <1>17, <1>18

(* What each step does to the waiters of a client. *)
WaitersKept(c) ==
  LET before == Cardinality(WaitersOf(c))
      after == Cardinality(WaitersOf(c)')
  IN \/ after = before
     \/ after = before - 1 /\ SentTo(c) # {}
     \/ after = before + 1 /\ Len(waiters') = Len(waiters) + 1
     \/ after >= before /\ ~Idle /\ Idle'

LEMMA PutKeepsWaiters ==
  ASSUME StoreInv, StoreTypeOK', NEW d \in Client, NEW q \in Queue, NEW p \in Priority,
         Put(d, q, p), Listening(Len(waiters), q) # {}, NEW c
  PROVE  WaitersKept(c)
<1> DEFINE n == Len(waiters)
           i == Min(Listening(n, q))
<1>1. /\ RemoveWaiter(i)
      /\ out' = <<PutReply(d, jobNextId), JobReply(waiters[i].client, jobNextId)>>
      /\ leaving = NoClient /\ leaving' = NoClient
  BY DEF Put, FromClient, Idle
<1>2. StoreTypeOK /\ WaitersConnected /\ waiters \in Seq(Waiter) /\ n \in Nat
  BY LenProperties DEF StoreInv, StoreTypeOK
<1>3. i \in 1..n
  BY <1>2, ServedIsConnected
<1>4. Len(waiters') = n - 1
  BY <1>1, <1>2, <1>3, RemoveWaiterProperties
<1>5. GapAt(waiters, waiters', n, i)
  <2> DEFINE h == CloseGap(waiters, i, n)
  <2>1. waiters' = SubSeq(h, 1, n - 1)
    BY <1>1 DEF RemoveWaiter
  <2>2. /\ h \in Seq(Waiter) /\ Len(h) = n
        /\ \A k \in 1..n : h[k] = IF i <= k /\ k < n THEN waiters[k + 1] ELSE waiters[k]
    <3>1. n \in 0..n
      BY <1>2
    <3>2. h \in Seq(Waiter) /\ Len(h) = n
      BY <1>2, <1>3, <3>1, CloseGapProperties
    <3>3. \A k \in 1..n : h[k] = IF i <= k /\ k < n THEN waiters[k + 1] ELSE waiters[k]
      BY DEF CloseGap
    <3> QED
      BY <3>2, <3>3
  <2> HIDE DEF h, i
  <2>3. \A k \in 1..(n - 1) : SubSeq(h, 1, n - 1)[k] = h[k]
    BY <1>2, <1>3, <2>2
  <2> QED
    BY <1>2, <2>1, <2>2, <2>3 DEF GapAt
<1> HIDE DEF i
<1>6. Cardinality(PlacesIn(waiters', n - 1, c)) =
        IF waiters[i].client = c THEN Cardinality(PlacesIn(waiters, n, c)) - 1
                                 ELSE Cardinality(PlacesIn(waiters, n, c))
  BY <1>2, <1>3, <1>5, GapClosed
<1>7. waiters[i].client = c => SentTo(c) # {}
  <2>1. out'[2] = JobReply(waiters[i].client, jobNextId) /\ Len(out') = 2
    BY <1>1
  <2>2. out'[2].to = waiters[i].client /\ out'[2].kind = "job" /\ 2 \in 1..Len(out')
    BY <2>1 DEF JobReply
  <2>3. waiters[i].client = c => out'[2].id \in SentTo(c)
    BY <2>2, Zenon DEF SentTo
  <2> QED
    BY <2>3
<1>8. InUse = n /\ InUse' = n - 1
  BY <1>1, <1>4 DEF InUse, Idle
<1>9. /\ WaitersOf(c) = PlacesIn(waiters, n, c)
      /\ WaitersOf(c)' = PlacesIn(waiters', n - 1, c)
  BY <1>8 DEF WaitersOf, PlacesIn
<1> QED
  BY <1>6, <1>7, <1>9 DEF WaitersKept

LEMMA RequeueKeepsWaiters ==
  ASSUME StoreInv, RequeueJob, NEW c
  PROVE  WaitersKept(c)
<1> DEFINE j == Min(OwnedBy(leaving))
           listening == Listening(inner, job[j].queue)
           i == Min(listening)
<1>1. /\ StoreTypeOK /\ WaitersConnected /\ waiters \in Seq(Waiter)
      /\ inner \in Nat /\ inner \in 0..Len(waiters)
  BY LenProperties DEF StoreInv, StoreTypeOK
<1>2. leaving' = leaving /\ leaving # NoClient
  BY DEF RequeueJob, Idle
<1>3. CASE listening = {}
  <2>1. waiters' = waiters /\ inner' = inner
    BY <1>3 DEF RequeueJob
  <2> QED
    BY <1>2, <2>1 DEF WaitersKept, WaitersOf, InUse, Idle
<1>4. CASE listening # {}
  <2>1. /\ waiters' = CloseGap(waiters, i, inner) /\ out' = <<JobReply(waiters[i].client, j)>>
        /\ inner' = inner - 1
    BY <1>4 DEF RequeueJob
  <2>2. j \in OwnedBy(leaving)
    BY <1>1, LowestOwned
  <2>3. job[j].queue \in Queue
    BY <1>1, <2>2 DEF OwnedBy, StoreTypeOK, Job
  <2>4. i \in 1..inner
    BY <1>1, <1>4, <2>3, ServedIsConnected
  <2> HIDE DEF i, j
  <2>5. GapAt(waiters, waiters', inner, i)
    <3>1. \A k \in 1..(inner - 1) : k \in 1..Len(waiters)
      BY <1>1, LenProperties
    <3> QED
      BY <1>1, <2>1, <2>4, <3>1 DEF GapAt, CloseGap
  <2>6. Cardinality(PlacesIn(waiters', inner - 1, c)) =
          IF waiters[i].client = c THEN Cardinality(PlacesIn(waiters, inner, c)) - 1
                                   ELSE Cardinality(PlacesIn(waiters, inner, c))
    BY <1>1, <2>4, <2>5, GapClosed
  <2>7. waiters[i].client = c => SentTo(c) # {}
    BY <2>1, JobSent
  <2>8. /\ WaitersOf(c) = PlacesIn(waiters, inner, c)
        /\ WaitersOf(c)' = PlacesIn(waiters', inner - 1, c)
    BY <1>2, <2>1 DEF WaitersOf, PlacesIn, InUse, Idle
  <2> QED
    BY <2>6, <2>7, <2>8 DEF WaitersKept
<1> QED
  BY <1>3, <1>4

LEMMA WaitKeepsWaiters ==
  ASSUME StoreInv, StoreTypeOK', NEW d \in Client, NEW qs \in SUBSET Queue,
         GetWait(d, qs), NEW c
  PROVE  WaitersKept(c)
<1> DEFINE n == Len(waiters)
           new == [client |-> d, queues |-> qs]
<1>1. /\ waiters \in Seq(Waiter) /\ n \in Nat /\ new \in Waiter
      /\ leaving = NoClient /\ leaving' = NoClient
  BY LenProperties DEF StoreInv, StoreTypeOK, Waiter, Owner, GetWait, FromClient, Idle
<1>2. waiters' = Append(waiters, new)
  BY DEF GetWait
<1>3. Len(waiters') = n + 1 /\ \A k \in 1..n : waiters'[k] = waiters[k]
  <2> HIDE DEF new
  <2> QED
    BY <1>1, <1>2
<1>4. /\ WaitersOf(c) = {k \in 1..n : waiters[k].client = c}
      /\ WaitersOf(c)' = {k \in 1..(n + 1) : waiters'[k].client = c}
  BY <1>1, <1>3 DEF WaitersOf, InUse, Idle
<1>5. WaitersOf(c)' = WaitersOf(c) \/ WaitersOf(c)' = WaitersOf(c) \cup {n + 1}
  <2> HIDE DEF n
  <2> QED
    BY <1>1, <1>3, <1>4
<1>6. n + 1 \notin WaitersOf(c)
  <2> HIDE DEF n
  <2> QED
    BY <1>1, <1>4
<1>7. IsFiniteSet(WaitersOf(c)) /\ Cardinality(WaitersOf(c)) \in Nat
  BY InUseTyped DEF StoreInv
<1>8. Cardinality(WaitersOf(c) \cup {n + 1}) = Cardinality(WaitersOf(c)) + 1
  BY <1>6, <1>7, FS_AddElement
<1> QED
  BY <1>3, <1>5, <1>8 DEF WaitersKept

LEMMA EndKeepsWaiters ==
  ASSUME StoreInv, StoreTypeOK', EndDisconnected, NEW c
  PROVE  WaitersKept(c)
<1>1. /\ waiters' = waiters /\ ~Idle /\ Idle' /\ InUse' = Len(waiters)
  BY DEF EndDisconnected, Idle, InUse
<1>2. /\ InUse \in Nat /\ InUse <= Len(waiters) /\ Len(waiters) \in Nat
      /\ IsFiniteSet(WaitersOf(c)) /\ Cardinality(WaitersOf(c)) \in Nat
      /\ IsFiniteSet(WaitersOf(c)') /\ Cardinality(WaitersOf(c)') \in Nat
  BY InUseTyped, NewInUseTyped, LenProperties DEF StoreInv, StoreTypeOK
<1>3. WaitersOf(c) \in SUBSET (WaitersOf(c)')
  BY <1>1, <1>2 DEF WaitersOf
<1>4. Cardinality(WaitersOf(c)) <= Cardinality(WaitersOf(c)')
  BY <1>2, <1>3, FS_Subset
<1> QED
  BY <1>1, <1>2, <1>4 DEF WaitersKept

(* The removals from the shared array (lines 207, 221 and 270) neither drop   *)
(* nor double a waiter of the slice in use: a connected client loses an entry *)
(* when it is served, gains one when it waits, and keeps all otherwise, but   *)
(* for the served entries that reappear when the loop over the jobs ends.     *)
THEOREM OnlyServedWaitersGo == Spec => OnlyServedWaiterGoes
<1>1. ASSUME StoreInv, Next, NEW c \in clients'
      PROVE  WaitersKept(c)
  <2>1. StoreTypeOK' /\ c \in Client
    <3>1. StoreInv'
      BY <1>1, StoreInvStep
    <3> QED
      BY <1>1, <3>1 DEF StoreInv, StoreTypeOK
  <2>2. ASSUME UNCHANGED <<waiters, leaving, inner>>
        PROVE  WaitersKept(c)
    BY <2>2 DEF WaitersKept, WaitersOf, InUse, Idle
  <2>3. ASSUME NEW d \in Client, Disconnected(d)
        PROVE  WaitersKept(c)
    <3>1. c # d /\ StoreTypeOK
      BY <1>1, <2>3 DEF Disconnected, StoreInv
    <3>2. Cardinality(WaitersOf(c)') = Cardinality(WaitersOf(c))
      BY <2>1, <2>3, <3>1, OthersMoved
    <3> QED
      BY <3>2 DEF WaitersKept
  <2>4. ASSUME NEW d \in Client, Request(d)
        PROVE  WaitersKept(c)
    <3>1. ASSUME NEW q \in Queue, NEW p \in Priority, Put(d, q, p)
          PROVE  WaitersKept(c)
      <4>1. CASE Listening(Len(waiters), q) = {}
        BY <2>2, <3>1, <4>1 DEF Put
      <4> QED
        BY <1>1, <2>1, <3>1, <4>1, PutKeepsWaiters
    <3>2. ASSUME NEW qs \in SUBSET Queue, NEW wait \in BOOLEAN, Get(d, qs, wait)
          PROVE  WaitersKept(c)
      <4>1. CASE GetWait(d, qs)
        BY <1>1, <2>1, <4>1, WaitKeepsWaiters
      <4> QED
        BY <2>2, <3>2, <4>1 DEF Get, GetJob, GetNothing
    <3>3. ASSUME NEW id \in {0} \cup JobId, Abort(d, id) \/ Delete(d, id)
          PROVE  WaitersKept(c)
      BY <2>2, <3>3 DEF Abort, Delete
    <3> QED
      BY <2>4, <3>1, <3>2, <3>3 DEF Request
  <2>5. ASSUME NEW d \in Client, Connected(d)
        PROVE  WaitersKept(c)
    BY <2>2, <2>5 DEF Connected
  <2>6. CASE EndDisconnected
    BY <1>1, <2>1, <2>6, EndKeepsWaiters
  <2> QED
    BY <1>1, <2>3, <2>4, <2>5, <2>6, RequeueKeepsWaiters DEF Next
<1>2. ASSUME StoreInv, [Next]_storeVars
      PROVE  [\A c \in clients' :
                LET before == Cardinality(WaitersOf(c))
                    after == Cardinality(WaitersOf(c)')
                IN \/ after = before
                   \/ after = before - 1 /\ SentTo(c) # {}
                   \/ after = before + 1 /\ Len(waiters') = Len(waiters) + 1
                   \/ after >= before /\ ~Idle /\ Idle']_storeVars
  BY <1>1, <1>2 DEF WaitersKept
<1> QED
  BY <1>2, StoreInvHolds, PTL DEF Spec, OnlyServedWaiterGoes
-----------------------------------------------------------------------------
(* JobStore implements WorkQueue: every step of the goroutine is a step of   *)
(* the work queue seen through Place, or leaves it unchanged.                *)

(* How a step that touches one job, or none, looks through the mapping. *)
LEMMA ItemsUnmoved ==
  ASSUME JobId' = JobId,
         \A j \in JobId : /\ job'[j].queue = job[j].queue
                          /\ job'[j].priority = job[j].priority
                          /\ Place(j)' = Place(j)
  PROVE  Items' = Items
BY DEF Items

LEMMA ItemMoved ==
  ASSUME NEW i \in JobId, NEW where,
         JobId' = JobId,
         \A j \in JobId : /\ job'[j].queue = job[j].queue
                          /\ job'[j].priority = job[j].priority
                          /\ j # i => Place(j)' = Place(j),
         Place(i)' = where
  PROVE  WQ!Move(i, where)
<1>1. Items[i].place = Place(i) /\ DOMAIN Items = JobId
  BY DEF Items
<1>2. Items' = [Items EXCEPT ![i].place = where]
  BY DEF Items
<1> QED
  BY <1>2 DEF WQ!Move

LEMMA RefinementInit == Init => WQ!Init
BY ConstantsAssumption DEF Init, WQ!Init, Items, Present, JobId
-----------------------------------------------------------------------------
(* A client that connects joins. *)
LEMMA ConnectedRefines ==
  ASSUME StoreInv, NEW c \in Client, Connected(c)
  PROVE  WQ!Join(c)
<1>1. /\ Idle /\ c \notin clients
      /\ clients' = clients \cup {c}
      /\ UNCHANGED <<jobNextId, job, jobs, leaving>>
  BY DEF Connected
<1>2. Items' = Items
  BY <1>1 DEF Items, JobId, Place
<1> QED
  BY <1>1, <1>2 DEF WQ!Join, Present, Idle

LEMMA PutRefines ==
  ASSUME StoreInv, NEW c \in Client, NEW q \in Queue, NEW p \in Priority, Put(c, q, p)
  PROVE  WQ!Submit(q, p)
<1> DEFINE new == [queue |-> q, priority |-> p, owner |-> NoClient, copies |-> 1]
<1>1. /\ jobNextId \in Nat \ {0}
      /\ jobs \subseteq JobId
      /\ job \in [JobId -> Job]
      /\ jobNextId' = jobNextId + 1
      /\ job' = [i \in 1..jobNextId |-> IF i = jobNextId THEN new ELSE job[i]]
      /\ jobs' = jobs \cup {jobNextId}
      /\ UNCHANGED <<clients, leaving>>
  BY DEF StoreInv, StoreTypeOK, Put
<1>2. JobId' = 1..jobNextId /\ JobId = 1..jobNextId \ {jobNextId}
  BY <1>1 DEF JobId
<1>3. Items' = [i \in 1..jobNextId |->
                  IF i = jobNextId
                  THEN [queue |-> q, priority |-> p, place |-> NoClient]
                  ELSE Items[i]]
  <2>1. ASSUME NEW i \in 1..jobNextId, i # jobNextId
        PROVE  [queue |-> job[i].queue, priority |-> job[i].priority, place |-> Place(i)]'
               = Items[i]
    BY <1>1, <1>2, <2>1 DEF Items, Place
  <2>2. ASSUME NEW i \in 1..jobNextId, i = jobNextId
        PROVE  /\ job'[i].queue = q
               /\ job'[i].priority = p
               /\ Place(i)' = NoClient
    BY <1>1, <2>2 DEF Place
  <2> QED
    BY <1>2, <2>1, <2>2 DEF Items
<1> QED
  BY <1>1, <1>3 DEF WQ!Submit, Present

(* Get takes the best item on offer, or, when the job it finds was deleted   *)
(* while it was queued twice, nothing moves.                                 *)
LEMMA GetRefines ==
  ASSUME StoreInv, NEW c \in Client, NEW qs \in SUBSET Queue, NEW wait \in BOOLEAN,
         Get(c, qs, wait)
  PROVE  [WQ!Next]_(WQ!wqVars)
<1>1. /\ c \in clients
      /\ UNCHANGED <<jobNextId, jobs, clients, leaving>>
      /\ JobId' = JobId
  BY DEF Get, GetJob, GetWait, GetNothing, FromClient, JobId
<1>2. CASE GetJob(c, qs)
  <2>1. PICK j \in Best(qs) : job' = Assign(c, j)
    BY <1>2 DEF GetJob
  <2>2. /\ job \in [JobId -> Job]
        /\ j \in JobId
        /\ job[j].queue \in qs
        /\ job[j].copies > 0
    BY DEF StoreInv, StoreTypeOK, Best, Offered
  <2>3. \A k \in JobId : /\ job'[k].queue = job[k].queue
                         /\ job'[k].priority = job[k].priority
                         /\ k # j => job'[k] = job[k]
    BY <2>1, <2>2 DEF Assign, Job
  <2>4. job'[j].owner = c /\ job'[j].copies = 0
    BY <2>1, <2>2 DEF Assign, Job
  <2>5. CASE j \in jobs
    <3>1. WQ!Move(j, c)
      BY <1>1, <2>2, <2>3, <2>4, <2>5, ItemMoved DEF Place
    <3>2. Place(j) = NoClient
      BY <2>2, <2>5 DEF Place
    <3>3. ASSUME NEW k \in JobId, Place(k) = NoClient, job[k].queue = job[j].queue
          PROVE  job[k].priority <= job[j].priority
      <4>1. job[k].owner # NoClient \/ job[k].copies > 0 \/ k \notin jobs
        BY ConstantsAssumption DEF StoreInv, NoJobStranded, StoreTypeOK, Idle
      <4>2. job[k].copies > 0
        BY <3>3, <4>1, ConstantsAssumption DEF Place
      <4> QED
        BY <2>2, <3>3, <4>2 DEF Best, Offered
    <3>4. WQ!Take(c, j)
      BY <1>1, <2>2, <3>1, <3>2, <3>3 DEF WQ!Take, Items, Present
    <3> QED
      BY <2>2, <3>4 DEF WQ!Next, Items
  <2>6. CASE j \notin jobs
    <3>1. Items' = Items
      BY <1>1, <2>3, <2>6, ItemsUnmoved DEF Place
    <3> QED
      BY <1>1, <3>1 DEF WQ!wqVars, Present
  <2> QED
    BY <2>5, <2>6
<1>3. CASE GetWait(c, qs) \/ GetNothing(c, qs)
  <2>1. UNCHANGED job
    BY <1>3 DEF GetWait, GetNothing
  <2> QED
    BY <1>1, <2>1 DEF WQ!wqVars, Present, Items, Place
<1> QED
  BY <1>2, <1>3 DEF Get

(* Abort returns the item, or, when its owner aborts again, nothing moves. *)
LEMMA AbortRefines ==
  ASSUME StoreInv, NEW c \in Client, NEW id \in {0} \cup JobId, Abort(c, id)
  PROVE  [WQ!Next]_(WQ!wqVars)
<1>1. /\ UNCHANGED <<jobNextId, jobs, clients, leaving>>
      /\ JobId' = JobId
      /\ job \in [JobId -> Job]
      /\ jobs \subseteq JobId
  BY DEF Abort, StoreInv, StoreTypeOK, JobId
<1>2. CASE MayAbort(c, id) /\ job' = [job EXCEPT ![id].copies = @ + 1]
  <2>1. id \in jobs /\ id \in JobId /\ job[id].owner = c /\ job[id].copies \in Nat
    BY <1>1, <1>2 DEF MayAbort, Job
  <2>2. \A k \in JobId : /\ job'[k].queue = job[k].queue
                         /\ job'[k].priority = job[k].priority
                         /\ k # id => job'[k] = job[k]
    BY <1>1, <1>2, <2>1 DEF Job
  <2>3. job'[id].copies > 0
    BY <1>1, <1>2, <2>1 DEF Job
  <2>4. CASE job[id].copies = 0
    <3>1. WQ!Move(id, NoClient)
      BY <1>1, <2>1, <2>2, <2>3, ItemMoved DEF Place
    <3>2. Items[id].place = c
      BY <2>1, <2>4 DEF Items, Place
    <3>3. WQ!Return(c, id)
      BY <1>1, <3>1, <3>2 DEF WQ!Return, Present
    <3> QED
      BY <2>1, <3>3 DEF WQ!Next, Items
  <2>5. CASE job[id].copies > 0
    <3>1. Items' = Items
      BY <1>1, <2>2, <2>3, <2>5, ItemsUnmoved DEF Place
    <3> QED
      BY <1>1, <3>1 DEF WQ!wqVars, Present
  <2> QED
    BY <2>1, <2>4, <2>5
<1>3. CASE UNCHANGED job
  BY <1>1, <1>3 DEF WQ!wqVars, Present, Items, Place
<1> QED
  BY <1>2, <1>3 DEF Abort

LEMMA DeleteRefines ==
  ASSUME StoreInv, NEW c \in Client, NEW id \in {0} \cup JobId, Delete(c, id)
  PROVE  [WQ!Next]_(WQ!wqVars)
<1>1. /\ UNCHANGED <<jobNextId, clients, leaving>>
      /\ JobId' = JobId
      /\ job \in [JobId -> Job]
      /\ jobs \subseteq JobId
  BY DEF Delete, StoreInv, StoreTypeOK, JobId
<1>2. CASE id \in jobs /\ jobs' = jobs \ {id} /\ job' = Unqueue(id)
  <2>1. id \in JobId
    BY <1>1, <1>2
  <2>2. \A k \in JobId : /\ job'[k].queue = job[k].queue
                         /\ job'[k].priority = job[k].priority
                         /\ k # id => job'[k] = job[k]
    BY <1>1, <1>2, <2>1 DEF Job, Unqueue
  <2>3. WQ!Move(id, "removed")
    BY <1>1, <1>2, <2>1, <2>2, ItemMoved DEF Place
  <2>4. Items[id].place # "removed"
    BY <1>1, <1>2, <2>1, ConstantsAssumption DEF Items, Place, Job, Owner
  <2>5. WQ!Remove(id)
    BY <1>1, <2>3, <2>4 DEF WQ!Remove, Present
  <2> QED
    BY <2>1, <2>5 DEF WQ!Next, Items
<1>3. CASE UNCHANGED <<job, jobs>>
  BY <1>1, <1>3 DEF WQ!wqVars, Present, Items, Place
<1> QED
  BY <1>2, <1>3 DEF Delete

LEMMA DisconnectedRefines ==
  ASSUME StoreInv, NEW c \in Client, Disconnected(c)
  PROVE  WQ!Quit(c)
<1>1. /\ Idle /\ c \in clients
      /\ clients' = clients \ {c}
      /\ leaving' = c
      /\ UNCHANGED <<jobNextId, job, jobs>>
  BY DEF Disconnected, FromClient
<1>2. Items' = Items
  BY <1>1 DEF Items, JobId, Place
<1>3. Present' = Present /\ c \in Present
  BY <1>1, ConstantsAssumption DEF Present, Idle
<1> QED
  BY <1>1, <1>2, <1>3 DEF WQ!Quit, Idle

(* A job of the departed client is returned, or passed on to a waiter.  If   *)
(* the client had aborted it, it is on offer already and nothing moves.      *)
LEMMA RequeueJobRefines ==
  ASSUME StoreInv, RequeueJob
  PROVE  [WQ!Next]_(WQ!wqVars)
<1> DEFINE j == Min(OwnedBy(leaving))
           listening == Listening(inner, job[j].queue)
           w == waiters[Min(listening)].client
<1>1. /\ StoreTypeOK /\ WaitersConnected /\ ~Idle /\ leaving \notin clients
      /\ UNCHANGED <<jobNextId, jobs, clients, leaving>>
      /\ JobId' = JobId
      /\ job \in [JobId -> Job]
      /\ jobs \subseteq JobId
      /\ leaving \in Client
  BY DEF RequeueJob, StoreInv, StoreTypeOK, LeavingGone, JobId, Idle, Owner
<1>2. j \in jobs /\ j \in JobId /\ job[j].owner = leaving
  <2>1. j \in OwnedBy(leaving)
    BY <1>1, LowestOwned
  <2> HIDE DEF j
  <2> QED
    BY <1>1, <2>1 DEF OwnedBy
<1>3. job[j].copies \in Nat /\ job[j].queue \in Queue
  <2> HIDE DEF j
  <2> QED
    BY <1>1, <1>2 DEF Job
<1>4. CASE listening = {}
  <2>1. job' = PutBack(j)
    BY <1>4 DEF RequeueJob
  <2> HIDE DEF j
  <2>2. /\ \A k \in JobId : /\ job'[k].queue = job[k].queue
                            /\ job'[k].priority = job[k].priority
                            /\ k # j => job'[k] = job[k]
        /\ job'[j].copies > 0
    BY <1>1, <1>2, <1>3, <2>1 DEF PutBack, Job
  <2>3. CASE job[j].copies > 0
    <3>1. Items' = Items
      BY <1>1, <1>2, <2>2, <2>3, ItemsUnmoved DEF Place
    <3> QED
      BY <1>1, <3>1 DEF WQ!wqVars, Present
  <2>4. CASE job[j].copies = 0
    <3>1. WQ!Move(j, NoClient)
      BY <1>1, <1>2, <2>2, ItemMoved DEF Place
    <3>2. Items[j].place = leaving
      BY <1>2, <2>4 DEF Items, Place
    <3>3. WQ!Return(leaving, j)
      BY <1>1, <3>1, <3>2 DEF WQ!Return, Present
    <3>4. j \in DOMAIN Items
      BY <1>2 DEF Items
    <3> QED
      BY <1>1, <1>2, <3>3, <3>4, Zenon DEF WQ!Next
  <2> QED
    BY <1>3, <2>3, <2>4
<1>5. CASE listening # {}
  <2>1. job' = HandOver(j, w)
    BY <1>5 DEF RequeueJob
  <2>2. w \in clients /\ w \in Client
    <3>1. inner \in 0..Len(waiters)
      BY <1>1 DEF StoreTypeOK
    <3> QED
      BY <1>1, <1>3, <1>5, <3>1, ServedIsConnected
  <2> HIDE DEF j, w
  <2>3. /\ \A k \in JobId : /\ job'[k].queue = job[k].queue
                            /\ job'[k].priority = job[k].priority
                            /\ job'[k].copies = job[k].copies
                            /\ k # j => job'[k] = job[k]
        /\ job'[j].owner = w
    BY <1>1, <1>2, <1>3, <2>1 DEF HandOver, Job
  <2>4. CASE job[j].copies > 0
    <3>1. Items' = Items
      BY <1>1, <1>2, <2>3, <2>4, ItemsUnmoved DEF Place
    <3> QED
      BY <1>1, <3>1 DEF WQ!wqVars, Present
  <2>5. CASE job[j].copies = 0
    <3>1. WQ!Move(j, w)
      BY <1>1, <1>2, <2>3, <2>5, ItemMoved DEF Place
    <3>2. Items[j].place = leaving
      BY <1>2, <2>5 DEF Items, Place
    <3>3. w \in Present \ {leaving}
      BY <1>1, <2>2 DEF Present
    <3>4. WQ!PassOn(leaving, w, j)
      BY <1>1, <3>1, <3>2, <3>3 DEF WQ!PassOn, Present
    <3>5. j \in DOMAIN Items
      BY <1>2 DEF Items
    <3> QED
      BY <1>1, <1>2, <2>2, <3>4, <3>5, Zenon DEF WQ!Next
  <2> QED
    BY <1>3, <2>4, <2>5
<1> QED
  BY <1>4, <1>5

LEMMA EndDisconnectedRefines ==
  ASSUME StoreInv, EndDisconnected
  PROVE  WQ!Leave(leaving) /\ leaving \in Client
<1>1. /\ leaving \in Client /\ leaving \notin clients
      /\ OwnedBy(leaving) = {}
      /\ leaving' = NoClient
      /\ UNCHANGED <<jobNextId, job, jobs, clients>>
  BY DEF EndDisconnected, StoreInv, StoreTypeOK, LeavingGone, Idle, Owner
<1>2. Items' = Items
  BY <1>1 DEF Items, JobId, Place
<1>3. \A i \in JobId : Place(i) # leaving
  BY <1>1, ConstantsAssumption DEF Place, OwnedBy
<1>4. Present' = Present \ {leaving}
  BY <1>1, ConstantsAssumption DEF Present, StoreInv, StoreTypeOK
<1> QED
  BY <1>1, <1>2, <1>3, <1>4 DEF WQ!Leave, Items
-----------------------------------------------------------------------------
(* The goroutine implements the work queue: a job is in one place at a time,  *)
(* is given out best first, and leaves its holder only when that client       *)
(* returns it or quits, or when somebody deletes it.                          *)
THEOREM StoreImplementsWorkQueue == Spec => ImplementsWorkQueue
<1>1. ASSUME StoreInv, [Next]_storeVars
      PROVE  [WQ!Next]_(WQ!wqVars)
  <2>1. ASSUME NEW c \in Client, Connected(c) \/ Request(c) \/ Disconnected(c)
        PROVE  [WQ!Next]_(WQ!wqVars)
    <3>1. CASE Connected(c)
      BY <1>1, <3>1, ConnectedRefines DEF WQ!Next
    <3>2. CASE \E q \in Queue, p \in Priority : Put(c, q, p)
      BY <1>1, <3>2, PutRefines DEF WQ!Next
    <3>3. CASE \E qs \in SUBSET Queue, wait \in BOOLEAN : Get(c, qs, wait)
      BY <1>1, <3>3, GetRefines
    <3>4. CASE \E id \in {0} \cup JobId : Abort(c, id) \/ Delete(c, id)
      BY <1>1, <3>4, AbortRefines, DeleteRefines
    <3>5. CASE Disconnected(c)
      BY <1>1, <3>5, DisconnectedRefines DEF WQ!Next
    <3> QED
      BY <2>1, <3>1, <3>2, <3>3, <3>4, <3>5 DEF Request
  <2>2. CASE EndDisconnected
    BY <1>1, <2>2, EndDisconnectedRefines DEF WQ!Next
  <2>3. CASE UNCHANGED storeVars
    BY <2>3 DEF storeVars, WQ!wqVars, Items, Present, JobId, Place
  <2> QED
    BY <1>1, <2>1, <2>2, <2>3, RequeueJobRefines DEF Next
<1> QED
  BY <1>1, RefinementInit, StoreInvHolds, PTL DEF Spec, WQ!Spec, ImplementsWorkQueue
-----------------------------------------------------------------------------
Carried == Body \cup {[kind |-> "connected"], [kind |-> "disconnected"]}
MessageSet == [from : Client, body : Carried, garbled : BOOLEAN]

(* What was made from a line that did not parse is a request without a body.  *)
GarbledEmpty(m) == m.garbled => m.body \in Body /\ m.body = ZeroBody(m.body.kind)

MessagesTyped ==
  /\ messages \in Seq(MessageSet) /\ Len(messages) <= Capacity
  /\ \A i \in 1..Len(messages) : GarbledEmpty(messages[i])

PendingTyped ==
  /\ at \in [Client -> HandlerPlace]
  /\ pending \in [Client -> MessageSet \cup {NoMessage}]
  /\ \A c \in Client :
       IF at[c] = "send"
       THEN /\ pending[c] \in MessageSet /\ pending[c].from = c /\ pending[c].body \in Body
            /\ GarbledEmpty(pending[c])
       ELSE pending[c] = NoMessage

LifeTyped ==
  /\ hungUp \in SUBSET Client
  /\ request \in [Client -> RequestType \cup {"none"}]
  /\ internal \in {"none", "running", "returned"}
  /\ stuck \in Deaf \cup {NoClient}
  /\ wg = (IF internal = "running" THEN 1 ELSE 0)
  /\ starting \in {"no", "accepting", "returned"}
  /\ stopping \in {"no", "waiting", "closing", "returned"}
  /\ starting = "no" => internal = "none"

GreetingQueued(c) ==
  \E i \in 1..Len(messages) : messages[i].from = c /\ messages[i].body.kind = "connected"

(* The order in which the messages of one client pass the channel.  A request *)
(* finds its client known, or the greeting before it; a farewell is the last. *)
InOrder(c) ==
  /\ at[c] \in {"none", "greet"} =>
       /\ c \notin clients \cup departed
       /\ \A i \in 1..Len(messages) : messages[i].from # c
  /\ at[c] \in {"read", "send", "leave"} =>
       /\ c \notin departed
       /\ c \in clients \/ GreetingQueued(c)
       /\ \A i \in 1..Len(messages) :
            messages[i].from = c => messages[i].body.kind # "disconnected"
  /\ \A i \in 1..Len(messages) : messages[i].from = c =>
       /\ c \notin departed
       /\ messages[i].body.kind = "connected" =>
            /\ c \notin clients
            /\ \A j \in 1..Len(messages) : messages[j].from = c => i <= j
       /\ messages[i].body.kind # "connected" =>
            \/ c \in clients
            \/ \E j \in 1..Len(messages) :
                 j < i /\ messages[j].from = c /\ messages[j].body.kind = "connected"
       /\ messages[i].body.kind = "disconnected" =>
            \A j \in 1..Len(messages) : messages[j].from = c => j <= i

CentreInv ==
  /\ StoreInv
  /\ MessagesTyped
  /\ PendingTyped
  /\ LifeTyped
  /\ \A c \in Client : InOrder(c)
-----------------------------------------------------------------------------
(* The bodies. *)

LEMMA ZeroBodyTyped ==
  ASSUME NEW k \in RequestType
  PROVE  /\ ZeroBody(k) \in Body /\ ZeroBody(k).kind = k
         /\ k = "get" => ZeroBody(k).queues = {} /\ ZeroBody(k).wait = FALSE
         /\ k \in {"abort", "delete"} => ZeroBody(k).id = 0
<1> DEFINE Fits(body) == /\ body.kind = k
                         /\ k = "put" => body.queue = Unnamed /\ body.priority = 0
                         /\ k = "get" => body.queues = {} /\ ~body.wait
                         /\ k \in {"abort", "delete"} => body.id = 0
<1>1. \E body \in Body : Fits(body)
  <2>1. CASE k = "put"
    <3>1. [kind |-> "put", queue |-> Unnamed, priority |-> 0] \in Body
      BY CentreAssumption DEF Body
    <3> QED
      BY <2>1, <3>1
  <2>2. CASE k = "get"
    <3>1. [kind |-> "get", queues |-> {}, wait |-> FALSE] \in Body
      BY DEF Body
    <3> QED
      BY <2>2, <3>1
  <2>3. CASE k \in {"abort", "delete"}
    <3>1. [kind |-> k, id |-> 0] \in Body
      BY <2>3, ConstantsAssumption DEF Body
    <3> QED
      BY <2>3, <3>1
  <2> QED
    BY <2>1, <2>2, <2>3 DEF RequestType
<1>2. ZeroBody(k) = CHOOSE body \in Body : Fits(body)
  BY DEF ZeroBody
<1>3. ZeroBody(k) \in Body /\ Fits(ZeroBody(k))
  <2> HIDE DEF Fits
  <2> QED
    BY <1>1, <1>2
<1>4. k = "get" => ZeroBody(k).wait \in BOOLEAN
  BY <1>3 DEF Body
<1> QED
  BY <1>3, <1>4

LEMMA BodyKinds ==
  ASSUME NEW m \in MessageSet
  PROVE  /\ m.from \in Client /\ m.body \in Carried /\ m.garbled \in BOOLEAN
         /\ m.body.kind = "put" => m.body.queue \in Queue /\ m.body.priority \in Priority
         /\ m.body.kind = "get" => m.body.queues \in SUBSET Queue /\ m.body.wait \in BOOLEAN
         /\ m.body.kind \in {"abort", "delete"} => m.body.id \in 0..MaxJobs
         /\ m.body \in Body => m.body.kind \in RequestType
         /\ m.body \notin Body => m.body.kind \in {"connected", "disconnected"}
<1>1. m.from \in Client /\ m.body \in Carried /\ m.garbled \in BOOLEAN
  BY DEF MessageSet
<1>2. CASE m.body \in [kind : {"put"}, queue : Queue, priority : Priority]
  BY <1>1, <1>2 DEF Body, RequestType
<1>3. CASE m.body \in [kind : {"get"}, queues : SUBSET Queue, wait : BOOLEAN]
  BY <1>1, <1>3 DEF Body, RequestType
<1>4. CASE m.body \in [kind : {"abort", "delete"}, id : 0..MaxJobs]
  BY <1>1, <1>4 DEF Body, RequestType
<1>5. CASE m.body \in {[kind |-> "connected"], [kind |-> "disconnected"]}
  BY <1>1, <1>5 DEF Body, RequestType
<1> QED
  BY <1>1, <1>2, <1>3, <1>4, <1>5 DEF Carried, Body
-----------------------------------------------------------------------------
(* Every step of the job centre is a step of its goroutine's store, or leaves *)
(* the store alone.  An id that was never handed out is handled as 0 is.      *)

LEMMA HandleIsNext ==
  ASSUME StoreTypeOK, NEW m \in MessageSet, Handle(m.from, m.body)
  PROVE  Next
<1> DEFINE c == m.from
           b == m.body
<1>1. c \in Client
  BY BodyKinds
<1>2. CASE b.kind = "connected" /\ Connected(c)
  BY <1>1, <1>2 DEF Next
<1>3. CASE b.kind = "disconnected" /\ Disconnected(c)
  BY <1>1, <1>3 DEF Next
<1>4. CASE b.kind = "put" /\ Put(c, b.queue, b.priority)
  BY <1>1, <1>4, BodyKinds, Zenon DEF Next, Request
<1>5. CASE b.kind = "get" /\ Get(c, b.queues, b.wait)
  BY <1>1, <1>5, BodyKinds, Zenon DEF Next, Request
<1>6. ASSUME NEW id \in Nat, id \notin JobId
      PROVE  /\ Abort(c, id) => Abort(c, 0)
             /\ Delete(c, id) => Delete(c, 0)
  <2>1. id \notin jobs /\ 0 \notin jobs
    BY <1>6 DEF StoreTypeOK, JobId
  <2> QED
    BY <2>1 DEF Abort, Delete, MayAbort
<1>7. CASE b.kind = "abort" /\ Abort(c, b.id)
  <2>1. b.id \in Nat
    BY <1>7, BodyKinds, ConstantsAssumption
  <2>2. \E id \in {0} \cup JobId : Abort(c, id)
    <3>1. CASE b.id \in JobId
      BY <1>7, <3>1
    <3>2. CASE b.id \notin JobId
      BY <1>6, <1>7, <2>1, <3>2
    <3> QED
      BY <3>1, <3>2
  <2> HIDE DEF c
  <2> QED
    BY <1>1, <2>2 DEF Next, Request
<1>8. CASE b.kind = "delete" /\ Delete(c, b.id)
  <2>1. b.id \in Nat
    BY <1>8, BodyKinds, ConstantsAssumption
  <2>2. \E id \in {0} \cup JobId : Delete(c, id)
    <3>1. CASE b.id \in JobId
      BY <1>8, <3>1
    <3>2. CASE b.id \notin JobId
      BY <1>6, <1>8, <2>1, <3>2
    <3> QED
      BY <3>1, <3>2
  <2> HIDE DEF c
  <2> QED
    BY <1>1, <2>2 DEF Next, Request
<1> QED
  BY <1>2, <1>3, <1>4, <1>5, <1>7, <1>8 DEF Handle

LEMMA HeadTyped ==
  ASSUME MessagesTyped, messages # <<>>
  PROVE  Head(messages) \in MessageSet /\ Head(messages) = messages[1] /\ Len(messages) \in Nat \ {0}
BY DEF MessagesTyped

LEMMA StoreSteps ==
  ASSUME CentreInv, [CentreNext]_centreVars
  PROVE  [Next]_storeVars
<1>1. CASE Receive
  <2>1. Head(messages) \in MessageSet
    BY <1>1, HeadTyped DEF CentreInv, Receive
  <2> QED
    BY <1>1, <2>1, HandleIsNext DEF CentreInv, StoreInv, Receive
<1>2. CASE Requeue
  BY <1>2 DEF Requeue, Next
<1>3. ASSUME NEW c \in Client,
             \/ Accept(c) \/ HangUp(c) \/ Greet(c) \/ Send(c) \/ ReadEnd(c) \/ Leave(c)
             \/ ReadRequest(c) \/ ReadUnknown(c) \/ ReadGarbage(c) \/ ReadMistyped(c)
      PROVE  UNCHANGED storeVars
  BY <1>3 DEF Accept, HangUp, Greet, Send, ReadEnd, Leave, ReadRequest, ReadUnknown,
              ReadGarbage, ReadMistyped, ReadLine
<1>4. CASE ShutDown \/ Start \/ StartReturns \/ Stop \/ StopWaited \/ CloseListener
  BY <1>4 DEF ShutDown, Start, StartReturns, Stop, StopWaited, CloseListener
<1>5. CASE UNCHANGED centreVars
  BY <1>5 DEF centreVars
<1> QED
  BY <1>1, <1>2, <1>3, <1>4, <1>5 DEF CentreNext
-----------------------------------------------------------------------------
(* The order of messages. *)

LEMMA OrderKept ==
  ASSUME NEW c \in Client, InOrder(c), UNCHANGED <<clients, departed, messages>>,
         \/ at'[c] = at[c]
         \/ at[c] = "none" /\ at'[c] = "greet"
         \/ at[c] = "read" /\ at'[c] \in {"send", "leave"}
  PROVE  InOrder(c)'
BY DEF InOrder, GreetingQueued

(* What a handler sends from the place it is at, and where it goes. *)
Sends(d, m) ==
  \/ at[d] = "greet" /\ m.body.kind = "connected" /\ at'[d] = "read"
  \/ at[d] = "send" /\ m.body.kind \in RequestType /\ at'[d] = "read"
  \/ at[d] = "leave" /\ m.body.kind = "disconnected" /\ at'[d] = "done"

LEMMA OrderOfOthersSent ==
  ASSUME NEW c \in Client, NEW m \in MessageSet, messages \in Seq(MessageSet),
         messages' = Append(messages, m), m.from # c, at'[c] = at[c],
         UNCHANGED <<clients, departed>>, InOrder(c)
  PROVE  InOrder(c)'
<1> DEFINE n == Len(messages)
<1>1. n \in Nat /\ Len(messages') = n + 1
  OBVIOUS
<1>2. /\ \A i \in 1..n : messages'[i] = messages[i]
      /\ messages'[n + 1] = m
  OBVIOUS
<1> HIDE DEF n
<1>3. \A i \in 1..(n + 1) : messages'[i].from = c => i \in 1..n /\ messages'[i] = messages[i]
  BY <1>1, <1>2
<1>4. \A i \in 1..n : i \in 1..(n + 1) /\ messages'[i] = messages[i]
  BY <1>1, <1>2
<1> QED
  BY <1>1, <1>3, <1>4 DEF InOrder, GreetingQueued, n

LEMMA OrderOfSent ==
  ASSUME NEW c \in Client, NEW m \in MessageSet, messages \in Seq(MessageSet),
         messages' = Append(messages, m), m.from = c, Sends(c, m),
         UNCHANGED <<clients, departed>>, InOrder(c)
  PROVE  InOrder(c)'
<1> DEFINE n == Len(messages)
<1>1. n \in Nat /\ Len(messages') = n + 1
  OBVIOUS
<1>2. /\ \A i \in 1..n : messages'[i] = messages[i]
      /\ messages'[n + 1] = m
  OBVIOUS
<1> HIDE DEF n
<1>3. \A i \in 1..(n + 1) : (i \in 1..n /\ messages'[i] = messages[i]) \/ i = n + 1
  BY <1>1, <1>2
<1>4. \A i \in 1..n : i \in 1..(n + 1) /\ messages'[i] = messages[i]
  BY <1>1, <1>2
<1>5. n + 1 \in 1..(n + 1)
  BY <1>1
<1>6. CASE at[c] = "greet"
  BY <1>1, <1>2, <1>3, <1>4, <1>5, <1>6 DEF InOrder, GreetingQueued, Sends, n
<1>7. CASE at[c] = "send"
  BY <1>1, <1>2, <1>3, <1>4, <1>5, <1>7 DEF InOrder, GreetingQueued, Sends, n, RequestType
<1>8. CASE at[c] = "leave"
  BY <1>1, <1>2, <1>3, <1>4, <1>5, <1>8 DEF InOrder, GreetingQueued, Sends, n
<1> QED
  BY <1>6, <1>7, <1>8 DEF Sends

(* What taking a message does to the clients. *)
Takes(m) ==
  \/ /\ m.body.kind = "connected"
     /\ clients' = clients \cup {m.from} /\ departed' = departed
  \/ /\ m.body.kind = "disconnected"
     /\ clients' = clients \ {m.from} /\ departed' = departed \cup {m.from}
  \/ m.body.kind \in RequestType /\ UNCHANGED <<clients, departed>>

LEMMA OrderOfReceived ==
  ASSUME NEW c \in Client, messages \in Seq(MessageSet), messages # <<>>,
         messages' = Tail(messages), Takes(messages[1]), at' = at, InOrder(c)
  PROVE  InOrder(c)'
<1> DEFINE n == Len(messages)
           m == messages[1]
<1>1. n \in Nat \ {0} /\ Len(messages') = n - 1
  OBVIOUS
<1>2. \A i \in 1..(n - 1) : messages'[i] = messages[i + 1]
  OBVIOUS
<1>3. Takes(m) /\ 1 \in 1..n
  BY <1>1
<1> HIDE DEF n, m
<1>4. \A i \in 1..(n - 1) : i + 1 \in 1..n /\ messages'[i] = messages[i + 1]
  BY <1>1, <1>2
<1>5. \A i \in 1..n : i # 1 => i - 1 \in 1..(n - 1) /\ messages'[i - 1] = messages[i]
  BY <1>1, <1>2
<1>6. CASE c # m.from
  <2>1. (c \in clients' <=> c \in clients) /\ (c \in departed' <=> c \in departed)
    BY <1>3, <1>6 DEF Takes
  <2>2. GreetingQueued(c) => GreetingQueued(c)'
    <3>1. ASSUME NEW i \in 1..n, messages[i].from = c, messages[i].body.kind = "connected"
          PROVE  \E j \in 1..(n - 1) :
                   messages'[j].from = c /\ messages'[j].body.kind = "connected"
      BY <1>5, <1>6, <3>1 DEF m
    <3> QED
      BY <1>1, <3>1 DEF GreetingQueued, n
  <2>3. at[c] \in {"none", "greet"} =>
          \A i \in 1..(n - 1) : messages'[i].from # c
    BY <1>4 DEF InOrder, n
  <2>4. at[c] \in {"read", "send", "leave"} =>
          \A i \in 1..(n - 1) :
            messages'[i].from = c => messages'[i].body.kind # "disconnected"
    BY <1>4 DEF InOrder, n
  <2>5. ASSUME NEW i \in 1..(n - 1), messages'[i].from = c
        PROVE  /\ c \notin departed
               /\ messages'[i].body.kind = "connected" =>
                    /\ c \notin clients
                    /\ \A j \in 1..(n - 1) : messages'[j].from = c => i <= j
               /\ messages'[i].body.kind # "connected" =>
                    \/ c \in clients
                    \/ \E j \in 1..(n - 1) :
                         j < i /\ messages'[j].from = c /\ messages'[j].body.kind = "connected"
               /\ messages'[i].body.kind = "disconnected" =>
                    \A j \in 1..(n - 1) : messages'[j].from = c => j <= i
    <3>1. i + 1 \in 1..n /\ messages'[i] = messages[i + 1] /\ i \in Int
      BY <1>1, <1>4
    <3>2. c \notin departed
      BY <2>5, <3>1 DEF InOrder, n
    <3>3. messages'[i].body.kind = "connected" =>
            /\ c \notin clients
            /\ \A j \in 1..(n - 1) : messages'[j].from = c => i <= j
      BY <1>1, <1>4, <2>5, <3>1 DEF InOrder, n
    <3>4. messages'[i].body.kind # "connected" /\ c \notin clients =>
            \E j \in 1..(n - 1) :
              j < i /\ messages'[j].from = c /\ messages'[j].body.kind = "connected"
      <4> SUFFICES ASSUME messages'[i].body.kind # "connected", c \notin clients
                   PROVE  \E j \in 1..(n - 1) :
                            j < i /\ messages'[j].from = c /\ messages'[j].body.kind = "connected"
        OBVIOUS
      <4>1. PICK j \in 1..n :
              j < i + 1 /\ messages[j].from = c /\ messages[j].body.kind = "connected"
        BY <2>5, <3>1 DEF InOrder, n
      <4>2. j # 1
        BY <1>6, <4>1 DEF m
      <4>3. j - 1 \in 1..(n - 1) /\ messages'[j - 1] = messages[j]
        BY <1>5, <4>2
      <4>4. j - 1 < i
        BY <1>1, <3>1, <4>1
      <4> QED
        BY <4>1, <4>3, <4>4
    <3>5. messages'[i].body.kind = "disconnected" =>
            \A j \in 1..(n - 1) : messages'[j].from = c => j <= i
      BY <1>1, <1>4, <2>5, <3>1 DEF InOrder, n
    <3> QED
      BY <3>2, <3>3, <3>4, <3>5
  <2> QED
    BY <1>1, <2>1, <2>2, <2>3, <2>4, <2>5 DEF InOrder
<1>7. CASE c = m.from
  <2>1. /\ at[c] \notin {"none", "greet"} /\ c \notin departed
        /\ m.body.kind # "connected" => c \in clients
    BY <1>1, <1>3, <1>7 DEF InOrder, m, n
  <2>2. ASSUME m.body.kind = "connected"
        PROVE  c \in clients' /\ c \notin departed'
               /\ \A i \in 1..(n - 1) :
                    messages'[i].from = c => messages'[i].body.kind # "connected"
    <3>1. c \in clients' /\ c \notin departed'
      BY <1>3, <1>7, <2>1, <2>2 DEF Takes, RequestType
    <3>2. \A i \in 1..n :
            messages[i].from = c /\ messages[i].body.kind = "connected" => i <= 1
      BY <1>1, <1>3, <1>7 DEF InOrder, m, n
    <3> QED
      BY <1>1, <1>4, <3>1, <3>2
  <2>3. ASSUME m.body.kind = "disconnected"
        PROVE  /\ at[c] \notin {"read", "send", "leave"}
               /\ \A i \in 1..(n - 1) : messages'[i].from # c
    <3>1. \A i \in 1..n : messages[i].from = c => i <= 1
      BY <1>3, <1>7, <2>3 DEF InOrder, m, n
    <3>2. at[c] \notin {"read", "send", "leave"}
      BY <1>3, <1>7, <2>3 DEF InOrder, m, n
    <3> QED
      BY <1>1, <1>4, <3>1, <3>2
  <2>4. ASSUME m.body.kind \in RequestType
        PROVE  c \in clients' /\ c \notin departed'
               /\ \A i \in 1..(n - 1) :
                    messages'[i].from = c => messages'[i].body.kind # "connected"
    <3>1. c \in clients' /\ c \notin departed' /\ c \in clients
      BY <1>3, <2>1, <2>4 DEF Takes, RequestType
    <3>2. \A i \in 1..n : messages[i].from = c => messages[i].body.kind # "connected"
      BY <3>1 DEF InOrder, n
    <3> QED
      BY <1>4, <3>1, <3>2
  <2>5. at[c] \in {"read", "send", "leave"} =>
          \A i \in 1..(n - 1) :
            messages'[i].from = c => messages'[i].body.kind # "disconnected"
    BY <1>4 DEF InOrder, n
  <2>6. \A i \in 1..(n - 1) :
          messages'[i].from = c /\ messages'[i].body.kind = "disconnected" =>
            \A j \in 1..(n - 1) : messages'[j].from = c => j <= i
    <3> SUFFICES ASSUME NEW i \in 1..(n - 1), NEW j \in 1..(n - 1), messages'[j].from = c,
                        messages'[i].from = c, messages'[i].body.kind = "disconnected"
                 PROVE  j <= i
      OBVIOUS
    <3>1. j + 1 <= i + 1
      BY <1>4 DEF InOrder, n
    <3> QED
      BY <1>1, <3>1
  <2>7. ASSUME m.body.kind \in RequestType \cup {"connected"}
        PROVE  InOrder(c)'
    BY <1>1, <2>1, <2>2, <2>4, <2>5, <2>6, <2>7 DEF InOrder
  <2>8. ASSUME m.body.kind = "disconnected"
        PROVE  InOrder(c)'
    BY <1>1, <2>1, <2>3, <2>8 DEF InOrder
  <2> QED
    BY <1>3, <2>7, <2>8 DEF Takes
<1> QED
  BY <1>6, <1>7
-----------------------------------------------------------------------------
(* The actions of a handler. *)

LEMMA HandlerMoved ==
  ASSUME PendingTyped, NEW d \in Client, NEW place \in HandlerPlace, NEW m,
         GoTo(d, place), pending' = [pending EXCEPT ![d] = m],
         IF place = "send"
         THEN m \in MessageSet /\ m.from = d /\ m.body \in Body /\ GarbledEmpty(m)
         ELSE m = NoMessage
  PROVE  PendingTyped'
<1>1. at' \in [Client -> HandlerPlace] /\ \A c \in Client : at'[c] = IF c = d THEN place ELSE at[c]
  BY DEF PendingTyped, GoTo
<1>2. /\ pending' \in [Client -> MessageSet \cup {NoMessage}]
      /\ \A c \in Client : pending'[c] = IF c = d THEN m ELSE pending[c]
  BY DEF PendingTyped
<1> QED
  BY <1>1, <1>2 DEF PendingTyped, GarbledEmpty

LEMMA HandlerWent ==
  ASSUME PendingTyped, NEW d \in Client, NEW place \in HandlerPlace,
         GoTo(d, place), pending' = pending, at[d] # "send", place # "send"
  PROVE  PendingTyped'
<1>1. pending[d] = NoMessage /\ pending = [pending EXCEPT ![d] = pending[d]]
  BY DEF PendingTyped
<1> QED
  BY <1>1, HandlerMoved

LEMMA MessageSent ==
  ASSUME MessagesTyped, NEW m \in MessageSet, GarbledEmpty(m), SendMessage(m)
  PROVE  MessagesTyped'
<1> DEFINE n == Len(messages)
<1>1. n \in Nat /\ Len(messages') = n + 1 /\ messages' \in Seq(MessageSet)
  BY DEF MessagesTyped, SendMessage
<1>2. \A i \in 1..(n + 1) : messages'[i] = IF i = n + 1 THEN m ELSE messages[i]
  BY DEF MessagesTyped, SendMessage
<1>3. n + 1 <= Capacity
  BY <1>1, CentreAssumption DEF SendMessage
<1>4. \A i \in 1..(n + 1) : GarbledEmpty(messages'[i])
  BY <1>1, <1>2 DEF MessagesTyped
<1> QED
  BY <1>1, <1>3, <1>4 DEF MessagesTyped, GarbledEmpty

(* A handler sends m and goes on. *)
LEMMA SendStep ==
  ASSUME CentreInv, NEW d \in Client, NEW m \in MessageSet, m.from = d, GarbledEmpty(m),
         NEW place \in HandlerPlace \ {"send"}, GoTo(d, place), Sends(d, m), SendMessage(m),
         pending' = [pending EXCEPT ![d] = NoMessage], UNCHANGED <<storeVars, hungUp, request, lifeVars>>
  PROVE  CentreInv'
<1>1. MessagesTyped'
  BY MessageSent DEF CentreInv
<1>2. PendingTyped'
  BY HandlerMoved DEF CentreInv
<1>3. LifeTyped' /\ StoreInv'
  BY StutterStep DEF CentreInv, LifeTyped, lifeVars
<1>4. ASSUME NEW c \in Client PROVE InOrder(c)'
  <2>1. /\ messages \in Seq(MessageSet) /\ messages' = Append(messages, m)
        /\ UNCHANGED <<clients, departed>> /\ InOrder(c)
    BY DEF CentreInv, MessagesTyped, SendMessage, storeVars
  <2>2. CASE c = d
    BY <2>1, <2>2, OrderOfSent
  <2>3. CASE c # d
    <3>1. at'[c] = at[c]
      BY <2>3 DEF CentreInv, PendingTyped, GoTo
    <3> QED
      BY <2>1, <2>3, <3>1, OrderOfOthersSent
  <2> QED
    BY <2>2, <2>3
<1> QED
  BY <1>1, <1>2, <1>3, <1>4 DEF CentreInv

(* A handler goes on, or reads a line, and nothing is sent. *)
LEMMA MoveStep ==
  ASSUME CentreInv, NEW d \in Client, PendingTyped',
         \/ at' = at
         \/ GoTo(d, "greet") /\ at[d] = "none"
         \/ at[d] = "read" /\ (GoTo(d, "send") \/ GoTo(d, "leave")),
         request' \in [Client -> RequestType \cup {"none"}],
         UNCHANGED <<storeVars, hungUp, messages, lifeVars>>
  PROVE  CentreInv'
<1>1. MessagesTyped' /\ LifeTyped' /\ StoreInv'
  BY StutterStep DEF CentreInv, MessagesTyped, GarbledEmpty, LifeTyped, lifeVars
<1>2. ASSUME NEW c \in Client PROVE InOrder(c)'
  <2>1. \/ at'[c] = at[c]
        \/ at[c] = "none" /\ at'[c] = "greet"
        \/ at[c] = "read" /\ at'[c] \in {"send", "leave"}
    BY DEF CentreInv, PendingTyped, GoTo
  <2>2. InOrder(c) /\ UNCHANGED <<clients, departed, messages>>
    BY DEF CentreInv, storeVars
  <2> QED
    BY <2>1, <2>2, OrderKept
<1> QED
  BY <1>1, <1>2 DEF CentreInv

LEMMA NoticeTyped ==
  ASSUME NEW d \in Client, NEW k \in {"connected", "disconnected"}
  PROVE  /\ Notice(d, k) \in MessageSet /\ Notice(d, k).from = d
         /\ Notice(d, k).body.kind = k /\ GarbledEmpty(Notice(d, k))
BY DEF Notice, Message, MessageSet, Carried, GarbledEmpty

LEMMA BodyMessage ==
  ASSUME NEW d \in Client, NEW body \in Body, NEW g \in BOOLEAN, g => body = ZeroBody(body.kind)
  PROVE  /\ Message(d, body, g) \in MessageSet /\ Message(d, body, g).from = d
         /\ Message(d, body, g).body \in Body /\ GarbledEmpty(Message(d, body, g))
         /\ body.kind \in RequestType
<1>1. /\ Message(d, body, g) \in MessageSet /\ Message(d, body, g).from = d
      /\ Message(d, body, g).body = body /\ Message(d, body, g).garbled = g
  BY DEF Message, MessageSet, Carried
<1>2. body.kind \in RequestType
  BY <1>1, BodyKinds
<1> QED
  BY <1>1, <1>2 DEF GarbledEmpty

LEMMA HandlerStep ==
  ASSUME CentreInv, NEW d \in Client,
         \/ Accept(d) \/ HangUp(d) \/ Greet(d) \/ Send(d) \/ ReadEnd(d) \/ Leave(d)
         \/ ReadRequest(d) \/ ReadUnknown(d) \/ ReadGarbage(d) \/ ReadMistyped(d)
  PROVE  CentreInv'
<1>1. PendingTyped /\ request \in [Client -> RequestType \cup {"none"}]
  BY DEF CentreInv, LifeTyped
<1>2. CASE Accept(d)
  <2>1. GoTo(d, "greet") /\ at[d] = "none" /\ pending' = pending /\ request' = request
        /\ UNCHANGED <<storeVars, hungUp, messages, lifeVars>>
    BY <1>2 DEF Accept, FirstPlace
  <2>2. PendingTyped'
    BY <1>1, <2>1, HandlerWent DEF HandlerPlace
  <2> QED
    BY <1>1, <2>1, <2>2, MoveStep
<1>3. CASE HangUp(d)
  <2>1. /\ hungUp' \in SUBSET Client
        /\ UNCHANGED <<storeVars, at, request, pending, messages, lifeVars>>
    BY <1>3 DEF HangUp, CentreInv, LifeTyped
  <2>2. StoreInv' /\ MessagesTyped' /\ PendingTyped' /\ LifeTyped'
    BY <2>1, StutterStep
    DEF CentreInv, MessagesTyped, PendingTyped, GarbledEmpty, LifeTyped, lifeVars
  <2>3. \A c \in Client : InOrder(c)'
    BY <2>1, OrderKept DEF CentreInv, storeVars
  <2> QED
    BY <2>2, <2>3 DEF CentreInv
<1>4. CASE Greet(d)
  <2>1. /\ at[d] = "greet" /\ SendMessage(Notice(d, "connected")) /\ GoTo(d, "read")
        /\ UNCHANGED <<storeVars, hungUp, request, pending, lifeVars>>
    BY <1>4 DEF Greet
  <2>2. pending' = [pending EXCEPT ![d] = NoMessage]
    BY <1>1, <2>1 DEF PendingTyped
  <2>3. at'[d] = "read"
    BY <1>1, <2>1 DEF PendingTyped, GoTo
  <2>4. Sends(d, Notice(d, "connected"))
    BY <2>1, <2>3, NoticeTyped DEF Sends
  <2> QED
    BY <2>1, <2>2, <2>4, NoticeTyped, SendStep DEF HandlerPlace
<1>5. CASE Leave(d)
  <2>1. /\ at[d] = "leave" /\ SendMessage(Notice(d, "disconnected")) /\ GoTo(d, "done")
        /\ UNCHANGED <<storeVars, hungUp, request, pending, lifeVars>>
    BY <1>5 DEF Leave
  <2>2. pending' = [pending EXCEPT ![d] = NoMessage]
    BY <1>1, <2>1 DEF PendingTyped
  <2>3. at'[d] = "done"
    BY <1>1, <2>1 DEF PendingTyped, GoTo
  <2>4. Sends(d, Notice(d, "disconnected"))
    BY <2>1, <2>3, NoticeTyped DEF Sends
  <2> QED
    BY <2>1, <2>2, <2>4, NoticeTyped, SendStep DEF HandlerPlace
<1>6. CASE Send(d)
  <2>1. /\ at[d] = "send" /\ SendMessage(pending[d]) /\ GoTo(d, "read")
        /\ pending' = [pending EXCEPT ![d] = NoMessage]
        /\ UNCHANGED <<storeVars, hungUp, request, lifeVars>>
    BY <1>6 DEF Send
  <2>2. /\ pending[d] \in MessageSet /\ pending[d].from = d /\ pending[d].body \in Body
        /\ GarbledEmpty(pending[d])
    BY <1>1, <2>1 DEF PendingTyped
  <2>3. at'[d] = "read"
    BY <1>1, <2>1 DEF PendingTyped, GoTo
  <2>4. Sends(d, pending[d])
    BY <2>1, <2>2, <2>3, BodyKinds DEF Sends
  <2> QED
    BY <2>1, <2>2, <2>4, SendStep DEF HandlerPlace
<1>7. CASE ReadEnd(d)
  <2>1. /\ at[d] = "read" /\ GoTo(d, "leave") /\ pending' = pending /\ request' = request
        /\ UNCHANGED <<storeVars, hungUp, messages, lifeVars>>
    BY <1>7 DEF ReadEnd, LastPlace
  <2>2. PendingTyped'
    BY <1>1, <2>1, HandlerWent DEF HandlerPlace
  <2> QED
    BY <1>1, <2>1, <2>2, MoveStep
<1>8. ASSUME NEW body \in Body, NEW g \in BOOLEAN, g => body = ZeroBody(body.kind),
             pending' = [pending EXCEPT ![d] = Message(d, body, g)],
             at[d] = "read", GoTo(d, "send"),
             request' = [request EXCEPT ![d] = body.kind] \/ request' = request,
             UNCHANGED <<storeVars, hungUp, messages, lifeVars>>
      PROVE  CentreInv'
  <2>1. /\ Message(d, body, g) \in MessageSet /\ Message(d, body, g).from = d
        /\ Message(d, body, g).body \in Body /\ GarbledEmpty(Message(d, body, g))
        /\ body.kind \in RequestType
    BY <1>8, BodyMessage
  <2>2. PendingTyped'
    BY <1>1, <1>8, <2>1, HandlerMoved DEF HandlerPlace
  <2>3. request' \in [Client -> RequestType \cup {"none"}]
    BY <1>1, <1>8, <2>1
  <2> QED
    BY <1>8, <2>2, <2>3, MoveStep
<1>9. CASE ReadRequest(d)
  <2>1. /\ at[d] = "read" /\ GoTo(d, "send")
        /\ UNCHANGED <<storeVars, hungUp, messages, lifeVars>>
    BY <1>9 DEF ReadRequest, ReadLine
  <2>2. PICK body \in Body :
          /\ request' = [request EXCEPT ![d] = body.kind]
          /\ pending' = [pending EXCEPT ![d] = Message(d, body, FALSE)]
    BY <1>9 DEF ReadRequest
  <2> QED
    BY <1>8, <2>1, <2>2
<1>10. CASE ReadUnknown(d)
  <2>1. /\ at' = at /\ pending' = pending /\ request' = [request EXCEPT ![d] = "none"]
        /\ UNCHANGED <<storeVars, hungUp, messages, lifeVars>>
    BY <1>10 DEF ReadUnknown, ReadLine
  <2>2. PendingTyped'
    BY <1>1, <2>1 DEF PendingTyped, GarbledEmpty
  <2>3. request' \in [Client -> RequestType \cup {"none"}]
    BY <1>1, <2>1
  <2> QED
    BY <2>1, <2>2, <2>3, MoveStep
<1>11. CASE ReadGarbage(d)
  <2>1. /\ at[d] = "read" /\ request' = request
        /\ UNCHANGED <<storeVars, hungUp, messages, lifeVars>>
    BY <1>11 DEF ReadGarbage, ReadLine
  <2>2. CASE at' = at /\ pending' = pending
    <3>1. PendingTyped'
      BY <1>1, <2>2 DEF PendingTyped, GarbledEmpty
    <3> QED
      BY <1>1, <2>1, <2>2, <3>1, MoveStep
  <2>3. CASE /\ request[d] # "none" /\ GoTo(d, "send")
             /\ pending' = [pending EXCEPT ![d] = Message(d, ZeroBody(request[d]), TRUE)]
    <3>1. request[d] \in RequestType
      BY <1>1, <2>3
    <3>2. ZeroBody(request[d]) \in Body /\ ZeroBody(request[d]).kind = request[d]
      BY <3>1, ZeroBodyTyped
    <3> QED
      BY <1>8, <2>1, <2>3, <3>2
  <2> QED
    BY <1>11, <2>2, <2>3 DEF ReadGarbage
<1>12. CASE ReadMistyped(d)
  <2>1. /\ at[d] = "read" /\ request' = request
        /\ UNCHANGED <<storeVars, hungUp, messages, lifeVars>>
    BY <1>12 DEF ReadMistyped, ReadLine
  <2>2. CASE at' = at /\ pending' = pending
    <3>1. PendingTyped'
      BY <1>1, <2>2 DEF PendingTyped, GarbledEmpty
    <3> QED
      BY <1>1, <2>1, <2>2, <3>1, MoveStep
  <2>3. ASSUME NEW body \in Body, GoTo(d, "send"),
               pending' = [pending EXCEPT ![d] = Message(d, body, FALSE)]
        PROVE  CentreInv'
    BY <1>8, <2>1, <2>3
  <2> QED
    BY <1>12, <2>2, <2>3 DEF ReadMistyped
<1> QED
  BY <1>2, <1>3, <1>4, <1>5, <1>6, <1>7, <1>9, <1>10, <1>11, <1>12
-----------------------------------------------------------------------------
(* The actions of the goroutine, and the life of the server. *)

LEMMA HandleTakes ==
  ASSUME NEW m \in MessageSet, Handle(m.from, m.body)
  PROVE  Takes(m)
<1> DEFINE c == m.from
           b == m.body
<1>1. CASE b.kind = "connected" /\ Connected(c)
  BY <1>1 DEF Takes, Connected
<1>2. CASE b.kind = "disconnected" /\ Disconnected(c)
  BY <1>2 DEF Takes, Disconnected
<1>3. ASSUME b.kind \in RequestType, UNCHANGED <<clients, departed>>
      PROVE  Takes(m)
  BY <1>3 DEF Takes
<1>4. CASE b.kind = "put" /\ Put(c, b.queue, b.priority)
  BY <1>3, <1>4 DEF Put, RequestType
<1>5. CASE b.kind = "get" /\ Get(c, b.queues, b.wait)
  BY <1>3, <1>5 DEF Get, GetJob, GetWait, GetNothing, RequestType
<1>6. CASE b.kind = "abort" /\ Abort(c, b.id)
  BY <1>3, <1>6 DEF Abort, RequestType
<1>7. CASE b.kind = "delete" /\ Delete(c, b.id)
  BY <1>3, <1>7 DEF Delete, RequestType
<1> QED
  BY <1>1, <1>2, <1>4, <1>5, <1>6, <1>7 DEF Handle

LEMMA WriteOutTyped == WriteOut => stuck' \in Deaf \cup {NoClient}
BY DEF WriteOut

LEMMA ReceiveStep ==
  ASSUME CentreInv, Receive
  PROVE  CentreInv'
<1>1. StoreInv'
  BY StoreSteps, StoreInvStep DEF CentreInv, CentreNext
<1>2. /\ messages # <<>> /\ messages' = Tail(messages) /\ messages \in Seq(MessageSet)
      /\ UNCHANGED <<at, hungUp, request, pending, internal, wg, starting, stopping>>
  BY DEF Receive, handlerVars, CentreInv, MessagesTyped
<1>3. MessagesTyped'
  <2> DEFINE n == Len(messages)
  <2>1. n \in Nat \ {0} /\ Len(messages') = n - 1 /\ messages' \in Seq(MessageSet)
    BY <1>2
  <2>2. \A i \in 1..(n - 1) : messages'[i] = messages[i + 1]
    BY <1>2
  <2>3. n - 1 <= Capacity
    BY <2>1, CentreAssumption DEF CentreInv, MessagesTyped
  <2>4. \A i \in 1..(n - 1) : GarbledEmpty(messages'[i])
    BY <2>1, <2>2 DEF CentreInv, MessagesTyped
  <2> QED
    BY <2>1, <2>3, <2>4 DEF MessagesTyped, GarbledEmpty
<1>4. PendingTyped' /\ LifeTyped'
  BY <1>2, WriteOutTyped DEF CentreInv, PendingTyped, LifeTyped, GarbledEmpty, Receive
<1>5. Takes(messages[1])
  BY HeadTyped, HandleTakes DEF CentreInv, Receive
<1>6. \A c \in Client : InOrder(c)'
  BY <1>2, <1>5, OrderOfReceived DEF CentreInv
<1> QED
  BY <1>1, <1>3, <1>4, <1>6 DEF CentreInv

LEMMA RequeueStep ==
  ASSUME CentreInv, Requeue
  PROVE  CentreInv'
<1>1. StoreInv'
  BY StoreSteps, StoreInvStep DEF CentreInv, CentreNext
<1>2. /\ UNCHANGED <<at, hungUp, request, pending, messages, internal, wg, starting, stopping>>
      /\ UNCHANGED <<clients, departed>>
  BY DEF Requeue, handlerVars, RequeueJob, EndDisconnected
<1>3. MessagesTyped' /\ PendingTyped' /\ LifeTyped'
  BY <1>2, WriteOutTyped
  DEF CentreInv, MessagesTyped, PendingTyped, LifeTyped, GarbledEmpty, Requeue
<1>4. \A c \in Client : InOrder(c)'
  BY <1>2, OrderKept DEF CentreInv
<1> QED
  BY <1>1, <1>3, <1>4 DEF CentreInv

LEMMA LifeStep ==
  ASSUME CentreInv,
         \/ ShutDown \/ Start \/ StartReturns \/ Stop \/ StopWaited \/ CloseListener
         \/ UNCHANGED centreVars
  PROVE  CentreInv'
<1>1. UNCHANGED <<storeVars, at, hungUp, request, pending, messages>>
  BY DEF ShutDown, Start, StartReturns, Stop, StopWaited, CloseListener, centreVars, handlerVars
<1>2. StoreInv' /\ MessagesTyped' /\ PendingTyped'
  BY <1>1, StutterStep DEF CentreInv, MessagesTyped, PendingTyped, GarbledEmpty
<1>3. LifeTyped'
  BY <1>1 DEF CentreInv, LifeTyped, ShutDown, Done, Start, StartReturns, Stop, StopWaited,
              CloseListener, centreVars, lifeVars
<1>4. \A c \in Client : InOrder(c)'
  BY <1>1, OrderKept DEF CentreInv, storeVars
<1> QED
  BY <1>2, <1>3, <1>4 DEF CentreInv
-----------------------------------------------------------------------------
LEMMA CentreInvInit == CentreInit => CentreInv
<1> SUFFICES ASSUME CentreInit PROVE CentreInv
  OBVIOUS
<1>1. StoreInv
  BY StoreInvInit DEF CentreInit
<1>2. MessagesTyped /\ PendingTyped /\ LifeTyped
  BY CentreAssumption DEF CentreInit, MessagesTyped, PendingTyped, LifeTyped, HandlerPlace
<1>3. \A c \in Client : InOrder(c)
  BY DEF CentreInit, Init, InOrder
<1> QED
  BY <1>1, <1>2, <1>3 DEF CentreInv

LEMMA CentreInvStep ==
  ASSUME CentreInv, [CentreNext]_centreVars
  PROVE  CentreInv'
BY HandlerStep, ReceiveStep, RequeueStep, LifeStep DEF CentreNext

(* The whole job centre keeps the invariant: the types, the store's own       *)
(* invariant, and the order in which a client's messages pass the channel.    *)
THEOREM CentreInvHolds == CentreSafety => []CentreInv
BY CentreInvInit, CentreInvStep, PTL DEF CentreSafety

(* Whatever the handlers and the channel do, the store behaves as JobStore    *)
(* says: every theorem about JobStore holds for the whole job centre.         *)
THEOREM CentreImplementsStore == CentreSafety => Spec
<1>1. CentreInit => Init
  BY DEF CentreInit
<1> QED
  BY <1>1, StoreSteps, CentreInvHolds, PTL DEF CentreSafety, Spec

(* Type correctness of handlers, channel and life cycle (jobcentre.go:145-168,*)
(* 372-429).                                                                  *)
THEOREM CentreTypeCorrect == CentreSafety => []CentreTypeOK
<1>1. CentreInv => CentreTypeOK
  BY DEF CentreInv, StoreInv, MessagesTyped, PendingTyped, LifeTyped, CentreTypeOK
<1> QED
  BY <1>1, CentreInvHolds, PTL

(* The goroutine never looks up a client that is not there (line 197 on):     *)
(* greeting, requests and farewell of each client pass the channel in order.  *)
THEOREM SenderAlwaysKnown == CentreSafety => []SenderKnown
<1>1. CentreInv => SenderKnown
  <2> SUFFICES ASSUME CentreInv, messages # <<>>
               PROVE  IF Head(messages).body.kind = "connected"
                      THEN Head(messages).from \notin clients \cup departed
                      ELSE Head(messages).from \in clients
    BY DEF SenderKnown
  <2> DEFINE m == messages[1]
  <2>1. /\ Head(messages) = m /\ m \in MessageSet /\ m.from \in Client
        /\ Len(messages) \in Nat \ {0} /\ 1 \in 1..Len(messages)
    BY HeadTyped, BodyKinds DEF CentreInv
  <2>2. InOrder(m.from)
    BY <2>1 DEF CentreInv
  <2>3. m.from \notin departed
    BY <2>1, <2>2 DEF InOrder
  <2>4. CASE m.body.kind = "connected"
    BY <2>1, <2>2, <2>3, <2>4 DEF InOrder
  <2>5. CASE m.body.kind # "connected"
    <3>1. ~(\E j \in 1..Len(messages) :
              j < 1 /\ messages[j].from = m.from /\ messages[j].body.kind = "connected")
      BY <2>1
    <3> QED
      BY <2>1, <2>2, <2>5, <3>1 DEF InOrder
  <2> QED
    BY <2>1, <2>4, <2>5
<1> QED
  BY <1>1, CentreInvHolds, PTL

(* A request that a garbled line left behind. *)
LEMMA EmptyRequest ==
  ASSUME StoreTypeOK, NEW m \in MessageSet, m.garbled, GarbledEmpty(m), Handle(m.from, m.body)
  PROVE  /\ jobs \subseteq jobs'
         /\ \A j \in JobId : job'[j] = job[j]
         /\ Len(waiters') <= Len(waiters)
<1> DEFINE c == m.from
           b == m.body
<1>1. /\ b.kind \in RequestType
      /\ b.kind = "get" => b.queues = {} /\ b.wait = FALSE
      /\ b.kind \in {"abort", "delete"} => b.id = 0
  BY BodyKinds, ZeroBodyTyped DEF GarbledEmpty
<1>2. 0 \notin jobs /\ waiters \in Seq(Waiter) /\ Len(waiters) \in Nat
  BY DEF StoreTypeOK, JobId
<1>3. ASSUME UNCHANGED <<job, waiters>>, jobs \subseteq jobs'
      PROVE  /\ jobs \subseteq jobs'
             /\ \A j \in JobId : job'[j] = job[j]
             /\ Len(waiters') <= Len(waiters)
  BY <1>2, <1>3
<1>4. CASE b.kind = "put" /\ Put(c, b.queue, b.priority)
  <2>1. \A j \in JobId : job'[j] = job[j]
    BY <1>4 DEF Put, StoreTypeOK, JobId
  <2>2. Len(waiters') <= Len(waiters)
    <3>1. CASE Listening(Len(waiters), b.queue) = {}
      BY <1>2, <1>4, <3>1 DEF Put
    <3>2. CASE Listening(Len(waiters), b.queue) # {}
      <4> DEFINE i == Min(Listening(Len(waiters), b.queue))
      <4>1. RemoveWaiter(i)
        BY <1>4, <3>2 DEF Put
      <4>2. \E k \in 1..Len(waiters) : b.queue \in waiters[k].queues
        BY <3>2 DEF Listening
      <4>3. Len(waiters) - 1 \in 0..Len(waiters)
        BY <1>2, <4>2
      <4>4. Len(CloseGap(waiters, i, Len(waiters))) = Len(waiters)
        BY <1>2 DEF CloseGap
      <4> HIDE DEF i
      <4>5. Len(waiters') = Len(waiters) - 1
        BY <1>2, <4>1, <4>3, <4>4 DEF RemoveWaiter, CloseGap
      <4> QED
        BY <1>2, <4>5
    <3> QED
      BY <3>1, <3>2
  <2> QED
    BY <1>4, <2>1, <2>2 DEF Put
<1>5. CASE b.kind = "get" /\ Get(c, b.queues, b.wait)
  <2>1. Best(b.queues) = {}
    BY <1>1, <1>5 DEF Best, Offered
  <2>2. GetNothing(c, b.queues)
    BY <1>1, <1>5, <2>1 DEF Get, GetJob
  <2> QED
    BY <1>3, <2>2 DEF GetNothing
<1>6. CASE b.kind = "abort" /\ Abort(c, b.id)
  BY <1>1, <1>2, <1>3, <1>6 DEF Abort, MayAbort
<1>7. CASE b.kind = "delete" /\ Delete(c, b.id)
  BY <1>1, <1>2, <1>3, <1>7 DEF Delete
<1> QED
  BY <1>1, <1>4, <1>5, <1>6, <1>7 DEF Handle, RequestType

LEMMA OnlyReceiveTakes ==
  ASSUME CentreInv, CentreNext, messages # <<>>, messages' = Tail(messages)
  PROVE  Receive
<1>1. messages \in Seq(MessageSet) /\ Len(messages') = Len(messages) - 1 /\ Len(messages) \in Nat
  BY DEF CentreInv, MessagesTyped
<1>2. UNCHANGED messages => FALSE
  BY <1>1
<1>3. ASSUME NEW m \in MessageSet, SendMessage(m) PROVE FALSE
  <2>1. Len(Append(messages, m)) = Len(messages) + 1
    BY <1>1
  <2>2. Append(messages, m) = messages'
    BY <1>3 DEF SendMessage
  <2>3. Len(messages') = Len(messages) + 1
    BY <2>1, <2>2, Zenon
  <2> QED
    BY <1>1, <2>3
<1>4. ASSUME NEW d \in Client,
             \/ Accept(d) \/ HangUp(d) \/ Greet(d) \/ Send(d) \/ ReadEnd(d) \/ Leave(d)
             \/ ReadRequest(d) \/ ReadUnknown(d) \/ ReadGarbage(d) \/ ReadMistyped(d)
      PROVE  FALSE
  <2>1. CASE Greet(d) \/ Leave(d)
    BY <1>3, <2>1, NoticeTyped DEF Greet, Leave
  <2>2. CASE Send(d)
    <3>1. pending[d] \in MessageSet
      BY <2>2 DEF Send, CentreInv, PendingTyped
    <3> QED
      BY <1>3, <2>2, <3>1 DEF Send
  <2> QED
    BY <1>2, <1>4, <2>1, <2>2 DEF Accept, HangUp, ReadEnd, ReadRequest, ReadUnknown,
                                  ReadGarbage, ReadMistyped, ReadLine
<1>5. CASE Requeue \/ ShutDown \/ Start \/ StartReturns \/ Stop \/ StopWaited \/ CloseListener
  BY <1>2, <1>5 DEF Requeue, ShutDown, Start, StartReturns, Stop, StopWaited, CloseListener
<1> QED
  BY <1>4, <1>5 DEF CentreNext

(* A line that is no JSON is handled as a request, but takes no job, changes  *)
(* none and makes nobody wait (jobcentre.go:387-427).                         *)
THEOREM GarbageNeverTouchesAJob == CentreSafety => GarbageTouchesNoJob
<1> DEFINE A == messages # <<>> /\ messages' = Tail(messages) /\ Head(messages).garbled =>
                  /\ jobs \subseteq jobs'
                  /\ \A j \in JobId : job'[j] = job[j]
                  /\ Len(waiters') <= Len(waiters)
<1>1. ASSUME CentreInv, [CentreNext]_centreVars
      PROVE  [A]_centreVars
  <2> SUFFICES ASSUME CentreNext, messages # <<>>, messages' = Tail(messages),
                      Head(messages).garbled
               PROVE  /\ jobs \subseteq jobs'
                      /\ \A j \in JobId : job'[j] = job[j]
                      /\ Len(waiters') <= Len(waiters)
    BY <1>1
  <2>1. Handle(Head(messages).from, Head(messages).body)
    BY <1>1, OnlyReceiveTakes DEF Receive
  <2>2. Head(messages) \in MessageSet /\ GarbledEmpty(Head(messages))
    BY <1>1, HeadTyped DEF CentreInv, MessagesTyped
  <2> QED
    BY <1>1, <2>1, <2>2, EmptyRequest DEF CentreInv, StoreInv
<1> QED
  BY <1>1, CentreInvHolds, PTL DEF CentreSafety, GarbageTouchesNoJob
=============================================================================
