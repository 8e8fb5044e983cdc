------------------------------ MODULE JobStore ------------------------------
(***************************************************************************)
(* The state the goroutine JobCentreServer.internal keeps, and one action  *)
(* per message it handles (jobcentre/jobcentre.go:185-370).                *)
(*                                                                         *)
(* The goroutine is the only reader and writer of this state, so a message *)
(* is handled in one step, except `disconnected': its loop over the jobs   *)
(* of the departed client is one step per iteration (RequeueJob), and no   *)
(* other message is handled until the loop has ended.                      *)
(*                                                                         *)
(* Data left out: the body of a job, and the order of the entries of one   *)
(* queue.  A job only ever enters the queue named in its own Queue field,  *)
(* so a queue is modelled by how many entries it has for each job          *)
(* (`copies'); between equal priorities the code takes the first entry and *)
(* the model any.                                                          *)
(***************************************************************************)
EXTENDS Naturals, Sequences, FiniteSets, FiniteSetsExt

CONSTANTS Client,     \* connection ids handed out by TCPServer.Start
          Queue,      \* queue names
          Priority,   \* the priorities that are put
          NoClient,   \* the zero client id: a job without owner, a zeroed waiter
          MaxJobs,    \* bound: jobs ever put
          MaxWaiters, \* bound: length of the waiters slice
          MaxCopies   \* bound: entries of one job in its queue an abort may reach

ASSUME ConstantsAssumption ==
  /\ NoClient \notin Client
  /\ Priority \subseteq Nat
  /\ "removed" \notin Client \cup {NoClient}
  /\ MaxJobs \in Nat /\ MaxWaiters \in Nat /\ MaxCopies \in Nat

VARIABLES
  jobNextId,  \* var jobNextId
  job,        \* the Job objects on the heap, by id: a deleted one may still be queued
  jobs,       \* the ids in `jobs []*Job', which is always in ascending order
  clients,    \* the keys of the map `clients'
  departed,   \* ids that have disconnected: TCPServer.Start never reuses one
  waiters,    \* `waiters []Waiter', as the loop sees its backing array
  leaving,    \* the client whose `disconnected' message is being handled
  inner,      \* length of the slice `waiters' declared in that case (line 207)
  out         \* the responses written by the last step, in order

storeVars == <<jobNextId, job, jobs, clients, departed, waiters, leaving, inner, out>>

Owner == Client \cup {NoClient}
JobId == 1..(jobNextId - 1)
Job == [queue : Queue, priority : Priority, owner : Owner, copies : Nat]
Waiter == [client : Owner, queues : SUBSET Queue]

(* "put": PutResponse; "job": GetResponse; "ok", "no-job": WriteStatus. *)
Response == [to : Client, kind : {"put", "job", "ok", "no-job"}, id : Nat]

PutReply(c, id) == [to |-> c, kind |-> "put", id |-> id]
JobReply(c, id) == [to |-> c, kind |-> "job", id |-> id]
Ok(c) == [to |-> c, kind |-> "ok", id |-> 0]
NoJob(c) == [to |-> c, kind |-> "no-job", id |-> 0]

StoreTypeOK ==
  /\ jobNextId \in Nat \ {0}
  /\ job \in [JobId -> Job]
  /\ jobs \in SUBSET JobId
  /\ clients \in SUBSET Client
  /\ departed \in SUBSET Client
  /\ waiters \in Seq(Waiter)
  /\ leaving \in Owner
  /\ inner \in 0..Len(waiters)
  /\ out \in Seq(Response)
-----------------------------------------------------------------------------
(* The waiters slice. *)

ZeroWaiter == [client |-> NoClient, queues |-> {}]

(* The positions among the first n whose waiter listens on q. *)
Listening(n, q) == {i \in 1..n : q \in waiters[i].queues}

(* Mutant: the tail starts one place too late. *)
CloseGapLate(w, i, n) ==
  [k \in 1..Len(w) |-> IF i < k /\ k < n THEN w[k + 1] ELSE w[k]]

(* append(w[:i], w[i+1:n]...) as it leaves the backing array: the tail has   *)
(* moved down one place and position n keeps its old value.                  *)
CloseGap(w, i, n) ==
  [k \in 1..Len(w) |-> IF i <= k /\ k < n THEN w[k + 1] ELSE w[k]]

(* The whole slice loses its last place, as in waiters = append(...).        *)
RemoveWaiter(i) ==
  waiters' = SubSeq(CloseGap(waiters, i, Len(waiters)), 1, Len(waiters) - 1)

KeptWaiters(c) == {i \in 1..Len(waiters) : waiters[i].client # c}

(* The position whose waiter ends up at k when the waiters of c are removed. *)
MovedTo(c, k) ==
  {i \in KeptWaiters(c) : Cardinality({h \in KeptWaiters(c) : h <= i}) = k}

(* Mutant: the waiters of the client are left where they are. *)
KeepWaitersOf(c) == waiters

(* slices.DeleteFunc compacts in place and zeroes the rest of the array: the *)
(* outer slice keeps its length and ends in zeroed waiters.                  *)
DeleteWaitersOf(c) ==
  [k \in 1..Len(waiters) |->
     IF MovedTo(c, k) = {} THEN ZeroWaiter
     ELSE waiters[CHOOSE i \in MovedTo(c, k) : TRUE]]
-----------------------------------------------------------------------------
Init ==
  /\ jobNextId = 1
  /\ job = [i \in {} |-> NoClient]
  /\ jobs = {}
  /\ clients = {}
  /\ departed = {}
  /\ waiters = <<>>
  /\ leaving = NoClient
  /\ inner = 0
  /\ out = <<>>

Idle == leaving = NoClient

(* A message of client c is at the head: it comes between its two others.    *)
FromClient(c) == Idle /\ c \in clients

Connected(c) ==
  /\ Idle
  /\ c \notin clients \cup departed
  /\ clients' = clients \cup {c}
  /\ out' = <<>>
  /\ UNCHANGED <<jobNextId, job, jobs, departed, waiters, leaving, inner>>

(* Put hands the job to the first waiter that listens on the queue, and      *)
(* leaves it in the queue, without an owner.                                 *)
Put(c, q, p) ==
  /\ FromClient(c)
  /\ jobNextId <= MaxJobs
  /\ jobNextId' = jobNextId + 1
  /\ job' = [i \in 1..jobNextId |->
               IF i = jobNextId
               THEN [queue |-> q, priority |-> p, owner |-> NoClient, copies |-> 1]
               ELSE job[i]]
  /\ jobs' = jobs \cup {jobNextId}
  /\ LET listening == Listening(Len(waiters), q) IN
       \/ /\ listening = {}
          /\ out' = <<PutReply(c, jobNextId)>>
          /\ UNCHANGED waiters
       \/ /\ listening # {}
          /\ RemoveWaiter(Min(listening))
          /\ out' = <<PutReply(c, jobNextId),
                      JobReply(waiters[Min(listening)].client, jobNextId)>>
  /\ UNCHANGED <<clients, departed, leaving, inner>>

Offered(qs) == {j \in JobId : job[j].queue \in qs /\ job[j].copies > 0}

(* Mutant: any job of the queues will do. *)
FirstOffered(qs) == Offered(qs)

Best(qs) == {j \in Offered(qs) : \A k \in Offered(qs) : job[k].priority <= job[j].priority}

(* DeleteFunc removes every entry of the job from its queue. *)
Assign(c, j) == [job EXCEPT ![j].owner = c, ![j].copies = 0]

GetJob(c, qs) ==
  /\ FromClient(c)
  /\ \E j \in Best(qs) :
       /\ job' = Assign(c, j)
       /\ out' = <<JobReply(c, j)>>
  /\ UNCHANGED <<jobNextId, jobs, clients, departed, waiters, leaving, inner>>

GetWait(c, qs) ==
  /\ FromClient(c)
  /\ Offered(qs) = {}
  /\ Len(waiters) < MaxWaiters
  /\ waiters' = Append(waiters, [client |-> c, queues |-> qs])
  /\ out' = <<>>
  /\ UNCHANGED <<jobNextId, job, jobs, clients, departed, leaving, inner>>

GetNothing(c, qs) ==
  /\ FromClient(c)
  /\ Offered(qs) = {}
  /\ out' = <<NoJob(c)>>
  /\ UNCHANGED <<jobNextId, job, jobs, clients, departed, waiters, leaving, inner>>

Get(c, qs, wait) ==
  \/ GetJob(c, qs)
  \/ wait /\ GetWait(c, qs)
  \/ ~wait /\ GetNothing(c, qs)

(* Mutant: the owner is not compared. *)
AnyoneMayAbort(c, id) == id \in jobs

(* The condition of line 337, negated. *)
MayAbort(c, id) == id \in jobs /\ job[id].owner = c

(* The owner stays in place, so the same client may abort again. *)
Abort(c, id) ==
  /\ FromClient(c)
  /\ \/ /\ MayAbort(c, id)
        /\ job[id].copies < MaxCopies
        /\ job' = [job EXCEPT ![id].copies = @ + 1]
        /\ out' = <<Ok(c)>>
     \/ /\ ~MayAbort(c, id)
        /\ out' = <<NoJob(c)>>
        /\ UNCHANGED job
  /\ UNCHANGED <<jobNextId, jobs, clients, departed, waiters, leaving, inner>>

(* Only a job without owner is taken out of its queue, one entry of it. *)
Unqueue(id) ==
  IF job[id].owner = NoClient /\ job[id].copies > 0
  THEN [job EXCEPT ![id].copies = @ - 1]
  ELSE job

Delete(c, id) ==
  /\ FromClient(c)
  /\ \/ /\ id \in jobs
        /\ jobs' = jobs \ {id}
        /\ job' = Unqueue(id)
        /\ out' = <<Ok(c)>>
     \/ /\ id \notin jobs
        /\ out' = <<NoJob(c)>>
        /\ UNCHANGED <<jobs, job>>
  /\ UNCHANGED <<jobNextId, clients, departed, waiters, leaving, inner>>

Disconnected(c) ==
  /\ FromClient(c)
  /\ clients' = clients \ {c}
  /\ departed' = departed \cup {c}
  /\ waiters' = DeleteWaitersOf(c)
  /\ inner' = Cardinality(KeptWaiters(c))
  /\ leaving' = c
  /\ out' = <<>>
  /\ UNCHANGED <<jobNextId, job, jobs>>

OwnedBy(c) == {j \in jobs : job[j].owner = c}

(* Mutant: the job loses its owner and is not appended to its queue. *)
DisownOnly(j) == [job EXCEPT ![j].owner = NoClient]

(* line 241 *)
PutBack(j) == [job EXCEPT ![j].owner = NoClient, ![j].copies = @ + 1]

(* Mutant: the job goes to the first waiter in the slice, listening or not. *)
HandOverFirst(j, c) == [job EXCEPT ![j].owner = waiters[1].client]

(* line 220 *)
HandOver(j, c) == [job EXCEPT ![j].owner = c]

(* One iteration for a job the departed client owns, the lowest id first.    *)
(* The waiter that is served goes from the inner slice only.                 *)
RequeueJob ==
  /\ ~Idle
  /\ OwnedBy(leaving) # {}
  /\ LET j == Min(OwnedBy(leaving))
         listening == Listening(inner, job[j].queue)
         i == Min(listening)
     IN \/ /\ listening = {}
           /\ job' = PutBack(j)
           /\ out' = <<>>
           /\ UNCHANGED <<waiters, inner>>
        \/ /\ listening # {}
           /\ job' = HandOver(j, waiters[i].client)
           /\ waiters' = CloseGap(waiters, i, inner)
           /\ inner' = inner - 1
           /\ out' = <<JobReply(waiters[i].client, j)>>
  /\ UNCHANGED <<jobNextId, jobs, clients, departed, leaving>>

EndDisconnected ==
  /\ ~Idle
  /\ OwnedBy(leaving) = {}
  /\ leaving' = NoClient
  /\ inner' = 0
  /\ out' = <<>>
  /\ UNCHANGED <<jobNextId, job, jobs, clients, departed, waiters>>

(* Request ids range over the ids handed out, and 0 for any other. *)
Request(c) ==
  \/ \E q \in Queue, p \in Priority : Put(c, q, p)
  \/ \E qs \in SUBSET Queue, wait \in BOOLEAN : Get(c, qs, wait)
  \/ \E id \in {0} \cup JobId : Abort(c, id) \/ Delete(c, id)

Next ==
  \/ \E c \in Client : Connected(c) \/ Request(c) \/ Disconnected(c)
  \/ RequeueJob
  \/ EndDisconnected

Spec == Init /\ [][Next]_storeVars
-----------------------------------------------------------------------------
(* Properties. *)

(* Every waiter the loop may still serve is a connected client, or a zeroed   *)
(* entry that listens on nothing.  Both places that serve a waiter look it up *)
(* with clients[waiter.ClientId] and write to the result, which is nil for an *)
(* absent key (lines 230 and 279); the slice is shared between two variables  *)
(* of different length while jobs are handed over.                            *)
WaitersConnected ==
  \A i \in 1..Len(waiters) :
    waiters[i].client \in clients \/ waiters[i] = ZeroWaiter

(* No live job is lost: it is in its queue, or its owner is connected, or its *)
(* owner is the client whose jobs are being put back at this moment.          *)
NoJobStranded ==
  \A j \in jobs :
    \/ job[j].copies > 0
    \/ job[j].owner \in clients
    \/ ~Idle /\ job[j].owner = leaving

(* A client holds the job, and no queue offers it. *)
Held(j) == job[j].owner # NoClient /\ job[j].copies = 0

(* While a client holds a job, no response gives that job to anybody, except  *)
(* the hand-over to a waiter when the holder has disconnected.                *)
HeldJobNotGivenOut ==
  [][\A i \in 1..Len(out') :
       out'[i].kind = "job" /\ out'[i].id \in JobId /\ Held(out'[i].id)
         => ~Idle /\ job[out'[i].id].owner = leaving]_storeVars

(* A client keeps the live job it holds until it aborts it, it disconnects,   *)
(* or somebody deletes the job: no message of another client takes it away.   *)
HolderKeepsJob ==
  [][\A j \in jobs : Held(j) /\ job[j].owner # leaving =>
       \/ job'[j] = job[j]
       \/ j \notin jobs'
       \/ out' = <<Ok(job[j].owner)>>]_storeVars

(* A held job stays with its holder: it is given to nobody else, and no       *)
(* message of anybody else changes it, in any order of aborts and hand-overs. *)
HeldJobStays == HeldJobNotGivenOut /\ HolderKeepsJob

(* The jobs this step sends to c. *)
SentTo(c) ==
  {out'[i].id : i \in {k \in 1..Len(out') : out'[k].to = c /\ out'[k].kind = "job"}}

(* The store and the clients agree on who has a job.  A step that notes a     *)
(* client as a new owner (lines 220 and 361) writes the job to that client,   *)
(* and whoever a job is written to owns it then and may abort it, except the  *)
(* waiter a new job is written to by Put (lines 270-285): no owner is noted.  *)
OwnerTold ==
  [][\A j \in JobId', c \in Client :
       /\ job'[j].owner = c /\ (j \in JobId => job[j].owner # c) => j \in SentTo(c)
       /\ j \in SentTo(c) => job'[j].owner = c \/ j \notin JobId]_storeVars

(* How much of the array the code looks at: a shorter slice in RequeueJob.    *)
InUse == IF Idle THEN Len(waiters) ELSE inner

WaitersOf(c) == {i \in 1..InUse : waiters[i].client = c}

(* The in-place removals from the shared backing array (lines 207, 221 and    *)
(* 270) neither drop nor double a waiter of the slice in use: a client loses  *)
(* one entry when it is sent a job, gains one when it starts to wait, and     *)
(* keeps all while others are served or disconnect.  Only when the loop over  *)
(* the jobs ends, and the outer slice is back, may served entries reappear.   *)
OnlyServedWaiterGoes ==
  [][\A c \in clients' :
       LET before == Cardinality(WaitersOf(c))
           after == Cardinality(WaitersOf(c)')
       IN \/ after = before
          \/ after = before - 1 /\ SentTo(c) # {}
          \/ after = before + 1 /\ Len(waiters') = Len(waiters) + 1
          \/ after >= before /\ ~Idle /\ Idle']_storeVars

(* The store implements the abstract work queue: a job is available while it  *)
(* is live and queued, and otherwise held by its owner.                       *)
Place(j) ==
  IF j \notin jobs THEN "removed"
  ELSE IF job[j].copies > 0 THEN NoClient
  ELSE job[j].owner

Items == [j \in JobId |-> [queue |-> job[j].queue,
                           priority |-> job[j].priority,
                           place |-> Place(j)]]

Present == clients \cup ({leaving} \ {NoClient})

WQ == INSTANCE WorkQueue WITH
  Worker <- Client,
  Available <- NoClient,
  Removed <- "removed",
  Nobody <- NoClient,
  members <- Present,
  quitting <- leaving,
  next <- jobNextId,
  item <- Items

ImplementsWorkQueue == WQ!Spec
=============================================================================
