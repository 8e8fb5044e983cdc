--------------------------- MODULE JobStoreClients ---------------------------
(***************************************************************************)
(* What the clients of JobStore can tell from the responses they get.      *)
(* A history variable watches the steps of JobStore and restricts none:    *)
(* each step of ClientNext is a step of JobStore!Next, and the other way   *)
(* round.                                                                  *)
(***************************************************************************)
EXTENDS JobStore

VARIABLE
  owed  \* client -> Gets with "wait" it sent that no job has answered

clientVars == <<storeVars, owed>>

ClientInit ==
  /\ Init
  /\ owed = [c \in Client |-> 0]

(* Every step but a Get that is answered at once or has to wait. *)
OtherStep ==
  \/ \E c \in Client :
       \/ Connected(c) \/ Disconnected(c)
       \/ \E q \in Queue, p \in Priority : Put(c, q, p)
       \/ \E qs \in SUBSET Queue : GetNothing(c, qs)
       \/ \E id \in {0} \cup JobId : Abort(c, id) \/ Delete(c, id)
  \/ RequeueJob
  \/ EndDisconnected

ClientNext ==
  /\ \/ \E c \in Client, qs \in SUBSET Queue :
          \/ GetWait(c, qs) /\ owed' = [owed EXCEPT ![c] = @ + 1]
          \/ GetJob(c, qs) /\ UNCHANGED owed
     \/ /\ OtherStep
        /\ owed' = [c \in Client |->
                      IF c \in departed' THEN 0
                      ELSE IF SentTo(c) # {} /\ owed[c] > 0 THEN owed[c] - 1
                      ELSE owed[c]]

ClientSpec == ClientInit /\ [][ClientNext]_clientVars
-----------------------------------------------------------------------------
(* Properties. *)

(* "If there is someone waiting on that queue, give it to them" (line 215):   *)
(* the client that is handed a departed client's job is waiting for one.      *)
HandedToSomeoneWaiting ==
  [][~Idle => \A c \in Client : SentTo(c) # {} => owed[c] > 0]_clientVars

(* "If assigned jobs, put them back in their queue" (line 211): a job that is *)
(* put back or handed over was assigned, and not in its queue already.        *)
OnlyAssignedPutBack ==
  [][~Idle => \A j \in jobs : job'[j] # job[j] => job[j].copies = 0]_clientVars
=============================================================================
