------------------------------- MODULE Proxy -------------------------------
(***************************************************************************)
(* One connection of the proxy (mob/mob.go): a goroutine that reads each   *)
(* side, the channel messageChan they send to, and the handler, which      *)
(* rewrites what it takes from the channel and writes it to the other      *)
(* side.  A side is named by the source of its messages.                   *)
(*                                                                         *)
(* A reader is at one of these places:                                     *)
(*   "check"     at the select on the context (lines 77, 109)              *)
(*   "read"      waiting for a line (lines 84, 116)                        *)
(*   "send"      sending the line to the channel (lines 98, 130)           *)
(*   "returned"                                                            *)
(* and the handler                                                         *)
(*   "select"    at the select (line 146)                                  *)
(*   "write"     in the WriteString of a line longer than the buffer of    *)
(*               its writer, to a side that does not read (line 169)       *)
(*   "flush"     in the Flush to a side that does not read (line 177)      *)
(*   "returned"  both connections are closed                               *)
(*                                                                         *)
(* A line is a sequence of words; the blanks between them, which the code  *)
(* normalises, are left out, and so is the unfinished line before an end   *)
(* of the stream, which the code drops.  The connection to the proxied     *)
(* server is there from the start: when it cannot be dialled the client's  *)
(* is closed and none of this runs (line 60).                              *)
(***************************************************************************)
EXTENDS Integers, Sequences, Picking

CONSTANTS
  Wallet,     \* words the regular expression matches
  Bogus,      \* the wallet of line 16, which it matches as well
  Line,       \* the lines the sides send
  Long,       \* those that, rewritten, do not fit in the 4096 bytes of a bufio.Writer
  Deaf,       \* sides that do not read what they are sent
  NoLine,
  Capacity,   \* of the channel: 32 in the code
  MaxLines    \* bound: lines a side sends

Side == {"client", "proxy"}

ASSUME ProxyAssumption ==
  /\ Bogus \in Wallet
  /\ NoLine \notin Line
  /\ Long \subseteq Line
  /\ \A line \in Line : DOMAIN line = 1..Len(line)
  /\ Deaf \subseteq Side
  /\ Capacity \in Nat \ {0}

VARIABLES
  sent,       \* side -> number of lines it has sent
  ended,      \* sides that have closed their connection, or their half of it
  input,      \* side -> lines it has sent that were not read
  reader,     \* side -> the place its reader is at
  held,       \* side -> the line its reader sends, or NoLine
  channel,
  cancelled,  \* the context is done
  handler,    \* the place the handler is at
  broken,     \* sides that a write failed to: their bufio.Writer fails from now on
  output      \* side -> the lines written to it; a write that fails may have cut the last

peerVars == <<sent, ended>>
readerVars == <<reader, held>>
proxyVars == <<peerVars, input, readerVars, channel, cancelled, handler, broken, output>>

Other(s) == IF s = "client" THEN "proxy" ELSE "client"

Rewritten(line) == [i \in 1..Len(line) |-> IF line[i] \in Wallet THEN Bogus ELSE line[i]]

Init ==
  /\ sent = [s \in Side |-> 0] /\ ended = {}
  /\ input = [s \in Side |-> <<>>]
  /\ reader = [s \in Side |-> "check"] /\ held = [s \in Side |-> NoLine]
  /\ channel = <<>> /\ cancelled = FALSE
  /\ handler = "select" /\ broken = {}
  /\ output = [s \in Side |-> <<>>]
-----------------------------------------------------------------------------
(* The two sides. *)

SendLine(s, line) ==
  /\ s \notin ended /\ handler # "returned"
  /\ sent[s] < MaxLines /\ sent' = [sent EXCEPT ![s] = @ + 1]
  /\ input' = [input EXCEPT ![s] = Append(@, line)]
  /\ UNCHANGED <<ended, readerVars, channel, cancelled, handler, broken, output>>

End(s) ==
  /\ s \notin ended
  /\ ended' = ended \cup {s}
  /\ UNCHANGED <<sent, input, readerVars, channel, cancelled, handler, broken, output>>
-----------------------------------------------------------------------------
(* The readers. *)

Check(s) ==
  /\ reader[s] = "check"
  /\ reader' = [reader EXCEPT ![s] = IF cancelled THEN "returned" ELSE "read"]
  /\ UNCHANGED <<peerVars, input, held, channel, cancelled, handler, broken, output>>

Read(s) ==
  /\ reader[s] = "read"
  /\ input[s] # <<>>
  /\ input' = [input EXCEPT ![s] = Tail(@)]
  /\ held' = [held EXCEPT ![s] = Head(input[s])]
  /\ reader' = [reader EXCEPT ![s] = "send"]
  /\ UNCHANGED <<peerVars, channel, cancelled, handler, broken, output>>

(* Mutant: the context is left alone. *)
LeftAlone == cancelled

CtxCancel == TRUE

(* Mutant: closing the connections is not deferred. *)
LeftOpen == FALSE

ConnectionsClosed == handler = "returned"

(* The end of the stream, or the connection that the handler has closed.      *)
ReadFails(s) ==
  /\ reader[s] = "read"
  /\ (s \in ended /\ input[s] = <<>>) \/ ConnectionsClosed
  /\ reader' = [reader EXCEPT ![s] = "returned"]
  /\ cancelled' = CtxCancel
  /\ UNCHANGED <<peerVars, input, held, channel, handler, broken, output>>

Room == Len(channel) < Capacity

(* Mutant: the goroutine does not loop. *)
NoLoop == "returned"

NextPlace == "check"

PassOn(s) ==
  /\ reader[s] = "send"
  /\ Room
  /\ channel' = Append(channel, [source |-> s, value |-> held[s]])
  /\ held' = [held EXCEPT ![s] = NoLine]
  /\ reader' = [reader EXCEPT ![s] = NextPlace]
  /\ UNCHANGED <<peerVars, input, cancelled, handler, broken, output>>
-----------------------------------------------------------------------------
(* The handler. *)

(* Mutant: the two writers are swapped. *)
BackTo(s) == s

(* The side whose writer takes the messages of s. *)
Writer(s) == Other(s)

Stuck == {"write", "flush"}

(* The message is written and flushed.  A flush to a side that has closed may *)
(* fail, which is not looked at before the next message for that side; one to *)
(* a side that does not read may not return, and a long line may hang before. *)
Forward ==
  /\ handler = "select"
  /\ channel # <<>>
  /\ channel' = Tail(channel)
  /\ LET t == Writer(Head(channel).source) IN
       /\ t \notin broken
       /\ \/ /\ output' = [output EXCEPT ![t] = Append(@, Rewritten(Head(channel).value))]
             /\ \/ handler' = "select"
                \/ t \in Deaf /\ handler' = "flush"
                \/ t \in Deaf /\ Head(channel).value \in Long /\ handler' = "write"
             /\ UNCHANGED broken
          \/ /\ t \in ended
             /\ broken' \in {broken, broken \cup {t}}
             /\ UNCHANGED <<output, handler>>
  /\ UNCHANGED <<peerVars, input, readerVars, cancelled>>

(* The flush fails if the side closes its connection, not only its half. *)
FlushFails ==
  /\ handler = "flush"
  /\ \E t \in Deaf \cap ended : broken' = broken \cup {t}
  /\ handler' = "select"
  /\ UNCHANGED <<peerVars, input, readerVars, channel, cancelled, output>>

(* A long line does not wait for the flush: WriteString sends what the buffer *)
(* does not hold, and its error is returned at once.                          *)
WriteFails ==
  /\ \/ handler = "write" /\ Deaf \cap ended # {} /\ UNCHANGED channel
     \/ /\ handler = "select" /\ channel # <<>>
        /\ Head(channel).value \in Long
        /\ Writer(Head(channel).source) \in ended
        /\ channel' = Tail(channel)
  /\ handler' = "returned"
  /\ cancelled' = TRUE
  /\ UNCHANGED <<peerVars, input, readerVars, broken, output>>

(* The deferred calls cancel the context and close both connections. *)
Return ==
  /\ handler = "select"
  /\ \/ cancelled /\ UNCHANGED channel
     \/ /\ channel # <<>>
        /\ Writer(Head(channel).source) \in broken
        /\ channel' = Tail(channel)
  /\ handler' = "returned"
  /\ cancelled' = TRUE
  /\ UNCHANGED <<peerVars, input, readerVars, broken, output>>

Next ==
  \/ \E s \in Side :
       \/ \E line \in Line : SendLine(s, line)
       \/ End(s) \/ Check(s) \/ Read(s) \/ ReadFails(s) \/ PassOn(s)
  \/ Forward \/ FlushFails \/ WriteFails \/ Return

(* Goroutines run when they can, blocked senders are served in turn, and the  *)
(* select of the handler picks at random.  Sides need not send, end or read.  *)
Fairness ==
  /\ \A s \in Side :
       /\ WF_proxyVars(Check(s) \/ Read(s) \/ ReadFails(s))
       /\ SF_proxyVars(PassOn(s))
  /\ WF_proxyVars(Forward)
  /\ SF_proxyVars(Return)

Spec == Init /\ [][Next]_proxyVars

FairSpec == Spec /\ Fairness
-----------------------------------------------------------------------------
(* Properties. *)

(* The lines of a side that are on their way: in the channel, in the hands of *)
(* its reader, and not yet read.                                              *)
OnTheWay(s) ==
  Picked([i \in 1..Len(channel) |-> channel[i].value],
         {i \in 1..Len(channel) : channel[i].source = s})
    \o (IF held[s] = NoLine THEN <<>> ELSE <<held[s]>>)
    \o input[s]

R == INSTANCE Relay WITH
  passing <- [s \in Side |-> IF handler = "returned" THEN <<>> ELSE OnTheWay(s)],
  delivered <- [s \in Side |-> output[Other(s)]],
  closed <- handler = "returned"

(* The proxy implements the relay: whatever the two readers and the handler   *)
(* interleave, no line is lost, doubled, changed but for its wallets, sent    *)
(* back, or overtaken while both sides are there, and the proxy does not      *)
(* close before one of them has ended.                                        *)
ImplementsRelay == R!Spec

(* While both sides are there and read, what one sends arrives. *)
LinesArrive ==
  []<>(handler \notin Stuck) =>
    \A s \in Side : OnTheWay(s) # <<>> ~> OnTheWay(s) = <<>> \/ ended # {}

(* When a side ends, both connections are closed in the end, unless the       *)
(* handler is for ever in a write to a side that does not read.               *)
EndReachesBoth ==
  []<>(handler \notin Stuck) => (ended # {} ~> handler = "returned")

(* After that the readers return, except one that waits for a place in the    *)
(* full channel that nobody takes from any more.                              *)
ReadersReturn ==
  \A s \in Side :
    handler = "returned" ~>
      \/ reader[s] = "returned"
      \/ reader[s] = "send" /\ Len(channel) = Capacity
=============================================================================
