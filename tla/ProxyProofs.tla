---------------------------- MODULE ProxyProofs ----------------------------
(***************************************************************************)
(* Theorems about Proxy, for every set of lines and wallets, any capacity  *)
(* of the channel, and sides that read or do not: a connection of the      *)
(* proxy implements the relay.                                             *)
(***************************************************************************)
EXTENDS Proxy, DataLemmas

Message == [source : Side, value : Line]

(* A reader holds a line exactly while it sends it. *)
LinesTyped ==
  /\ channel \in Seq(Message)
  /\ input \in [Side -> Seq(Line)]
  /\ DOMAIN reader = Side
  /\ held \in [Side -> Line \cup {NoLine}]
  /\ DOMAIN output = Side
  /\ \A s \in Side : held[s] = NoLine <=> reader[s] # "send"

(* Nothing fails, and so nothing is given up, before a side has ended. *)
FailuresExplained ==
  /\ broken \subseteq ended
  /\ cancelled \/ handler = "returned" => ended # {}

ProxyInv == LinesTyped /\ FailuresExplained

LEMMA ProxyStart == ASSUME Init PROVE ProxyInv
BY DEF Init, ProxyInv, LinesTyped, FailuresExplained

LEMMA OtherSide ==
  /\ \A s \in Side : Other(s) \in Side /\ Other(Other(s)) = s /\ Other(s) # s
  /\ \A s, t \in Side : t = s \/ t = Other(s)
BY DEF Side, Other

LEMMA HeadOfChannel ==
  ASSUME LinesTyped, channel # <<>>
  PROVE  /\ Head(channel) = channel[1] /\ channel[1].source \in Side /\ channel[1].value \in Line
         /\ Tail(channel) \in Seq(Message)
<1>1. channel \in Seq(Message) /\ 1 \in 1..Len(channel)
  BY DEF LinesTyped
<1>2. channel[1] \in Message
  BY <1>1, ElementOfSeq
<1>3. channel[1].source \in Side /\ channel[1].value \in Line
  BY <1>2, Zenon DEF Message
<1> QED
  BY <1>1, <1>3

LEMMA LinesStep ==
  ASSUME LinesTyped, [Next]_proxyVars
  PROVE  LinesTyped'
<1>1. ASSUME NEW s \in Side, NEW line \in Line, SendLine(s, line)
      PROVE  LinesTyped'
  <2>1. Append(input[s], line) \in Seq(Line)
    BY <1>1 DEF LinesTyped
  <2>2. input' \in [Side -> Seq(Line)]
    BY <1>1, <2>1 DEF SendLine, LinesTyped
  <2> QED
    BY <1>1, <2>2 DEF SendLine, readerVars, LinesTyped
<1>2. ASSUME NEW s \in Side, Read(s)
      PROVE  LinesTyped'
  <2>1. input[s] \in Seq(Line) /\ input[s] # <<>>
    BY <1>2 DEF Read, LinesTyped
  <2>2. Tail(input[s]) \in Seq(Line) /\ Head(input[s]) \in Line
    BY <2>1
  <2>3. input' \in [Side -> Seq(Line)] /\ held' \in [Side -> Line \cup {NoLine}]
    BY <1>2, <2>2 DEF Read, LinesTyped
  <2>4. \A t \in Side : held'[t] = NoLine <=> reader'[t] # "send"
    BY <1>2, <2>2, ProxyAssumption DEF Read, LinesTyped
  <2> QED
    BY <1>2, <2>3, <2>4 DEF Read, LinesTyped
<1>3. ASSUME NEW s \in Side, Check(s) \/ ReadFails(s)
      PROVE  LinesTyped'
  BY <1>3 DEF Check, ReadFails, LinesTyped
<1>4. ASSUME NEW s \in Side, PassOn(s)
      PROVE  LinesTyped'
  <2>1. [source |-> s, value |-> held[s]] \in Message
    BY <1>4 DEF PassOn, LinesTyped, Message
  <2>2. channel' \in Seq(Message)
    BY <1>4, <2>1 DEF PassOn, LinesTyped
  <2>3. \A t \in Side : held'[t] = NoLine <=> reader'[t] # "send"
    BY <1>4 DEF PassOn, LinesTyped, NextPlace
  <2> QED
    BY <1>4, <2>2, <2>3 DEF PassOn, LinesTyped
<1>5. CASE Forward \/ WriteFails \/ Return
  <2>1. channel' \in Seq(Message)
    BY <1>5, HeadOfChannel DEF Forward, WriteFails, Return, LinesTyped
  <2>2. DOMAIN output' = Side
    BY <1>5 DEF Forward, WriteFails, Return, LinesTyped
  <2> QED
    BY <1>5, <2>1, <2>2 DEF Forward, WriteFails, Return, readerVars, LinesTyped
<1>6. CASE FlushFails \/ UNCHANGED proxyVars \/ \E s \in Side : End(s)
  BY <1>6 DEF FlushFails, End, proxyVars, readerVars, LinesTyped
<1> QED
  BY <1>1, <1>2, <1>3, <1>4, <1>5, <1>6 DEF Next

LEMMA ProxyStep ==
  ASSUME ProxyInv, [Next]_proxyVars
  PROVE  ProxyInv'
<1>1. LinesTyped'
  BY LinesStep DEF ProxyInv
<1>2. ASSUME UNCHANGED <<ended, broken, cancelled, handler>>
      PROVE  FailuresExplained'
  BY <1>2 DEF ProxyInv, FailuresExplained
<1>3. ASSUME NEW s \in Side, (\E line \in Line : SendLine(s, line)) \/ Check(s) \/ Read(s) \/ PassOn(s)
      PROVE  FailuresExplained'
  BY <1>2, <1>3 DEF SendLine, Check, Read, PassOn, peerVars
<1>4. ASSUME NEW s \in Side, End(s) \/ ReadFails(s)
      PROVE  FailuresExplained'
  BY <1>4 DEF End, ReadFails, ConnectionsClosed, CtxCancel, peerVars, ProxyInv, FailuresExplained
<1>5. CASE Forward
  BY <1>1, <1>5 DEF Forward, peerVars, ProxyInv, FailuresExplained
<1>6. CASE FlushFails \/ WriteFails \/ Return
  BY <1>1, <1>6 DEF FlushFails, WriteFails, Return, peerVars, ProxyInv, FailuresExplained
<1>7. CASE UNCHANGED proxyVars
  BY <1>1, <1>2, <1>7 DEF proxyVars, peerVars, ProxyInv
<1> QED
  BY <1>1, <1>3, <1>4, <1>5, <1>6, <1>7 DEF Next, ProxyInv
-----------------------------------------------------------------------------
(* The refinement of Relay.  The lines of a side that are on their way: those *)
(* in the channel, the one its reader holds, and those it has not read.       *)

Values == [i \in 1..Len(channel) |-> channel[i].value]

Sources == [i \in 1..Len(channel) |-> channel[i].source]

InChannel(s) == Picked(Values, PositionsOf(Sources, Len(channel), s))

InHand(s) == IF held[s] = NoLine THEN <<>> ELSE <<held[s]>>

Passing == [s \in Side |-> IF handler = "returned" THEN <<>> ELSE OnTheWay(s)]

Delivered == [s \in Side |-> output[Other(s)]]

LEMMA ThreeStages ==
  ASSUME NEW s
  PROVE  /\ OnTheWay(s) = InChannel(s) \o InHand(s) \o input[s]
         /\ OnTheWay(s)' = InChannel(s)' \o InHand(s)' \o input'[s]
<1>1. PositionsOf(Sources, Len(channel), s) = {i \in 1..Len(channel) : channel[i].source = s}
  BY DEF PositionsOf, Sources
<1>2. PositionsOf(Sources', Len(channel'), s) = {i \in 1..Len(channel') : channel'[i].source = s}
  BY DEF PositionsOf, Sources
<1> QED
  BY <1>1, <1>2 DEF OnTheWay, InChannel, InHand, Values

LEMMA InChannelSeq ==
  ASSUME LinesTyped, NEW s
  PROVE  InChannel(s) \in Seq(Line)
<1>1. Len(channel) \in Nat /\ \A i \in 1..Len(channel) : channel[i] \in Message
  BY ElementOfSeq DEF LinesTyped
<1>2. \A i \in 1..Len(channel) : Values[i] \in Line
  BY <1>1 DEF Values, Message
<1> QED
  BY <1>1, <1>2, StreamSeq DEF InChannel

LEMMA InHandSeq ==
  ASSUME LinesTyped, NEW s \in Side
  PROVE  InHand(s) \in Seq(Line) /\ input[s] \in Seq(Line)
BY DEF LinesTyped, InHand

(* A message that is sent is the last of its side. *)
LEMMA ChannelAppend ==
  ASSUME LinesTyped, NEW m \in Message, channel' = Append(channel, m), NEW s
  PROVE  InChannel(s)' = IF m.source = s THEN Append(InChannel(s), m.value) ELSE InChannel(s)
<1>1. /\ Len(channel) \in Nat /\ Len(channel') = Len(channel) + 1
      /\ channel'[Len(channel) + 1] = m
      /\ \A i \in 1..Len(channel) : channel'[i] = channel[i]
  BY DEF LinesTyped
<1>2. SameFirst(Len(channel), Sources, Values, Sources', Values')
  BY <1>1 DEF SameFirst, Sources, Values
<1>3. Sources'[Len(channel) + 1] = m.source /\ Values'[Len(channel) + 1] = m.value
  BY <1>1 DEF Sources, Values
<1>4. InChannel(s)' = Picked(Values', PositionsOf(Sources', Len(channel) + 1, s))
  BY <1>1 DEF InChannel
<1>5. CASE m.source = s
  <2>1. InChannel(s)' = Append(Picked(Values, PositionsOf(Sources, Len(channel), s)), m.value)
    BY <1>1, <1>2, <1>3, <1>4, <1>5, StreamAppend
  <2> QED
    BY <1>5, <2>1 DEF InChannel
<1>6. CASE m.source # s
  <2>1. InChannel(s)' = Picked(Values, PositionsOf(Sources, Len(channel), s))
    BY <1>1, <1>2, <1>3, <1>4, <1>6, StreamAppend
  <2> QED
    BY <1>6, <2>1 DEF InChannel
<1> QED
  BY <1>5, <1>6

(* The message at the head of the channel is the first of its side. *)
LEMMA ChannelTail ==
  ASSUME LinesTyped, channel # <<>>, channel' = Tail(channel), NEW s
  PROVE  /\ InChannel(s) = IF channel[1].source = s THEN <<channel[1].value>> \o InChannel(s)'
                                                    ELSE InChannel(s)'
         /\ InChannel(s)' \in Seq(Line)
<1> PICK n : n = Len(channel')
  OBVIOUS
<1>1. /\ n \in Nat /\ Len(channel) = n + 1
      /\ \A i \in 1..n : channel'[i] = channel[i + 1] /\ i + 1 \in 1..Len(channel)
  BY DEF LinesTyped
<1>2. SameLast(n, Sources, Values, Sources', Values')
  BY <1>1 DEF SameLast, Sources, Values
<1>3. Sources[1] = channel[1].source /\ Values[1] = channel[1].value
  BY <1>1 DEF Sources, Values
<1>4. InChannel(s)' \in Seq(Line)
  <2>1. \A i \in 1..Len(channel) : channel[i] \in Message
    BY ElementOfSeq DEF LinesTyped
  <2>2. \A i \in 1..n : Values'[i] \in Line
    BY <1>1, <2>1 DEF Values, Message
  <2> QED
    BY <1>1, <2>2, StreamSeq DEF InChannel
<1> QED
  BY <1>1, <1>2, <1>3, <1>4, StreamTail DEF InChannel

LEMMA RelayMapped ==
  /\ Passing = [s \in Side |-> IF handler = "returned" THEN <<>> ELSE OnTheWay(s)]
  /\ Passing' = [s \in Side |-> IF handler' = "returned" THEN <<>> ELSE OnTheWay(s)']
  /\ Delivered = [s \in Side |-> output[Other(s)]]
  /\ Delivered' = [s \in Side |-> output'[Other(s)]]
BY DEF Passing, Delivered

(* The mapped state of Relay does not change. *)
LEMMA RelayKept ==
  ASSUME \A s \in Side : OnTheWay(s)' = OnTheWay(s),
         handler' = "returned" <=> handler = "returned", UNCHANGED <<output, ended>>
  PROVE  UNCHANGED R!relayVars
BY DEF R!relayVars

LEMMA RelayStart == ASSUME Init PROVE R!Init
<1>1. \A s \in Side : OnTheWay(s) = <<>>
  <2>1. \A s \in Side : InChannel(s) = <<>>
    BY FS_EmptySet DEF Init, InChannel, PositionsOf, Picked
  <2>2. \A s \in Side : InHand(s) = <<>> /\ input[s] = <<>>
    BY DEF Init, InHand
  <2>3. <<>> \o <<>> \o <<>> = <<>>
    OBVIOUS
  <2>4. \A s : OnTheWay(s) = InChannel(s) \o InHand(s) \o input[s]
    BY ThreeStages
  <2> QED
    BY <2>1, <2>2, <2>3, <2>4
<1>2. \A s \in Side : output[Other(s)] = <<>>
  BY OtherSide DEF Init
<1> QED
  BY <1>1, <1>2 DEF Init, R!Init

(* Where a line joins and leaves three stages that follow one another. *)
LEMMA AppendedLast ==
  ASSUME NEW a \in Seq(Line), NEW b \in Seq(Line), NEW c \in Seq(Line), NEW x \in Line
  PROVE  a \o b \o Append(c, x) = Append(a \o b \o c, x)
<1>1. a \o b \in Seq(Line)
  OBVIOUS
<1>2. ASSUME NEW d \in Seq(Line)
      PROVE  d \o Append(c, x) = Append(d \o c, x)
  OBVIOUS
<1> QED
  BY <1>1, <1>2, Zenon

LEMMA TakenFirst ==
  ASSUME NEW a \in Seq(Line), NEW c \in Seq(Line), c # <<>>
  PROVE  a \o <<Head(c)>> \o Tail(c) = a \o <<>> \o c
<1>1. <<Head(c)>> \o Tail(c) = c /\ Head(c) \in Line /\ Tail(c) \in Seq(Line)
  OBVIOUS
<1>2. (a \o <<Head(c)>>) \o Tail(c) = a \o (<<Head(c)>> \o Tail(c))
  BY <1>1
<1>3. a \o <<>> = a
  OBVIOUS
<1> QED
  BY <1>1, <1>2, <1>3

LEMMA OneFirst ==
  ASSUME NEW a \in Seq(Line), NEW b \in Seq(Line), NEW c \in Seq(Line), NEW x \in Line
  PROVE  (<<x>> \o a) \o b \o c = <<x>> \o (a \o b \o c)
OBVIOUS

LEMMA OldestFirst ==
  ASSUME NEW s, InChannel(s)' \in Seq(Line), InHand(s) \in Seq(Line), input[s] \in Seq(Line), NEW x \in Line
  PROVE  (<<x>> \o InChannel(s)') \o InHand(s) \o input[s] =
            <<x>> \o (InChannel(s)' \o InHand(s) \o input[s])
BY OneFirst

LEMMA SendRefines ==
  ASSUME ProxyInv, NEW s \in Side, NEW line \in Line, SendLine(s, line)
  PROVE  R!Send(s, line)
<1>1. /\ handler # "returned" /\ s \notin ended /\ UNCHANGED <<channel, held, output, ended, handler>>
      /\ input' = [input EXCEPT ![s] = Append(input[s], line)]
  BY DEF SendLine, readerVars
<1>2. \A t \in Side : InChannel(t)' = InChannel(t) /\ InHand(t)' = InHand(t)
  BY <1>1 DEF InChannel, Values, Sources, InHand
<1>3. OnTheWay(s)' = Append(OnTheWay(s), line)
  <2>1. InChannel(s) \in Seq(Line) /\ InHand(s) \in Seq(Line) /\ input[s] \in Seq(Line)
    BY InChannelSeq, InHandSeq DEF ProxyInv
  <2>2. input'[s] = Append(input[s], line)
    BY <1>1 DEF ProxyInv, LinesTyped
  <2>3. InChannel(s) \o InHand(s) \o Append(input[s], line) =
          Append(InChannel(s) \o InHand(s) \o input[s], line)
    BY <2>1, AppendedLast, Zenon
  <2> QED
    BY <1>2, <2>2, <2>3, ThreeStages
<1>4. \A t \in Side \ {s} : OnTheWay(t)' = OnTheWay(t)
  <2> TAKE t \in Side \ {s}
  <2>1. input'[t] = input[t]
    BY <1>1 DEF ProxyInv, LinesTyped
  <2> QED
    BY <1>2, <2>1, ThreeStages
<1>5. Passing' = [Passing EXCEPT ![s] = Append(Passing[s], line)]
  BY <1>1, <1>3, <1>4 DEF Passing
<1> QED
  BY <1>1, <1>5, RelayMapped DEF R!Send

(* A line passes from the side to its reader, and from there to the channel,  *)
(* and is on its way as before.                                               *)
LEMMA ReadRefines ==
  ASSUME ProxyInv, NEW s \in Side, Read(s)
  PROVE  UNCHANGED R!relayVars
<1>1. /\ input[s] # <<>> /\ held[s] = NoLine /\ UNCHANGED <<channel, output, ended, handler>>
      /\ input[s] \in Seq(Line) /\ InChannel(s) \in Seq(Line)
  BY InChannelSeq DEF Read, peerVars, ProxyInv, LinesTyped
<1>2. \A t \in Side : InChannel(t)' = InChannel(t)
  BY <1>1 DEF InChannel, Values, Sources
<1>3. Head(input[s]) \in Line /\ Tail(input[s]) \in Seq(Line) /\ Head(input[s]) # NoLine
  BY <1>1, ProxyAssumption
<1>4. input'[s] = Tail(input[s]) /\ InHand(s) = <<>> /\ InHand(s)' = <<Head(input[s])>>
  BY <1>1, <1>3 DEF Read, InHand, ProxyInv, LinesTyped
<1>5. InChannel(s) \o <<Head(input[s])>> \o Tail(input[s]) = InChannel(s) \o <<>> \o input[s]
  BY <1>1, TakenFirst
<1>6. OnTheWay(s)' = OnTheWay(s)
  BY <1>2, <1>4, <1>5, ThreeStages
<1>7. \A t \in Side \ {s} : OnTheWay(t)' = OnTheWay(t)
  <2> TAKE t \in Side \ {s}
  <2>1. input'[t] = input[t] /\ InHand(t)' = InHand(t)
    BY DEF Read, InHand, ProxyInv, LinesTyped
  <2> QED
    BY <1>2, <2>1, ThreeStages
<1> QED
  BY <1>1, <1>6, <1>7, RelayKept

LEMMA PassOnRefines ==
  ASSUME ProxyInv, NEW s \in Side, PassOn(s)
  PROVE  UNCHANGED R!relayVars
<1> PICK m : m = [source |-> s, value |-> held[s]]
  OBVIOUS
<1>1. /\ held[s] \in Line /\ m \in Message /\ m.source = s /\ m.value = held[s] /\ held[s] # NoLine
      /\ channel' = Append(channel, m) /\ UNCHANGED <<input, output, ended, handler>>
  BY DEF PassOn, peerVars, ProxyInv, LinesTyped, Message
<1>2. \A t \in Side : InChannel(t)' = IF t = s THEN Append(InChannel(t), held[s]) ELSE InChannel(t)
  BY <1>1, ChannelAppend DEF ProxyInv
<1>3. InHand(s) = <<held[s]>> /\ InHand(s)' = <<>>
  BY <1>1 DEF PassOn, InHand, ProxyInv, LinesTyped
<1>4. Append(InChannel(s), held[s]) \o <<>> \o input[s] = InChannel(s) \o <<held[s]>> \o input[s]
  <2>1. InChannel(s) \in Seq(Line) /\ input[s] \in Seq(Line)
    BY InChannelSeq, InHandSeq DEF ProxyInv
  <2>2. Append(InChannel(s), held[s]) \o <<>> = InChannel(s) \o <<held[s]>>
    BY <1>1, <2>1
  <2> QED
    BY <2>2
<1>5. OnTheWay(s)' = OnTheWay(s)
  BY <1>1, <1>2, <1>3, <1>4, ThreeStages
<1>6. \A t \in Side \ {s} : OnTheWay(t)' = OnTheWay(t)
  <2> TAKE t \in Side \ {s}
  <2>1. InHand(t)' = InHand(t)
    BY DEF PassOn, InHand, ProxyInv, LinesTyped
  <2> QED
    BY <1>1, <1>2, <2>1, ThreeStages
<1> QED
  BY <1>1, <1>5, <1>6, RelayKept

(* The oldest line of a side that is on its way arrives at the other, or is   *)
(* lost if that one has ended.                                                *)
LEMMA ForwardRefines ==
  ASSUME ProxyInv, Forward, NEW s, NEW line, channel[1].source = s, channel[1].value = line
  PROVE  R!Arrive(s) /\ s \in Side
<1>1. /\ s \in Side /\ line \in Line /\ Head(channel) = channel[1]
      /\ channel # <<>> /\ channel' = Tail(channel)
      /\ handler # "returned" /\ handler' # "returned"
      /\ UNCHANGED <<input, held, ended>>
  BY HeadOfChannel DEF Forward, peerVars, readerVars, ProxyInv
<1>2. \A t \in Side : /\ InChannel(t) = IF s = t THEN <<line>> \o InChannel(t)' ELSE InChannel(t)'
                      /\ InChannel(t)' \in Seq(Line)
  BY <1>1, ChannelTail DEF ProxyInv
<1>3. \A t \in Side : InHand(t)' = InHand(t) /\ InHand(t) \in Seq(Line) /\ input[t] \in Seq(Line)
  BY <1>1, InHandSeq DEF InHand, ProxyInv
<1>4. OnTheWay(s) # <<>> /\ Head(OnTheWay(s)) = line /\ OnTheWay(s)' = Tail(OnTheWay(s))
  <2>2. /\ InChannel(s)' \in Seq(Line) /\ InHand(s) \in Seq(Line) /\ input[s] \in Seq(Line)
        /\ line \in Line
    BY <1>1, <1>2, <1>3
  <2>3. OnTheWay(s) = <<line>> \o OnTheWay(s)'
    BY <1>1, <1>2, <1>3, <2>2, OldestFirst, ThreeStages
  <2>4. OnTheWay(s)' \in Seq(Line)
    <3>1. OnTheWay(s)' = InChannel(s)' \o InHand(s) \o input[s]
      BY <1>1, <1>3, ThreeStages
    <3> QED
      BY <2>2, <3>1
  <2> QED
    BY <2>2, <2>3, <2>4
<1>5. \A t \in Side \ {s} : OnTheWay(t)' = OnTheWay(t)
  BY <1>1, <1>2, <1>3, ThreeStages
<1>6. /\ Passing[s] # <<>> /\ Head(Passing[s]) = line
      /\ Passing' = [Passing EXCEPT ![s] = Tail(Passing[s])]
  BY <1>1, <1>4, <1>5 DEF Passing
<1>7. Rewritten(line) = R!Clean(line)
  BY <1>1, ProxyAssumption DEF Rewritten, R!Clean
<1>8. \/ Delivered' = [Delivered EXCEPT ![s] = Append(Delivered[s], R!Clean(line))]
      \/ Other(s) \in ended /\ Delivered' = Delivered
  <2>1. CASE output' = [output EXCEPT ![Other(s)] = Append(output[Other(s)], Rewritten(line))]
    <3>1. /\ output'[Other(s)] = Append(output[Other(s)], Rewritten(line))
          /\ \A t \in Side \ {s} : output'[Other(t)] = output[Other(t)]
      BY <1>1, <2>1, OtherSide DEF ProxyInv, LinesTyped
    <3> QED
      BY <1>1, <1>7, <3>1 DEF Delivered
  <2>2. CASE Other(s) \in ended /\ UNCHANGED output
    BY <2>2 DEF Delivered
  <2> QED
    BY <1>1, <2>1, <2>2 DEF Forward, Writer
<1>9. R!Arrive(s)
  BY <1>1, <1>6, <1>8, RelayMapped DEF R!Arrive
<1> QED
  BY <1>1, <1>9

LEMMA ReturnRefines ==
  ASSUME ProxyInv, Return \/ WriteFails
  PROVE  R!Close
<1>1. ended # {} /\ handler' = "returned" /\ UNCHANGED <<ended, output>>
  BY DEF Return, WriteFails, peerVars, ProxyInv, FailuresExplained
<1> QED
  BY <1>1 DEF R!Close

(* What is written to a side are lines of the other, each once, in their      *)
(* order and with every wallet replaced (mob.go:75-172), whatever the two     *)
(* readers and the handler interleave.  While both sides are there no line is *)
(* lost and the proxy does not close; once one of them has ended, the lines   *)
(* on their way to it may be lost, and when it closes those of both           *)
(* directions.  That lines arrive at all is not part of this theorem.         *)
THEOREM ProxyImplementsRelay == Spec => ImplementsRelay
<1>1. ASSUME ProxyInv, [Next]_proxyVars
      PROVE  [R!Next]_(R!relayVars)
  <2>1. ASSUME NEW s \in Side, NEW line \in Line, SendLine(s, line)
        PROVE  R!Next
    BY <1>1, <2>1, SendRefines DEF R!Next
  <2>2. ASSUME NEW s \in Side, End(s)
        PROVE  R!Next
    <3>1. /\ ended' = ended \cup {s} /\ UNCHANGED <<channel, held, input, output, handler>>
      BY <2>2 DEF End, readerVars
    <3>2. R!End(s)
      BY <3>1 DEF R!End, OnTheWay
    <3> QED
      BY <3>2 DEF R!Next
  <2>3. ASSUME NEW s \in Side, Check(s) \/ ReadFails(s)
        PROVE  UNCHANGED R!relayVars
    BY <2>3 DEF Check, ReadFails, peerVars, R!relayVars, OnTheWay
  <2>4. ASSUME NEW s \in Side, Read(s) \/ PassOn(s)
        PROVE  UNCHANGED R!relayVars
    BY <1>1, <2>4, ReadRefines, PassOnRefines
  <2>5. CASE Forward
    BY <1>1, <2>5, ForwardRefines DEF R!Next
  <2>6. CASE FlushFails
    BY <2>6 DEF FlushFails, peerVars, readerVars, R!relayVars, OnTheWay
  <2>7. CASE Return \/ WriteFails
    BY <1>1, <2>7, ReturnRefines DEF R!Next
  <2>8. CASE UNCHANGED proxyVars
    BY <2>8 DEF proxyVars, peerVars, readerVars, R!relayVars, OnTheWay
  <2> QED
    BY <1>1, <2>1, <2>2, <2>3, <2>4, <2>5, <2>6, <2>7, <2>8 DEF Next
<1> QED
  BY <1>1, RelayStart, ProxyStart, ProxyStep, PTL DEF Spec, R!Spec, ImplementsRelay
=============================================================================
