-------------------------- MODULE CollectorProofs --------------------------
(***************************************************************************)
(* Safety of the collector, for every set of streams, pushes and messages, *)
(* whatever the parsers make of a push.  The inductive invariant ties the  *)
(* messages a handler has in hand, and those that are in the topic, to the *)
(* push they were parsed from, and says where each parsed message is that  *)
(* was not given up: in the topic or still to be sent.                     *)
(*                                                                         *)
(* What the parsers must do is a hypothesis of the two theorems about      *)
(* loss and invention: they hold for every dispatch that sends what the    *)
(* messages can carry of the reports.                                      *)
(***************************************************************************)
EXTENDS Collector, SequenceTheorems, TLAPS

ParsedMessages(p) == {Parsed[p][i] : i \in DOMAIN Parsed[p]}

\* dispatch sends all the reports of a push, as messages carry them, and a push
\* that does not decode reports nothing.
ParsersComplete ==
  /\ \A p \in Pushes : \A r \in Meaning[p] : Carried[r] \in ParsedMessages(p)
  /\ \A p \in Undecodable : Meaning[p] = {}

\* dispatch sends nothing else.
ParsersSound == \A p \in Pushes : ParsedMessages(p) \subseteq {Carried[r] : r \in Meaning[p]}

\* What a handler has still to send is of the last push of its stream.
WorkOf(s) ==
  /\ conn[s] = "busy" => Len(recvd[s]) > 0
  /\ \A i \in DOMAIN todo[s] :
       /\ todo[s][i].n = Len(recvd[s])
       /\ todo[s][i].msg \in ParsedMessages(recvd[s][Len(recvd[s])])

WorkInv == \A s \in Streams : WorkOf(s)

\* What is in the topic was parsed from the push it names.
Genuine(e) ==
  /\ e.n \in DOMAIN recvd[e.from]
  /\ e.msg \in ParsedMessages(recvd[e.from][e.n])

TopicInv == \A i \in DOMAIN topic : Genuine(topic[i])

InWork(s, n, m) == InHand(s, n) /\ \E i \in DOMAIN todo[s] : todo[s][i].msg = m

\* What was parsed and not given up is in the topic or still to be sent.
SentInv ==
  \A s \in Streams : \A n \in DOMAIN recvd[s] :
    <<s, n>> \notin lost /\ recvd[s][n] \notin Undecodable =>
      \A m \in ParsedMessages(recvd[s][n]) : InTopic(s, n, m) \/ InWork(s, n, m)

IInv == TypeOK /\ WorkInv /\ TopicInv /\ OrderPerStream /\ SentInv

-----------------------------------------------------------------------------
(* Facts about single definitions. *)

Entry == [from: Streams, n: Numbers, msg: Messages]

\* Entries are put behind the topic, all of them e.
Appended(e) ==
  /\ Len(topic') >= Len(topic)
  /\ \A i \in 1..Len(topic) : topic'[i] = topic[i]
  /\ \A i \in (Len(topic) + 1)..Len(topic') : topic'[i] = e

\* The message a handler sends, and what is left behind it.
LEMMA SentFacts ==
  ASSUME IInv, NEW s \in Streams, todo[s] # <<>>
  PROVE  /\ Sent(s) \in Entry
         /\ Sent(s).from = s /\ Sent(s).n = Len(recvd[s]) /\ Sent(s).msg = todo[s][1].msg
         /\ Len(recvd[s]) > 0
         /\ 1 \in DOMAIN todo[s]
         /\ Genuine(Sent(s))
         /\ Tail(todo[s]) \in Seq(Pending)
         /\ \A i \in DOMAIN Tail(todo[s]) :
              i + 1 \in DOMAIN todo[s] /\ Tail(todo[s])[i] = todo[s][i + 1]
         /\ \A i \in DOMAIN todo[s] : i = 1 \/ (i - 1 \in DOMAIN Tail(todo[s])
                                               /\ Tail(todo[s])[i - 1] = todo[s][i])
<1> USE DEF IInv
<1>1. todo[s] \in Seq(Pending) /\ recvd[s] \in Seq(Pushes) /\ Len(todo[s]) \in Nat
      /\ Len(recvd[s]) \in Nat
  BY DEF TypeOK
<1>2. 1 \in DOMAIN todo[s] /\ Head(todo[s]) = todo[s][1] /\ todo[s][1] \in Pending
      /\ Len(todo[s]) >= 1
  BY <1>1
<1>3. conn[s] = "busy" /\ Len(recvd[s]) > 0
  BY DEF TypeOK, WorkInv, WorkOf
<1>4. todo[s][1].n = Len(recvd[s]) /\ todo[s][1].msg \in ParsedMessages(recvd[s][Len(recvd[s])])
  BY <1>2 DEF WorkInv, WorkOf
<1>5. todo[s][1].n \in Numbers /\ todo[s][1].msg \in Messages
  BY <1>2 DEF Pending
<1>6. /\ Sent(s) \in Entry
      /\ Sent(s).from = s /\ Sent(s).n = Len(recvd[s]) /\ Sent(s).msg = todo[s][1].msg
  BY <1>2, <1>4, <1>5 DEF Sent, Entry
<1>7. Len(recvd[s]) \in DOMAIN recvd[s]
  BY <1>1, <1>3
<1>8. Genuine(Sent(s))
  BY <1>4, <1>6, <1>7 DEF Genuine
<1>9. /\ Tail(todo[s]) \in Seq(Pending) /\ Len(Tail(todo[s])) = Len(todo[s]) - 1
      /\ \A i \in 1..Len(Tail(todo[s])) : Tail(todo[s])[i] = todo[s][i + 1]
  BY <1>1, <1>2
<1>10. DOMAIN Tail(todo[s]) = 1..(Len(todo[s]) - 1) /\ DOMAIN todo[s] = 1..Len(todo[s])
  BY <1>1, <1>9
<1> QED BY <1>1, <1>2, <1>3, <1>6, <1>8, <1>9, <1>10

\* What the topic holds.
LEMMA TopicEntries ==
  ASSUME TypeOK
  PROVE  /\ topic \in Seq(Entry) /\ Len(topic) \in Nat /\ DOMAIN topic = 1..Len(topic)
         /\ \A i \in DOMAIN topic : topic[i] \in Entry /\ topic[i].from \in Streams
<1>1. topic \in Seq(Entry)
  BY DEF TypeOK, Entry
<1>2. \A i \in DOMAIN topic : topic[i] \in Entry
  BY <1>1
<1>3. \A e \in Entry : e.from \in Streams
  BY DEF Entry
<1> QED BY <1>1, <1>2, <1>3

\* SendMessage appends nothing, one or two copies.
LEMMA AppendedFacts ==
  ASSUME IInv, NEW e \in Entry,
         topic' \in {topic, Append(topic, e), topic \o <<e, e>>}
  PROVE  topic' \in Seq(Entry) /\ Appended(e)
         /\ (topic' \in {Append(topic, e), topic \o <<e, e>>} => Len(topic') > Len(topic))
<1>1. topic \in Seq(Entry) /\ Len(topic) \in Nat
  BY DEF IInv, TypeOK, Entry
<1>2. CASE topic' = topic /\ topic' \notin {Append(topic, e), topic \o <<e, e>>}
  BY <1>1, <1>2 DEF Appended
<1>3. CASE topic' = Append(topic, e)
  BY <1>1, <1>3 DEF Appended
<1>4. CASE topic' = topic \o <<e, e>>
  <2>1. <<e, e>> \in Seq(Entry) /\ Len(<<e, e>>) = 2
    OBVIOUS
  <2>2. topic' \in Seq(Entry) /\ Len(topic') = Len(topic) + 2
    BY <1>1, <1>4, <2>1, ConcatProperties
  <2>3. \A i \in 1..(Len(topic) + 2) :
          topic'[i] = IF i <= Len(topic) THEN topic[i] ELSE <<e, e>>[i - Len(topic)]
    BY <1>1, <1>4, <2>1, ConcatProperties
  <2>4. \A i \in (Len(topic) + 1)..(Len(topic) + 2) : topic'[i] = e
    <3> SUFFICES ASSUME NEW i \in (Len(topic) + 1)..(Len(topic) + 2)
                 PROVE  topic'[i] = e
      OBVIOUS
    <3>1. i - Len(topic) \in {1, 2} /\ i \in 1..(Len(topic) + 2) /\ ~ (i <= Len(topic))
      BY <1>1
    <3>2. \A j \in {1, 2} : <<e, e>>[j] = e
      OBVIOUS
    <3> QED BY <2>3, <3>1, <3>2
  <2> QED BY <1>1, <2>2, <2>3, <2>4 DEF Appended
<1> QED BY <1>2, <1>3, <1>4

\* A push that was received stays in the history.
RecvdKept ==
  \A s \in Streams : \A n \in DOMAIN recvd[s] :
    n \in DOMAIN recvd'[s] /\ recvd'[s][n] = recvd[s][n]

\* Both ways of receiving add one push to the history of one stream.
LEMMA RecvFacts ==
  ASSUME IInv, NEW s \in Streams, NEW p \in Pushes,
         MayPush(s), recvd' = [recvd EXCEPT ![s] = Append(@, p)]
  PROVE  /\ recvd' \in [Streams -> Seq(Pushes)]
         /\ RecvdKept
         /\ \A r \in Streams \ {s} : recvd'[r] = recvd[r]
         /\ Len(recvd[s]) \in Nat
         /\ Len(recvd'[s]) = Len(recvd[s]) + 1 /\ recvd'[s][Len(recvd[s]) + 1] = p
         /\ DOMAIN recvd'[s] = DOMAIN recvd[s] \cup {Len(recvd[s]) + 1}
         /\ \A r \in Streams : Len(recvd'[r]) <= MaxPushes[r]
<1>1. recvd \in [Streams -> Seq(Pushes)] /\ \A r \in Streams : Len(recvd[r]) <= MaxPushes[r]
  BY DEF IInv, TypeOK
<1>2. recvd'[s] = Append(recvd[s], p) /\ \A r \in Streams \ {s} : recvd'[r] = recvd[r]
  BY <1>1
<1>3. recvd[s] \in Seq(Pushes) /\ Len(recvd[s]) \in Nat
  BY <1>1
<1>4. /\ recvd'[s] \in Seq(Pushes)
      /\ Len(recvd'[s]) = Len(recvd[s]) + 1 /\ recvd'[s][Len(recvd[s]) + 1] = p
      /\ \A n \in 1..Len(recvd[s]) : recvd'[s][n] = recvd[s][n]
  BY <1>2, <1>3
<1>5. DOMAIN recvd'[s] = 1..(Len(recvd[s]) + 1) /\ DOMAIN recvd[s] = 1..Len(recvd[s])
  BY <1>3, <1>4
<1>6. recvd' \in [Streams -> Seq(Pushes)]
  BY <1>1, <1>4
<1>7. RecvdKept
  BY <1>2, <1>3, <1>4, <1>5 DEF RecvdKept
<1>8. MaxPushes[s] \in Nat /\ Len(recvd[s]) + 1 <= MaxPushes[s]
  BY <1>3, CollectorAssumption DEF MayPush
<1> QED BY <1>1, <1>2, <1>3, <1>4, <1>5, <1>6, <1>7, <1>8

\* What dispatch makes of a push.
LEMMA WorkFacts ==
  ASSUME IInv, NEW s \in Streams, NEW p \in Pushes
  PROVE  /\ Work(s, p) \in Seq(Pending)
         /\ DOMAIN Work(s, p) = DOMAIN Parsed[p]
         /\ \A i \in DOMAIN Work(s, p) : /\ Work(s, p)[i].n = Len(recvd[s]) + 1
                                         /\ Work(s, p)[i].msg = Parsed[p][i]
<1>1. Parsed[p] \in Seq(Messages) /\ Len(Parsed[p]) \in Nat
  BY CollectorAssumption
<1>2. Len(recvd[s]) + 1 \in Numbers
  BY DEF IInv, TypeOK, Numbers
<1>3. DOMAIN Parsed[p] = 1..Len(Parsed[p])
  BY <1>1
<1>4. \A i \in 1..Len(Parsed[p]) :
        [n |-> Len(recvd[s]) + 1, msg |-> Parsed[p][i]] \in Pending
  BY <1>1, <1>2 DEF Pending
<1>5. Work(s, p) \in [1..Len(Parsed[p]) -> Pending]
  BY <1>3, <1>4 DEF Work
<1>6. Work(s, p) \in Seq(Pending)
  BY <1>1, <1>5, SeqDef
<1> QED BY <1>3, <1>6 DEF Work

-----------------------------------------------------------------------------
(* The step of the invariant, by what the actions do. *)

\* Steps of the process and of the streams that move no message.
Idle(s) == Open(s) \/ Ack(s) \/ StreamEnds(s)
QuietStep ==
  \/ Start \/ Sigterm \/ Exit \/ UNCHANGED vars
  \/ \E s \in Streams : Idle(s)

\* They finish no push that has messages to send.
LEMMA QuietStepInv ==
  ASSUME IInv, QuietStep
  PROVE  IInv'
<1> USE DEF IInv
<1>0. UNCHANGED <<todo, topic, recvd, lost>>
  BY DEF QuietStep, Idle, Start, Sigterm, Exit, Open, Ack, StreamEnds, vars
<1>1. /\ phase' \in {"down", "serving", "stopping"}
      /\ conn' \in [Streams -> {"none", "idle", "busy"}]
      /\ \A s \in Streams : conn'[s] = "busy" => conn[s] = "busy"
      /\ \A s \in Streams : conn'[s] # "busy" => conn[s] # "busy" \/ todo[s] = <<>>
      /\ \A s \in Streams : phase' = "down" => conn'[s] = "none"
  <2>1. CASE Start \/ Sigterm \/ Exit \/ UNCHANGED vars
    BY <2>1 DEF Start, Sigterm, Exit, TypeOK, vars
  <2>2. ASSUME NEW s \in Streams, Idle(s)
        PROVE  <1>1!:
    <3>1. phase # "down"
      BY <2>2 DEF Idle, Open, Ack, StreamEnds, TypeOK
    <3> QED BY <2>2, <3>1 DEF Idle, Open, Ack, StreamEnds, TypeOK
  <2> QED BY <2>1, <2>2 DEF QuietStep
<1>2. TypeOK'
  <2>1. \A s \in Streams : todo'[s] # <<>> => conn'[s] = "busy"
    BY <1>0, <1>1 DEF TypeOK
  <2> QED BY <1>0, <1>1, <2>1 DEF TypeOK
<1>3. WorkInv'
  BY <1>0, <1>1 DEF WorkInv, WorkOf
<1>4. TopicInv' /\ OrderPerStream'
  BY <1>0 DEF TopicInv, Genuine, OrderPerStream
<1>5. SentInv'
  <2> SUFFICES ASSUME NEW s \in Streams, NEW n \in DOMAIN recvd[s], <<s, n>> \notin lost,
                      recvd[s][n] \notin Undecodable, NEW m \in ParsedMessages(recvd[s][n])
               PROVE  InTopic(s, n, m)' \/ InWork(s, n, m)'
    BY <1>0 DEF SentInv
  <2>1. CASE InTopic(s, n, m)
    BY <1>0, <2>1 DEF InTopic
  <2>2. CASE InWork(s, n, m)
    <3>1. conn[s] = "busy" /\ n = Len(recvd[s]) /\ todo[s] # <<>>
      BY <2>2 DEF InWork, InHand, TypeOK
    <3>2. conn'[s] = "busy"
      BY <1>1, <3>1
    <3> QED BY <1>0, <2>2, <3>1, <3>2 DEF InWork, InHand
  <2> QED BY <2>1, <2>2 DEF SentInv
<1> QED BY <1>2, <1>3, <1>4, <1>5

\* A kill gives up every push that is in hand.
LEMMA KillInv ==
  ASSUME IInv, Kill
  PROVE  IInv'
<1> USE DEF IInv
<1>0. /\ phase' = "down" /\ UNCHANGED <<topic, recvd>>
      /\ conn' = [s \in Streams |-> "none"] /\ todo' = [s \in Streams |-> <<>>]
      /\ lost' = lost \cup {This(s) : s \in {r \in Streams : conn[r] = "busy"}}
  BY DEF Kill
<1>1. lost' \subseteq Streams \X Numbers
  <2>1. ASSUME NEW s \in Streams, conn[s] = "busy"
        PROVE  This(s) \in Streams \X Numbers
    <3>1. Len(recvd[s]) \in Nat /\ Len(recvd[s]) > 0
      BY <2>1 DEF TypeOK, WorkInv, WorkOf
    <3> QED BY <3>1 DEF This, Numbers
  <2> QED BY <1>0, <2>1 DEF TypeOK
<1>2. TypeOK'
  BY <1>0, <1>1 DEF TypeOK
<1>3. WorkInv'
  BY <1>0 DEF WorkInv, WorkOf
<1>4. TopicInv' /\ OrderPerStream'
  BY <1>0 DEF TopicInv, Genuine, OrderPerStream
<1>5. SentInv'
  <2> SUFFICES ASSUME NEW s \in Streams, NEW n \in DOMAIN recvd[s], <<s, n>> \notin lost',
                      recvd[s][n] \notin Undecodable, NEW m \in ParsedMessages(recvd[s][n])
               PROVE  InTopic(s, n, m)'
    BY <1>0 DEF SentInv
  <2>1. ~ InHand(s, n)
    BY <1>0 DEF InHand, This
  <2>2. InTopic(s, n, m)
    BY <1>0, <2>1 DEF SentInv, InWork
  <2> QED BY <1>0, <2>2 DEF InTopic
<1> QED BY <1>2, <1>3, <1>4, <1>5

\* Receiving a push leaves the topic and the earlier pushes as they were.
LEMMA RecvInv ==
  ASSUME IInv, NEW s \in Streams, NEW p \in Subscribed[s], Recv(s, p) \/ RecvUndecodable(s, p)
  PROVE  IInv'
<1> USE DEF IInv
<1>p. p \in Pushes
  BY CollectorAssumption
<1>0. /\ MayPush(s) /\ conn[s] = "idle" /\ recvd' = [recvd EXCEPT ![s] = Append(@, p)]
      /\ UNCHANGED <<phase, topic, lost>>
  BY DEF Recv, RecvUndecodable, MayPush
<1>1. /\ recvd' \in [Streams -> Seq(Pushes)] /\ RecvdKept
      /\ \A r \in Streams \ {s} : recvd'[r] = recvd[r]
      /\ Len(recvd[s]) \in Nat
      /\ Len(recvd'[s]) = Len(recvd[s]) + 1 /\ recvd'[s][Len(recvd[s]) + 1] = p
      /\ DOMAIN recvd'[s] = DOMAIN recvd[s] \cup {Len(recvd[s]) + 1}
      /\ \A r \in Streams : Len(recvd'[r]) <= MaxPushes[r]
  BY <1>p, <1>0, RecvFacts
<1>2. phase # "down"
  BY <1>0 DEF TypeOK
<1>3. /\ conn' \in [Streams -> {"none", "idle", "busy"}]
      /\ todo' \in [Streams -> Seq(Pending)]
      /\ \A r \in Streams \ {s} : conn'[r] = conn[r] /\ todo'[r] = todo[r]
      /\ \/ Recv(s, p) /\ conn'[s] = "busy" /\ todo'[s] = Work(s, p)
         \/ p \in Undecodable /\ conn'[s] = "idle" /\ todo'[s] = <<>> /\ todo' = todo
  <2>1. CASE Recv(s, p)
    <3>1. Work(s, p) \in Seq(Pending)
      BY <1>p, WorkFacts
    <3> QED BY <2>1, <3>1 DEF Recv, TypeOK
  <2>2. CASE RecvUndecodable(s, p)
    <3>1. todo[s] = <<>>
      BY <1>0 DEF TypeOK
    <3> QED BY <1>0, <2>2, <3>1 DEF RecvUndecodable, TypeOK
  <2> QED BY <2>1, <2>2
<1>4. TypeOK'
  <2>1. \A r \in Streams : todo'[r] # <<>> => conn'[r] = "busy"
    BY <1>3 DEF TypeOK
  <2> QED BY <1>0, <1>1, <1>2, <1>3, <2>1 DEF TypeOK
<1>5. WorkInv'
  <2>1. ASSUME NEW r \in Streams \ {s}
        PROVE  WorkOf(r)'
    <3>1. recvd'[r] = recvd[r] /\ conn'[r] = conn[r] /\ todo'[r] = todo[r]
      BY <1>1, <1>3
    <3>2. WorkOf(r)
      BY DEF WorkInv
    <3> QED BY <3>1, <3>2 DEF WorkOf
  <2>2. CASE Recv(s, p) /\ conn'[s] = "busy" /\ todo'[s] = Work(s, p)
    <3>1. \A i \in DOMAIN todo'[s] :
            /\ todo'[s][i].n = Len(recvd'[s])
            /\ todo'[s][i].msg \in ParsedMessages(recvd'[s][Len(recvd'[s])])
      BY <1>p, <1>1, <2>2, WorkFacts DEF ParsedMessages
    <3>2. Len(recvd'[s]) > 0
      BY <1>1
    <3>3. WorkOf(s)'
      BY <3>1, <3>2 DEF WorkOf
    <3> QED BY <2>1, <3>3 DEF WorkInv
  <2>3. CASE conn'[s] = "idle" /\ todo'[s] = <<>>
    <3>1. WorkOf(s)'
      BY <2>3 DEF WorkOf
    <3> QED BY <2>1, <3>1 DEF WorkInv
  <2> QED BY <1>3, <2>2, <2>3
<1>6. TopicInv' /\ OrderPerStream'
  <2>1. \A i \in DOMAIN topic : topic[i].from \in Streams
    BY TopicEntries
  <2>2. ASSUME NEW i \in DOMAIN topic
        PROVE  Genuine(topic[i])'
    <3> DEFINE e == topic[i]
    <3>1. e.n \in DOMAIN recvd[e.from] /\ e.msg \in ParsedMessages(recvd[e.from][e.n])
      BY DEF TopicInv, Genuine
    <3>2. e.n \in DOMAIN recvd'[e.from] /\ recvd'[e.from][e.n] = recvd[e.from][e.n]
      BY <1>1, <2>1, <3>1 DEF RecvdKept
    <3> QED BY <1>0, <3>1, <3>2 DEF Genuine
  <2>3. TopicInv'
    BY <1>0, <2>2 DEF TopicInv
  <2> QED BY <1>0, <2>3 DEF OrderPerStream
<1>7. SentInv'
  <2> SUFFICES ASSUME NEW r \in Streams, NEW n \in DOMAIN recvd'[r], <<r, n>> \notin lost,
                      recvd'[r][n] \notin Undecodable, NEW m \in ParsedMessages(recvd'[r][n])
               PROVE  InTopic(r, n, m)' \/ InWork(r, n, m)'
    BY <1>0 DEF SentInv
  <2>1. CASE n \in DOMAIN recvd[r]
    <3>1. recvd'[r][n] = recvd[r][n]
      BY <1>1, <2>1 DEF RecvdKept
    <3>2. InTopic(r, n, m) \/ InWork(r, n, m)
      BY <2>1, <3>1 DEF SentInv
    <3>3. CASE InTopic(r, n, m)
      BY <1>0, <3>3 DEF InTopic
    <3>4. CASE InWork(r, n, m)
      <4>1. r \in Streams \ {s}
        BY <1>0, <3>4 DEF InWork, InHand
      <4> QED BY <1>1, <1>3, <3>4, <4>1 DEF InWork, InHand
    <3> QED BY <3>2, <3>3, <3>4
  <2>2. CASE n \notin DOMAIN recvd[r]
    <3>1. r = s /\ n = Len(recvd'[s]) /\ recvd'[r][n] = p
      BY <1>1, <2>2
    <3>2. conn'[s] = "busy" /\ todo'[s] = Work(s, p)
      BY <1>3, <3>1
    <3>3. PICK i \in DOMAIN Parsed[p] : m = Parsed[p][i]
      BY <3>1 DEF ParsedMessages
    <3>4. i \in DOMAIN todo'[s] /\ todo'[s][i].msg = m
      BY <1>p, <3>2, <3>3, WorkFacts
    <3> QED BY <3>1, <3>2, <3>4 DEF InWork, InHand
  <2> QED BY <2>1, <2>2
<1> QED BY <1>4, <1>5, <1>6, <1>7

\* What is in the topic stays there.
LEMMA InTopicStable ==
  ASSUME TypeOK, TypeOK', NEW e, Appended(e), NEW s, NEW n, NEW m, InTopic(s, n, m)
  PROVE  InTopic(s, n, m)'
<1>1. PICK i \in DOMAIN topic : topic[i] = [from |-> s, n |-> n, msg |-> m]
  BY DEF InTopic
<1>2. /\ Len(topic) \in Nat /\ DOMAIN topic = 1..Len(topic)
      /\ Len(topic') \in Nat /\ DOMAIN topic' = 1..Len(topic')
  <2>1. topic \in Seq(Entry) /\ topic' \in Seq(Entry)
    BY DEF TypeOK, Entry
  <2> QED BY <2>1
<1>3. i \in DOMAIN topic' /\ topic'[i] = topic[i]
  BY <1>2 DEF Appended
<1> QED BY <1>1, <1>3 DEF InTopic

\* Sending appends to the topic what belongs behind everything the stream has
\* there, and takes it off the work only when it is in the topic or given up.
LEMMA SendInv ==
  ASSUME IInv, NEW s \in Streams, Send(s)
  PROVE  IInv'
<1> USE DEF IInv
<1>0. /\ conn[s] = "busy" /\ todo[s] # <<>> /\ UNCHANGED <<phase, conn, recvd>>
      /\ topic' \in {topic, Append(topic, Sent(s)), topic \o <<Sent(s), Sent(s)>>}
      /\ \/ SendOk(s) /\ lost' = lost /\ todo' = [todo EXCEPT ![s] = Tail(@)]
         \/ lost' = lost \cup {This(s)} /\ todo' = [todo EXCEPT ![s] = <<>>]
  BY DEF Send, SendOk, SendFails
<1>1. /\ Sent(s) \in Entry
      /\ Sent(s).from = s /\ Sent(s).n = Len(recvd[s]) /\ Sent(s).msg = todo[s][1].msg
      /\ Len(recvd[s]) > 0
      /\ Genuine(Sent(s))
      /\ Tail(todo[s]) \in Seq(Pending)
      /\ \A i \in DOMAIN Tail(todo[s]) :
           i + 1 \in DOMAIN todo[s] /\ Tail(todo[s])[i] = todo[s][i + 1]
      /\ \A i \in DOMAIN todo[s] : i = 1 \/ (i - 1 \in DOMAIN Tail(todo[s])
                                            /\ Tail(todo[s])[i - 1] = todo[s][i])
  BY <1>0, SentFacts
<1>2. topic' \in Seq(Entry) /\ Appended(Sent(s))
      /\ (SendOk(s) => Len(topic') > Len(topic))
  <2>1. SendOk(s) => topic' \in {Append(topic, Sent(s)), topic \o <<Sent(s), Sent(s)>>}
    BY DEF SendOk
  <2> QED BY <1>0, <1>1, <2>1, AppendedFacts
<1>3. TypeOK'
  <2>1. lost' \subseteq Streams \X Numbers
    BY <1>0, <1>1 DEF TypeOK, This, Numbers
  <2>2. todo' \in [Streams -> Seq(Pending)]
    <3>1. todo \in [Streams -> Seq(Pending)] /\ <<>> \in Seq(Pending)
      BY DEF TypeOK
    <3>2. ASSUME NEW rest \in Seq(Pending), todo' = [todo EXCEPT ![s] = rest]
          PROVE  todo' \in [Streams -> Seq(Pending)]
      BY <3>1, <3>2
    <3> QED BY <1>0, <1>1, <3>1, <3>2
  <2>3. \A r \in Streams : todo'[r] # <<>> => conn'[r] = "busy"
    BY <1>0 DEF TypeOK
  <2> QED BY <1>0, <1>2, <2>1, <2>2, <2>3 DEF TypeOK, Entry
<1>4. WorkInv'
  <2>1. ASSUME NEW r \in Streams, r # s
        PROVE  WorkOf(r)'
    <3>1. todo'[r] = todo[r] /\ WorkOf(r)
      BY <1>0, <2>1 DEF TypeOK, WorkInv
    <3> QED BY <1>0, <3>1 DEF WorkOf
  <2>2. WorkOf(s)'
    <3>1. WorkOf(s)
      BY DEF WorkInv
    <3>2. CASE todo'[s] = <<>>
      BY <1>0, <3>1, <3>2 DEF WorkOf
    <3>3. CASE todo'[s] = Tail(todo[s])
      BY <1>0, <1>1, <3>1, <3>3 DEF WorkOf
    <3> QED BY <1>0, <3>2, <3>3 DEF TypeOK
  <2> QED BY <2>1, <2>2 DEF WorkInv
<1>d. /\ Len(topic) \in Nat /\ DOMAIN topic = 1..Len(topic)
      /\ Len(topic') \in Nat /\ DOMAIN topic' = 1..Len(topic')
  BY <1>3, TopicEntries DEF TypeOK
<1>e. ASSUME NEW i \in DOMAIN topic'
      PROVE  (i \in DOMAIN topic /\ topic'[i] = topic[i]) \/ (i > Len(topic) /\ topic'[i] = Sent(s))
  BY <1>d, <1>2 DEF Appended
<1>5. TopicInv'
  <2> SUFFICES ASSUME NEW i \in DOMAIN topic'
               PROVE  Genuine(topic[i])'
    BY DEF TopicInv
  <2>1. ASSUME NEW e, Genuine(e), topic'[i] = e
        PROVE  Genuine(topic[i])'
    BY <1>0, <2>1 DEF Genuine
  <2> QED BY <1>1, <1>e, <2>1 DEF TopicInv
<1>6. OrderPerStream'
  <2> SUFFICES ASSUME NEW i \in DOMAIN topic', NEW j \in DOMAIN topic', i < j,
                      topic'[i].from = topic'[j].from
               PROVE  topic'[i].n <= topic'[j].n
    BY DEF OrderPerStream
  <2>1. CASE j \in DOMAIN topic
    <3>1. i \in DOMAIN topic /\ topic'[i] = topic[i] /\ topic'[j] = topic[j]
      BY <1>d, <1>2, <2>1 DEF Appended
    <3>2. \A a, b \in DOMAIN topic :
            a < b /\ topic[a].from = topic[b].from => topic[a].n <= topic[b].n
      BY DEF OrderPerStream
    <3> QED BY <2>1, <3>1, <3>2
  <2>2. CASE topic'[j] = Sent(s)
    <3>1. Genuine(topic'[i])
      BY <1>1, <1>e DEF TopicInv
    <3>2. topic'[i].n \in DOMAIN recvd[s] /\ recvd[s] \in Seq(Pushes)
      BY <1>1, <2>2, <3>1 DEF Genuine, TypeOK
    <3> QED BY <1>1, <2>2, <3>2
  <2> QED BY <1>e, <2>1, <2>2
<1>7. SentInv'
  <2> SUFFICES ASSUME NEW r \in Streams, NEW n \in DOMAIN recvd[r], <<r, n>> \notin lost',
                      recvd[r][n] \notin Undecodable, NEW m \in ParsedMessages(recvd[r][n])
               PROVE  InTopic(r, n, m)' \/ InWork(r, n, m)'
    BY <1>0 DEF SentInv
  <2>1. <<r, n>> \notin lost
    BY <1>0
  <2>2. CASE InTopic(r, n, m)
    BY <1>2, <1>3, <2>2, InTopicStable
  <2>3. CASE InWork(r, n, m) /\ r # s
    BY <1>0, <2>3 DEF InWork, InHand, TypeOK
  <2>4. CASE InWork(r, n, m) /\ r = s
    <3>1. n = Len(recvd[s])
      BY <2>4 DEF InWork, InHand
    <3>2. SendOk(s) /\ todo' = [todo EXCEPT ![s] = Tail(@)]
      BY <1>0, <2>4, <3>1 DEF This
    <3>3. PICK i \in DOMAIN todo[s] : todo[s][i].msg = m
      BY <2>4 DEF InWork
    <3>4. CASE i = 1
      <4>1. Sent(s) = [from |-> s, n |-> n, msg |-> m]
        BY <1>1, <3>1, <3>3, <3>4 DEF Entry
      <4>2. Len(topic') > Len(topic)
        BY <1>2, <3>2
      <4>3. Len(topic') \in DOMAIN topic' /\ topic'[Len(topic')] = Sent(s)
        BY <1>d, <1>2, <4>2 DEF Appended
      <4>4. InTopic(r, n, m)'
        BY <2>4, <4>1, <4>3 DEF InTopic
      <4> QED BY <4>4
    <3>5. CASE i # 1
      <4>1. i - 1 \in DOMAIN todo'[s] /\ todo'[s][i - 1].msg = m
        BY <1>1, <3>2, <3>3, <3>5 DEF TypeOK
      <4>2. InWork(r, n, m)'
        BY <1>0, <2>4, <3>1, <4>1 DEF InWork, InHand
      <4> QED BY <4>2
    <3> QED BY <3>4, <3>5
  <2> QED BY <2>1, <2>2, <2>3, <2>4 DEF SentInv
<1> QED BY <1>3, <1>4, <1>5, <1>6, <1>7

\* The invariant holds from the start and is kept by every step.
LEMMA Inductive ==
  /\ Init => IInv
  /\ IInv /\ [Next]_vars => IInv'
<1>1. Init => IInv
  <2> SUFFICES ASSUME Init PROVE IInv
    OBVIOUS
  <2>1. TypeOK
    <3>1. \A s \in Streams : recvd[s] = <<>> /\ Len(recvd[s]) = 0 /\ MaxPushes[s] \in Nat
      BY CollectorAssumption DEF Init
    <3> QED BY <3>1 DEF Init, TypeOK
  <2>2. WorkInv /\ TopicInv /\ OrderPerStream /\ SentInv
    BY DEF Init, WorkInv, WorkOf, TopicInv, OrderPerStream, SentInv
  <2> QED BY <2>1, <2>2 DEF IInv
<1>2. ASSUME IInv, [Next]_vars
      PROVE  IInv'
  <2>1. CASE QuietStep
    BY <1>2, <2>1, QuietStepInv
  <2>2. CASE Kill
    BY <1>2, <2>2, KillInv
  <2>3. CASE \E s \in Streams : \E p \in Subscribed[s] : Recv(s, p) \/ RecvUndecodable(s, p)
    BY <1>2, <2>3, RecvInv
  <2>4. CASE \E s \in Streams : Send(s)
    BY <1>2, <2>4, SendInv
  <2> QED BY <1>2, <2>1, <2>2, <2>3, <2>4 DEF Next, QuietStep, Idle
<1> QED BY <1>1, <1>2

-----------------------------------------------------------------------------
(* The theorems. *)

\* The inductive invariant is an invariant, with or without fairness.
THEOREM Invariant == Spec => []IInv
BY Inductive, PTL DEF Spec

\* The collector's state is well typed; a stopped process has no streams.
THEOREM TypeCorrect == Spec => []TypeOK
<1>1. IInv => TypeOK
  BY DEF IInv
<1> QED BY <1>1, Invariant, PTL

\* One goroutine per stream that sends, acknowledges and only then receives
\* keeps the topic in the device's order, through failed sends, the producer's
\* duplicates, kills and restarts.
THEOREM TopicInOrder == Spec => []OrderPerStream
<1>1. IInv => OrderPerStream
  BY DEF IInv
<1> QED BY <1>1, Invariant, PTL

\* With parsers that find everything a push means, nothing is lost without a
\* failed send or a kill: MdtDialout goes back to Recv only when dispatch has
\* returned, and GracefulStop waits for it.
THEOREM NothingLost ==
  ASSUME ParsersComplete
  PROVE  Spec => []NoSilentLoss
<1>1. IInv => NoSilentLoss
  <2> SUFFICES ASSUME IInv, NEW s \in Streams, NEW n \in DOMAIN recvd[s], ~ InHand(s, n),
                      <<s, n>> \notin lost, NEW r \in Meaning[recvd[s][n]]
               PROVE  InTopic(s, n, Carried[r])
    BY DEF NoSilentLoss
  <2>1. recvd[s] \in Seq(Pushes)
    BY DEF IInv, TypeOK
  <2>2. recvd[s][n] \in Pushes
    BY <2>1
  <2>3. recvd[s][n] \notin Undecodable /\ Carried[r] \in ParsedMessages(recvd[s][n])
    BY <2>2 DEF ParsersComplete
  <2> QED BY <2>3 DEF IInv, SentInv, InWork
<1> QED BY <1>1, Invariant, PTL

\* With parsers that find nothing else, everything in the topic was meant by
\* the push it names.
THEOREM NothingMadeUp ==
  ASSUME ParsersSound
  PROVE  Spec => []NothingInvented
<1>1. IInv => NothingInvented
  <2> SUFFICES ASSUME IInv, NEW i \in DOMAIN topic
               PROVE  topic[i].msg \in {Carried[r] : r \in Meaning[recvd[topic[i].from][topic[i].n]]}
    BY DEF NothingInvented
  <2>1. topic[i].from \in Streams
    BY TopicEntries DEF IInv
  <2>2. /\ topic[i].n \in DOMAIN recvd[topic[i].from]
        /\ topic[i].msg \in ParsedMessages(recvd[topic[i].from][topic[i].n])
    BY DEF IInv, TopicInv, Genuine
  <2>3. recvd[topic[i].from] \in Seq(Pushes)
    BY <2>1 DEF IInv, TypeOK
  <2>4. recvd[topic[i].from][topic[i].n] \in Pushes
    BY <2>2, <2>3
  <2> QED BY <2>2, <2>4 DEF ParsersSound
<1> QED BY <1>1, Invariant, PTL
=============================================================================
