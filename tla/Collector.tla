----------------------------- MODULE Collector -----------------------------
(***************************************************************************)
(* The collector process of collector/main.go: the gRPC server with one    *)
(* MdtDialout goroutine per device stream, the Kafka producer they share,  *)
(* and the process's start, graceful stop and death.  What a push is       *)
(* parsed into (dispatch, TelemetryTree), what the device meant by it and  *)
(* how much of that a message can carry are parameters.                    *)
(***************************************************************************)
EXTENDS Integers, Sequences

CONSTANTS
  Streams,      \* dial-out streams of the devices
  Pushes,       \* what a device may send
  Undecodable,  \* the pushes that are empty or that proto.Unmarshal refuses
  Messages,     \* Kafka messages
  Parsed,       \* dispatch: the messages of a push in the order they are sent
  Reports,      \* what devices report: the state or a change of one thing
  Meaning,      \* the reports of a push
  Carried,      \* per report, the message that says as much of it as the entry
                \* types can hold; not all of it, see below
  Subscribed,   \* the pushes a stream's subscription may send
  MaxPushes     \* bound: pushes received on a stream

ASSUME CollectorAssumption ==
  /\ Undecodable \subseteq Pushes
  /\ Parsed \in [Pushes -> Seq(Messages)]
  /\ Meaning \in [Pushes -> SUBSET Reports]
  /\ Carried \in [Reports -> Messages]
  /\ Subscribed \in [Streams -> SUBSET Pushes]
  /\ MaxPushes \in [Streams -> Nat]

VARIABLES
  phase,        \* "down", "serving" or "stopping" (inside GracefulStop)
  conn,         \* per stream: "none", "idle" (in Recv) or "busy" (in dispatch)
  todo,         \* the messages a busy handler has still to send
  topic,        \* the broker: [from, n, msg] in broker order
  recvd,        \* history: the pushes received on each stream
  lost          \* history: <<s, n>> whose dispatch failed or was killed

vars == <<phase, conn, todo, topic, recvd, lost>>

Numbers == Nat \ {0}
Pending == [n: Numbers, msg: Messages]

\* Types; only a busy handler has messages to send, and a stopped process
\* has no streams.
TypeOK ==
  /\ phase \in {"down", "serving", "stopping"}
  /\ conn \in [Streams -> {"none", "idle", "busy"}]
  /\ todo \in [Streams -> Seq(Pending)]
  /\ topic \in Seq([from: Streams, n: Numbers, msg: Messages])
  /\ recvd \in [Streams -> Seq(Pushes)]
  /\ lost \subseteq Streams \X Numbers
  /\ \A s \in Streams : /\ Len(recvd[s]) <= MaxPushes[s]
                        /\ todo[s] # <<>> => conn[s] = "busy"
                        /\ phase = "down" => conn[s] = "none"

Init ==
  /\ phase = "down"
  /\ conn = [s \in Streams |-> "none"]
  /\ todo = [s \in Streams |-> <<>>]
  /\ topic = <<>>
  /\ recvd = [s \in Streams |-> <<>>]
  /\ lost = {}

This(s) == <<s, Len(recvd[s])>>      \* the push the handler is working on

-----------------------------------------------------------------------------
(* Process. *)

\* main: producer, listener and server are up.
Start ==
  /\ phase = "down"
  /\ phase' = "serving"
  /\ UNCHANGED <<conn, todo, topic, recvd, lost>>

\* SIGTERM: GracefulStop closes the listener; open streams go on.
Sigterm ==
  /\ phase = "serving"
  /\ phase' = "stopping"
  /\ UNCHANGED <<conn, todo, topic, recvd, lost>>

\* Mutant: srv.Stop, which cancels the running handlers.
Exit_stop ==
  /\ phase = "stopping"
  /\ phase' = "down"
  /\ conn' = [s \in Streams |-> "none"]
  /\ todo' = [s \in Streams |-> <<>>]
  /\ UNCHANGED <<topic, recvd, lost>>

\* GracefulStop returns when no handler is left, and main closes the producer.
Exit ==
  /\ phase = "stopping"
  /\ \A s \in Streams : conn[s] = "none"
  /\ phase' = "down"
  /\ UNCHANGED <<conn, todo, topic, recvd, lost>>

\* The process dies, with whatever its handlers had in hand.
Kill ==
  /\ phase # "down"
  /\ phase' = "down"
  /\ lost' = lost \cup {This(s) : s \in {r \in Streams : conn[r] = "busy"}}
  /\ conn' = [s \in Streams |-> "none"]
  /\ todo' = [s \in Streams |-> <<>>]
  /\ UNCHANGED <<topic, recvd>>

-----------------------------------------------------------------------------
(* MdtDialout. *)

\* A device dials out.
Open(s) ==
  /\ phase = "serving"
  /\ conn[s] = "none"
  /\ conn' = [conn EXCEPT ![s] = "idle"]
  /\ UNCHANGED <<phase, todo, topic, recvd, lost>>

MayPush(s) == conn[s] = "idle" /\ Len(recvd[s]) < MaxPushes[s]

Work(s, p) ==
  [i \in DOMAIN Parsed[p] |-> [n |-> Len(recvd[s]) + 1, msg |-> Parsed[p][i]]]

\* Mutant: dispatch runs in a goroutine of its own for each push.
Recv_concurrent(s, p) ==
  /\ conn[s] # "none" /\ Len(recvd[s]) < MaxPushes[s]
  /\ p \notin Undecodable
  /\ recvd' = [recvd EXCEPT ![s] = Append(@, p)]
  /\ conn' = [conn EXCEPT ![s] = "busy"]
  /\ todo' = [todo EXCEPT ![s] = Work(s, p) \o @]
  /\ UNCHANGED <<phase, topic, lost>>

\* Recv returns a push and dispatch begins.
Recv(s, p) ==
  /\ MayPush(s)
  /\ p \notin Undecodable
  /\ recvd' = [recvd EXCEPT ![s] = Append(@, p)]
  /\ conn' = [conn EXCEPT ![s] = "busy"]
  /\ todo' = [todo EXCEPT ![s] = Work(s, p)]
  /\ UNCHANGED <<phase, topic, lost>>

\* No data, or not a Telemetry message: the loop goes on without an answer.
RecvUndecodable(s, p) ==
  /\ MayPush(s)
  /\ p \in Undecodable
  /\ recvd' = [recvd EXCEPT ![s] = Append(@, p)]
  /\ UNCHANGED <<phase, conn, todo, topic, lost>>

Sent(s) == [from |-> s, n |-> Head(todo[s]).n, msg |-> Head(todo[s]).msg]

\* SendMessage returns nil; the producer's retries may have appended twice.
SendOk(s) ==
  /\ conn[s] = "busy" /\ todo[s] # <<>>
  /\ topic' \in {Append(topic, Sent(s)), topic \o <<Sent(s), Sent(s)>>}
  /\ todo' = [todo EXCEPT ![s] = Tail(@)]
  /\ UNCHANGED <<phase, conn, recvd, lost>>

\* SendMessage fails after its retries, possibly though the message was
\* appended: the parser returns, and the rest of the push is not sent.
SendFails(s) ==
  /\ conn[s] = "busy" /\ todo[s] # <<>>
  /\ topic' \in {topic, Append(topic, Sent(s))}
  /\ todo' = [todo EXCEPT ![s] = <<>>]
  /\ lost' = lost \cup {This(s)}
  /\ UNCHANGED <<phase, conn, recvd>>

\* Mutant: the push is acknowledged while dispatch is still running.
Ack_early(s) ==
  /\ conn[s] = "busy"
  /\ conn' = [conn EXCEPT ![s] = "idle"]
  /\ UNCHANGED <<phase, todo, topic, recvd, lost>>

\* Mutant: after a failed dispatch the handler waits for better times.
Ack_afterSuccess(s) ==
  /\ conn[s] = "busy" /\ todo[s] = <<>>
  /\ This(s) \notin lost
  /\ conn' = [conn EXCEPT ![s] = "idle"]
  /\ UNCHANGED <<phase, todo, topic, recvd, lost>>

\* dispatch returned, with or without an error; the push is acknowledged in
\* either case (a failing acknowledgement is ignored) and Recv called again.
Ack(s) ==
  /\ conn[s] = "busy" /\ todo[s] = <<>>
  /\ conn' = [conn EXCEPT ![s] = "idle"]
  /\ UNCHANGED <<phase, todo, topic, recvd, lost>>

\* Recv fails: the device or the network closed the stream.
StreamEnds(s) ==
  /\ conn[s] = "idle"
  /\ conn' = [conn EXCEPT ![s] = "none"]
  /\ UNCHANGED <<phase, todo, topic, recvd, lost>>

Send(s) == SendOk(s) \/ SendFails(s)

Next ==
  \/ Start \/ Sigterm \/ Exit \/ Kill
  \/ \E s \in Streams :
       \/ Open(s) \/ Send(s) \/ Ack(s) \/ StreamEnds(s)
       \/ \E p \in Subscribed[s] : Recv(s, p) \/ RecvUndecodable(s, p)

\* SendMessage returns (Retry.Max and the connection timeouts bound it), and
\* goroutines are scheduled.  Devices and signals are not fair: a device may
\* keep its stream open for ever.
Fairness == WF_vars(Exit) /\ \A s \in Streams : WF_vars(Send(s)) /\ WF_vars(Ack(s))

Spec == Init /\ [][Next]_vars /\ Fairness

-----------------------------------------------------------------------------
(* Properties *)

InTopic(s, n, m) == [from |-> s, n |-> n, msg |-> m] \in {topic[i] : i \in DOMAIN topic}

InHand(s, n) == conn[s] = "busy" /\ n = Len(recvd[s])

\* Nothing a device reported is lost silently: once a push is acknowledged, or
\* its handler or the process is gone, all its reports are in the topic, as far
\* as messages carry them, unless one of its sends failed or the process was
\* killed while handling it.  Messages do not carry that a VRF, an MTU or a VLAN
\* status was removed: omitempty drops the empty value.
\* This spans the parsers (every interface of a flat, chained or boxed tree,
\* every VLAN of either YANG model), MdtDialout and GracefulStop.
NoSilentLoss ==
  \A s \in Streams : \A n \in DOMAIN recvd[s] :
    ~InHand(s, n) /\ <<s, n>> \notin lost =>
      \A r \in Meaning[recvd[s][n]] : InTopic(s, n, Carried[r])

\* Whatever is in the topic was meant by the push it came from, as messages
\* carry it: no parser mixes up interfaces, rows, spellings or fields, or turns
\* a missing field into a cleared one.  The exception is shutdown: it is a plain
\* bool, so the message for a report that does not mention it says false.
NothingInvented ==
  \A i \in DOMAIN topic :
    topic[i].msg \in {Carried[r] : r \in Meaning[recvd[topic[i].from][topic[i].n]]}

\* Messages of one stream are in the topic in the order the device sent the
\* pushes, whatever failed, was retried or restarted in between.
OrderPerStream ==
  \A i, j \in DOMAIN topic :
    i < j /\ topic[i].from = topic[j].from => topic[i].n <= topic[j].n

\* If the graceful stop of main never ends, then because some device keeps
\* an idle stream open: every handler gets back to Recv, whatever fails, and
\* the stop waits for nothing else.
StopHangsOnlyOnDevices ==
  <>[](phase = "stopping") => \E s \in Streams : []<>(conn[s] = "idle")
=============================================================================
