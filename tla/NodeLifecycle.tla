---------------------------- MODULE NodeLifecycle ----------------------------
(***************************************************************************)
(* One running node: the tasks spawned by Node in uat-node's node.rs and   *)
(* by the local accept loop in local.rs, the path of a finished call's     *)
(* InboxEvent to a local client, and shutdown.                             *)
(*                                                                         *)
(* The two accept loops and the tasks of incoming connections are spawned  *)
(* on the TaskTracker, which shutdown waits for.  The inbox forwarder and  *)
(* the sessions of local clients, outbound dials included, are not.        *)
(* What happens inside a call is CallLoop; here it runs and ends.          *)
(* Connections and clients that nobody accepts are left out.  An InboxEvent*)
(* is the connection it reports.                                           *)
(***************************************************************************)
EXTENDS Naturals, Sequences, SequencesExt

CONSTANTS
  Conns,     \* incoming connections
  Clients,   \* sessions of local clients
  Probes,    \* those that `uat listen` opens before its loop
  NoEvent,   \* Option::None for an InboxEvent
  QueueCap   \* capacity of the inbox channel: 32 in Node::bind_with_opts

ASSUME NodeAssumption ==
  NoEvent \notin Conns /\ QueueCap \in Nat \ {0} /\ Probes \subseteq Clients

VARIABLES
  token,      \* the CancellationToken is cancelled
  shutdown,   \* how far Node::shutdown has come
  acceptor,   \* the accept loop of the endpoint
  locals,     \* the accept loop of the local socket
  forwarder,  \* the task from the inbox channel to the slot
  conn,       \* where each incoming connection stands
  client,     \* where each local session stands
  queue,      \* the inbox channel
  hand,       \* the event the forwarder holds while it waits for the slot
  latest,     \* the slot
  sent,       \* history: the events the channel accepted, in order
  taken,      \* history: the events taken from the slot, in order
  reply,      \* the event in each session's response
  printed     \* the events that client processes have printed

inbox == <<queue, hand, latest, sent, taken>>
answers == <<reply, printed>>
tasks == <<acceptor, locals, forwarder>>
vars == <<token, shutdown, tasks, conn, client, inbox, answers>>

ShutdownPc == {"up", "waiting", "closing", "down"}
ConnPc == {"away", "shaking", "calling", "ended"}
ClientPc == {"away", "reading", "dialing", "answering", "served", "gone"}

TypeOK ==
  /\ token \in BOOLEAN
  /\ shutdown \in ShutdownPc
  /\ acceptor \in {"running", "done"} /\ forwarder \in {"running", "done"}
  /\ locals \in {"running", "leaving", "done"}
  /\ conn \in [Conns -> ConnPc]
  /\ client \in [Clients -> ClientPc]
  /\ queue \in Seq(Conns) /\ Len(queue) <= QueueCap
  /\ hand \in Conns \cup {NoEvent} /\ latest \in Conns \cup {NoEvent}
  /\ sent \in Seq(Conns) /\ taken \in Seq(Conns)
  /\ reply \in [Clients -> Conns \cup {NoEvent}] /\ printed \subseteq Conns

(* spawn_accept_loop and spawn_local_socket have been called.              *)
Init ==
  /\ token = FALSE /\ shutdown = "up"
  /\ acceptor = "running" /\ locals = "running" /\ forwarder = "running"
  /\ conn = [c \in Conns |-> "away"]
  /\ client = [k \in Clients |-> "away"]
  /\ queue = << >> /\ hand = NoEvent /\ latest = NoEvent
  /\ sent = << >> /\ taken = << >>
  /\ reply = [k \in Clients |-> NoEvent] /\ printed = {}

ConnGoes(c, stage) == conn' = [conn EXCEPT ![c] = stage]
ClientGoes(k, stage) == client' = [client EXCEPT ![k] = stage]

-----------------------------------------------------------------------------
(* Incoming connections.                                                   *)

(* The loop is biased: once the token is cancelled it accepts no more.     *)
Accepts(c) ==
  /\ acceptor = "running" /\ ~token
  /\ conn[c] = "away"
  /\ ConnGoes(c, "shaking")
  /\ UNCHANGED <<token, shutdown, tasks, client, inbox, answers>>

AcceptorStops ==
  /\ acceptor = "running" /\ token
  /\ acceptor' = "done"
  /\ UNCHANGED <<token, shutdown, locals, forwarder, conn, client, inbox, answers>>

(* The handshake is done: the peer is refused, or its call runs.  It does  *)
(* not look at the token, and may fail.                                    *)
ShakesHands(c) ==
  /\ conn[c] = "shaking"
  /\ \E next \in {"calling", "ended"} : ConnGoes(c, next)
  /\ UNCHANGED <<token, shutdown, tasks, client, inbox, answers>>

MutSendNewest(c) ==  \* mutant: a full channel drops its oldest event instead
  IF forwarder = "running"
    THEN /\ sent' = Append(sent, c)
         /\ queue' = Append(IF Len(queue) < QueueCap THEN queue ELSE Tail(queue), c)
    ELSE UNCHANGED <<queue, sent>>

(* inbox_tx.try_send: the event is dropped when the channel is full, or    *)
(* closed because the forwarder has gone.                                  *)
SendEvent(c) ==
  IF forwarder = "running" /\ Len(queue) < QueueCap
    THEN queue' = Append(queue, c) /\ sent' = Append(sent, c)
    ELSE UNCHANGED <<queue, sent>>

(* run_callee_with returned an outcome ...                                 *)
CallFinishes(c) ==
  /\ conn[c] = "calling"
  /\ ConnGoes(c, "ended")
  /\ SendEvent(c)
  /\ UNCHANGED <<token, shutdown, tasks, client, hand, latest, taken, answers>>

(* ... or an error, Cancelled among them: no event.                        *)
CallFails(c) ==
  /\ conn[c] = "calling"
  /\ ConnGoes(c, "ended")
  /\ UNCHANGED <<token, shutdown, tasks, client, inbox, answers>>

-----------------------------------------------------------------------------
(* The inbox forwarder.                                                    *)

ReceiveEvent ==
  /\ forwarder = "running" /\ ~token
  /\ hand = NoEvent /\ queue # << >>
  /\ hand' = Head(queue) /\ queue' = Tail(queue)
  /\ UNCHANGED <<token, shutdown, tasks, conn, client, latest, sent, taken, answers>>

MutStoreWhenVacant ==
  /\ hand # NoEvent /\ latest = NoEvent
  /\ latest' = hand /\ hand' = NoEvent
  /\ UNCHANGED <<token, shutdown, tasks, conn, client, queue, sent, taken, answers>>

(* It waits for the lock without a look at the token.                      *)
StoreEvent ==
  /\ hand # NoEvent
  /\ latest' = hand /\ hand' = NoEvent
  /\ UNCHANGED <<token, shutdown, tasks, conn, client, queue, sent, taken, answers>>

(* The receiver is dropped with what is in the channel.                    *)
ForwarderStops ==
  /\ forwarder = "running" /\ token /\ hand = NoEvent
  /\ forwarder' = "done" /\ queue' = << >>
  /\ UNCHANGED <<token, shutdown, acceptor, locals, conn, client, hand, latest, sent, taken, answers>>

-----------------------------------------------------------------------------
(* The local accept loop and its sessions.                                 *)

LocalAccepts(k) ==
  /\ locals = "running" /\ ~token
  /\ client[k] = "away"
  /\ ClientGoes(k, "reading")
  /\ UNCHANGED <<token, shutdown, tasks, conn, inbox, answers>>

LocalLeaves ==
  /\ locals = "running"
  /\ locals' = "leaving"
  /\ UNCHANGED <<token, shutdown, acceptor, forwarder, conn, client, inbox, answers>>

MutLocalStops == token /\ locals = "running" /\ UNCHANGED vars

LocalStops == token /\ LocalLeaves

(* listener.accept() fails                                                 *)
LocalBreaks == ~token /\ LocalLeaves

(* The file is removed, and the listener dropped.                          *)
LocalRemoves ==
  /\ locals = "leaving"
  /\ locals' = "done"
  /\ UNCHANGED <<token, shutdown, acceptor, forwarder, conn, client, inbox, answers>>

(* handle_client: an Inbox request takes the slot before it is answered.   *)
ServesInbox(k) ==
  /\ client[k] = "reading"
  /\ ClientGoes(k, "answering")
  /\ latest' = NoEvent
  /\ taken' = IF latest = NoEvent THEN taken ELSE Append(taken, latest)
  /\ reply' = [reply EXCEPT ![k] = latest]
  /\ UNCHANGED <<token, shutdown, tasks, conn, queue, hand, sent, printed>>

(* A Dial request runs Node::dial in the session's own task.               *)
ServesDial(k) ==
  /\ client[k] = "reading"
  /\ ClientGoes(k, "dialing")
  /\ UNCHANGED <<token, shutdown, tasks, conn, inbox, answers>>

(* A Message request, and a Dial that names no peer, is answered at once.  *)
Declines(k) ==
  /\ client[k] = "reading"
  /\ ClientGoes(k, "answering")
  /\ UNCHANGED <<token, shutdown, tasks, conn, inbox, answers>>

(* The dial ended, by the token's child if the node is shut down.          *)
DialEnds(k) ==
  /\ client[k] = "dialing"
  /\ ClientGoes(k, "answering")
  /\ UNCHANGED <<token, shutdown, tasks, conn, inbox, answers>>

(* The response is written, and the client process prints the event, if    *)
(* there is one; `uat listen` does not look at its first response.         *)
Responds(k) ==
  /\ client[k] = "answering"
  /\ ClientGoes(k, "served")
  /\ printed' = printed \cup (IF k \in Probes THEN {} ELSE {reply[k]} \ {NoEvent})
  /\ UNCHANGED <<token, shutdown, tasks, conn, inbox, reply>>

(* Reading the request or writing the response failed.                     *)
SessionFails(k) ==
  /\ client[k] \in {"reading", "answering"}
  /\ ClientGoes(k, "gone")
  /\ UNCHANGED <<token, shutdown, tasks, conn, inbox, answers>>

-----------------------------------------------------------------------------
(* Node::shutdown.                                                         *)

(* main's signal handler cancels the token before it calls shutdown.       *)
Signal ==
  /\ ~token
  /\ token' = TRUE
  /\ UNCHANGED <<shutdown, tasks, conn, client, inbox, answers>>

BeginShutdown ==
  /\ shutdown = "up"
  /\ token' = TRUE /\ shutdown' = "waiting"
  /\ UNCHANGED <<tasks, conn, client, inbox, answers>>

Busy(c) == conn[c] \in {"shaking", "calling"}

MutTrackerEmpty ==
  /\ locals = "done"
  /\ \A c \in Conns : ~Busy(c)

TrackerEmpty ==
  /\ acceptor = "done" /\ locals = "done"
  /\ \A c \in Conns : ~Busy(c)

(* tracker.wait() returns; the socket file is removed once more.           *)
WaitReturns ==
  /\ shutdown = "waiting" /\ TrackerEmpty
  /\ shutdown' = "closing"
  /\ UNCHANGED <<token, tasks, conn, client, inbox, answers>>

(* endpoint.close()                                                        *)
EndpointCloses ==
  /\ shutdown = "closing"
  /\ shutdown' = "down"
  /\ UNCHANGED <<token, tasks, conn, client, inbox, answers>>

(* main returns, and the sessions end with the runtime.                    *)
Exit ==
  /\ shutdown = "down"
  /\ client' = [k \in Clients |->
                  IF client[k] \in {"reading", "dialing", "answering"} THEN "gone" ELSE client[k]]
  /\ UNCHANGED <<token, shutdown, tasks, conn, inbox, answers>>

Next ==
  \/ \E c \in Conns : Accepts(c) \/ ShakesHands(c) \/ CallFinishes(c) \/ CallFails(c)
  \/ \E k \in Clients : \/ LocalAccepts(k) \/ ServesInbox(k) \/ ServesDial(k)
                        \/ Declines(k) \/ DialEnds(k) \/ Responds(k) \/ SessionFails(k)
  \/ AcceptorStops \/ LocalStops \/ LocalBreaks \/ LocalRemoves
  \/ ReceiveEvent \/ StoreEvent \/ ForwarderStops
  \/ Signal \/ BeginShutdown \/ WaitReturns \/ EndpointCloses \/ Exit

Spec == Init /\ [][Next]_vars

(* The runtime schedules a task that can go on; a handshake and a call end,*)
(* by their timers if by nothing else.                                     *)
RunningSpec ==
  /\ Spec
  /\ WF_vars(AcceptorStops) /\ WF_vars(LocalStops) /\ WF_vars(LocalRemoves)
  /\ WF_vars(ReceiveEvent) /\ WF_vars(StoreEvent)
  /\ \A c \in Conns : WF_vars(ShakesHands(c)) /\ WF_vars(CallFinishes(c) \/ CallFails(c))
  /\ WF_vars(WaitReturns) /\ WF_vars(EndpointCloses)

-----------------------------------------------------------------------------
(* When shutdown's wait has returned, nothing that was spawned on the      *)
(* tracker runs, and nothing will be: the endpoint is not closed under a   *)
(* call.                                                                   *)
QuietWhenClosed ==
  shutdown \in {"closing", "down"} =>
    /\ acceptor = "done" /\ locals = "done"
    /\ \A c \in Conns : conn[c] \notin {"shaking", "calling"}

(* shutdown returns, whatever was under way when it was called.            *)
ShutdownReturns == (shutdown = "waiting") ~> (shutdown = "down")

(* Clients are told of finished calls in the order in which these finished,*)
(* and of none twice, though events pass through three places and are      *)
(* replaced in the last one.                                               *)
ReportedInOrder ==
  /\ \A i, j \in DOMAIN taken : i < j =>
       \E m, n \in DOMAIN sent : m < n /\ sent[m] = taken[i] /\ sent[n] = taken[j]
  /\ \A e \in ToSet(taken) : e # latest /\ e # hand /\ e \notin ToSet(queue)

(* The newest event the channel accepted is never lost on its way: it is   *)
(* still to come, in the slot, or was handed to a client.                  *)
NewestKept ==
  sent # << >> /\ forwarder = "running" =>
    Last(sent) \in ToSet(queue) \cup {hand, latest} \cup ToSet(taken)

(* Channel, forwarder and slot are one line of events.                     *)
Held(e) == IF e = NoEvent THEN << >> ELSE <<e>>
Promise == INSTANCE InboxPromise WITH
  Calls <- Conns, accepted <- sent, line <- Held(latest) \o Held(hand) \o queue,
  open <- forwarder = "running"

(* However calls, sessions, the forwarder and shutdown interleave, they    *)
(* keep the promise of InboxPromise (node.rs, local.rs).                   *)
KeepsPromise == Promise!Spec

(* While the node runs, an event the channel accepted reaches the slot or  *)
(* is overtaken there: the channel does not stay full.                     *)
QueueDrains == (queue # << >>) ~> ((queue = << >> /\ hand = NoEvent) \/ token)

(* "Prints each event" (the usage text of `uat listen`): an event that was *)
(* taken out of the node for a client, and came through, is printed.       *)
EachEventPrinted ==
  \A k \in Clients : client[k] = "served" => reply[k] \in printed \cup {NoEvent}

=============================================================================
