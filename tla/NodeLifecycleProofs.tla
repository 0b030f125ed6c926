------------------------- MODULE NodeLifecycleProofs -------------------------
(***************************************************************************)
(* Machine-checked safety of NodeLifecycle for any number of connections,  *)
(* sessions and places in the inbox channel.                               *)
(***************************************************************************)
EXTENDS NodeLifecycle, SequenceTheorems, TLAPS

(* Once the token is cancelled the accept loops only end, and what shutdown*)
(* has waited for does not begin again.                                    *)
DrainInv ==
  /\ shutdown # "up" \/ acceptor = "done" => token
  /\ shutdown \in {"closing", "down"} => TrackerEmpty

(* Events of a connection that has ended, each accepted once.              *)
SentInv ==
  /\ \A i \in DOMAIN sent : conn[sent[i]] = "ended"
  /\ \A i, j \in DOMAIN sent : sent[i] = sent[j] => i = j

Earlier(e, f) == \E m, n \in DOMAIN sent : m < n /\ sent[m] = e /\ sent[n] = f
WasSent(e)    == \E m \in DOMAIN sent : sent[m] = e
Queued(e)     == \E i \in DOMAIN queue : queue[i] = e
Waiting(e)    == e # NoEvent /\ (e = latest \/ e = hand \/ Queued(e))

(* The slot, the forwarder's hand and the channel are in order.            *)
LineInv ==
  /\ \A e \in Conns : Waiting(e) => WasSent(e)
  /\ latest # NoEvent /\ hand # NoEvent => Earlier(latest, hand)
  /\ \A e \in {latest, hand} : e # NoEvent =>
       \A i \in DOMAIN queue : Earlier(e, queue[i])
  /\ \A i, j \in DOMAIN queue : i < j => Earlier(queue[i], queue[j])
  /\ forwarder = "done" => hand = NoEvent /\ queue = << >>

(* What was taken is in order, and before all that waits.                  *)
TakenInv ==
  /\ \A i \in DOMAIN taken : WasSent(taken[i])
  /\ \A i, j \in DOMAIN taken : i < j => Earlier(taken[i], taken[j])
  /\ \A i \in DOMAIN taken : \A e \in Conns : Waiting(e) => Earlier(taken[i], e)

NewestInv ==
  sent # << >> /\ forwarder = "running" =>
    \/ Waiting(sent[Len(sent)])
    \/ \E i \in DOMAIN taken : taken[i] = sent[Len(sent)]

IInv == TypeOK /\ DrainInv /\ SentInv /\ LineInv /\ TakenInv /\ NewestInv

-----------------------------------------------------------------------------
LEMMA InitInv == Init => IInv
<1> SUFFICES ASSUME Init PROVE IInv
  OBVIOUS
<1>1. TypeOK
  <2>1. << >> \in Seq(Conns) /\ Len(<< >>) = 0 /\ QueueCap \in Nat /\ 0 <= QueueCap
    BY NodeAssumption
  <2>2. queue \in Seq(Conns) /\ Len(queue) <= QueueCap
    BY <2>1 DEF Init
  <2> QED BY <2>1, <2>2 DEF Init, TypeOK, ShutdownPc, ConnPc, ClientPc
<1>2. DOMAIN sent = {} /\ DOMAIN queue = {} /\ DOMAIN taken = {}
  BY DEF Init
<1> QED BY <1>1, <1>2
        DEF Init, IInv, DrainInv, SentInv, LineInv, TakenInv, NewestInv, TrackerEmpty,
            Waiting, Queued

LEMMA SeqFacts ==
  ASSUME TypeOK
  PROVE  /\ Len(sent) \in Nat /\ DOMAIN sent = 1 .. Len(sent)
         /\ Len(queue) \in Nat /\ DOMAIN queue = 1 .. Len(queue)
         /\ Len(taken) \in Nat /\ DOMAIN taken = 1 .. Len(taken)
         /\ \A i \in DOMAIN sent : sent[i] \in Conns
         /\ \A i \in DOMAIN queue : queue[i] \in Conns
         /\ \A i \in DOMAIN taken : taken[i] \in Conns
BY DEF TypeOK

(* Two events are not each earlier than the other, nor one than itself.    *)
LEMMA EarlierStrict ==
  ASSUME TypeOK, SentInv, NEW e, NEW f, Earlier(e, f)
  PROVE  e # f /\ ~Earlier(f, e) /\ f # NoEvent
<1>1. PICK m, n \in DOMAIN sent : m < n /\ sent[m] = e /\ sent[n] = f
  BY DEF Earlier
<1>2. m \in Nat /\ n \in Nat /\ f \in Conns
  BY <1>1, SeqFacts
<1>3. e # f
  BY <1>1, <1>2 DEF SentInv
<1>4. ASSUME Earlier(f, e) PROVE FALSE
  <2>1. PICK k, l \in DOMAIN sent : k < l /\ sent[k] = f /\ sent[l] = e
    BY <1>4 DEF Earlier
  <2>2. k = n /\ l = m
    BY <1>1, <2>1 DEF SentInv
  <2> QED BY <1>1, <1>2, <2>1, <2>2
<1> QED BY <1>2, <1>3, <1>4, NodeAssumption

-----------------------------------------------------------------------------
(* Steps that leave the events alone.                                      *)
LEMMA EventsStay ==
  ASSUME IInv, UNCHANGED <<queue, hand, latest, sent, taken, forwarder>>,
         TypeOK', DrainInv',
         \A c \in Conns : conn[c] = "ended" => conn'[c] = "ended"
  PROVE  IInv'
<1>1. /\ SentInv' 
  BY SeqFacts DEF IInv, SentInv
<1>2. /\ \A e, f : Earlier(e, f)' <=> Earlier(e, f)
      /\ \A e : (WasSent(e)' <=> WasSent(e)) /\ (Waiting(e)' <=> Waiting(e))
  BY DEF Earlier, WasSent, Waiting, Queued
<1>3. LineInv'
  BY <1>2 DEF IInv, LineInv
<1>4. TakenInv' /\ NewestInv'
  BY <1>2 DEF IInv, TakenInv, NewestInv
<1> QED BY <1>1, <1>3, <1>4 DEF IInv

LEMMA ConnInv ==
  ASSUME IInv, NEW c \in Conns, Accepts(c) \/ ShakesHands(c) \/ CallFails(c)
  PROVE  IInv'
<1>1. PICK stage \in ConnPc :
        /\ conn' = [conn EXCEPT ![c] = stage] /\ conn[c] # "ended"
        /\ UNCHANGED <<token, shutdown, tasks, client, inbox, answers>>
        /\ Busy(c) \/ (acceptor = "running" /\ ~token)
  BY DEF Accepts, ShakesHands, CallFails, ConnGoes, Busy, ConnPc
<1>2. TypeOK'
  BY <1>1 DEF IInv, TypeOK, tasks, inbox, answers
<1>3. shutdown \notin {"closing", "down"}
  BY <1>1 DEF IInv, DrainInv, TrackerEmpty
<1>4. DrainInv'
  BY <1>1, <1>3 DEF IInv, DrainInv, tasks
<1>5. \A d \in Conns : conn[d] = "ended" => conn'[d] = "ended"
  BY <1>1 DEF IInv, TypeOK
<1> QED BY <1>1, <1>2, <1>4, <1>5, EventsStay DEF inbox, tasks

LEMMA ClientInv ==
  ASSUME IInv, NEW k \in Clients,
         LocalAccepts(k) \/ ServesDial(k) \/ Declines(k) \/ DialEnds(k) \/ Responds(k)
           \/ SessionFails(k)
  PROVE  IInv'
<1>1. /\ UNCHANGED <<token, shutdown, tasks, conn, inbox, reply>>
      /\ \E stage \in ClientPc : client' = [client EXCEPT ![k] = stage]
      /\ printed' = printed \/ printed' = printed \cup ({reply[k]} \ {NoEvent})
  BY DEF LocalAccepts, ServesDial, Declines, DialEnds, Responds, SessionFails, ClientGoes,
         ClientPc, answers
<1>2. printed' \subseteq Conns
  BY <1>1 DEF IInv, TypeOK
<1>3. TypeOK'
  BY <1>1, <1>2 DEF IInv, TypeOK, tasks, inbox
<1>4. DrainInv'
  BY <1>1 DEF IInv, DrainInv, TrackerEmpty, Busy, tasks
<1> QED BY <1>1, <1>3, <1>4, EventsStay DEF inbox, tasks

LEMMA NodeInv ==
  ASSUME IInv,
         AcceptorStops \/ LocalStops \/ LocalBreaks \/ LocalRemoves \/ Signal \/ BeginShutdown
           \/ WaitReturns \/ EndpointCloses \/ Exit
  PROVE  IInv'
<1>1. UNCHANGED <<forwarder, conn, inbox, answers>>
  BY DEF AcceptorStops, LocalStops, LocalBreaks, LocalLeaves, LocalRemoves, Signal,
         BeginShutdown, WaitReturns, EndpointCloses, Exit, tasks
<1>2. client' \in [Clients -> ClientPc]
  BY DEF IInv, TypeOK, AcceptorStops, LocalStops, LocalBreaks, LocalLeaves, LocalRemoves, Signal,
         BeginShutdown, WaitReturns, EndpointCloses, Exit, ClientPc
<1>3. TypeOK'
  <2>1. token' \in BOOLEAN /\ shutdown' \in ShutdownPc
    BY DEF IInv, TypeOK, AcceptorStops, LocalStops, LocalBreaks, LocalLeaves, LocalRemoves, Signal,
           BeginShutdown, WaitReturns, EndpointCloses, Exit, ShutdownPc
  <2>2. acceptor' \in {"running", "done"} /\ locals' \in {"running", "leaving", "done"}
    BY DEF IInv, TypeOK, AcceptorStops, LocalStops, LocalBreaks, LocalLeaves, LocalRemoves, Signal,
           BeginShutdown, WaitReturns, EndpointCloses, Exit, tasks
  <2> QED BY <1>1, <1>2, <2>1, <2>2 DEF IInv, TypeOK, inbox, answers
<1>4. DrainInv'
  BY <1>1
     DEF IInv, TypeOK, DrainInv, TrackerEmpty, Busy, AcceptorStops, LocalStops, LocalBreaks,
         LocalLeaves, LocalRemoves, Signal, BeginShutdown, WaitReturns, EndpointCloses, Exit,
         ShutdownPc, tasks
<1> QED BY <1>1, <1>3, <1>4, EventsStay DEF inbox

-----------------------------------------------------------------------------
(* Steps that move an event.  An accepted event comes after all that were. *)
LEMMA SendInv ==
  ASSUME IInv, NEW c \in Conns, CallFinishes(c)
  PROVE  IInv'
<1>1. /\ conn[c] = "calling" /\ conn' = [conn EXCEPT ![c] = "ended"]
      /\ UNCHANGED <<token, shutdown, tasks, client, hand, latest, taken, answers>>
      /\ SendEvent(c)
  BY DEF CallFinishes, ConnGoes
<1>2. TypeOK /\ DrainInv /\ SentInv /\ LineInv /\ TakenInv /\ NewestInv
  BY DEF IInv
<1>3. shutdown \notin {"closing", "down"}
  BY <1>1, <1>2 DEF DrainInv, TrackerEmpty, Busy
<1>4. DrainInv'
  BY <1>1, <1>2, <1>3 DEF DrainInv, tasks
<1>5. \A d \in Conns : conn[d] = "ended" => conn'[d] = "ended"
  BY <1>1, <1>2 DEF TypeOK
<1>6. CASE UNCHANGED <<queue, sent>>
  <2>1. TypeOK'
    BY <1>1, <1>2, <1>6 DEF TypeOK, tasks, answers, ConnPc
  <2> QED BY <1>1, <1>4, <1>5, <1>6, <2>1, EventsStay DEF tasks
<1>7. CASE /\ Len(queue) < QueueCap /\ forwarder = "running"
           /\ queue' = Append(queue, c) /\ sent' = Append(sent, c)
  <2>1. /\ Len(sent') = Len(sent) + 1 /\ DOMAIN sent' = 1 .. Len(sent) + 1
        /\ \A i \in DOMAIN sent : i \in DOMAIN sent' /\ sent'[i] = sent[i]
        /\ Len(sent) + 1 \in DOMAIN sent' /\ sent'[Len(sent) + 1] = c
        /\ sent' \in Seq(Conns) /\ Len(sent) \in Nat /\ DOMAIN sent = 1 .. Len(sent)
    BY <1>2, <1>7 DEF TypeOK
  <2>2. /\ Len(queue') = Len(queue) + 1 /\ DOMAIN queue' = 1 .. Len(queue) + 1
        /\ \A i \in DOMAIN queue : i \in DOMAIN queue' /\ queue'[i] = queue[i]
        /\ Len(queue) + 1 \in DOMAIN queue' /\ queue'[Len(queue) + 1] = c
        /\ queue' \in Seq(Conns) /\ Len(queue) \in Nat /\ DOMAIN queue = 1 .. Len(queue)
    BY <1>2, <1>7 DEF TypeOK
  <2>3. TypeOK'
    BY <1>1, <1>2, <1>7, <2>1, <2>2, NodeAssumption DEF TypeOK, tasks, answers, ConnPc
  <2>4. \A i \in DOMAIN sent : sent[i] # c
    BY <1>1, <1>2 DEF SentInv
  <2>5. SentInv'
    <3>1. \A i \in DOMAIN sent' : conn'[sent'[i]] = "ended"
      BY <1>1, <1>2, <1>5, <2>1, SeqFacts DEF SentInv, TypeOK
    <3>2. \A i, j \in DOMAIN sent' : sent'[i] = sent'[j] => i = j
      BY <1>2, <2>1, <2>4 DEF SentInv
    <3> QED BY <3>1, <3>2 DEF SentInv
  <2>6. \A e, f : Earlier(e, f) => Earlier(e, f)'
    BY <2>1 DEF Earlier
  <2>7. \A e : WasSent(e) => Earlier(e, c)' /\ WasSent(e)'
    BY <2>1 DEF WasSent, Earlier
  <2>8. WasSent(c)'
    BY <2>1 DEF WasSent
  <2>9. \A e : Waiting(e)' <=> Waiting(e) \/ (e = c /\ e # NoEvent)
    BY <1>1, <2>2 DEF Waiting, Queued
  <2>10. \A i \in DOMAIN queue : WasSent(queue[i])
    BY <1>2, SeqFacts, NodeAssumption DEF LineInv, Waiting, Queued
  <2>11. \A e \in {latest, hand} : e # NoEvent => WasSent(e)
    BY <1>2 DEF LineInv, Waiting, TypeOK
  <2>12. LineInv'
    <3>1. \A e \in Conns : Waiting(e)' => WasSent(e)'
      BY <1>2, <2>7, <2>8, <2>9 DEF LineInv
    <3>2. latest' # NoEvent /\ hand' # NoEvent => Earlier(latest, hand)'
      BY <1>1, <1>2, <2>6 DEF LineInv
    <3>3. \A e \in {latest, hand} : e # NoEvent =>
            \A i \in DOMAIN queue' : Earlier(e, queue[i])'
      BY <1>1, <1>2, <2>2, <2>6, <2>7, <2>11 DEF LineInv
    <3>4. \A i, j \in DOMAIN queue' : i < j => Earlier(queue[i], queue[j])'
      <4> SUFFICES ASSUME NEW i \in DOMAIN queue', NEW j \in DOMAIN queue', i < j
                   PROVE  Earlier(queue[i], queue[j])'
        OBVIOUS
      <4>1. i \in DOMAIN queue /\ queue'[i] = queue[i]
        BY <2>2
      <4>2. CASE j \in DOMAIN queue
        BY <1>2, <2>2, <2>6, <4>1, <4>2 DEF LineInv
      <4>3. CASE j = Len(queue) + 1
        BY <2>2, <2>7, <2>10, <4>1, <4>3
      <4> QED BY <2>2, <4>2, <4>3
    <3> QED BY <1>1, <1>7, <3>1, <3>2, <3>3, <3>4 DEF LineInv, tasks
  <2>13. \A i \in DOMAIN taken : WasSent(taken[i])' /\ Earlier(taken[i], c)'
    BY <1>1, <1>2, <2>7 DEF TakenInv
  <2>14. QED
    <3>1. \A i, j \in DOMAIN taken' : i < j => Earlier(taken[i], taken[j])'
      BY <1>1, <1>2, <2>6 DEF TakenInv
    <3>2. \A i \in DOMAIN taken' : \A e \in Conns : Waiting(e)' => Earlier(taken[i], e)'
      BY <1>1, <1>2, <2>6, <2>9, <2>13 DEF TakenInv
    <3>3. NewestInv'
      BY <2>1, <2>9, NodeAssumption DEF NewestInv
    <3> QED BY <1>1, <1>4, <2>3, <2>5, <2>12, <2>13, <3>1, <3>2, <3>3 DEF IInv, TakenInv
<1> QED BY <1>1, <1>6, <1>7 DEF SendEvent

(* The forwarder takes the head of the channel.                            *)
LEMMA ReceiveInv ==
  ASSUME IInv, ReceiveEvent
  PROVE  IInv'
<1>1. /\ hand = NoEvent /\ queue # << >> /\ forwarder = "running"
      /\ hand' = Head(queue) /\ queue' = Tail(queue)
      /\ UNCHANGED <<token, shutdown, tasks, conn, client, latest, sent, taken, answers>>
  BY DEF ReceiveEvent
<1>2. TypeOK /\ DrainInv /\ SentInv /\ LineInv /\ TakenInv /\ NewestInv
  BY DEF IInv
<1>3. /\ Len(queue) \in Nat /\ DOMAIN queue = 1 .. Len(queue) /\ 1 \in DOMAIN queue
      /\ hand' = queue[1] /\ queue[1] \in Conns /\ queue[1] # NoEvent
      /\ queue' \in Seq(Conns) /\ Len(queue') = Len(queue) - 1
      /\ DOMAIN queue' = 1 .. Len(queue) - 1
      /\ \A i \in DOMAIN queue' : queue'[i] = queue[i + 1] /\ i + 1 \in DOMAIN queue
      /\ \A i \in DOMAIN queue : i = 1 \/ (i - 1 \in DOMAIN queue' /\ queue'[i - 1] = queue[i])
  BY <1>1, <1>2, NodeAssumption DEF TypeOK
<1>4. TypeOK' /\ DrainInv' /\ SentInv'
  BY <1>1, <1>2, <1>3, NodeAssumption
     DEF TypeOK, DrainInv, TrackerEmpty, Busy, SentInv, tasks, answers
<1>5. \A e, f : Earlier(e, f)' <=> Earlier(e, f)
  BY <1>1 DEF Earlier
<1>6. \A e : (WasSent(e)' <=> WasSent(e)) /\ (Waiting(e)' <=> Waiting(e))
  <2>1. \A e : Queued(e) <=> e = queue[1] \/ Queued(e)'
    BY <1>3 DEF Queued
  <2> QED BY <1>1, <1>3, <2>1 DEF WasSent, Waiting
<1>7. LineInv'
  <2>1. \A e \in Conns : Waiting(e)' => WasSent(e)'
    BY <1>2, <1>6 DEF LineInv
  <2>2. latest' # NoEvent /\ hand' # NoEvent => Earlier(latest, hand)'
    BY <1>1, <1>2, <1>3, <1>5 DEF LineInv
  <2>3. \A i \in DOMAIN queue' : Earlier(queue[1], queue[i + 1])
    BY <1>2, <1>3 DEF LineInv
  <2>4. \A e \in {latest, hand}' : e # NoEvent => \A i \in DOMAIN queue' : Earlier(e, queue[i])'
    BY <1>1, <1>2, <1>3, <1>5, <2>3 DEF LineInv
  <2>5. \A i, j \in DOMAIN queue' : i < j => Earlier(queue[i], queue[j])'
    BY <1>2, <1>3, <1>5 DEF LineInv
  <2> QED BY <1>1, <2>1, <2>2, <2>4, <2>5 DEF LineInv, tasks
<1>8. TakenInv' /\ NewestInv'
  BY <1>1, <1>2, <1>5, <1>6 DEF TakenInv, NewestInv, tasks
<1> QED BY <1>4, <1>7, <1>8 DEF IInv

(* It overwrites the slot: what was there had a newer event behind it.     *)
LEMMA StoreInv ==
  ASSUME IInv, StoreEvent
  PROVE  IInv'
<1>1. /\ hand # NoEvent /\ latest' = hand /\ hand' = NoEvent
      /\ UNCHANGED <<token, shutdown, tasks, conn, client, queue, sent, taken, answers>>
  BY DEF StoreEvent
<1>2. TypeOK /\ DrainInv /\ SentInv /\ LineInv /\ TakenInv /\ NewestInv
  BY DEF IInv
<1>3. TypeOK' /\ DrainInv' /\ SentInv'
  BY <1>1, <1>2 DEF TypeOK, DrainInv, TrackerEmpty, Busy, SentInv, tasks, answers
<1>4. /\ \A e, f : Earlier(e, f)' <=> Earlier(e, f)
      /\ \A e : WasSent(e)' <=> WasSent(e)
      /\ \A e : Waiting(e)' => Waiting(e)
      /\ \A e : Waiting(e) => Waiting(e)' \/ e = latest
  BY <1>1 DEF Earlier, WasSent, Waiting, Queued
<1>5. LineInv'
  BY <1>1, <1>2, <1>4 DEF LineInv, tasks
<1>6. TakenInv'
  BY <1>1, <1>2, <1>4 DEF TakenInv
<1>7. latest # NoEvent => latest # sent[Len(sent)]
  <2>1. CASE latest # NoEvent
    <3>1. PICK m, n \in DOMAIN sent : m < n /\ sent[m] = latest
      BY <1>1, <1>2, <2>1 DEF LineInv, Earlier
    <3>2. m # Len(sent) /\ Len(sent) \in DOMAIN sent
      BY <1>2, <3>1, SeqFacts
    <3> QED BY <1>2, <3>1, <3>2 DEF SentInv
  <2> QED BY <2>1
<1>8. NewestInv'
  BY <1>1, <1>2, <1>4, <1>7 DEF NewestInv, tasks, Waiting
<1> QED BY <1>3, <1>5, <1>6, <1>8 DEF IInv

(* It ends, and the channel with it.                                       *)
LEMMA ForwarderInv ==
  ASSUME IInv, ForwarderStops
  PROVE  IInv'
<1>1. /\ hand = NoEvent /\ forwarder' = "done" /\ queue' = << >>
      /\ UNCHANGED <<token, shutdown, acceptor, locals, conn, client, hand, latest, sent, taken,
                     answers>>
  BY DEF ForwarderStops
<1>2. TypeOK /\ DrainInv /\ SentInv /\ LineInv /\ TakenInv
  BY DEF IInv
<1>3. queue' \in Seq(Conns) /\ Len(queue') = 0 /\ DOMAIN queue' = {}
  BY <1>1
<1>4. TypeOK' /\ DrainInv' /\ SentInv'
  BY <1>1, <1>2, <1>3, NodeAssumption
     DEF TypeOK, DrainInv, TrackerEmpty, Busy, SentInv, answers
<1>5. /\ \A e, f : Earlier(e, f)' <=> Earlier(e, f)
      /\ \A e : WasSent(e)' <=> WasSent(e)
      /\ \A e : Waiting(e)' => Waiting(e)
  BY <1>1, <1>3 DEF Earlier, WasSent, Waiting, Queued
<1>6. LineInv' /\ TakenInv' /\ NewestInv'
  BY <1>1, <1>2, <1>3, <1>5 DEF LineInv, TakenInv, NewestInv
<1> QED BY <1>4, <1>6 DEF IInv

(* A session takes the slot: the oldest of all that waits.                 *)
LEMMA ServeInv ==
  ASSUME IInv, NEW k \in Clients, ServesInbox(k)
  PROVE  IInv'
<1>1. /\ client' = [client EXCEPT ![k] = "answering"] /\ latest' = NoEvent
      /\ taken' = IF latest = NoEvent THEN taken ELSE Append(taken, latest)
      /\ reply' = [reply EXCEPT ![k] = latest]
      /\ UNCHANGED <<token, shutdown, tasks, conn, queue, hand, sent, printed>>
  BY DEF ServesInbox, ClientGoes
<1>2. TypeOK /\ DrainInv /\ SentInv /\ LineInv /\ TakenInv /\ NewestInv
  BY DEF IInv
<1>3. /\ \A e, f : Earlier(e, f)' <=> Earlier(e, f)
      /\ \A e : WasSent(e)' <=> WasSent(e)
      /\ \A e : Waiting(e)' => Waiting(e)
      /\ \A e : Waiting(e) => Waiting(e)' \/ e = latest
  BY <1>1 DEF Earlier, WasSent, Waiting, Queued
<1>4. LineInv'
  BY <1>1, <1>2, <1>3 DEF LineInv, tasks
<1>5. taken' \in Seq(Conns)
  BY <1>1, <1>2 DEF TypeOK
<1>6. TypeOK' /\ DrainInv' /\ SentInv'
  BY <1>1, <1>2, <1>5 DEF TypeOK, ClientPc, DrainInv, TrackerEmpty, Busy, SentInv, tasks
<1>7. CASE latest = NoEvent
  BY <1>1, <1>2, <1>3, <1>4, <1>6, <1>7 DEF IInv, TakenInv, NewestInv, Waiting, tasks
<1>8. CASE latest # NoEvent
  <2>1. /\ DOMAIN taken' = 1 .. Len(taken) + 1 /\ DOMAIN taken = 1 .. Len(taken)
        /\ Len(taken) \in Nat
        /\ \A i \in DOMAIN taken : taken'[i] = taken[i] /\ i \in DOMAIN taken'
        /\ Len(taken) + 1 \in DOMAIN taken' /\ taken'[Len(taken) + 1] = latest
        /\ latest \in Conns
    BY <1>1, <1>2, <1>8 DEF TypeOK
  <2>2. Waiting(latest) /\ WasSent(latest)
    BY <1>2, <1>8, <2>1 DEF Waiting, LineInv
  <2>3. \A e \in Conns : Waiting(e)' => Earlier(latest, e)
    BY <1>1, <1>2, <1>8 DEF LineInv, Waiting, Queued
  <2>4. \A i \in DOMAIN taken' : WasSent(taken'[i])
    BY <1>2, <2>1, <2>2 DEF TakenInv
  <2>5. \A i, j \in DOMAIN taken' : i < j => Earlier(taken'[i], taken'[j])
    <3> SUFFICES ASSUME NEW i \in DOMAIN taken', NEW j \in DOMAIN taken', i < j
                 PROVE  Earlier(taken'[i], taken'[j])
      OBVIOUS
    <3>1. i \in DOMAIN taken /\ taken'[i] = taken[i]
      BY <2>1
    <3>2. CASE j \in DOMAIN taken
      BY <1>2, <2>1, <3>1, <3>2 DEF TakenInv
    <3>3. CASE j = Len(taken) + 1
      BY <1>2, <2>1, <2>2, <3>1, <3>3 DEF TakenInv
    <3> QED BY <2>1, <3>2, <3>3
  <2>6. \A i \in DOMAIN taken' : \A e \in Conns : Waiting(e)' => Earlier(taken'[i], e)
    BY <1>2, <1>3, <2>1, <2>3 DEF TakenInv
  <2>7. TakenInv'
    BY <1>3, <2>4, <2>5, <2>6 DEF TakenInv
  <2>8. NewestInv'
    BY <1>1, <1>2, <1>3, <2>1 DEF NewestInv, tasks
  <2> QED BY <1>4, <1>6, <2>7, <2>8 DEF IInv
<1> QED BY <1>7, <1>8

LEMMA StepInv == IInv /\ [Next]_vars => IInv'
<1> SUFFICES ASSUME IInv, [Next]_vars PROVE IInv'
  OBVIOUS
<1>1. CASE UNCHANGED vars
  <2>1. TypeOK' /\ DrainInv'
    BY <1>1 DEF IInv, TypeOK, DrainInv, TrackerEmpty, Busy, vars, tasks, inbox, answers
  <2> QED BY <1>1, <2>1, EventsStay DEF vars, tasks, inbox
<1>2. CASE Next
  BY <1>2, ConnInv, SendInv, ClientInv, ServeInv, NodeInv, ReceiveInv, StoreInv, ForwarderInv
     DEF Next
<1> QED BY <1>1, <1>2

LEMMA Invariant == Spec => []IInv
BY InitInv, StepInv, PTL DEF Spec

-----------------------------------------------------------------------------
(* Everything keeps its type; the inbox channel never holds more than its  *)
(* capacity (NodeInner, node.rs).                                          *)
THEOREM TypeCorrect == Spec => []TypeOK
<1>1. IInv => TypeOK
  BY DEF IInv
<1> QED BY <1>1, Invariant, PTL

(* Node::shutdown closes the endpoint only when every task of the tracker  *)
(* has ended, and none begins after that.                                  *)
THEOREM QuietAfterWait == Spec => []QuietWhenClosed
<1>1. IInv => QuietWhenClosed
  BY DEF IInv, DrainInv, TrackerEmpty, Busy, QuietWhenClosed
<1> QED BY <1>1, Invariant, PTL

(* Events leave the slot in the order in which their calls ended, each     *)
(* once, through try_send, the forwarder and Inbox requests.               *)
THEOREM InOrder == Spec => []ReportedInOrder
<1>1. ASSUME IInv PROVE ReportedInOrder
  <2>1. TypeOK /\ SentInv /\ TakenInv
    BY <1>1 DEF IInv
  <2>2. \A i, j \in DOMAIN taken : i < j =>
          \E m, n \in DOMAIN sent : m < n /\ sent[m] = taken[i] /\ sent[n] = taken[j]
    BY <2>1 DEF TakenInv, Earlier
  <2>3. ASSUME NEW i \in DOMAIN taken PROVE ~Waiting(taken[i]) /\ taken[i] # NoEvent
    <3>1. taken[i] \in Conns
      BY <2>1, SeqFacts
    <3>2. ASSUME Waiting(taken[i]) PROVE FALSE
      <4>1. Earlier(taken[i], taken[i])
        BY <2>1, <3>1, <3>2 DEF TakenInv
      <4> QED BY <2>1, <4>1, EarlierStrict
    <3> QED BY <3>1, <3>2, NodeAssumption
  <2>4. \A e \in ToSet(taken) : e # latest /\ e # hand /\ e \notin ToSet(queue)
    <3>1. \A e \in ToSet(taken) : \E i \in DOMAIN taken : e = taken[i]
      BY DEF ToSet
    <3>2. \A e \in ToSet(queue) : Queued(e)
      BY DEF ToSet, Queued
    <3> QED BY <2>3, <3>1, <3>2 DEF Waiting
  <2> QED BY <2>2, <2>4 DEF ReportedInOrder
<1> QED BY <1>1, Invariant, PTL

(* The event that entered the channel last is on its way, in the slot or   *)
(* with a client: the slot's overwriting never loses it.                   *)
THEOREM NewestNotLost == Spec => []NewestKept
<1>1. ASSUME IInv, sent # << >>, forwarder = "running"
      PROVE  Last(sent) \in ToSet(queue) \cup {hand, latest} \cup ToSet(taken)
  <2>1. Last(sent) = sent[Len(sent)]
    BY DEF Last
  <2>2. Waiting(Last(sent)) \/ \E i \in DOMAIN taken : taken[i] = Last(sent)
    BY <1>1, <2>1 DEF IInv, NewestInv
  <2>3. /\ \A e : Queued(e) => e \in ToSet(queue)
        /\ \A i \in DOMAIN taken : taken[i] \in ToSet(taken)
    BY DEF ToSet, Queued
  <2> QED BY <2>2, <2>3 DEF Waiting
<1>2. IInv => NewestKept
  BY <1>1 DEF NewestKept
<1> QED BY <1>2, Invariant, PTL

-----------------------------------------------------------------------------
(* The line of InboxPromise: the slot, the forwarder's hand, the channel.  *)
Line == Held(latest) \o Held(hand) \o queue

LEMMA HeldFirst ==
  ASSUME NEW e \in Conns, NEW q \in Seq(Conns)
  PROVE  /\ Held(e) = <<e>> /\ Held(e) \o q \in Seq(Conns)
         /\ Len(Held(e) \o q) = Len(q) + 1 /\ Held(e) \o q # << >>
         /\ Head(Held(e) \o q) = e /\ Tail(Held(e) \o q) = q
<1>1. Held(e) = <<e>> /\ <<e>> \in Seq(Conns) /\ Len(<<e>>) = 1
  BY NodeAssumption DEF Held
<1> DEFINE s == <<e>> \o q
<1>2. /\ s \in Seq(Conns) /\ Len(s) = 1 + Len(q)
      /\ \A i \in 1 .. 1 + Len(q) : s[i] = IF i <= 1 THEN <<e>>[i] ELSE q[i - 1]
  BY <1>1, ConcatProperties
<1>3. Len(q) \in Nat
  OBVIOUS
<1> HIDE DEF s
<1>4. s # << >> /\ Head(s) = e
  BY <1>2, <1>3
<1>5. /\ Tail(s) \in Seq(Conns) /\ Len(Tail(s)) = Len(q)
      /\ \A i \in 1 .. Len(q) : Tail(s)[i] = s[i + 1]
  BY <1>2, <1>3, <1>4, HeadTailProperties
<1>6. \A i \in 1 .. Len(q) : s[i + 1] = q[i]
  BY <1>2, <1>3
<1>7. Tail(s) = q
  BY <1>5, <1>6, SeqEqual
<1> QED BY <1>1, <1>2, <1>3, <1>4, <1>7 DEF s

(* The line, by what is empty.                                             *)
LEMMA LineCases ==
  \A q \in Seq(Conns) : \A l, h \in Conns \cup {NoEvent} :
    /\ Held(l) \in Seq(Conns) /\ Held(h) \in Seq(Conns)
    /\ Held(NoEvent) \o q = q
    /\ Held(h) \o q \in Seq(Conns)
    /\ Held(l) \o Held(h) \o q = Held(l) \o (Held(h) \o q)
<1> TAKE q \in Seq(Conns)
<1> TAKE l, h \in Conns \cup {NoEvent}
<1>1. \A e \in Conns \cup {NoEvent} : Held(e) \in Seq(Conns)
  BY DEF Held
<1>2. Held(NoEvent) \o q = q
  BY ConcatEmptySeq DEF Held
<1>3. Held(h) \o q \in Seq(Conns)
  BY <1>1, ConcatProperties
<1>4. Held(l) \o Held(h) \o q = Held(l) \o (Held(h) \o q)
  BY <1>1, ConcatAssociative
<1> QED BY <1>1, <1>2, <1>3, <1>4

(* An event in the hand stands behind the slot and before the channel.     *)
LEMMA LineSplit ==
  \A q \in Seq(Conns) : \A l \in Conns \cup {NoEvent} : \A h \in Conns :
    /\ Held(l) \o Held(h) \o q = Held(l) \o (Held(h) \o q)
    /\ Held(h) \o q \in Seq(Conns)
<1> TAKE q \in Seq(Conns)
<1> TAKE l \in Conns \cup {NoEvent}
<1> TAKE h \in Conns
<1>1. \A e \in Conns \cup {NoEvent} : Held(e) \in Seq(Conns)
  BY DEF Held
<1>2. Held(l) \in Seq(Conns) /\ Held(h) \in Seq(Conns)
  BY <1>1
<1> DEFINE x == Held(l)
           y == Held(h)
<1>3. x \in Seq(Conns) /\ y \in Seq(Conns)
  BY <1>2
<1> HIDE DEF x, y
<1>4. x \o y \o q = x \o (y \o q)
  BY <1>3, ConcatAssociative
<1>5. y \o q \in Seq(Conns)
  BY <1>3, ConcatProperties
<1> QED BY <1>4, <1>5 DEF x, y

LEMMA NothingHeld ==
  \A q \in Seq(Conns) : \A l \in Conns \cup {NoEvent} :
    Held(l) \o Held(NoEvent) \o q = Held(l) \o q
<1> TAKE q \in Seq(Conns)
<1> TAKE l \in Conns \cup {NoEvent}
<1>1. NoEvent \in Conns \cup {NoEvent}
  OBVIOUS
<1>2. Held(NoEvent) \o q = q
  BY <1>1, LineCases
<1>3. Held(l) \o Held(NoEvent) \o q = Held(l) \o (Held(NoEvent) \o q)
  BY <1>1, LineCases
<1> QED BY <1>2, <1>3

LEMMA SendKeeps ==
  ASSUME IInv, NEW c \in Conns, CallFinishes(c)
  PROVE  Promise!Enter(c) \/ UNCHANGED <<sent, Line, taken, forwarder>>
<1>1. /\ conn[c] = "calling" /\ UNCHANGED <<hand, latest, taken, forwarder>> /\ SendEvent(c)
  BY DEF CallFinishes, tasks
<1>2. CASE UNCHANGED <<queue, sent>>
  BY <1>1, <1>2 DEF Line
<1>3. CASE /\ forwarder = "running"
           /\ queue' = Append(queue, c) /\ sent' = Append(sent, c)
  <2>1. \A i \in DOMAIN sent : sent[i] # c
    BY <1>1 DEF IInv, SentInv
  <2>2. Line' = Append(Line, c)
    <3> DEFINE X == Held(latest) \o Held(hand)
    <3>1. X \in Seq(Conns) /\ queue \in Seq(Conns) /\ <<c>> \in Seq(Conns)
      BY LineCases, ConcatProperties DEF IInv, TypeOK
    <3>2. X \o queue \in Seq(Conns)
      BY <3>1, ConcatProperties
    <3> HIDE DEF X
    <3>3. Append(queue, c) = queue \o <<c>>
      BY <3>1, AppendIsConcat
    <3>4. Append(X \o queue, c) = (X \o queue) \o <<c>>
      BY <3>2, AppendIsConcat
    <3>5. X \o (queue \o <<c>>) = (X \o queue) \o <<c>>
      BY <3>1, ConcatAssociative
    <3>6. Line' = X \o Append(queue, c) /\ Line = X \o queue
      BY <1>1, <1>3 DEF Line, X
    <3> QED BY <3>3, <3>4, <3>5, <3>6
  <2> QED BY <1>1, <1>3, <2>1, <2>2 DEF Promise!Enter, Line
<1> QED BY <1>1, <1>2, <1>3 DEF SendEvent

LEMMA StoreKeeps ==
  ASSUME IInv, StoreEvent
  PROVE  Promise!GiveUp \/ UNCHANGED <<sent, Line, taken, forwarder>>
<1>1. /\ hand # NoEvent /\ latest' = hand /\ hand' = NoEvent
      /\ UNCHANGED <<sent, taken, forwarder, queue>>
  BY DEF StoreEvent, tasks
<1>2. /\ queue \in Seq(Conns) /\ latest \in Conns \cup {NoEvent} /\ hand \in Conns
  BY <1>1 DEF IInv, TypeOK
<1> DEFINE behind == Held(hand) \o queue
<1>3. Line = Held(latest) \o behind /\ behind \in Seq(Conns) /\ Len(behind) = Len(queue) + 1
  <2>1. Len(behind) = Len(queue) + 1
    BY <1>2, HeldFirst
  <2>2. Line = Held(latest) \o behind /\ behind \in Seq(Conns)
    BY <1>2, LineSplit DEF Line
  <2> QED BY <2>1, <2>2
<1>4. Line' = behind
  <2>1. Line' = Held(hand) \o Held(NoEvent) \o queue
    BY <1>1 DEF Line
  <2> QED BY <1>2, <2>1, NothingHeld
<1> HIDE DEF behind
<1>5. CASE latest = NoEvent
  BY <1>1, <1>3, <1>4, <1>5, LineCases
<1>6. CASE latest # NoEvent
  <2>1. Len(Line) = Len(behind) + 1 /\ Tail(Line) = behind
    BY <1>2, <1>3, <1>6, HeldFirst
  <2>2. Len(queue) \in Nat
    BY <1>2
  <2> QED BY <1>1, <1>3, <1>4, <2>1, <2>2 DEF Promise!GiveUp, Line
<1> QED BY <1>5, <1>6

LEMMA ReceiveKeeps ==
  ASSUME IInv, ReceiveEvent
  PROVE  UNCHANGED <<sent, Line, taken, forwarder>>
<1>1. /\ hand = NoEvent /\ queue # << >> /\ hand' = Head(queue) /\ queue' = Tail(queue)
      /\ UNCHANGED <<sent, latest, taken, forwarder>>
  BY DEF ReceiveEvent, tasks
<1>2. queue \in Seq(Conns) /\ latest \in Conns \cup {NoEvent}
  BY DEF IInv, TypeOK
<1>3. Head(queue) \in Conns /\ Tail(queue) \in Seq(Conns)
  BY <1>1, <1>2, HeadTailProperties
<1>4. Held(Head(queue)) \o Tail(queue) = queue
  <2> DEFINE s == Held(Head(queue)) \o Tail(queue)
  <2>1. s \in Seq(Conns) /\ Len(s) = Len(Tail(queue)) + 1 /\ s # << >>
        /\ Head(s) = Head(queue) /\ Tail(s) = Tail(queue)
    BY <1>3, HeldFirst
  <2>2. Len(queue) \in Nat /\ Len(Tail(queue)) = Len(queue) - 1 /\ Len(queue) >= 1
    BY <1>1, <1>2
  <2> HIDE DEF s
  <2>3. \A i \in 1 .. Len(queue) : s[i] = queue[i]
    <3> SUFFICES ASSUME NEW i \in 1 .. Len(queue) PROVE s[i] = queue[i]
      OBVIOUS
    <3>1. CASE i = 1
      BY <1>1, <1>2, <2>1, <3>1
    <3>2. CASE i # 1
      <4>1. i - 1 \in 1 .. Len(queue) - 1 /\ (i - 1) + 1 = i
        BY <2>2, <3>2
      <4>2. Tail(s)[i - 1] = s[(i - 1) + 1]
        BY <2>1, <2>2, <4>1, HeadTailProperties
      <4>3. Tail(queue)[i - 1] = queue[(i - 1) + 1]
        BY <1>1, <1>2, <2>2, <4>1, HeadTailProperties
      <4> QED BY <2>1, <4>1, <4>2, <4>3
    <3> QED BY <3>1, <3>2
  <2>4. s = queue
    BY <1>2, <2>1, <2>2, <2>3, SeqEqual
  <2> QED BY <2>4 DEF s
<1>5. Line = Held(latest) \o queue
  <2>1. Line = Held(latest) \o Held(NoEvent) \o queue
    BY <1>1 DEF Line
  <2> QED BY <1>2, <2>1, NothingHeld
<1>6. Line' = Held(latest) \o (Held(Head(queue)) \o Tail(queue))
  <2>1. Line' = Held(latest) \o Held(Head(queue)) \o Tail(queue)
    BY <1>1 DEF Line
  <2> QED BY <1>2, <1>3, <2>1, LineSplit
<1> QED BY <1>1, <1>4, <1>5, <1>6

LEMMA ServeKeeps ==
  ASSUME IInv, NEW k \in Clients, ServesInbox(k)
  PROVE  Promise!HandOut \/ UNCHANGED <<sent, Line, taken, forwarder>>
<1>1. /\ latest' = NoEvent /\ taken' = IF latest = NoEvent THEN taken ELSE Append(taken, latest)
      /\ UNCHANGED <<sent, hand, queue, forwarder>>
  BY DEF ServesInbox, tasks
<1>2. /\ queue \in Seq(Conns) /\ latest \in Conns \cup {NoEvent}
      /\ hand \in Conns \cup {NoEvent}
  BY DEF IInv, TypeOK
<1> DEFINE behind == Held(hand) \o queue
<1>3. Line = Held(latest) \o behind /\ behind \in Seq(Conns)
  BY <1>2, LineCases DEF Line
<1>4. Line' = behind
  <2>1. Line' = Held(NoEvent) \o behind
    BY <1>1, <1>2, LineCases DEF Line
  <2> QED BY <1>3, <2>1, LineCases
<1> HIDE DEF behind
<1>5. CASE latest = NoEvent
  BY <1>1, <1>3, <1>4, <1>5, LineCases
<1>6. CASE latest # NoEvent
  <2>1. Line # << >> /\ Head(Line) = latest /\ Tail(Line) = behind
    BY <1>2, <1>3, <1>6, HeldFirst
  <2> QED BY <1>1, <1>4, <1>6, <2>1 DEF Promise!HandOut, Line
<1> QED BY <1>5, <1>6

LEMMA StopKeeps ==
  ASSUME IInv, ForwarderStops
  PROVE  Promise!Stop
<1>1. /\ hand = NoEvent /\ forwarder = "running" /\ forwarder' = "done" /\ queue' = << >>
      /\ UNCHANGED <<sent, hand, latest, taken>>
  BY DEF ForwarderStops
<1>2. /\ queue \in Seq(Conns) /\ latest \in Conns \cup {NoEvent} /\ << >> \in Seq(Conns)
  BY DEF IInv, TypeOK
<1>3. Line = Held(latest) \o queue /\ Line' = Held(latest)
  <2>1. /\ Line = Held(latest) \o Held(NoEvent) \o queue
        /\ Line' = Held(latest) \o Held(NoEvent) \o << >>
    BY <1>1 DEF Line
  <2>2. Line = Held(latest) \o queue /\ Line' = Held(latest) \o << >>
    BY <1>2, <2>1, NothingHeld
  <2>3. Held(latest) \o << >> = Held(latest)
    BY <1>2, LineCases, ConcatEmptySeq
  <2> QED BY <2>2, <2>3
<1>4. Line \in Seq(Conns) /\ Len(Line) \in Nat
  BY <1>2, <1>3, LineCases, ConcatProperties
<1>5. CASE latest = NoEvent
  <2>1. Line' = << >> /\ SubSeq(Line, 1, 0) = << >>
    BY <1>3, <1>5, SubSeqEmpty DEF Held
  <2>2. \E n \in {0, 1} : n <= Len(Line) /\ Line' = SubSeq(Line, 1, n)
    BY <1>4, <2>1
  <2> QED BY <1>1, <2>2 DEF Promise!Stop, Line
<1>6. CASE latest # NoEvent
  <2>1. /\ Line' = <<latest>> /\ Len(Line) = Len(queue) + 1 /\ Line # << >>
        /\ Head(Line) = latest
    BY <1>2, <1>3, <1>6, HeldFirst
  <2>2. Len(Line) >= 1 /\ Line[1] = latest
    BY <1>2, <1>4, <2>1
  <2>3. /\ SubSeq(Line, 1, 1) \in Seq(Conns) /\ Len(SubSeq(Line, 1, 1)) = 1
        /\ SubSeq(Line, 1, 1)[1] = latest
    BY <1>4, <2>2
  <2>4. <<latest>> \in Seq(Conns) /\ Len(<<latest>>) = 1 /\ <<latest>>[1] = latest
    BY <1>2, <1>6
  <2>5. SubSeq(Line, 1, 1) = <<latest>>
    <3>1. \A i \in 1 .. 1 : SubSeq(Line, 1, 1)[i] = <<latest>>[i]
      BY <2>3, <2>4
    <3> DEFINE s == SubSeq(Line, 1, 1)
               t == <<latest>>
    <3>2. s \in Seq(Conns) /\ t \in Seq(Conns) /\ Len(s) = 1 /\ Len(t) = 1
          /\ \A i \in 1 .. 1 : s[i] = t[i]
      BY <2>3, <2>4, <3>1
    <3> HIDE DEF s, t
    <3>3. s = t
      BY <3>2, SeqEqual
    <3> QED BY <3>3 DEF s, t
  <2>6. \E n \in {0, 1} : n <= Len(Line) /\ Line' = SubSeq(Line, 1, n)
    BY <2>1, <2>2, <2>5
  <2> QED BY <1>1, <2>6 DEF Promise!Stop, Line
<1> QED BY <1>5, <1>6

(* The channel, the forwarder and the slot are one line of events, handed  *)
(* out from its head, of which only an event with a newer one behind it is *)
(* given up: NodeLifecycle implements InboxPromise.                        *)
THEOREM PromiseKept == Spec => KeepsPromise
<1>1. Init => Promise!Init
  <2> SUFFICES ASSUME Init PROVE Promise!Init
    OBVIOUS
  <2>1. Line = << >>
    <3>1. Line = (<< >> \o << >>) \o << >>
      BY DEF Init, Held, Line
    <3>2. << >> \o << >> = << >>
      BY ConcatEmptySeq, EmptySeq
    <3> QED BY <3>1, <3>2
  <2> QED BY <2>1 DEF Init, Promise!Init, Line
<1>2. IInv /\ [Next]_vars => [Promise!Next]_<<sent, Line, taken, forwarder = "running">>
  <2> SUFFICES ASSUME IInv, [Next]_vars
               PROVE  Promise!Next \/ UNCHANGED <<sent, Line, taken, forwarder>>
    OBVIOUS
  <2>1. ASSUME UNCHANGED <<sent, hand, latest, queue, taken, forwarder>>
        PROVE  UNCHANGED <<sent, Line, taken, forwarder>>
    BY <2>1 DEF Line
  <2>2. CASE UNCHANGED vars
    BY <2>1, <2>2 DEF vars, inbox, tasks
  <2>3. ASSUME NEW c \in Conns, Accepts(c) \/ ShakesHands(c) \/ CallFails(c)
        PROVE  UNCHANGED <<sent, Line, taken, forwarder>>
    BY <2>1, <2>3 DEF Accepts, ShakesHands, CallFails, inbox, tasks
  <2>4. ASSUME NEW k \in Clients,
               LocalAccepts(k) \/ ServesDial(k) \/ Declines(k) \/ DialEnds(k) \/ Responds(k)
                 \/ SessionFails(k)
        PROVE  UNCHANGED <<sent, Line, taken, forwarder>>
    BY <2>1, <2>4
       DEF LocalAccepts, ServesDial, Declines, DialEnds, Responds, SessionFails, inbox, tasks
  <2>5. ASSUME AcceptorStops \/ LocalStops \/ LocalBreaks \/ LocalRemoves \/ Signal
                 \/ BeginShutdown \/ WaitReturns \/ EndpointCloses \/ Exit
        PROVE  UNCHANGED <<sent, Line, taken, forwarder>>
    BY <2>1, <2>5
       DEF AcceptorStops, LocalStops, LocalBreaks, LocalLeaves, LocalRemoves, Signal,
           BeginShutdown, WaitReturns, EndpointCloses, Exit, inbox, tasks
  <2>6. ASSUME NEW c \in Conns, CallFinishes(c)
        PROVE  Promise!Next \/ UNCHANGED <<sent, Line, taken, forwarder>>
    BY <2>6, SendKeeps DEF Promise!Next
  <2>7. ASSUME NEW k \in Clients, ServesInbox(k)
        PROVE  Promise!Next \/ UNCHANGED <<sent, Line, taken, forwarder>>
    BY <2>7, ServeKeeps DEF Promise!Next
  <2>8. CASE ReceiveEvent
    BY <2>8, ReceiveKeeps
  <2>9. CASE StoreEvent
    BY <2>9, StoreKeeps DEF Promise!Next
  <2>10. CASE ForwarderStops
    BY <2>10, StopKeeps DEF Promise!Next
  <2> QED BY <2>2, <2>3, <2>4, <2>5, <2>6, <2>7, <2>8, <2>9, <2>10 DEF Next
<1> QED BY <1>1, <1>2, Invariant, PTL DEF Spec, KeepsPromise, Promise!Spec, Line

=============================================================================
