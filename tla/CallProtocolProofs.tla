------------------------- MODULE CallProtocolProofs -------------------------
(***************************************************************************)
(* Machine-checked safety of CallProtocol, for every value of LossCodes,   *)
(* Timers and MaxInFlight; and of CallTimers, for every deadline and       *)
(* margin: what the margin between the two timers guarantees, and that a   *)
(* call with its timers on a clock is a call of CallProtocol.              *)
(***************************************************************************)
EXTENDS CallProtocolInv, CallTimers, SequenceTheorems, TLAPS

-----------------------------------------------------------------------------
(* The tables, read as case distinctions.                                  *)

(* What the caller may send, and where that leads (state.rs caller_step).  *)
LEMMA CallerSendTable ==
  ASSUME NEW s \in CallerState, NEW m \in CallerToCallee, NEW t \in caller_send(s, m)
  PROVE  \/ s = At("Dialing") /\ m = SubmitMsg /\ t = At("Submitted")
         \/ s = At("AwaitingInput") /\ m = InputMsg /\ t = At("Working")
         \/ /\ s \in {At("Submitted"), At("Working"), At("AwaitingInput")}
            /\ m = CancelMsg
            /\ t = At("Canceling")
  BY DEF caller_send, Follow, CallerSends, CallerState, CallerPhase, At, Terminal,
         CallerToCallee, Msg, SubmitMsg, InputMsg, CancelMsg

(* What the caller does with each message (state.rs caller_step).          *)
LEMMA CallerRecvTable ==
  ASSUME NEW s \in CallerState, NEW m \in CalleeToCaller, NEW t \in caller_recv(s, m)
  PROVE  \/ m \in Answer /\ t = Terminal(m)
         \/ m \notin Answer /\ s = At("Canceling") /\ t = s
         \/ m = Msg("Accepted") /\ s = At("Submitted") /\ t = At("Working")
         \/ m = Msg("Progress") /\ s = At("Working") /\ t = s
         \/ m = NeedInput /\ s = At("Working") /\ t = At("AwaitingInput")
  BY DEF caller_recv, Follow, CallerRecvs, CancelingRecvs, CallerState, CallerPhase, At, Terminal,
         CalleeToCaller, Msg, NeedInput, Answer, Failed, Completed, Canceled, OutcomeOf,
         FailureCode

(* Whatever MayHead allows has an entry in the caller's table.             *)
LEMMA CallerRecvDefined ==
  ASSUME NEW s \in CallerState, NEW m \in MayHead(s.phase)
  PROVE  caller_recv(s, m) # {}
<1>1. SUFFICES \E r \in CallerRecvs : r[1] = s.phase /\ r[2] = m.kind
  BY DEF caller_recv, Follow
<1>2. CASE s.phase = "Submitted"
  <2>1. m.kind \in {"Accepted", "Failed"}
    BY <1>2 DEF MayHead, Answer, Msg, Failed, Completed, Canceled
  <2>. QED  BY <1>2, <2>1 DEF CallerRecvs, CancelingRecvs
<1>3. CASE s.phase = "Working"
  <2>1. m.kind \in {"Progress", "NeedInput", "Completed", "Failed"}
    BY <1>3 DEF MayHead, LateAnswer, Answer, NeedInput, Msg, Failed, Completed, Canceled
  <2>. QED  BY <1>3, <2>1 DEF CallerRecvs, CancelingRecvs
<1>4. CASE s.phase = "AwaitingInput"
  <2>1. m.kind = "Failed"
    BY <1>4 DEF MayHead, LateAnswer, Answer, Msg, Failed, Completed, Canceled
  <2>. QED  BY <1>4, <2>1 DEF CallerRecvs, CancelingRecvs
<1>5. CASE s.phase = "Canceling"
  <2>1. m.kind \in {"Accepted", "Progress", "NeedInput", "Completed", "Canceled", "Failed"}
    BY <1>5 DEF MayHead, CalleeToCaller, Answer, Msg, Failed, Completed, Canceled
  <2>. QED  BY <1>5, <2>1 DEF CallerRecvs, CancelingRecvs
<1>6. CASE s.phase \notin {"Submitted", "Working", "AwaitingInput", "Canceling"}
  BY <1>6 DEF MayHead
<1>. QED  BY <1>2, <1>3, <1>4, <1>5, <1>6

(* What the callee may send, and where that leads (state.rs callee_step).  *)
LEMMA CalleeSendTable ==
  ASSUME NEW s \in CalleeState \cup {Idle}, NEW m \in CalleeToCaller,
         NEW t \in callee_send(s, m)
  PROVE  \/ s = At("Offered") /\ m = Msg("Accepted") /\ t = At("Working")
         \/ s = At("Working") /\ m = Msg("Progress") /\ t = s
         \/ s = At("Working") /\ m = NeedInput /\ t = At("NeedInputSent")
         \/ s = At("Offered") /\ m \in Answer \ {Completed, Canceled} /\ t = Terminal(m)
         \/ s = At("Working") /\ m \in LateAnswer \ {Canceled} /\ t = Terminal(m)
         \/ s = At("NeedInputSent") /\ m \in LateAnswer \ {Completed, Canceled} /\ t = Terminal(m)
  BY DEF callee_send, Follow, CalleeSends, CalleeState, CalleePhase, Idle, At, Terminal,
         CalleeToCaller, Msg, NeedInput, LateAnswer, Answer, Failed, Completed, Canceled,
         OutcomeOf, FailureCode

(* What the callee does with each message (state.rs callee_step).          *)
LEMMA CalleeRecvTable ==
  ASSUME NEW s \in CalleeState \cup {Idle}, NEW m \in CallerToCallee,
         NEW t \in callee_recv(s, m)
  PROVE  \/ m = InputMsg /\ s = At("NeedInputSent") /\ t = At("Working")
         \/ /\ m = CancelMsg
            /\ s \in {At("Offered"), At("Working"), At("NeedInputSent")}
            /\ t = Terminal(Canceled)
  BY DEF callee_recv, Follow, CalleeRecvs, CalleeState, CalleePhase, Idle, At, Terminal,
         CallerToCallee, Msg, InputMsg, CancelMsg, Canceled, OutcomeOf

(* Offered, Working and NeedInputSent all read Cancel; NeedInputSent reads *)
(* Input.                                                                  *)
LEMMA CalleeRecvDefined ==
  ASSUME NEW s \in CalleeState, NEW m, ~Ended(s),
         m = CancelMsg \/ (m = InputMsg /\ s.phase = "NeedInputSent")
  PROVE  callee_recv(s, m) # {}
<1>1. SUFFICES \E r \in CalleeRecvs : r[1] = s.phase /\ r[2] = m.kind
  BY DEF callee_recv, Follow
<1>2. s.phase \in {"Offered", "Working", "NeedInputSent"}
  BY DEF CalleeState, CalleePhase, Ended, At, Terminal
<1>3. CASE m = CancelMsg
  <2>1. m.kind = "Cancel"
    BY <1>3 DEF CancelMsg, Msg
  <2>. QED  BY <1>2, <2>1 DEF CalleeRecvs
<1>4. CASE m = InputMsg /\ s.phase = "NeedInputSent"
  <2>1. m.kind = "Input"
    BY <1>4 DEF InputMsg, Msg
  <2>. QED  BY <1>4, <2>1 DEF CalleeRecvs
<1>. QED  BY <1>3, <1>4

-----------------------------------------------------------------------------
(* The two channels.                                                       *)

(* Reading the head of the callee's channel keeps its order.               *)
LEMMA StreamTail ==
  ASSUME NEW q \in Seq(CalleeToCaller), q # << >>,
         \A i \in 1 .. Len(q) - 1 : q[i + 1] \in MayFollow(q[i])
  PROVE  /\ Tail(q) \in Seq(CalleeToCaller)
         /\ Head(q) = q[1] /\ Head(q) \in CalleeToCaller
         /\ \A i \in 1 .. Len(Tail(q)) - 1 : Tail(q)[i + 1] \in MayFollow(Tail(q)[i])
         /\ Tail(q) # << >> => /\ Tail(q)[Len(Tail(q))] = q[Len(q)]
                               /\ Tail(q)[1] \in MayFollow(q[1])
         /\ Tail(q) = << >> => q[Len(q)] = q[1]
         /\ \A i \in DOMAIN Tail(q) : \E j \in DOMAIN q : Tail(q)[i] = q[j]
<1>1. /\ Tail(q) \in Seq(CalleeToCaller)
      /\ Len(Tail(q)) = Len(q) - 1
      /\ Len(q) \in Nat \ {0}
      /\ \A i \in 1 .. Len(q) - 1 : Tail(q)[i] = q[i + 1]
      /\ Head(q) = q[1] /\ Head(q) \in CalleeToCaller
  BY HeadTailProperties, EmptySeq
<1>2. ASSUME NEW i \in 1 .. Len(Tail(q)) - 1
      PROVE  Tail(q)[i + 1] \in MayFollow(Tail(q)[i])
  <2>1. /\ Tail(q)[i] = q[i + 1]
        /\ Tail(q)[i + 1] = q[(i + 1) + 1]
        /\ i + 1 \in 1 .. Len(q) - 1
    BY <1>1
  <2>. QED  BY <2>1
<1>3. ASSUME Tail(q) # << >>
      PROVE  Tail(q)[Len(Tail(q))] = q[Len(q)] /\ Tail(q)[1] \in MayFollow(q[1])
  <2>1. Len(q) - 1 \in 1 .. Len(q) - 1 /\ 1 \in 1 .. Len(q) - 1
    BY <1>1, <1>3, EmptySeq
  <2>. QED  BY <1>1, <2>1
<1>4. ASSUME Tail(q) = << >>
      PROVE  q[Len(q)] = q[1]
  <2>1. Len(q) - 1 = 0
    BY <1>1, <1>4
  <2>2. Len(q) = 1
    BY <1>1, <2>1
  <2>. QED  BY <2>2
<1>5. ASSUME NEW i \in DOMAIN Tail(q)
      PROVE  \E j \in DOMAIN q : Tail(q)[i] = q[j]
  <2>1. i + 1 \in DOMAIN q /\ Tail(q)[i] = q[i + 1]
    BY <1>1
  <2>. QED  BY <2>1
<1>. QED  BY <1>1, <1>2, <1>3, <1>4, <1>5

(* Sending what may follow the last message keeps the order, too.          *)
LEMMA StreamAppend ==
  ASSUME NEW q \in Seq(CalleeToCaller), NEW m \in CalleeToCaller,
         \A i \in 1 .. Len(q) - 1 : q[i + 1] \in MayFollow(q[i]),
         q # << >> => m \in MayFollow(q[Len(q)])
  PROVE  /\ Append(q, m) \in Seq(CalleeToCaller)
         /\ Append(q, m) # << >>
         /\ \A i \in 1 .. Len(Append(q, m)) - 1 :
              Append(q, m)[i + 1] \in MayFollow(Append(q, m)[i])
         /\ Append(q, m)[Len(Append(q, m))] = m
         /\ Append(q, m)[1] = IF q = << >> THEN m ELSE q[1]
         /\ \A i \in DOMAIN Append(q, m) :
              Append(q, m)[i] = m \/ \E j \in DOMAIN q : Append(q, m)[i] = q[j]
<1>1. /\ Append(q, m) \in Seq(CalleeToCaller)
      /\ Append(q, m) # << >>
      /\ Len(Append(q, m)) = Len(q) + 1
      /\ Len(q) \in Nat
      /\ \A i \in 1 .. Len(q) : Append(q, m)[i] = q[i]
      /\ Append(q, m)[Len(q) + 1] = m
  BY AppendProperties
<1>2. ASSUME NEW i \in 1 .. Len(Append(q, m)) - 1
      PROVE  Append(q, m)[i + 1] \in MayFollow(Append(q, m)[i])
  <2>1. CASE i = Len(q)
    BY <1>1, <2>1
  <2>2. CASE i # Len(q)
    BY <1>1, <2>2
  <2>. QED  BY <2>1, <2>2
<1>3. Append(q, m)[1] = IF q = << >> THEN m ELSE q[1]
  BY <1>1, EmptySeq
<1>4. ASSUME NEW i \in DOMAIN Append(q, m), Append(q, m)[i] # m
      PROVE  \E j \in DOMAIN q : Append(q, m)[i] = q[j]
  <2>1. i \in DOMAIN q
    BY <1>1, <1>4
  <2>. QED  BY <1>1, <2>1
<1>. QED  BY <1>1, <1>2, <1>3, <1>4

(* The caller's channel is one of six sequences.                           *)
LEMMA UpstreamFinite ==
  ASSUME UpstreamInv
  PROVE  c2s \in {<< >>, <<SubmitMsg>>, <<SubmitMsg, CancelMsg>>,
                  <<InputMsg>>, <<CancelMsg>>, <<InputMsg, CancelMsg>>}
  BY DEF UpstreamInv, UpstreamOf

(* Extending a sequence of one.                                            *)
LEMMA AppendToOne ==
  ASSUME NEW x, NEW y
  PROVE  Append(<<x>>, y) = <<x, y>>
<1>1. /\ <<x>> \in Seq({x, y}) /\ Len(<<x>>) = 1 /\ <<x>>[1] = x
      /\ <<x, y>> \in Seq({x, y}) /\ Len(<<x, y>>) = 2
      /\ <<x, y>>[1] = x /\ <<x, y>>[2] = y
  OBVIOUS
<1>2. /\ Append(<<x>>, y) \in Seq({x, y}) /\ Len(Append(<<x>>, y)) = 2
      /\ Append(<<x>>, y)[1] = x /\ Append(<<x>>, y)[2] = y
  BY <1>1, AppendProperties
<1>3. \A i \in 1 .. 2 : Append(<<x>>, y)[i] = <<x, y>>[i]
  BY <1>1, <1>2
<1>. QED  BY <1>1, <1>2, <1>3, SeqEqual

(* Which messages each of them holds.                                      *)
LEMMA UpstreamMembers ==
  /\ c2s = << >> => \A m : ~Upstream(m)
  /\ \A x : c2s = <<x>> => \A m : Upstream(m) <=> m = x
  /\ \A x, y : c2s = <<x, y>> => \A m : Upstream(m) <=> m = x \/ m = y
<1>1. c2s = << >> => \A m : ~Upstream(m)
  BY DEF Upstream
<1>2. ASSUME NEW x, c2s = <<x>>, NEW m
      PROVE  Upstream(m) <=> m = x
  BY <1>2 DEF Upstream
<1>3. ASSUME NEW x, NEW y, c2s = <<x, y>>, NEW m
      PROVE  Upstream(m) <=> m = x \/ m = y
  <2>1. DOMAIN c2s = {1, 2} /\ c2s[1] = x /\ c2s[2] = y
    BY <1>3
  <2>. QED  BY <2>1 DEF Upstream
<1>. QED  BY <1>1, <1>2, <1>3

(* What sending adds to the channel.                                       *)
LEMMA UpstreamAppend ==
  ASSUME c2s \in Seq(CallerToCallee), NEW m \in CallerToCallee, c2s' = Append(c2s, m), NEW x
  PROVE  Upstream(x)' <=> Upstream(x) \/ x = m
<1>1. /\ Len(c2s) \in Nat /\ DOMAIN c2s = 1 .. Len(c2s)
      /\ Len(c2s') = Len(c2s) + 1 /\ DOMAIN c2s' = 1 .. Len(c2s) + 1
      /\ \A i \in 1 .. Len(c2s) : c2s'[i] = c2s[i]
      /\ c2s'[Len(c2s) + 1] = m
  BY AppendProperties, LenProperties
<1>. QED  BY <1>1 DEF Upstream

-----------------------------------------------------------------------------
(* Facts about the values, so that the steps below need not expand them.   *)

(* The messages are distinct, and Answer is the set of terminal ones.      *)
LEMMA MessageFacts ==
  /\ SubmitMsg # InputMsg /\ SubmitMsg # CancelMsg /\ InputMsg # CancelMsg
  /\ CallerToCallee = {SubmitMsg, InputMsg, CancelMsg}
  /\ CalleeToCaller = {Msg("Accepted"), Msg("Progress"), NeedInput} \cup Answer
  /\ NeedInput # Msg("Accepted") /\ NeedInput # Msg("Progress")
  /\ Msg("Accepted") # Msg("Progress")
  /\ Msg("Accepted") \notin Answer /\ Msg("Progress") \notin Answer /\ NeedInput \notin Answer
  /\ {Canceled, Completed, Failed("DeadlineExceeded")} \subseteq LateAnswer
  /\ Canceled # Completed /\ Failed("DeadlineExceeded") \notin {Canceled, Completed}
  /\ LateAnswer \subseteq Answer
  /\ NoOutcome \notin Answer /\ PeerLost \notin Answer
  /\ \A c : Closed(c) \notin Answer
  BY DEF SubmitMsg, InputMsg, CancelMsg, NeedInput, CallerToCallee, CalleeToCaller, Msg,
         Answer, LateAnswer, Canceled, Completed, Failed, FailureCode, NoOutcome, PeerLost, Closed

(* States are told apart by their phase.                                   *)
LEMMA PhaseFacts ==
  /\ \A p : At(p).phase = p /\ At(p).outcome = NoOutcome
  /\ \A o : Terminal(o).phase = "Terminal" /\ Terminal(o).outcome = o
  BY DEF At, Terminal

(* What the state sets hold.                                               *)
LEMMA StateFacts ==
  /\ \A p : At(p).phase = p /\ At(p).outcome = NoOutcome
  /\ \A o : Terminal(o).phase = "Terminal" /\ Terminal(o).outcome = o
  /\ \A s \in CallerState : (s = At(s.phase) /\ s.phase \in CallerPhase)
                              \/ (s = Terminal(s.outcome) /\ s.outcome \in Outcome)
  /\ \A s \in CalleeState : (s = At(s.phase) /\ s.phase \in CalleePhase)
                              \/ (s = Terminal(s.outcome) /\ s.outcome \in Outcome)
  /\ \A p \in CallerPhase : At(p) \in CallerState
  /\ \A p \in CalleePhase : At(p) \in CalleeState
  /\ \A o \in Outcome : Terminal(o) \in CallerState /\ Terminal(o) \in CalleeState
  /\ Answer \subseteq Outcome
  /\ \A s : Ended(s) <=> s.phase = "Terminal"
<1>1. /\ \A p : At(p).phase = p /\ At(p).outcome = NoOutcome
      /\ \A o : Terminal(o).phase = "Terminal" /\ Terminal(o).outcome = o
  BY PhaseFacts
<1>2. \A s \in CallerState : (s = At(s.phase) /\ s.phase \in CallerPhase)
                              \/ (s = Terminal(s.outcome) /\ s.outcome \in Outcome)
  <2>. TAKE s \in CallerState
  <2>1. ASSUME NEW p \in CallerPhase, s = At(p)
        PROVE  s = At(s.phase) /\ s.phase \in CallerPhase
    <3>1. s.phase = p
      BY <1>1, <2>1
    <3>. QED  BY <2>1, <3>1
  <2>2. ASSUME NEW o \in Outcome, s = Terminal(o)
        PROVE  s = Terminal(s.outcome) /\ s.outcome \in Outcome
    <3>1. s.outcome = o
      BY <1>1, <2>2
    <3>. QED  BY <2>2, <3>1
  <2>. QED  BY <2>1, <2>2 DEF CallerState
<1>3. \A s \in CalleeState : (s = At(s.phase) /\ s.phase \in CalleePhase)
                              \/ (s = Terminal(s.outcome) /\ s.outcome \in Outcome)
  <2>. TAKE s \in CalleeState
  <2>1. ASSUME NEW p \in CalleePhase, s = At(p)
        PROVE  s = At(s.phase) /\ s.phase \in CalleePhase
    <3>1. s.phase = p
      BY <1>1, <2>1
    <3>. QED  BY <2>1, <3>1
  <2>2. ASSUME NEW o \in Outcome, s = Terminal(o)
        PROVE  s = Terminal(s.outcome) /\ s.outcome \in Outcome
    <3>1. s.outcome = o
      BY <1>1, <2>2
    <3>. QED  BY <2>2, <3>1
  <2>. QED  BY <2>1, <2>2 DEF CalleeState
<1>4. /\ \A p \in CallerPhase : At(p) \in CallerState
      /\ \A p \in CalleePhase : At(p) \in CalleeState
      /\ \A o \in Outcome : Terminal(o) \in CallerState /\ Terminal(o) \in CalleeState
  BY DEF CallerState, CalleeState
<1>5. Answer \subseteq Outcome /\ \A s : Ended(s) <=> s.phase = "Terminal"
  BY DEF Outcome, Ended
<1>. QED  BY <1>1, <1>2, <1>3, <1>4, <1>5

(* A callee whose last message is no answer has not ended with one.        *)
LEMMA OpenHasNoAnswer ==
  ASSUME NEW m \in MayBeLast(callee), m \notin Answer
  PROVE  callee.outcome \notin Answer
  BY DEF MayBeLast

(* A lost connection and a caller's timer never look like an answer.       *)
LEMMA LossFacts ==
  /\ \A c \in CloseCode : conn_lost_outcome(c) \in Outcome \ Answer
  /\ Closed("Timeout") \in Outcome \ Answer
  BY MessageFacts DEF conn_lost_outcome, CloseCode, Outcome

-----------------------------------------------------------------------------
(* An answer on the wire is the last message there, and is how the callee  *)
(* ended.                                                                  *)
LEMMA AnswerIsLast ==
  ASSUME TypeOK, StreamInv, NEW i \in DOMAIN s2c, s2c[i] \in Answer
  PROVE  i = Len(s2c) /\ callee.outcome = s2c[i]
<1>1. Len(s2c) \in Nat /\ DOMAIN s2c = 1 .. Len(s2c)
  BY DEF TypeOK
<1>2. i = Len(s2c)
  <2>1. SUFFICES ASSUME i # Len(s2c) PROVE FALSE
    OBVIOUS
  <2>2. i \in 1 .. Len(s2c) - 1
    BY <1>1, <2>1
  <2>. QED  BY <2>2 DEF StreamInv, MayFollow
<1>3. s2c[i] \in MayBeLast(callee)
  BY <1>1, <1>2 DEF StreamInv
<1>. QED  BY <1>2, <1>3, MessageFacts DEF MayBeLast

-----------------------------------------------------------------------------
(* Each action preserves the invariant.                                    *)

(* Reading a message moves the caller as CallerRecvTable says, and the new *)
(* head of the stream follows the message read.                            *)
LEMMA CallerReceiveInv ==
  ASSUME IInv, CallerReceive
  PROVE  IInv'
<1>. DEFINE m == s2c[1]
<1>1. /\ s2c \in Seq(CalleeToCaller) /\ s2c # << >>
      /\ Head(s2c) = m /\ m \in CalleeToCaller
      /\ s2c' = Tail(s2c) /\ UNCHANGED <<callee, c2s>>
      /\ s2c' \in Seq(CalleeToCaller)
      /\ \A i \in 1 .. Len(s2c') - 1 : s2c'[i + 1] \in MayFollow(s2c'[i])
      /\ s2c' # << >> => s2c'[Len(s2c')] = s2c[Len(s2c)] /\ s2c'[1] \in MayFollow(m)
      /\ s2c' = << >> => s2c[Len(s2c)] = m
      /\ \A i \in DOMAIN s2c' : \E j \in DOMAIN s2c : s2c'[i] = s2c[j]
      /\ caller' \in caller_recv(caller, m)
  BY StreamTail DEF CallerReceive, IInv, TypeOK, StreamInv
<1>2. \/ m \in Answer /\ caller' = Terminal(m)
      \/ m \notin Answer /\ caller = At("Canceling") /\ caller' = caller
      \/ m = Msg("Accepted") /\ caller = At("Submitted") /\ caller' = At("Working")
      \/ m = Msg("Progress") /\ caller = At("Working") /\ caller' = caller
      \/ m = NeedInput /\ caller = At("Working") /\ caller' = At("AwaitingInput")
  BY <1>1, CallerRecvTable DEF IInv, TypeOK
<1>3. TypeOK'
  BY <1>1, <1>2, StateFacts DEF IInv, TypeOK, CallerPhase
<1>4. StreamInv'
  <2>1. s2c' # << >> => s2c'[Len(s2c')] \in MayBeLast(callee')
    BY <1>1 DEF IInv, StreamInv
  <2>2. ASSUME s2c' # << >>, ~Ended(caller')
        PROVE  s2c'[1] \in MayHead(caller'.phase)
    <3>1. s2c'[1] \in MayFollow(m)
      BY <1>1, <2>2
    <3>2. CASE m \in Answer
      BY <3>1, <3>2 DEF MayFollow
    <3>3. CASE m \notin Answer /\ caller = At("Canceling") /\ caller' = caller
      BY <3>3, <2>2, <1>1, StateFacts, ElementOfSeq DEF MayHead
    <3>4. CASE m \in CalleeToCaller \ Answer /\ caller \in {At("Submitted"), At("Working")}
      <4>1. ~HasCancelled
        BY <3>4, StateFacts DEF HasCancelled
      <4>2. s2c'[1] # Canceled
        BY <4>1, <2>2, <1>1, AnswerIsLast, MessageFacts, EmptySeq DEF IInv, OutcomeInv
      <4>. QED
        BY <1>2, <2>2, <3>1, <3>4, <4>2, MessageFacts, StateFacts DEF MayFollow, MayHead
    <3>. QED  BY <1>1, <1>2, <3>2, <3>3, <3>4
  <2>. QED  BY <1>1, <2>1, <2>2 DEF StreamInv
<1>5. UpstreamInv'
  BY <1>1, <1>2, MessageFacts, StateFacts
     DEF IInv, TypeOK, UpstreamInv, Upstream, HasCancelled
<1>6. m \in Answer => callee.outcome = m
  BY <1>1, AnswerIsLast, EmptySeq DEF IInv
<1>7. CaughtUpInv'
  <2>1. SUFFICES ASSUME s2c' = << >>, ~HasCancelled'
                 PROVE  CaughtUpInv'
    BY DEF CaughtUpInv
  <2>2. m \notin Answer /\ caller # At("Canceling")
    <3>1. caller'.phase \notin {"Canceling", "Terminal"}
      BY <2>1 DEF HasCancelled
    <3>. QED  BY <1>2, <3>1, PhaseFacts, MessageFacts
  <2>3. m \in MayBeLast(callee)
    BY <1>1, <2>1 DEF IInv, StreamInv
  <2>4. callee = Idle => callee.phase = "Idle"
    BY PhaseFacts DEF Idle
  <2>5. callee.outcome \notin Answer
    BY <2>2, <2>3, OpenHasNoAnswer
  <2>6. CASE m \in {Msg("Accepted"), Msg("Progress")} /\ caller' = At("Working")
    <3>1. callee.phase \in {"Working", "Terminal"}
      BY <2>3, <2>5, <2>6, MessageFacts DEF MayBeLast
    <3>. QED
      BY <1>1, <2>4, <2>5, <2>6, <3>1, StateFacts DEF CaughtUpInv
  <2>7. CASE m = NeedInput /\ caller' = At("AwaitingInput")
    <3>1. callee.phase \in {"NeedInputSent", "Terminal"}
      BY <2>3, <2>5, <2>7, MessageFacts DEF MayBeLast
    <3>2. ~Upstream(InputMsg)'
      BY <1>1, <2>7, EmptySeq DEF IInv, UpstreamInv, Upstream
    <3>. QED
      BY <1>1, <2>4, <2>5, <2>7, <3>1, <3>2, StateFacts DEF CaughtUpInv
  <2>. QED  BY <1>2, <2>2, <2>6, <2>7
<1>8. OutcomeInv'
  <2>1. AnswerAgreement'
    BY <1>1, <1>2, <1>6, MessageFacts, StateFacts DEF IInv, OutcomeInv, AnswerAgreement
  <2>2. callee'.outcome = Canceled => HasCancelled'
    BY <1>1, <1>2, <1>6, MessageFacts, StateFacts DEF IInv, OutcomeInv, HasCancelled
  <2>3. caller'.phase # "Dialing"
    BY <1>1, <1>2, StateFacts DEF IInv, OutcomeInv
  <2>4. caller'.phase = "Canceling" /\ s2c' = << >> => callee'.outcome \notin Answer
    <3>1. SUFFICES ASSUME caller'.phase = "Canceling", s2c' = << >>
                   PROVE  callee.outcome \notin Answer
      BY <1>1
    <3>2. m \notin Answer /\ m \in MayBeLast(callee)
      BY <1>1, <1>2, <3>1, StateFacts DEF IInv, StreamInv
    <3>. QED  BY <3>2, OpenHasNoAnswer
  <2>. QED  BY <2>1, <2>2, <2>3, <2>4 DEF OutcomeInv
<1>. QED  BY <1>3, <1>4, <1>5, <1>7, <1>8 DEF IInv

(* A caller that ends without an answer leaves nothing to check but types. *)
LEMMA CallerEndsInv ==
  ASSUME IInv, NEW o \in Outcome \ Answer,
         caller' = Terminal(o), UNCHANGED <<callee, c2s, s2c>>
  PROVE  IInv'
<1>1. caller'.phase = "Terminal" /\ caller'.outcome \notin Answer
  BY PhaseFacts
<1>2. TypeOK'
  BY StateFacts DEF IInv, TypeOK
<1>3. StreamInv'
  BY <1>1 DEF IInv, StreamInv, Ended
<1>4. UpstreamInv'
  BY <1>1 DEF IInv, UpstreamInv, Upstream, HasCancelled
<1>5. CaughtUpInv'
  BY <1>1 DEF CaughtUpInv, HasCancelled
<1>6. OutcomeInv'
  BY <1>1 DEF IInv, OutcomeInv, AnswerAgreement, HasCancelled
<1>. QED  BY <1>2, <1>3, <1>4, <1>5, <1>6 DEF IInv

(* Sending Submit, Input or Cancel extends the caller's channel by the one *)
(* message the invariant has room for.                                     *)
LEMMA CallerSendInv ==
  ASSUME IInv, NEW m \in CallerToCallee, CallerSend(m)
  PROVE  IInv'
<1>1. UNCHANGED <<callee, s2c>> /\ c2s' = Append(c2s, m)
  BY DEF CallerSend
<1>2. \/ caller = At("Dialing") /\ m = SubmitMsg /\ caller' = At("Submitted")
      \/ caller = At("AwaitingInput") /\ m = InputMsg /\ caller' = At("Working")
      \/ /\ caller \in {At("Submitted"), At("Working"), At("AwaitingInput")}
         /\ m = CancelMsg
         /\ caller' = At("Canceling")
  BY CallerSendTable DEF CallerSend, IInv, TypeOK
<1>3. TypeOK'
  <2>1. caller' \in CallerState
    BY <1>2, StateFacts DEF CallerPhase
  <2>2. c2s' \in Seq(CallerToCallee)
    BY <1>1, AppendProperties DEF IInv, TypeOK
  <2>. QED  BY <1>1, <2>1, <2>2 DEF IInv, TypeOK
<1>4. \A x : Upstream(x)' <=> Upstream(x) \/ x = m
  BY <1>1, UpstreamAppend DEF IInv, TypeOK
<1>5. c2s \in {<< >>, <<SubmitMsg>>, <<SubmitMsg, CancelMsg>>,
               <<InputMsg>>, <<CancelMsg>>, <<InputMsg, CancelMsg>>}
  BY UpstreamFinite DEF IInv
<1>0. c2s' # << >>
  BY <1>1, AppendProperties DEF IInv, TypeOK
<1>6. caller'.outcome = NoOutcome /\ caller'.phase # "Dialing" /\ ~HasCancelled
  BY <1>2, PhaseFacts DEF HasCancelled
<1>7. CASE caller = At("Dialing") /\ m = SubmitMsg /\ caller' = At("Submitted")
  <2>1. /\ caller.phase = "Dialing" /\ caller'.phase = "Submitted"
        /\ c2s = << >> /\ s2c = << >>
        /\ callee = Idle \/ Ended(callee)
        /\ callee.outcome \notin Answer
    BY <1>1, <1>6, <1>7, PhaseFacts DEF IInv, OutcomeInv, CaughtUpInv
  <2>2. callee.phase \in {"Idle", "Terminal"} /\ c2s' = <<SubmitMsg>>
    BY <1>1, <1>7, <2>1, PhaseFacts DEF Idle, Ended
  <2>3. \A x : Upstream(x)' <=> x = SubmitMsg
    BY <1>4, <1>7, <2>1, UpstreamMembers
  <2>4. StreamInv'
    BY <1>1, <2>1 DEF IInv, StreamInv
  <2>5. UpstreamInv'
    BY <1>1, <2>1, <2>2, <2>3, MessageFacts DEF UpstreamInv, UpstreamOf
  <2>6. CaughtUpInv'
    BY <1>0, <1>1, <2>1, <2>2 DEF CaughtUpInv
  <2>7. OutcomeInv'
    BY <1>1, <1>6, <2>1, MessageFacts DEF OutcomeInv, AnswerAgreement
  <2>. QED  BY <1>3, <2>4, <2>5, <2>6, <2>7 DEF IInv
<1>8. CASE caller = At("AwaitingInput") /\ m = InputMsg /\ caller' = At("Working")
  <2>1. caller.phase = "AwaitingInput" /\ caller'.phase = "Working"
    BY <1>8, PhaseFacts
  <2>2. ~Upstream(InputMsg) /\ ~Upstream(SubmitMsg) /\ ~Upstream(CancelMsg)
    BY <1>6, <2>1 DEF IInv, UpstreamInv
  <2>3. c2s = << >>
    BY <1>5, <2>2, UpstreamMembers
  <2>4. ASSUME s2c # << >>
        PROVE  /\ s2c[1] \in LateAnswer \ {Completed, Canceled}
               /\ \A i \in DOMAIN s2c : s2c[i] = s2c[1]
               /\ callee.outcome = s2c[1]
    <3>1. s2c[1] \in LateAnswer \ {Completed, Canceled}
      BY <1>6, <2>1, <2>4 DEF IInv, StreamInv, MayHead, HasCancelled, Ended
    <3>2. Len(s2c) \in Nat \ {0} /\ DOMAIN s2c = 1 .. Len(s2c)
      BY <2>4, EmptySeq, LenProperties DEF IInv, TypeOK
    <3>3. 1 \in DOMAIN s2c /\ s2c[1] \in Answer
      BY <3>1, <3>2, MessageFacts
    <3>4. 1 = Len(s2c) /\ callee.outcome = s2c[1]
      <4>1. ASSUME NEW i \in DOMAIN s2c, s2c[i] \in Answer
            PROVE  i = Len(s2c) /\ callee.outcome = s2c[i]
        BY <4>1, AnswerIsLast DEF IInv
      <4>. QED  BY <3>2, <3>3, <4>1
    <3>5. ASSUME NEW i \in DOMAIN s2c
          PROVE  s2c[i] = s2c[1]
      <4>1. i \in 1 .. Len(s2c)
        BY <3>2
      <4>2. i = 1
        BY <3>4, <4>1
      <4>. QED  BY <4>2
    <3>. QED  BY <3>1, <3>4, <3>5
  <2>5. callee.phase \in {"NeedInputSent", "Terminal"}
    <3>1. CASE s2c = << >>
      BY <1>6, <2>1, <3>1, StateFacts, PhaseFacts
         DEF IInv, TypeOK, CaughtUpInv, Idle, CalleePhase
    <3>2. CASE s2c # << >>
      BY <2>4, <3>2, MessageFacts, StateFacts, PhaseFacts DEF IInv, TypeOK, Idle
    <3>. QED  BY <3>1, <3>2
  <2>6. callee.phase = "NeedInputSent" => s2c = << >> /\ callee # Idle
    BY <2>4, MessageFacts, StateFacts, PhaseFacts DEF IInv, TypeOK, Idle
  <2>7. \A x : Upstream(x)' <=> x = InputMsg
    BY <1>4, <1>8, <2>3, UpstreamMembers
  <2>8. c2s' = <<InputMsg>>
    BY <1>1, <1>8, <2>3
  <2>9. StreamInv'
    BY <1>1, <2>1, <2>4 DEF IInv, StreamInv, MayHead
  <2>10. UpstreamInv'
    BY <1>1, <2>1, <2>4, <2>5, <2>6, <2>7, <2>8, MessageFacts DEF UpstreamInv, UpstreamOf
  <2>11. CaughtUpInv'
    BY <1>0, <1>1, <1>6, <2>1, <2>5, <2>7, PhaseFacts DEF IInv, CaughtUpInv, Idle
  <2>12. OutcomeInv'
    BY <1>1, <1>6, <2>1, MessageFacts DEF IInv, OutcomeInv, AnswerAgreement
  <2>. QED  BY <1>3, <2>9, <2>10, <2>11, <2>12 DEF IInv
<1>9. CASE /\ caller \in {At("Submitted"), At("Working"), At("AwaitingInput")}
           /\ m = CancelMsg
           /\ caller' = At("Canceling")
  <2>1. /\ caller.phase \in {"Submitted", "Working", "AwaitingInput"}
        /\ caller'.phase = "Canceling"
    BY <1>9, PhaseFacts
  <2>2. \A x : Upstream(x)' <=> Upstream(x) \/ x = CancelMsg
    BY <1>4, <1>9
  <2>3. c2s \in {<< >>, <<SubmitMsg>>, <<InputMsg>>}
    BY <1>5, <1>6, UpstreamMembers DEF IInv, UpstreamInv
  <2>4. callee.phase = "Idle" => c2s = <<SubmitMsg>>
    <3>1. SUFFICES ASSUME callee.phase = "Idle" PROVE c2s = <<SubmitMsg>>
      OBVIOUS
    <3>2. callee = Idle /\ callee.outcome = NoOutcome
      BY <3>1, StateFacts, PhaseFacts DEF IInv, TypeOK, CalleePhase, Idle
    <3>3. s2c = << >>
      BY <3>1, <3>2, MessageFacts DEF IInv, StreamInv, MayBeLast
    <3>4. c2s # << >>
      BY <1>6, <2>1, <3>2, <3>3 DEF IInv, CaughtUpInv
    <3>5. c2s # <<InputMsg>>
      BY <3>1, MessageFacts DEF IInv, UpstreamInv, UpstreamOf
    <3>. QED  BY <2>3, <3>4, <3>5
  <2>5. c2s' \in UpstreamOf(callee)
    <3>1. CASE c2s = << >>
      <4>1. c2s' = <<CancelMsg>> /\ callee.phase # "Idle"
        BY <1>1, <1>9, <2>4, <3>1
      <4>. QED  BY <4>1 DEF UpstreamOf
    <3>2. CASE c2s = <<SubmitMsg>>
      <4>1. c2s' = <<SubmitMsg, CancelMsg>>
        BY <1>1, <1>9, <3>2, AppendToOne
      <4>2. callee.phase \notin {"Offered", "Working", "NeedInputSent"}
        BY <3>2, MessageFacts DEF IInv, UpstreamInv, UpstreamOf
      <4>. QED  BY <4>1, <4>2 DEF UpstreamOf
    <3>3. CASE c2s = <<InputMsg>>
      <4>1. c2s' = <<InputMsg, CancelMsg>>
        BY <1>1, <1>9, <3>3, AppendToOne
      <4>2. callee.phase \notin {"Idle", "Offered", "Working"}
        BY <3>3, MessageFacts DEF IInv, UpstreamInv, UpstreamOf
      <4>. QED  BY <4>1, <4>2 DEF UpstreamOf
    <3>. QED  BY <2>3, <3>1, <3>2, <3>3
  <2>6. StreamInv'
    BY <1>1, <2>1, ElementOfSeq, EmptySeq DEF IInv, TypeOK, StreamInv, MayHead
  <2>7. UpstreamInv'
    BY <1>1, <2>1, <2>2, <2>5, MessageFacts DEF IInv, UpstreamInv, HasCancelled
  <2>8. CaughtUpInv'
    BY <2>1 DEF CaughtUpInv, HasCancelled
  <2>9. OutcomeInv'
    BY <1>1, <1>6, <2>1, MessageFacts
       DEF IInv, CaughtUpInv, OutcomeInv, AnswerAgreement, HasCancelled
  <2>. QED  BY <1>3, <2>6, <2>7, <2>8, <2>9 DEF IInv
<1>. QED  BY <1>2, <1>7, <1>8, <1>9

(* A callee that is lost while it runs answers nothing more.               *)
LEMMA CalleeLostInv ==
  ASSUME IInv, ~Ended(callee), NEW o \in Outcome \ Answer,
         callee' = Terminal(o), UNCHANGED <<caller, c2s, s2c>>
  PROVE  IInv'
<1>1. /\ callee'.phase = "Terminal" /\ callee'.outcome = o /\ callee' # Idle
      /\ callee.outcome = NoOutcome /\ callee.phase # "Terminal"
  BY StateFacts, PhaseFacts DEF IInv, TypeOK, Idle, Ended
<1>2. TypeOK'
  BY StateFacts DEF IInv, TypeOK
<1>3. s2c # << >> => s2c[Len(s2c)] \in CalleeToCaller \ Answer
  BY <1>1, MessageFacts DEF IInv, StreamInv, MayBeLast
<1>4. StreamInv'
  BY <1>1, <1>3 DEF IInv, StreamInv, MayBeLast
<1>5. c2s \in UpstreamOf(callee')
  BY <1>1, UpstreamFinite DEF IInv, UpstreamOf
<1>6. UpstreamInv'
  BY <1>1, <1>5 DEF IInv, UpstreamInv, Upstream, HasCancelled
<1>7. CaughtUpInv'
  BY <1>1, StateFacts DEF IInv, CaughtUpInv, HasCancelled
<1>8. OutcomeInv'
  BY <1>1, MessageFacts DEF IInv, OutcomeInv, AnswerAgreement, HasCancelled
<1>. QED  BY <1>2, <1>4, <1>6, <1>7, <1>8 DEF IInv

(* A running callee that sends an answer: whatever made it answer (its     *)
(* handler, Cancel or its timer), the answer may follow what it sent, and  *)
(* the caller may find it at the head of an empty stream.                  *)
LEMMA CalleeAnswersInv ==
  ASSUME IInv, NEW m \in Answer,
         callee \in {At("Offered"), At("Working"), At("NeedInputSent")},
         m = Failed("Rejected") => callee = At("Offered"),
         m = Completed => callee = At("Working"),
         m = Canceled => HasCancelled,
         callee' = Terminal(m), UNCHANGED caller, s2c' = Append(s2c, m),
         c2s' \in Seq(CallerToCallee), c2s' \in UpstreamOf(Terminal(m)),
         \A x : Upstream(x)' => Upstream(x)
  PROVE  IInv'
<1>1. /\ callee'.phase = "Terminal" /\ callee'.outcome = m
      /\ callee.phase \in {"Offered", "Working", "NeedInputSent"}
      /\ callee = At(callee.phase) /\ callee.outcome = NoOutcome
      /\ callee # Idle /\ ~Ended(callee)
  BY PhaseFacts DEF Idle, Ended
<1>2. caller.phase # "Dialing"
  BY <1>1, MessageFacts DEF IInv, OutcomeInv, CaughtUpInv, HasCancelled
<1>3. s2c # << >> => m \in MayFollow(s2c[Len(s2c)])
  BY <1>1, PhaseFacts, MessageFacts DEF IInv, StreamInv, MayBeLast, MayFollow, LateAnswer
<1>4. /\ s2c' \in Seq(CalleeToCaller) /\ s2c' # << >>
      /\ \A i \in 1 .. Len(s2c') - 1 : s2c'[i + 1] \in MayFollow(s2c'[i])
      /\ s2c'[Len(s2c')] = m
      /\ s2c'[1] = IF s2c = << >> THEN m ELSE s2c[1]
      /\ \A i \in DOMAIN s2c' : s2c'[i] = m \/ \E j \in DOMAIN s2c : s2c'[i] = s2c[j]
  BY <1>3, StreamAppend, MessageFacts DEF IInv, TypeOK, StreamInv
<1>5. ASSUME s2c = << >>, ~Ended(caller)
      PROVE  m \in MayHead(caller.phase)
  <2>1. CASE HasCancelled
    BY <1>5, <2>1, MessageFacts DEF HasCancelled, Ended, MayHead
  <2>2. CASE ~HasCancelled
    <3>1. m # Canceled /\ caller.phase \in {"Submitted", "Working", "AwaitingInput"}
      BY <1>1, <1>5, <2>2 DEF IInv, CaughtUpInv
    <3>2. CASE callee = At("Offered")
      BY <1>1, <1>5, <2>2, <3>1, <3>2, MessageFacts, PhaseFacts DEF IInv, CaughtUpInv, MayHead
    <3>3. CASE callee # At("Offered")
      <4>1. m \in LateAnswer \ {Canceled}
        BY <3>1, <3>3 DEF LateAnswer
      <4>2. caller.phase = "Working" \/ (caller.phase = "AwaitingInput" /\ m # Completed)
        BY <1>1, <1>5, <2>2, <3>3, PhaseFacts DEF IInv, CaughtUpInv
      <4>. QED  BY <4>1, <4>2 DEF MayHead
    <3>. QED  BY <3>2, <3>3
  <2>. QED  BY <2>1, <2>2
<1>6. TypeOK'
  BY <1>4, StateFacts DEF IInv, TypeOK
<1>7. StreamInv'
  BY <1>1, <1>4, <1>5 DEF IInv, StreamInv, MayBeLast
<1>8. ~Upstream(SubmitMsg)
  BY <1>1, MessageFacts, UpstreamMembers DEF IInv, UpstreamInv, UpstreamOf
<1>9. UpstreamInv'
  BY <1>1, <1>4, <1>8, MessageFacts DEF IInv, UpstreamInv, HasCancelled
<1>10. CaughtUpInv'
  BY <1>4 DEF CaughtUpInv
<1>11. OutcomeInv'
  BY <1>1, <1>2, <1>4, MessageFacts DEF IInv, OutcomeInv, AnswerAgreement, HasCancelled
<1>. QED  BY <1>6, <1>7, <1>9, <1>10, <1>11 DEF IInv

(* The handler sends what CalleeSendTable lists.                           *)
LEMMA CalleeSendInv ==
  ASSUME IInv, NEW m \in CalleeToCaller, CalleeSend(m)
  PROVE  IInv'
<1>1. /\ UNCHANGED <<caller, c2s>> /\ s2c' = Append(s2c, m)
      /\ callee' \in callee_send(callee, m)
  BY DEF CalleeSend
<1>2. \/ callee = At("Offered") /\ m = Msg("Accepted") /\ callee' = At("Working")
      \/ callee = At("Working") /\ m = Msg("Progress") /\ callee' = callee
      \/ callee = At("Working") /\ m = NeedInput /\ callee' = At("NeedInputSent")
      \/ callee = At("Offered") /\ m \in Answer \ {Completed, Canceled} /\ callee' = Terminal(m)
      \/ callee = At("Working") /\ m \in LateAnswer \ {Canceled} /\ callee' = Terminal(m)
      \/ callee = At("NeedInputSent") /\ m \in LateAnswer \ {Completed, Canceled}
           /\ callee' = Terminal(m)
  BY <1>1, CalleeSendTable DEF IInv, TypeOK
<1>3. c2s \in UpstreamOf(Terminal(m))
  BY UpstreamFinite, PhaseFacts DEF IInv, UpstreamOf
<1>4. CASE m \in Answer
  <2>1. /\ callee \in {At("Offered"), At("Working"), At("NeedInputSent")}
        /\ m = Failed("Rejected") => callee = At("Offered")
        /\ m = Completed => callee = At("Working")
        /\ m # Canceled
        /\ callee' = Terminal(m)
    BY <1>2, <1>4, MessageFacts DEF LateAnswer
  <2>2. /\ c2s' \in Seq(CallerToCallee) /\ c2s' \in UpstreamOf(Terminal(m))
        /\ \A x : Upstream(x)' => Upstream(x)
    BY <1>1, <1>3 DEF IInv, TypeOK, Upstream
  <2>. QED  BY <1>1, <1>4, <2>1, <2>2, CalleeAnswersInv
<1>5. CASE m \notin Answer
  <2>1. \/ callee = At("Offered") /\ m = Msg("Accepted") /\ callee' = At("Working")
        \/ callee = At("Working") /\ m = Msg("Progress") /\ callee' = callee
        \/ callee = At("Working") /\ m = NeedInput /\ callee' = At("NeedInputSent")
    BY <1>2, <1>5, MessageFacts
  <2>2. /\ callee.phase \in {"Offered", "Working"} /\ callee.outcome = NoOutcome
        /\ callee'.phase \in {"Working", "NeedInputSent"} /\ callee'.outcome = NoOutcome
        /\ callee # Idle /\ callee' # Idle /\ ~Ended(callee) /\ callee' \in CalleeState
    BY <2>1, PhaseFacts, StateFacts DEF Idle, Ended, CalleePhase
  <2>3. caller.phase # "Dialing"
    BY <2>2 DEF IInv, OutcomeInv, CaughtUpInv, HasCancelled
  <2>4. s2c # << >> => m \in MayFollow(s2c[Len(s2c)])
    BY <2>1, <2>2, PhaseFacts, MessageFacts DEF IInv, StreamInv, MayBeLast, MayFollow
  <2>5. /\ s2c' \in Seq(CalleeToCaller) /\ s2c' # << >>
        /\ \A i \in 1 .. Len(s2c') - 1 : s2c'[i + 1] \in MayFollow(s2c'[i])
        /\ s2c'[Len(s2c')] = m
        /\ s2c'[1] = IF s2c = << >> THEN m ELSE s2c[1]
        /\ \A i \in DOMAIN s2c' : s2c'[i] = m \/ \E j \in DOMAIN s2c : s2c'[i] = s2c[j]
    BY <1>1, <2>4, StreamAppend DEF IInv, TypeOK, StreamInv
  <2>6. ASSUME s2c = << >>, ~Ended(caller)
        PROVE  m \in MayHead(caller.phase)
    <3>1. CASE HasCancelled
      BY <2>6, <3>1 DEF HasCancelled, Ended, MayHead
    <3>2. CASE ~HasCancelled
      <4>1. \/ caller.phase = "Submitted" /\ m = Msg("Accepted")
            \/ caller.phase = "Working" /\ m \in {Msg("Progress"), NeedInput}
        BY <2>1, <2>6, <3>2, PhaseFacts DEF IInv, CaughtUpInv
      <4>. QED  BY <4>1 DEF MayHead
    <3>. QED  BY <3>1, <3>2
  <2>7. c2s \in {<< >>, <<CancelMsg>>}
    BY <2>2 DEF IInv, UpstreamInv, UpstreamOf
  <2>8. ~Upstream(InputMsg) /\ ~Upstream(SubmitMsg)
    BY <2>7, UpstreamMembers, MessageFacts
  <2>9. TypeOK'
    BY <1>1, <2>2, <2>5 DEF IInv, TypeOK
  <2>10. StreamInv'
    <3>1. m \in MayBeLast(callee')
      BY <2>1, <2>2, PhaseFacts, MessageFacts DEF MayBeLast
    <3>. QED  BY <1>1, <2>5, <2>6, <3>1 DEF IInv, StreamInv
  <2>11. UpstreamInv'
    BY <1>1, <2>2, <2>7, <2>8 DEF IInv, UpstreamInv, UpstreamOf, Upstream, HasCancelled
  <2>12. CaughtUpInv'
    BY <2>5 DEF CaughtUpInv
  <2>13. OutcomeInv'
    BY <1>1, <2>2, <2>3, <2>5, MessageFacts
       DEF IInv, OutcomeInv, AnswerAgreement, HasCancelled
  <2>. QED  BY <2>9, <2>10, <2>11, <2>12, <2>13 DEF IInv
<1>. QED  BY <1>4, <1>5

(* The callee's timer answers Failed{DeadlineExceeded}.                    *)
LEMMA CalleeTimeoutInv ==
  ASSUME IInv, CalleeTimeout
  PROVE  IInv'
<1>. DEFINE m == Failed("DeadlineExceeded")
<1>1. /\ callee # Idle /\ ~Ended(callee) /\ callee' = Terminal(m)
      /\ UNCHANGED <<caller, c2s>> /\ s2c' = s2c \o <<m>>
  BY DEF CalleeTimeout, callee_timeout, Unless, EmitOnTimeout
<1>2. s2c' = Append(s2c, m)
  BY <1>1, AppendIsConcat, MessageFacts DEF IInv, TypeOK
<1>3. callee \in {At("Offered"), At("Working"), At("NeedInputSent")}
  BY <1>1, StateFacts, PhaseFacts DEF IInv, TypeOK, Ended, CalleePhase
<1>4. m \in Answer /\ m # Failed("Rejected") /\ m # Completed /\ m # Canceled
  BY MessageFacts DEF Failed
<1>5. /\ c2s' \in Seq(CallerToCallee) /\ c2s' \in UpstreamOf(Terminal(m))
      /\ \A x : Upstream(x)' => Upstream(x)
  BY <1>1, UpstreamFinite, PhaseFacts DEF IInv, TypeOK, Upstream, UpstreamOf
<1>. QED  BY <1>1, <1>2, <1>3, <1>4, <1>5, CalleeAnswersInv

(* The head of the caller's channel, and what stays behind it.             *)
LEMMA UpstreamTail ==
  ASSUME UpstreamInv, c2s # << >>
  PROVE  \/ c2s = <<CancelMsg>> /\ Head(c2s) = CancelMsg /\ Tail(c2s) = << >>
         \/ \E x \in {SubmitMsg, InputMsg} :
              /\ Head(c2s) = x
              /\ \/ c2s = <<x>> /\ Tail(c2s) = << >>
                 \/ c2s = <<x, CancelMsg>> /\ Tail(c2s) = <<CancelMsg>>
<1>1. \A x, y : Head(<<x>>) = x /\ Tail(<<x>>) = << >> /\ Head(<<x, y>>) = x
  OBVIOUS
<1>2. \A x, y : Tail(<<x, y>>) = <<y>>
  OBVIOUS
<1>. QED  BY <1>1, <1>2, UpstreamFinite

(* Reading Submit starts the callee's table; what is left can only be      *)
(* Cancel.                                                                 *)
LEMMA CalleeOfferedInv ==
  ASSUME IInv, CalleeOffered
  PROVE  IInv'
<1>1. /\ callee = Idle /\ c2s # << >> /\ Head(c2s) = SubmitMsg
      /\ callee' = At("Offered") /\ c2s' = Tail(c2s) /\ UNCHANGED <<caller, s2c>>
  BY DEF CalleeOffered, SubmitMsg
<1>2. /\ callee'.phase = "Offered" /\ callee'.outcome = NoOutcome /\ callee' # Idle
      /\ callee' \in CalleeState /\ callee.outcome = NoOutcome
  BY <1>1, PhaseFacts, StateFacts DEF Idle, CalleePhase
<1>3. \/ c2s = <<SubmitMsg>> /\ c2s' = << >>
      \/ c2s = <<SubmitMsg, CancelMsg>> /\ c2s' = <<CancelMsg>>
  BY <1>1, UpstreamTail, MessageFacts DEF IInv
<1>4. /\ Upstream(SubmitMsg)
      /\ Upstream(CancelMsg)' => Upstream(CancelMsg)
      /\ ~Upstream(SubmitMsg)' /\ ~Upstream(InputMsg)'
  <2>1. CASE c2s' = << >>
    BY <1>3, <2>1, UpstreamMembers DEF Upstream
  <2>2. CASE c2s = <<SubmitMsg, CancelMsg>> /\ c2s' = <<CancelMsg>>
    <3>1. \A x : Upstream(x)' <=> x = CancelMsg
      BY <2>2 DEF Upstream
    <3>. QED  BY <2>2, <3>1, UpstreamMembers, MessageFacts
  <2>. QED  BY <1>3, <2>1, <2>2
<1>5. /\ caller.phase \in {"Submitted", "Canceling", "Terminal"} /\ s2c = << >>
  BY <1>4 DEF IInv, UpstreamInv
<1>6. TypeOK'
  BY <1>1, <1>2, HeadTailProperties DEF IInv, TypeOK
<1>7. StreamInv'
  BY <1>1, <1>5 DEF IInv, StreamInv
<1>8. UpstreamInv'
  <2>1. c2s' \in UpstreamOf(callee')
    BY <1>2, <1>3 DEF UpstreamOf
  <2>. QED  BY <1>1, <1>4, <2>1 DEF IInv, UpstreamInv, HasCancelled
<1>9. CaughtUpInv'
  BY <1>1, <1>2, <1>5, MessageFacts DEF CaughtUpInv, HasCancelled
<1>10. OutcomeInv'
  BY <1>1, <1>2, <1>5, MessageFacts DEF IInv, OutcomeInv, AnswerAgreement
<1>. QED  BY <1>6, <1>7, <1>8, <1>9, <1>10 DEF IInv

(* Reading Input resumes the callee; reading Cancel makes it answer        *)
(* Canceled.                                                               *)
LEMMA CalleeReceiveInv ==
  ASSUME IInv, CalleeReceive
  PROVE  IInv'
<1>. DEFINE m == Head(c2s)
<1>1. /\ c2s # << >> /\ m \in CallerToCallee
      /\ callee' \in callee_recv(callee, m)
      /\ c2s' = Tail(c2s) /\ c2s' \in Seq(CallerToCallee)
      /\ s2c' = s2c \o EmitOnRecv(m) /\ UNCHANGED caller
  BY HeadTailProperties DEF CalleeReceive, IInv, TypeOK
<1>2. \/ m = InputMsg /\ callee = At("NeedInputSent") /\ callee' = At("Working")
      \/ /\ m = CancelMsg
         /\ callee \in {At("Offered"), At("Working"), At("NeedInputSent")}
         /\ callee' = Terminal(Canceled)
  BY <1>1, CalleeRecvTable DEF IInv, TypeOK
<1>3. CASE m = InputMsg /\ callee = At("NeedInputSent") /\ callee' = At("Working")
  <2>1. /\ callee.phase = "NeedInputSent" /\ callee.outcome = NoOutcome
        /\ callee'.phase = "Working" /\ callee'.outcome = NoOutcome /\ callee' # Idle
        /\ callee' \in CalleeState
    BY <1>3, PhaseFacts, StateFacts DEF Idle, CalleePhase
  <2>2. s2c' = s2c
    <3>1. EmitOnRecv(m) = << >>
      BY <1>3 DEF EmitOnRecv, InputMsg, Msg
    <3>. QED  BY <1>1, <3>1, ConcatEmptySeq DEF IInv, TypeOK
  <2>3. \/ c2s = <<InputMsg>> /\ c2s' = << >>
        \/ c2s = <<InputMsg, CancelMsg>> /\ c2s' = <<CancelMsg>>
    BY <1>1, <1>3, UpstreamTail, MessageFacts DEF IInv
  <2>4. /\ Upstream(InputMsg)
        /\ Upstream(CancelMsg)' => Upstream(CancelMsg)
        /\ ~Upstream(SubmitMsg)' /\ ~Upstream(InputMsg)'
    <3>1. CASE c2s = <<InputMsg>> /\ c2s' = << >>
      BY <3>1, UpstreamMembers DEF Upstream
    <3>2. CASE c2s = <<InputMsg, CancelMsg>> /\ c2s' = <<CancelMsg>>
      <4>1. \A x : Upstream(x)' <=> x = CancelMsg
        BY <3>2 DEF Upstream
      <4>. QED  BY <3>2, <4>1, UpstreamMembers, MessageFacts
    <3>. QED  BY <2>3, <3>1, <3>2
  <2>5. s2c = << >> /\ caller.phase \in {"Working", "Canceling", "Terminal"}
    BY <2>1, <2>4 DEF IInv, UpstreamInv
  <2>6. TypeOK'
    BY <1>1, <2>1, <2>2 DEF IInv, TypeOK
  <2>7. StreamInv'
    BY <2>2, <2>5, <1>1 DEF IInv, StreamInv
  <2>8. UpstreamInv'
    <3>1. c2s' \in UpstreamOf(callee')
      BY <2>1, <2>3 DEF UpstreamOf
    <3>. QED  BY <1>1, <2>4, <3>1 DEF IInv, UpstreamInv, HasCancelled
  <2>9. CaughtUpInv'
    BY <1>1, <2>1, <2>5, MessageFacts DEF CaughtUpInv, HasCancelled
  <2>10. OutcomeInv'
    BY <1>1, <2>1, <2>2, <2>5, MessageFacts DEF IInv, OutcomeInv, AnswerAgreement
  <2>. QED  BY <2>6, <2>7, <2>8, <2>9, <2>10 DEF IInv
<1>4. CASE /\ m = CancelMsg
           /\ callee \in {At("Offered"), At("Working"), At("NeedInputSent")}
           /\ callee' = Terminal(Canceled)
  <2>1. c2s = <<CancelMsg>> /\ c2s' = << >>
    BY <1>1, <1>4, UpstreamTail, MessageFacts DEF IInv
  <2>2. HasCancelled
    BY <2>1, UpstreamMembers DEF IInv, UpstreamInv
  <2>3. EmitOnRecv(m) = <<Canceled>>
    BY <1>4 DEF EmitOnRecv, CancelMsg, Msg
  <2>4. s2c' = Append(s2c, Canceled)
    <3>1. Canceled \in CalleeToCaller
      BY MessageFacts
    <3>. QED  BY <1>1, <2>3, <3>1, AppendIsConcat DEF IInv, TypeOK
  <2>5. /\ c2s' \in UpstreamOf(Terminal(Canceled))
        /\ \A x : Upstream(x)' => Upstream(x)
    BY <2>1, PhaseFacts DEF UpstreamOf, Upstream
  <2>6. Canceled \in Answer /\ Canceled # Failed("Rejected") /\ Canceled # Completed
    BY MessageFacts DEF LateAnswer
  <2>. QED  BY <1>1, <1>4, <2>2, <2>4, <2>5, <2>6, CalleeAnswersInv
<1>. QED  BY <1>2, <1>3, <1>4

-----------------------------------------------------------------------------
(* The invariant holds initially and every step of Next preserves it.      *)
THEOREM Invariance == Spec => []IInv
<1>1. Init => IInv
  <2>. SUFFICES ASSUME Init PROVE IInv
    OBVIOUS
  <2>1. /\ caller.phase = "Dialing" /\ caller.outcome = NoOutcome
        /\ callee.phase = "Idle" /\ callee.outcome = NoOutcome
        /\ callee = Idle /\ c2s = << >> /\ s2c = << >>
    BY PhaseFacts DEF Init, Idle
  <2>2. TypeOK
    BY <2>1, StateFacts, EmptySeq DEF Init, TypeOK, CallerPhase
  <2>3. StreamInv
    BY <2>1 DEF StreamInv
  <2>4. UpstreamInv
    BY <2>1, UpstreamMembers DEF UpstreamInv, UpstreamOf
  <2>5. CaughtUpInv
    BY <2>1, MessageFacts DEF CaughtUpInv
  <2>6. OutcomeInv
    BY <2>1, MessageFacts DEF OutcomeInv, AnswerAgreement
  <2>. QED  BY <2>2, <2>3, <2>4, <2>5, <2>6 DEF IInv
<1>2. IInv /\ [Next]_vars => IInv'
  <2>. SUFFICES ASSUME IInv, [Next]_vars PROVE IInv'
    OBVIOUS
  <2>1. ASSUME NEW m \in CallerToCallee, CallerSend(m) PROVE IInv'
    BY <2>1, CallerSendInv
  <2>2. CASE CallerReceive
    BY <2>2, CallerReceiveInv
  <2>3. CASE CallerTimeout
    BY <2>3, CallerEndsInv, LossFacts DEF CallerTimeout, caller_timeout, Unless
  <2>4. CASE CallerLost
    BY <2>4, CallerEndsInv, LossFacts, CallProtocolAssumption
       DEF CallerLost, caller_conn_lost, Unless
  <2>5. CASE CalleeOffered
    BY <2>5, CalleeOfferedInv
  <2>6. ASSUME NEW m \in CalleeToCaller, CalleeSend(m) PROVE IInv'
    BY <2>6, CalleeSendInv
  <2>7. CASE CalleeReceive
    BY <2>7, CalleeReceiveInv
  <2>8. CASE CalleeTimeout
    BY <2>8, CalleeTimeoutInv
  <2>9. CASE CalleeLost
    BY <2>9, CalleeLostInv, LossFacts, CallProtocolAssumption
       DEF CalleeLost, callee_conn_lost, Unless
  <2>10. CASE UNCHANGED vars
    BY <2>10 DEF vars, IInv, TypeOK, StreamInv, UpstreamInv, CaughtUpInv, OutcomeInv,
                 AnswerAgreement, Upstream, HasCancelled
  <2>. QED  BY <2>1, <2>2, <2>3, <2>4, <2>5, <2>6, <2>7, <2>8, <2>9, <2>10 DEF Next
<1>. QED  BY <1>1, <1>2, PTL DEF Spec

(* Every state of every call is well typed: both tables stay within their  *)
(* states and each channel carries only its own side's messages.           *)
THEOREM TypeCorrect == Spec => []TypeOK
  BY Invariance, PTL DEF IInv

(* Two conforming endpoints never read a message their table does not      *)
(* have: no call between them is closed with ProtocolViolation.            *)
THEOREM NeverIllegal == Spec => []NoIllegalReceive
<1>1. IInv => NoIllegalReceive
  <2>. SUFFICES ASSUME IInv PROVE NoIllegalReceive
    OBVIOUS
  <2>1. ASSUME ~Ended(caller), s2c # << >>
        PROVE  caller_recv(caller, Head(s2c)) # {}
    <3>1. Head(s2c) = s2c[1]
      BY <2>1, HeadTailProperties DEF IInv, TypeOK
    <3>. QED  BY <2>1, <3>1, CallerRecvDefined DEF IInv, TypeOK, StreamInv
  <2>2. ASSUME c2s # << >>, callee = Idle
        PROVE  Head(c2s) = Msg("Submit")
    <3>1. callee.phase = "Idle"
      BY <2>2, PhaseFacts DEF Idle
    <3>2. c2s \in {<<SubmitMsg>>, <<SubmitMsg, CancelMsg>>}
      BY <2>2, <3>1 DEF IInv, UpstreamInv, UpstreamOf
    <3>. QED  BY <3>2 DEF SubmitMsg
  <2>3. ASSUME c2s # << >>, callee # Idle, ~Ended(callee)
        PROVE  callee_recv(callee, Head(c2s)) # {}
    <3>1. callee \in CalleeState /\ callee.phase \in CalleePhase
      BY <2>3, StateFacts DEF IInv, TypeOK
    <3>2. \/ c2s \in {<<CancelMsg>>}
          \/ callee.phase = "NeedInputSent" /\ c2s \in {<<InputMsg>>, <<InputMsg, CancelMsg>>}
      BY <2>3, <3>1 DEF IInv, UpstreamInv, UpstreamOf, CalleePhase
    <3>3. Head(c2s) = CancelMsg \/ (Head(c2s) = InputMsg /\ callee.phase = "NeedInputSent")
      BY <3>2
    <3>. QED  BY <2>3, <3>1, <3>3, CalleeRecvDefined
  <2>. QED  BY <2>1, <2>2, <2>3 DEF NoIllegalReceive
<1>. QED  BY <1>1, Invariance, PTL

(* An answer the caller ends with is the one the callee ended with.        *)
THEOREM Agreement == Spec => []AnswerAgreement
  BY Invariance, PTL DEF IInv, OutcomeInv

(* A callee ends Canceled only when its caller has sent Cancel.            *)
THEOREM CancelHonored == Spec => []CanceledOnRequest
<1>1. IInv => CanceledOnRequest
  <2>. SUFFICES ASSUME IInv, callee.outcome = Canceled PROVE CanceledOnRequest
    BY DEF CanceledOnRequest
  <2>1. caller.phase \in {"Canceling", "Terminal"}
    BY DEF IInv, OutcomeInv, HasCancelled
  <2>2. caller.outcome \in Answer => caller.outcome = Canceled
    BY DEF IInv, OutcomeInv, AnswerAgreement
  <2>3. caller.phase = "Terminal" => caller.outcome # NoOutcome
    <3>1. NoOutcome \notin Outcome
      BY DEF NoOutcome, Outcome, Answer, PeerLost, Closed, Completed, Canceled, Failed, Msg
    <3>. QED  BY <3>1, StateFacts, PhaseFacts DEF IInv, TypeOK, CallerPhase
  <2>. QED  BY <2>1, <2>2, <2>3 DEF CanceledOnRequest
<1>. QED  BY <1>1, Invariance, PTL

(* An Input on its way answers the question the callee is waiting on.      *)
THEOREM OneQuestion == Spec => []OneQuestionOpen
<1>1. IInv => OneQuestionOpen
  <2>. SUFFICES ASSUME IInv, NEW i \in DOMAIN c2s, c2s[i] = Msg("Input")
                PROVE  /\ \A j \in DOMAIN c2s : c2s[j] = Msg("Input") => i = j
                       /\ \A j \in DOMAIN s2c : s2c[j] # Msg("NeedInput")
                       /\ callee.phase \in {"NeedInputSent", "Terminal"}
    BY DEF OneQuestionOpen
  <2>1. Upstream(InputMsg)
    BY DEF Upstream, InputMsg
  <2>2. c2s \in {<<InputMsg>>, <<InputMsg, CancelMsg>>}
    BY <2>1, UpstreamFinite, UpstreamMembers, MessageFacts DEF IInv
  <2>3. ASSUME NEW j \in DOMAIN c2s, c2s[j] = Msg("Input")
        PROVE  i = j
    BY <2>2, <2>3, MessageFacts DEF InputMsg
  <2>4. callee.phase \in {"NeedInputSent", "Terminal"}
    BY <2>2, StateFacts, PhaseFacts, MessageFacts
       DEF IInv, TypeOK, UpstreamInv, UpstreamOf, CalleePhase, Idle
  <2>. QED  BY <2>1, <2>3, <2>4 DEF IInv, UpstreamInv, NeedInput
<1>. QED  BY <1>1, Invariance, PTL

(* Failed{Rejected} never reaches a caller that has seen Accepted.         *)
THEOREM RejectedFirst == Spec => NoRejectionOnceAccepted
<1>1. ASSUME IInv, Next, caller.phase \in {"Working", "AwaitingInput"}
      PROVE  caller'.outcome # Failed("Rejected")
  <2>1. caller.outcome = NoOutcome /\ caller \in CallerState
    BY <1>1, StateFacts DEF IInv, TypeOK
  <2>2. /\ NoOutcome # Failed("Rejected") /\ PeerLost # Failed("Rejected")
        /\ \A c : Closed(c) # Failed("Rejected")
    BY DEF NoOutcome, PeerLost, Closed, Failed, Msg
  <2>3. ASSUME NEW m \in CallerToCallee, CallerSend(m)
        PROVE  caller'.outcome = NoOutcome
    <3>1. caller' \in caller_send(caller, m)
      BY <2>3 DEF CallerSend
    <3>. QED  BY <2>1, <3>1, CallerSendTable, PhaseFacts
  <2>4. CASE CallerReceive
    <3>1. /\ s2c # << >> /\ Head(s2c) = s2c[1] /\ Head(s2c) \in CalleeToCaller
          /\ caller' \in caller_recv(caller, Head(s2c))
      BY <1>1, <2>4, HeadTailProperties DEF CallerReceive, IInv, TypeOK
    <3>2. Head(s2c) \in MayHead(caller.phase)
      BY <1>1, <3>1 DEF IInv, StreamInv, Ended
    <3>3. Head(s2c) # Failed("Rejected")
      <4>1. /\ Failed("Rejected") # NeedInput /\ Failed("Rejected") # Msg("Progress")
            /\ Failed("Rejected") \notin LateAnswer
        BY DEF Failed, NeedInput, Msg, LateAnswer
      <4>. QED  BY <1>1, <3>2, <4>1 DEF MayHead
    <3>4. caller' = Terminal(Head(s2c)) \/ caller'.outcome = NoOutcome
      BY <2>1, <3>1, CallerRecvTable, PhaseFacts
    <3>. QED  BY <2>2, <3>3, <3>4, PhaseFacts
  <2>5. CASE CallerTimeout
    BY <2>2, <2>5, PhaseFacts DEF CallerTimeout, caller_timeout, Unless
  <2>6. CASE CallerLost
    BY <2>2, <2>6, PhaseFacts DEF CallerLost, caller_conn_lost, Unless, conn_lost_outcome
  <2>7. CASE \/ CalleeOffered \/ CalleeReceive \/ CalleeTimeout \/ CalleeLost
             \/ \E m \in CalleeToCaller : CalleeSend(m)
    BY <2>1, <2>2, <2>7
       DEF CalleeOffered, CalleeReceive, CalleeTimeout, CalleeLost, CalleeSend
  <2>. QED  BY <1>1, <2>2, <2>3, <2>4, <2>5, <2>6, <2>7 DEF Next
<1>2. IInv /\ [Next]_vars =>
        [caller.phase \in {"Working", "AwaitingInput"}
           => caller'.outcome # Failed("Rejected")]_vars
  BY <1>1
<1>. QED  BY <1>2, Invariance, PTL DEF Spec, NoRejectionOnceAccepted

-----------------------------------------------------------------------------
(* Timers on a clock.                                                      *)

TimersTypeOK ==
  /\ deadline \in Nat
  /\ left \in [Sides -> Nat]
  /\ delay \in Nat
  /\ silent \in BOOLEAN

(* The callee's connection is lost: it will not answer.                    *)
CalleeGone == Ended(callee) /\ callee.outcome \notin Answer

(* The caller is ahead of the callee by GRACE less what it waited for.     *)
MarginInv == CalleeGone \/ left.caller + delay >= GRACE + left.callee

LEMMA SidesDiffer == "caller" \in Sides /\ "callee" \in Sides
  BY DEF Sides

(* A finished callee is never stepped again.                               *)
LEMMA CalleeStays ==
  ASSUME Ended(callee), TimersNext
  PROVE  callee' = callee
<1>1. callee.phase = "Terminal" /\ callee # Idle
  BY DEF Ended, Idle, At
<1>2. \A m : callee_send(callee, m) = {} /\ callee_recv(callee, m) = {}
  BY <1>1 DEF callee_send, callee_recv, Follow, CalleeSends, CalleeRecvs
<1>3. callee_timeout(callee) = {} /\ \A c : callee_conn_lost(callee, c) = {}
  BY DEF callee_timeout, callee_conn_lost, Unless
<1>4. CASE CallerGoesOn
  BY <1>4 DEF CallerGoesOn, CallerSend, CallerReceive, CallerLost
<1>5. CASE CalleeGoesOn
  BY <1>1, <1>2, <1>3, <1>5 DEF CalleeGoesOn, CalleeOffered, CalleeReceive, CalleeLost
<1>6. CASE CalleeEmits
  BY <1>2, <1>6 DEF CalleeEmits, CalleeSend
<1>7. CASE CallerFires
  BY <1>7 DEF CallerFires, CallerTimeout
<1>8. CASE CalleeFires
  BY <1>3, <1>8 DEF CalleeFires, CalleeTimeout
<1>9. CASE Tick
  BY <1>9 DEF Tick, vars
<1>10. CASE CalleeFallsSilent
  BY <1>10 DEF CalleeFallsSilent, vars
<1> QED BY <1>4, <1>5, <1>6, <1>7, <1>8, <1>9, <1>10 DEF TimersNext

(* Only time moves what the margin is made of, and silence is for good.    *)
LEMMA TimingStays ==
  ASSUME TimersNext, ~Tick
  PROVE  UNCHANGED <<deadline, left, delay>> /\ silent' \in {silent, TRUE}
  BY DEF TimersNext, timing, CallerGoesOn, CalleeGoesOn, CalleeEmits, CallerFires,
         CalleeFires, CalleeFallsSilent

LEMMA TimersInitInv == TimersInit => TimersTypeOK /\ MarginInv
<1> SUFFICES ASSUME TimersInit PROVE TimersTypeOK /\ MarginInv
  OBVIOUS
<1>1. deadline \in Nat /\ GRACE \in Nat
  BY CallTimersAssumption DEF TimersInit
<1>2. left = [s \in Sides |-> IF s = "caller" THEN deadline + GRACE ELSE deadline]
  BY DEF TimersInit, caller_budget, callee_budget
<1>3. left.caller = deadline + GRACE /\ left.callee = deadline
  BY <1>2, SidesDiffer
<1>4. left \in [Sides -> Nat]
  BY <1>1, <1>2
<1>5. delay = 0 /\ silent \in BOOLEAN
  BY DEF TimersInit
<1>6. TimersTypeOK
  BY <1>1, <1>4, <1>5 DEF TimersTypeOK
<1>7. MarginInv
  BY <1>1, <1>3, <1>5 DEF MarginInv
<1> QED BY <1>6, <1>7

(* A tick the caller's timer loses is one the callee's loses too, or one   *)
(* that is counted as delay.                                               *)
LEMMA TickInv ==
  ASSUME TimersTypeOK, MarginInv, Tick
  PROVE  TimersTypeOK' /\ MarginInv'
<1>1. /\ left' = [s \in Sides |-> IF Running(s) /\ left[s] > 0 THEN left[s] - 1 ELSE left[s]]
      /\ delay' = IF Running("caller") /\ left.caller > 0 /\ Delayed THEN delay + 1 ELSE delay
      /\ UNCHANGED <<caller, callee, deadline, silent>>
  BY DEF Tick, vars
<1>2. left.caller \in Nat /\ left.callee \in Nat /\ delay \in Nat /\ GRACE \in Nat
  BY SidesDiffer, CallTimersAssumption DEF TimersTypeOK
<1>3. TimersTypeOK'
  BY <1>1 DEF TimersTypeOK
<1>. SUFFICES MarginInv'
  BY <1>3
<1>4. /\ left'.caller = IF Running("caller") /\ left.caller > 0 THEN left.caller - 1 ELSE left.caller
      /\ left'.callee = IF Running("callee") /\ left.callee > 0 THEN left.callee - 1 ELSE left.callee
  BY <1>1, SidesDiffer
<1>5. CASE CalleeGone
  BY <1>1, <1>5 DEF MarginInv, CalleeGone, Ended
<1>6. CASE ~CalleeGone /\ Running("caller") /\ left.caller > 0 /\ Delayed
  <2>1. delay' = delay + 1 /\ left'.caller = left.caller - 1
    BY <1>1, <1>4, <1>6
  <2>2. left'.callee <= left.callee /\ left'.callee \in Nat
    BY <1>2, <1>4
  <2> QED BY <1>2, <1>6, <2>1, <2>2 DEF MarginInv
<1>7. CASE ~CalleeGone /\ Running("caller") /\ left.caller > 0 /\ ~Delayed
  <2>1. Running("callee") /\ left.callee > 0
    BY <1>2, <1>7 DEF Delayed, CalleeGone, Running, Due
  <2>2. /\ delay' = delay /\ left'.caller = left.caller - 1
        /\ left'.callee = left.callee - 1
    BY <1>1, <1>4, <1>7, <2>1
  <2> QED BY <1>2, <1>7, <2>2 DEF MarginInv
<1>8. CASE ~CalleeGone /\ ~(Running("caller") /\ left.caller > 0)
  <2>1. delay' = delay /\ left'.caller = left.caller
    BY <1>1, <1>4, <1>8
  <2>2. left'.callee <= left.callee /\ left'.callee \in Nat
    BY <1>2, <1>4
  <2> QED BY <1>2, <1>8, <2>1, <2>2 DEF MarginInv
<1> QED BY <1>5, <1>6, <1>7, <1>8

LEMMA TimersStepInv ==
  ASSUME TimersTypeOK, MarginInv, TimersNext
  PROVE  TimersTypeOK' /\ MarginInv'
<1>1. CASE Tick
  BY <1>1, TickInv
<1>2. CASE ~Tick
  <2>1. UNCHANGED <<deadline, left, delay>> /\ silent' \in {silent, TRUE}
    BY <1>2, TimingStays
  <2>2. TimersTypeOK'
    BY <2>1 DEF TimersTypeOK
  <2>3. CalleeGone => CalleeGone'
    BY CalleeStays DEF CalleeGone, Ended
  <2> QED BY <2>1, <2>2, <2>3 DEF MarginInv
<1> QED BY <1>1, <1>2

LEMMA TimersInvariance == TimersSpec => [](TimersTypeOK /\ MarginInv)
<1>1. TimersTypeOK /\ MarginInv /\ [TimersNext]_tvars => (TimersTypeOK /\ MarginInv)'
  <2> SUFFICES ASSUME TimersTypeOK, MarginInv, [TimersNext]_tvars
               PROVE  TimersTypeOK' /\ MarginInv'
    OBVIOUS
  <2>1. CASE TimersNext
    BY <2>1, TimersStepInv
  <2>2. CASE UNCHANGED tvars
    BY <2>2 DEF tvars, vars, timing, TimersTypeOK, MarginInv, CalleeGone, Ended
  <2> QED BY <2>1, <2>2
<1> QED BY <1>1, TimersInitInv, PTL DEF TimersSpec

(* What is left of a timer never falls below zero.                         *)
THEOREM TimersTyped == TimersSpec => []TimersTypeOK
  BY TimersInvariance, PTL

(* For any deadline and margin, and however late messages arrive and       *)
(* timers are noticed, a caller times out on a connected callee only after *)
(* GRACE ticks of waiting for them (lib.rs, timing.rs).                    *)
THEOREM MarginKept == TimersSpec => []TimesOutForCause
<1>1. TimersTypeOK /\ MarginInv => TimesOutForCause
  <2> SUFFICES ASSUME TimersTypeOK, MarginInv, ~CalleeGone, left.caller = 0
               PROVE  delay >= GRACE
    BY DEF TimesOutForCause, CalleeGone
  <2>1. left.callee \in Nat /\ delay \in Nat /\ GRACE \in Nat
    BY SidesDiffer, CallTimersAssumption DEF TimersTypeOK
  <2> QED BY <2>1 DEF MarginInv
<1> QED BY <1>1, TimersInvariance, PTL

(* A call with its timers on a clock is a call of CallProtocol, so what is *)
(* proved there holds of it, whatever the clock does.                      *)
THEOREM TimersFollowProtocol == TimersSpec => Spec
<1>1. TimersInit => Init
  BY DEF TimersInit
<1>2. [TimersNext]_tvars => [Next]_vars
  <2> SUFFICES ASSUME [TimersNext]_tvars PROVE Next \/ UNCHANGED vars
    OBVIOUS
  <2>1. CASE CallerGoesOn
    BY <2>1 DEF CallerGoesOn, Next
  <2>2. CASE CalleeGoesOn
    BY <2>2 DEF CalleeGoesOn, Next
  <2>3. CASE CalleeEmits
    BY <2>3 DEF CalleeEmits, Next
  <2>4. CASE CallerFires \/ CalleeFires
    BY <2>4 DEF CallerFires, CalleeFires, Next
  <2>5. CASE CalleeFallsSilent \/ Tick \/ UNCHANGED tvars
    BY <2>5 DEF CalleeFallsSilent, Tick, tvars
  <2> QED BY <2>1, <2>2, <2>3, <2>4, <2>5 DEF TimersNext
<1> QED BY <1>1, <1>2, PTL DEF TimersSpec, Spec

=============================================================================
