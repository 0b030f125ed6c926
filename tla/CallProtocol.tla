---------------------------- MODULE CallProtocol ----------------------------
(***************************************************************************)
(* One call between two conforming endpoints, as uat-core promises it: the *)
(* two tables of CallTables joined by a FIFO channel in each direction.    *)
(* The endpoints run concurrently.  Everything the tables leave to their   *)
(* driver is a free choice here: which legal message an application sends, *)
(* when a timer fires, when and with which code the connection is lost     *)
(* (with whatever is still in flight).  Two drivers exist: the loops over  *)
(* a QUIC connection and the in-memory harness, both in uat-node/call.rs.  *)
(***************************************************************************)
EXTENDS CallTables, Sequences, Naturals

CONSTANTS
  LossCodes,    \* close codes with which an endpoint may lose the connection
  Timers,       \* the sides whose timer may fire, a subset of Sides
  MaxInFlight   \* bound: no Progress is sent on top of this many messages

Sides == {"caller", "callee"}

ASSUME CallProtocolAssumption ==
  /\ LossCodes \subseteq CloseCode
  /\ Timers \subseteq Sides
  /\ MaxInFlight \in Nat

VARIABLES
  caller,   \* state of the caller's table
  callee,   \* state of the callee's table
  c2s,      \* messages sent by the caller and not yet received
  s2c       \* messages sent by the callee and not yet received

vars == <<caller, callee, c2s, s2c>>

(* A callee that has not received Submit yet has no table state.           *)
Idle == At("Idle")

CallerToCallee == {Msg("Submit"), Msg("Input"), Msg("Cancel")}
CalleeToCaller == {Msg("Accepted"), Msg("Progress"), Msg("NeedInput")} \cup Answer

TypeOK ==
  /\ caller \in CallerState
  /\ callee \in CalleeState \cup {Idle}
  /\ c2s \in Seq(CallerToCallee)
  /\ s2c \in Seq(CalleeToCaller)

Init ==
  /\ caller = At("Dialing")
  /\ callee = Idle
  /\ c2s = << >>
  /\ s2c = << >>

-----------------------------------------------------------------------------
CallerSend(m) ==
  /\ \E t \in caller_send(caller, m) : caller' = t
  /\ c2s' = Append(c2s, m)
  /\ UNCHANGED <<callee, s2c>>

CallerReceive ==
  /\ s2c # << >>
  /\ \E t \in caller_recv(caller, Head(s2c)) : caller' = t
  /\ s2c' = Tail(s2c)
  /\ UNCHANGED <<callee, c2s>>

(* The caller's timer starts when Submit is sent (A1.2.3).                 *)
CallerTimeout ==
  /\ "caller" \in Timers
  /\ caller # At("Dialing")
  /\ \E t \in caller_timeout(caller) : caller' = t
  /\ UNCHANGED <<callee, c2s, s2c>>

CallerLost ==
  /\ \E c \in LossCodes : \E t \in caller_conn_lost(caller, c) : caller' = t
  /\ UNCHANGED <<callee, c2s, s2c>>

-----------------------------------------------------------------------------
(* The first message a callee takes is Submit; its table starts there.     *)
CalleeOffered ==
  /\ callee = Idle
  /\ c2s # << >>
  /\ Head(c2s) = Msg("Submit")
  /\ callee' = At("Offered")
  /\ c2s' = Tail(c2s)
  /\ UNCHANGED <<caller, s2c>>

CalleeSend(m) ==
  /\ m = Msg("Progress") => Len(s2c) < MaxInFlight
  /\ \E t \in callee_send(callee, m) : callee' = t
  /\ s2c' = Append(s2c, m)
  /\ UNCHANGED <<caller, c2s>>

CalleeReceive ==
  /\ c2s # << >>
  /\ \E t \in callee_recv(callee, Head(c2s)) : callee' = t
  /\ c2s' = Tail(c2s)
  /\ s2c' = s2c \o EmitOnRecv(Head(c2s))
  /\ UNCHANGED caller

CalleeTimeout ==
  /\ "callee" \in Timers
  /\ callee # Idle
  /\ \E t \in callee_timeout(callee) : callee' = t
  /\ s2c' = s2c \o EmitOnTimeout
  /\ UNCHANGED <<caller, c2s>>

CalleeLost ==
  /\ \E c \in LossCodes : \E t \in callee_conn_lost(callee, c) : callee' = t
  /\ UNCHANGED <<caller, c2s, s2c>>

-----------------------------------------------------------------------------
Next ==
  \/ \E m \in CallerToCallee : CallerSend(m)
  \/ CallerReceive
  \/ CallerTimeout
  \/ CallerLost
  \/ CalleeOffered
  \/ \E m \in CalleeToCaller : CalleeSend(m)
  \/ CalleeReceive
  \/ CalleeTimeout
  \/ CalleeLost

Spec == Init /\ [][Next]_vars

-----------------------------------------------------------------------------
(* Whatever is next to be read has an entry in the reader's table: two     *)
(* conforming endpoints never close each other with ProtocolViolation,     *)
(* however their sends, timers and losses interleave (state.rs: "Illegal   *)
(* pairs close with ProtocolViolation").                                   *)
NoIllegalReceive ==
  /\ ~Ended(caller) /\ s2c # << >> => caller_recv(caller, Head(s2c)) # {}
  /\ c2s # << >> =>
       /\ callee = Idle => Head(c2s) = Msg("Submit")
       /\ callee # Idle /\ ~Ended(callee) => callee_recv(callee, Head(c2s)) # {}

(* What the caller was told is what the callee did: an outcome that only a *)
(* message can bring is the outcome the callee ended with, also when       *)
(* Cancel crossed Completed, or Input crossed the deadline, on the wire.   *)
AnswerAgreement ==
  caller.outcome \in Answer => callee.outcome = caller.outcome

(* A callee ends Canceled only for a caller that asked: that caller still  *)
(* waits for the answer, or has it, or has lost the connection.            *)
CanceledOnRequest ==
  callee.outcome = Canceled =>
    caller.phase = "Canceling" \/ caller.outcome \notin Answer \cup {NoOutcome}
                               \/ caller.outcome = Canceled

(* One question at a time: the Input a callee reads answers the NeedInput  *)
(* it is waiting on, never an earlier one.                                 *)
OneQuestionOpen ==
  \A i \in DOMAIN c2s : c2s[i] = Msg("Input") =>
    /\ \A j \in DOMAIN c2s : c2s[j] = Msg("Input") => i = j
    /\ \A j \in DOMAIN s2c : s2c[j] # Msg("NeedInput")
    /\ callee.phase \in {"NeedInputSent", "Terminal"}

(* A caller that has seen Accepted is never told Failed{Rejected}          *)
(* (A1.2.4).                                                               *)
NoRejectionOnceAccepted ==
  [][caller.phase \in {"Working", "AwaitingInput"}
       => caller'.outcome # Failed("Rejected")]_vars

=============================================================================
