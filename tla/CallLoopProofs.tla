--------------------------- MODULE CallLoopProofs ---------------------------
(***************************************************************************)
(* The loops of call.rs implement CallProtocol, and what follows for the   *)
(* records of the two nodes: machine-checked for every value of the        *)
(* constants of CallLoop.                                                  *)
(***************************************************************************)
EXTENDS CallLoop, Naturals, SequenceTheorems, TLAPS

-----------------------------------------------------------------------------
(* The tables.                                                             *)

LEMMA StateFacts ==
  /\ \A p : At(p).phase = p /\ At(p).outcome = NoOutcome /\ (Ended(At(p)) <=> p = "Terminal")
  /\ \A o : Terminal(o).phase = "Terminal" /\ Terminal(o).outcome = o /\ Ended(Terminal(o))
  BY DEF At, Terminal, Ended

LEMMA OutcomeFacts ==
  /\ NoOutcome \notin Outcome /\ Answer \subseteq Outcome
  /\ PeerLost \in Outcome \ Answer
  /\ \A c \in CloseCode : Closed(c) \in Outcome \ Answer
  /\ \A c : Closed(c) # PeerLost /\ Closed(c) # NoOutcome /\ (\A d : Closed(c) = Closed(d) => c = d)
  /\ \A c \in CloseCode : conn_lost_outcome(c) \in Outcome \ Answer
  /\ Canceled \in Answer /\ \A c \in FailureCode : Failed(c) \in Answer
  BY DEF NoOutcome, Outcome, Answer, PeerLost, Closed, Canceled, Completed, Failed, Msg,
         conn_lost_outcome, FailureCode, CloseCode

LEMMA OpenOrEnded ==
  /\ \A s \in CallerState : Ended(s) <=> s.outcome # NoOutcome
  /\ \A s \in CalleeState \cup {Idle} : Ended(s) <=> s.outcome # NoOutcome
  /\ ~Ended(Idle) /\ Idle \notin CalleeState
<1>1. \A p \in CallerPhase \cup CalleePhase \cup {"Idle"} : ~Ended(At(p))
  BY StateFacts DEF CallerPhase, CalleePhase
<1>2. \A o \in Outcome : Ended(Terminal(o)) /\ o # NoOutcome
  BY StateFacts, OutcomeFacts
<1>3. Idle \notin CalleeState
  BY StateFacts DEF CalleeState, CalleePhase, Idle
<1> QED BY <1>1, <1>2, <1>3, StateFacts DEF CallerState, CalleeState, Idle

LEMMA CalleePhaseFacts ==
  \A p \in CalleePhase : At(p) \in CalleeState /\ At(p) # Idle /\ ~Ended(At(p))
<1>1. \A p \in CalleePhase : At(p) \in CalleeState /\ p # "Terminal"
  BY DEF CalleeState, CalleePhase
<1> QED BY <1>1, StateFacts, OpenOrEnded

LEMMA CallerSendFacts ==
  ASSUME NEW s \in CallerState, NEW k \in {"Submit", "Cancel"}, NEW t \in caller_send(s, Msg(k))
  PROVE  /\ t \in CallerState /\ t # At("Dialing") /\ ~Ended(t) /\ ~Ended(s)
         /\ t.outcome = NoOutcome
         /\ k = "Submit" => s = At("Dialing")
  BY DEF caller_send, Follow, CallerSends, CallerState, CallerPhase, At, Terminal, Msg, Ended

LEMMA CallerRecvFacts ==
  ASSUME NEW s \in CallerState, NEW m \in Message, NEW t \in caller_recv(s, m)
  PROVE  /\ t \in CallerState /\ t # At("Dialing") /\ ~Ended(s)
         /\ Ended(t) => t.outcome \in Answer
         /\ t.outcome \in Answer => m = t.outcome
  BY OutcomeFacts
     DEF caller_recv, Follow, CallerRecvs, CancelingRecvs, CallerState, CallerPhase, At,
         Terminal, Msg, Ended, Message, PlainKind, Failed, OutcomeOf, Answer, Outcome,
         Completed, Canceled

LEMMA CalleeSendFacts ==
  ASSUME NEW s \in CalleeState \cup {Idle}, NEW m \in Message, NEW t \in callee_send(s, m)
  PROVE  /\ t \in CalleeState /\ ~Ended(s) /\ s # Idle
         /\ Ended(t) => t.outcome = m /\ m \in Answer
  BY DEF callee_send, Follow, CalleeSends, CalleeState, CalleePhase, At, Terminal, Msg, Ended,
         Message, PlainKind, Failed, OutcomeOf, Answer, Outcome, Completed, Canceled, Idle

LEMMA CalleeRecvFacts ==
  ASSUME NEW s \in CalleeState \cup {Idle}, NEW m \in Message, NEW t \in callee_recv(s, m)
  PROVE  /\ t \in CalleeState /\ ~Ended(s) /\ s # Idle
         /\ m.kind = "Cancel" => Ended(t)
  BY DEF callee_recv, Follow, CalleeRecvs, CalleeState, CalleePhase, At, Terminal, Msg, Ended,
         Message, PlainKind, Failed, OutcomeOf, Answer, Outcome, Completed, Canceled, Idle

(* What the callee emits are messages, and one at most.                    *)
LEMMA EmitFacts ==
  /\ Canceled \in Message /\ \A c \in FailureCode : Failed(c) \in Message
  /\ \A k \in PlainKind : Msg(k) \in Message
  /\ \A m : EmitOnRecv(m) = << >> \/ (m.kind = "Cancel" /\ EmitOnRecv(m) = <<Canceled>>)
  /\ \A m : EmitOnRecv(m) \in Seq(Message)
  /\ EmitOnTimeout[1] = Failed("DeadlineExceeded")
<1>1. Canceled \in Message
  BY DEF Message, Canceled, PlainKind
<1>2. <<Canceled>> \in Seq(Message) /\ << >> \in Seq(Message)
  BY <1>1
<1>3. \A m : EmitOnRecv(m) \in {<<Canceled>>, << >>}
  BY DEF EmitOnRecv
<1> QED BY <1>1, <1>2, <1>3 DEF EmitOnRecv, EmitOnTimeout, Message

-----------------------------------------------------------------------------
(* The invariants.                                                         *)

(* Where each task stands, what its table says and what it has written.    *)
CallerInv ==
  /\ pc.caller \in {"opening", "submitting"} =>
       caller = At("Dialing") /\ wire.caller = << >> /\ callee = Idle
  /\ pc.caller \in {"submitted", "selecting"} => caller # At("Dialing")
  /\ pc.caller # "done" => lost.caller = << >>

CalleeInv ==
  /\ pc.callee \in {"incoming", "accepting", "first"} => callee = Idle
  /\ pc.callee = "first" => wire.caller # << >>
  /\ pc.callee = "denying" => callee = At("Offered")
  /\ pc.callee \in {"emitting", "waiting"} => callee # Idle
  /\ pc.callee = "waiting" => ~Ended(callee)
  /\ pc.callee = "lingering" => Ended(callee)
  /\ pc.callee \notin {"lingering", "done"} => lost.callee = << >>

(* TypeOK and, for EXCEPT, that pc has no other side.                      *)
PcInv == pc \in [Side -> CallerPc \cup CalleePc]
Typed == TypeOK /\ PcInv

ControlInv == Typed /\ CallerInv /\ CalleeInv

(* A task leaves its record when it returns.                               *)
ReturnInv == \A s \in Side : record[s] # NoRecord <=> pc[s] = "done"

(* An answer in the caller's record is the one its table ended with, and   *)
(* its table ends with an answer only when all of the callee's frames were *)
(* written.                                                                *)
CallerAnswerInv ==
  /\ LET answer == record.caller.outcome IN
       answer \in Answer /\ (answer = Canceled => ~shutdown.caller) => caller.outcome = answer
  /\ pc.caller = "submitted" => ~Ended(caller)
  /\ pc.caller = "selecting" /\ Ended(caller) => caller.outcome \in Answer
  /\ lost.callee # << >> => caller.outcome \notin Answer

(* A callee records what its table ended with, unless its last frame was   *)
(* not written.                                                            *)
CalleeAnswerInv ==
  pc.callee = "done" /\ Ended(callee) =>
    record.callee.outcome = callee.outcome \/ lost.callee # << >>

(* Only the rate limiter closes with RateLimited, before anything is read. *)
LimitInv ==
  /\ link.caller = "RateLimited" => bye.callee = "RateLimited"
  /\ bye.callee = "RateLimited" =>
       /\ pc.callee = "done" /\ callee = Idle
       /\ record.callee = [outcome |-> Closed("RateLimited"), task |-> FALSE]
  /\ \A s \in Side : bye[s] # "none" => link[s] # "open"
  /\ record.caller.outcome = Closed("RateLimited") =>
       ~record.caller.task /\ bye.callee = "RateLimited"

(* A record without the task is that of a Submit that was not written, or  *)
(* of a connection that was refused.                                       *)
TaskInv ==
  /\ record.callee.task => callee # Idle
  /\ pc.caller = "done" /\ ~record.caller.task =>
       (wire.caller = << >> /\ callee = Idle) \/ bye.callee = "RateLimited"

RecordInv == ReturnInv /\ CallerAnswerInv /\ CalleeAnswerInv /\ LimitInv /\ TaskInv

-----------------------------------------------------------------------------
(* Types.                                                                  *)

LEMMA SideFacts ==
  /\ "caller" \in Side /\ "callee" \in Side
  /\ \A s \in Side : s = "caller" \/ s = "callee"
  /\ Other("caller") = "callee" /\ Other("callee") = "caller"
  BY DEF Side, Other

(* What the first close of a connection, and every later one, changes.     *)
LEMMA CloseShape ==
  ASSUME TypeOK, NEW s \in Side, NEW code \in CloseCode, close_with(s, code)
  PROVE  /\ link' \in [Side -> CloseCode \cup {"open"}]
         /\ bye' \in [Side -> CloseCode \cup {"none"}]
         /\ \A t \in Side \ {s} : link'[t] = link[t] /\ bye'[t] = bye[t]
         /\ \/ link[s] = "open" /\ link'[s] = "ProtocolViolation" /\ bye'[s] = code
            \/ link[s] # "open" /\ UNCHANGED <<link, bye>>
<1>1. /\ link \in [Side -> CloseCode \cup {"open"}] /\ bye \in [Side -> CloseCode \cup {"none"}]
      /\ "ProtocolViolation" \in CloseCode
  BY DEF TypeOK, CloseCode
<1>2. CASE link[s] = "open"
  <2>1. /\ link' = [link EXCEPT ![s] = "ProtocolViolation"]
        /\ bye' = [bye EXCEPT ![s] = code]
    BY <1>2 DEF close_with
  <2> QED BY <1>1, <1>2, <2>1
<1>3. CASE link[s] # "open"
  BY <1>1, <1>3 DEF close_with
<1> QED BY <1>2, <1>3

(* Where a task may go.                                                    *)
PcOf(s) == IF s = "caller" THEN CallerPc ELSE CalleePc

LEMMA GotoShape ==
  ASSUME TypeOK, PcInv, NEW s \in Side, NEW p \in PcOf(s), Goto(s, p)
  PROVE  /\ PcInv' /\ pc'.caller \in CallerPc /\ pc'.callee \in CalleePc
         /\ pc'[s] = p /\ \A t \in Side \ {s} : pc'[t] = pc[t]
  BY SideFacts DEF Goto, PcOf, TypeOK, PcInv

(* What a task leaves when it returns.                                     *)
LEMMA ReturnShape ==
  ASSUME TypeOK, PcInv, NEW s \in Side, NEW outcome \in Outcome, NEW task \in BOOLEAN,
         NEW code \in CloseCode, Return(s, outcome, task, code)
  PROVE  /\ PcInv' /\ pc'.caller \in CallerPc /\ pc'.callee \in CalleePc
         /\ record' \in [Side -> CallRecord \cup {NoRecord}]
         /\ link' \in [Side -> CloseCode \cup {"open"}]
         /\ bye' \in [Side -> CloseCode \cup {"none"}]
         /\ pc'[s] = "done" /\ record'[s] = [outcome |-> outcome, task |-> task]
         /\ \A t \in Side \ {s} : /\ pc'[t] = pc[t] /\ record'[t] = record[t]
                                  /\ link'[t] = link[t] /\ bye'[t] = bye[t]
         /\ \/ link[s] = "open" /\ link'[s] = "ProtocolViolation" /\ bye'[s] = code
            \/ link[s] # "open" /\ UNCHANGED <<link, bye>>
<1>1. Goto(s, "done") /\ close_with(s, code)
      /\ record' = [record EXCEPT ![s] = [outcome |-> outcome, task |-> task]]
  BY DEF Return
<1>2. "done" \in PcOf(s)
  BY DEF PcOf, CallerPc, CalleePc
<1>3. [outcome |-> outcome, task |-> task] \in CallRecord
  BY DEF CallRecord
<1>4. record \in [Side -> CallRecord \cup {NoRecord}]
  BY DEF TypeOK
<1> QED BY <1>1, <1>2, <1>3, <1>4, GotoShape, CloseShape

LEMMA WriteShape ==
  ASSUME TypeOK, NEW s \in Side, NEW m \in Message, TriesToWrite(s, m)
  PROVE  /\ wire' \in [Side -> Seq(Message)] /\ lost' \in [Side -> Seq(Message)]
         /\ \A t \in Side \ {s} : wire'[t] = wire[t] /\ lost'[t] = lost[t]
         /\ \/ wire'[s] = Append(wire[s], m) /\ lost' = lost /\ link[s] = "open"
            \/ lost'[s] = Append(lost[s], m) /\ wire' = wire
<1>1. /\ wire \in [Side -> Seq(Message)] /\ lost \in [Side -> Seq(Message)]
      /\ wire[s] \in Seq(Message) /\ lost[s] \in Seq(Message)
  BY DEF TypeOK
<1>2. Append(wire[s], m) \in Seq(Message) /\ Append(lost[s], m) \in Seq(Message)
  BY <1>1, AppendProperties
<1>3. CASE Writes(s, m)
  BY <1>1, <1>2, <1>3 DEF Writes
<1>4. CASE WriteFails(s, m)
  BY <1>1, <1>2, <1>4 DEF WriteFails
<1> QED BY <1>3, <1>4 DEF TriesToWrite

(* The type invariant in parts: each action changes few of them.           *)
TableTypes == caller \in CallerState /\ callee \in CalleeState \cup {Idle}

TaskTypes ==
  /\ PcInv /\ pc.caller \in CallerPc /\ pc.callee \in CalleePc
  /\ record \in [Side -> CallRecord \cup {NoRecord}]
  /\ link \in [Side -> CloseCode \cup {"open"}]
  /\ bye \in [Side -> CloseCode \cup {"none"}]

WireTypes == wire \in [Side -> Seq(Message)] /\ lost \in [Side -> Seq(Message)]

FlagTypes ==
  /\ fin \in [Side -> BOOLEAN] /\ shutdown \in [Side -> BOOLEAN]
  /\ hook \in BOOLEAN /\ torn \in BOOLEAN
  /\ behavior \in Behaviors /\ verdict \in Verdicts /\ calm \in Calms

LEMMA TypedParts == Typed <=> TableTypes /\ TaskTypes /\ WireTypes /\ FlagTypes
  BY DEF Typed, TypeOK, TableTypes, TaskTypes, WireTypes, FlagTypes

LEMMA TypedNext == TableTypes' /\ TaskTypes' /\ WireTypes' /\ FlagTypes' => Typed'
  BY TypedParts, PTL

LEMMA TaskGoes ==
  ASSUME Typed, NEW s \in Side, NEW p \in PcOf(s), Goto(s, p), UNCHANGED <<record, link, bye>>
  PROVE  TaskTypes'
  BY GotoShape DEF Typed, TypeOK, TaskTypes

LEMMA TaskReturns ==
  ASSUME Typed, NEW s \in Side, NEW outcome \in Outcome, NEW task \in BOOLEAN,
         NEW code \in CloseCode, Return(s, outcome, task, code)
  PROVE  TaskTypes'
  BY ReturnShape DEF Typed, TaskTypes

LEMMA TaskStays == Typed /\ UNCHANGED <<pc, record, link, bye>> => TaskTypes'
  BY DEF Typed, TypeOK, TaskTypes, PcInv

LEMMA WireStays == Typed /\ UNCHANGED <<wire, lost>> => WireTypes'
  BY DEF Typed, TypeOK, WireTypes

LEMMA FlagsStay ==
  Typed /\ UNCHANGED <<fin, shutdown, hook, torn, setting>> => FlagTypes'
  BY DEF Typed, TypeOK, FlagTypes, setting

LEMMA StopTypes ==
  ASSUME Typed, NEW s \in Side, NEW task \in BOOLEAN, Stop(s, task)
  PROVE  Typed'
<1>1. TaskTypes'
  BY TaskReturns, OutcomeFacts DEF Stop, CloseCode
<1>2. FlagTypes'
  BY DEF Stop, Typed, TypeOK, FlagTypes, setting
<1> QED BY <1>1, <1>2, WireStays, TypedNext DEF Stop, TableTypes, Typed, TypeOK

LEMMA CallerTypes ==
  ASSUME Typed, CallerStep
  PROVE  Typed'
<1>. USE SideFacts, OutcomeFacts
<1>0. /\ caller \in CallerState /\ callee \in CalleeState \cup {Idle}
      /\ link.caller \in CloseCode \cup {"open"}
      /\ wire.callee \in Seq(Message)
      /\ {"Normal", "Timeout"} \subseteq CloseCode
  BY DEF Typed, TypeOK, CloseCode
<1>1. CASE CallerOpens
  <2>1. CASE Goto("caller", "submitting") /\ UNCHANGED <<record, link, bye>>
    BY <1>0, <1>1, <2>1, TaskGoes, WireStays, FlagsStay, TypedNext
       DEF CallerOpens, TableTypes, PcOf, CallerPc
  <2>2. CASE link.caller # "open" /\ Return("caller", Closed(link.caller), FALSE, "Normal")
    BY <1>0, <1>1, <2>2, TaskReturns, WireStays, FlagsStay, TypedNext
       DEF CallerOpens, TableTypes
  <2> QED BY <1>1, <2>1, <2>2 DEF CallerOpens
<1>2. CASE CallerSubmits
  <2>1. TableTypes'
    BY <1>0, <1>2, CallerSendFacts DEF CallerSubmits, TableTypes
  <2>2. WireTypes'
    <3>1. Msg("Submit") \in Message /\ TriesToWrite("caller", Msg("Submit"))
      BY <1>2, EmitFacts DEF CallerSubmits, TriesToWrite, PlainKind
    <3> QED BY <3>1, WriteShape DEF Typed, WireTypes
  <2>3. TaskTypes'
    BY <1>0, <1>2, TaskGoes, TaskReturns DEF CallerSubmits, PcOf, CallerPc
  <2> QED BY <1>2, <2>1, <2>2, <2>3, FlagsStay, TypedNext DEF CallerSubmits
<1>3. CASE CallerChecks
  <2>1. TaskTypes'
    <3>1. "RateLimited" \in CloseCode
      BY DEF CloseCode
    <3> QED BY <1>0, <1>3, <3>1, TaskGoes, TaskReturns DEF CallerChecks, PcOf, CallerPc
  <2> QED BY <1>0, <1>3, <2>1, WireStays, FlagsStay, TypedNext DEF CallerChecks, TableTypes
<1>4. CASE CallerFinishes
  <2>1. caller.outcome \in Outcome
    BY <1>0, <1>4, StateFacts DEF CallerFinishes, CallerState, CallerPhase
  <2>2. TaskTypes'
    BY <1>0, <1>4, <2>1, TaskReturns DEF CallerFinishes
  <2> QED BY <1>0, <1>4, <2>2, WireStays, FlagsStay, TypedNext DEF CallerFinishes, TableTypes
<1>5. CASE CallerStops
  BY <1>5, StopTypes DEF CallerStops
<1>6. CASE CallerTimer
  <2>1. caller' = Terminal(Closed("Timeout")) /\ caller'.outcome \in Outcome
    BY <1>0, <1>6, StateFacts DEF CallerTimer, caller_timeout, Unless
  <2>2. TableTypes'
    BY <1>0, <1>6, <2>1 DEF CallerTimer, TableTypes, CallerState
  <2>3. TaskTypes'
    BY <1>0, <1>6, <2>1, TaskReturns DEF CallerTimer
  <2> QED BY <1>6, <2>2, <2>3, WireStays, FlagsStay, TypedNext DEF CallerTimer
<1>7. CASE CallerSeesClose
  <2>1. caller' = Terminal(conn_lost_outcome(link.caller)) /\ caller'.outcome \in Outcome
    BY <1>0, <1>7, StateFacts DEF CallerSeesClose, caller_conn_lost, Unless
  <2>2. TableTypes'
    BY <1>0, <1>7, <2>1, StateFacts DEF CallerSeesClose, TableTypes, CallerState
  <2>3. TaskTypes'
    BY <1>0, <1>7, <2>1, TaskReturns DEF CallerSeesClose
  <2> QED BY <1>7, <2>2, <2>3, WireStays, FlagsStay, TypedNext DEF CallerSeesClose
<1>8. CASE CallerCancels
  <2>1. TableTypes'
    BY <1>0, <1>8, CallerSendFacts DEF CallerCancels, TableTypes
  <2>2. WireTypes'
    <3>1. Msg("Cancel") \in Message /\ TriesToWrite("caller", Msg("Cancel"))
      BY <1>8, EmitFacts DEF CallerCancels, TriesToWrite, PlainKind
    <3> QED BY <3>1, WriteShape DEF Typed, WireTypes
  <2>3. TaskTypes'
    BY <1>0, <1>8, TaskStays, TaskReturns DEF CallerCancels
  <2>4. FlagTypes'
    BY <1>8 DEF CallerCancels, Typed, TypeOK, FlagTypes, setting
  <2> QED BY <2>1, <2>2, <2>3, <2>4, TypedNext
<1>9. CASE CallerReads
  <2>1. Head(wire.callee) \in Message /\ Tail(wire.callee) \in Seq(Message)
    BY <1>0, <1>9, HeadTailProperties DEF CallerReads
  <2>2. TableTypes'
    BY <1>0, <1>9, <2>1, CallerRecvFacts DEF CallerReads, TableTypes
  <2>3. WireTypes'
    BY <1>9, <2>1 DEF CallerReads, WireTypes, Typed, TypeOK
  <2> QED BY <1>9, <2>2, <2>3, TaskStays, FlagsStay, TypedNext DEF CallerReads
<1>10. CASE CallerReadFails
  <2>1. TaskTypes'
    BY <1>0, <1>10, TaskReturns DEF CallerReadFails
  <2> QED BY <1>0, <1>10, <2>1, WireStays, FlagsStay, TypedNext DEF CallerReadFails, TableTypes
<1> QED BY <1>1, <1>2, <1>3, <1>4, <1>5, <1>6, <1>7, <1>8, <1>9, <1>10 DEF CallerStep

LEMMA CalleeTypes ==
  ASSUME Typed, CalleeInv, CalleeStep
  PROVE  Typed'
<1>. USE SideFacts, OutcomeFacts
<1>0. /\ caller \in CallerState /\ callee \in CalleeState \cup {Idle}
      /\ link.callee \in CloseCode \cup {"open"}
      /\ wire \in [Side -> Seq(Message)] /\ lost \in [Side -> Seq(Message)]
      /\ wire.caller \in Seq(Message)
      /\ {"Normal", "Timeout", "RateLimited"} \subseteq CloseCode
  BY DEF Typed, TypeOK, CloseCode
<1>1. CASE CalleeAdmits
  <2>1. TaskTypes'
    BY <1>0, <1>1, TaskGoes, TaskReturns DEF CalleeAdmits, PcOf, CalleePc
  <2> QED BY <1>0, <1>1, <2>1, WireStays, FlagsStay, TypedNext DEF CalleeAdmits, TableTypes
<1>2. CASE CalleeAccepts
  <2>1. TaskTypes'
    BY <1>0, <1>2, TaskGoes, TaskReturns DEF CalleeAccepts, PcOf, CalleePc
  <2> QED BY <1>0, <1>2, <2>1, WireStays, FlagsStay, TypedNext DEF CalleeAccepts, TableTypes
<1>3. CASE CalleeStops
  BY <1>3, StopTypes DEF CalleeStops, StopsEarly
<1>4. CASE CalleeNoSubmit
  <2>1. TaskTypes'
    BY <1>0, <1>4, TaskReturns DEF CalleeNoSubmit
  <2> QED BY <1>0, <1>4, <2>1, WireStays, FlagsStay, TypedNext DEF CalleeNoSubmit, TableTypes
<1>5. CASE CalleeReadsSubmit
  <2>1. TableTypes'
    BY <1>0, <1>5 DEF CalleeReadsSubmit, TableTypes, CalleeState, CalleePhase
  <2>2. Tail(wire.caller) \in Seq(Message)
    BY <1>0, <1>5, HeadTailProperties DEF CalleeReadsSubmit, CalleeInv
  <2>3. WireTypes'
    BY <1>0, <1>5, <2>2 DEF CalleeReadsSubmit, WireTypes
  <2>4. TaskTypes'
    BY <1>5, TaskGoes DEF CalleeReadsSubmit, PcOf, CalleePc
  <2> QED BY <1>5, <2>1, <2>3, <2>4, FlagsStay, TypedNext DEF CalleeReadsSubmit
<1>6. CASE CalleeDenies
  <2>1. Failed("Unauthorized") \in Message /\ Failed("Unauthorized") \in Outcome
    BY EmitFacts DEF FailureCode
  <2>2. TableTypes'
    BY <1>0, <1>6, <2>1, CalleeSendFacts DEF CalleeDenies, TableTypes
  <2>3. WireTypes'
    BY <1>6, <2>1, WriteShape DEF CalleeDenies, Typed, WireTypes
  <2>4. TaskTypes'
    BY <1>0, <1>6, <2>1, TaskReturns DEF CalleeDenies
  <2> QED BY <1>6, <2>2, <2>3, <2>4, FlagsStay, TypedNext DEF CalleeDenies
<1>7. CASE CalleeEmits
  <2>1. PICK m \in Emits : Emit(m)
    BY <1>7 DEF CalleeEmits
  <2>2. m \in Message
    BY EmitFacts DEF Emits, PlainKind, Completed
  <2>3. TableTypes'
    BY <1>0, <2>1, <2>2, CalleeSendFacts DEF Emit, TableTypes
  <2>4. WireTypes'
    BY <2>1, <2>2, WriteShape DEF Emit, TriesToWrite, Typed, WireTypes
  <2>5. TaskTypes'
    BY <1>0, <2>1, TaskStays, TaskReturns DEF Emit
  <2> QED BY <2>1, <2>3, <2>4, <2>5, FlagsStay, TypedNext DEF Emit
<1>8. CASE CalleeEmitted
  <2>1. TaskTypes'
    BY <1>8, TaskGoes DEF CalleeEmitted, PcOf, CalleePc
  <2> QED BY <1>0, <1>8, <2>1, WireStays, FlagsStay, TypedNext DEF CalleeEmitted, TableTypes
<1>9. CASE CalleeTimer
  <2>1. TableTypes'
    BY <1>0, <1>9 DEF CalleeTimer, callee_timeout, Unless, TableTypes, CalleeState, FailureCode
  <2>2. EmitOnTimeout[1] \in Message
    BY EmitFacts DEF FailureCode
  <2>3. WireTypes'
    BY <1>9, <2>2, WriteShape DEF CalleeTimer, Typed, WireTypes
  <2>4. close_with("callee", "Normal") /\ Goto("callee", "lingering") /\ UNCHANGED record
    BY <1>9 DEF CalleeTimer
  <2>5. TaskTypes'
    BY <1>0, <2>4, CloseShape, GotoShape DEF TaskTypes, Typed, TypeOK, PcOf, CalleePc
  <2> QED BY <1>9, <2>1, <2>3, <2>5, FlagsStay, TypedNext DEF CalleeTimer
<1>10. CASE CalleeSeesLoss
  <2>1. TableTypes'
    BY <1>0, <1>10 DEF CalleeSeesLoss, callee_conn_lost, Unless, TableTypes, CalleeState
  <2>2. TaskTypes'
    BY <1>10, TaskGoes DEF CalleeSeesLoss, PcOf, CalleePc
  <2> QED BY <1>10, <2>1, <2>2, WireStays, FlagsStay, TypedNext DEF CalleeSeesLoss
<1>11. CASE CalleeReads
  <2>. DEFINE m == Head(wire.caller)
  <2>1. m \in Message /\ Tail(wire.caller) \in Seq(Message)
    BY <1>0, <1>11, HeadTailProperties DEF CalleeReads
  <2>9. EmitOnRecv(m) \in Seq(Message)
    BY EmitFacts
  <2>2. TableTypes'
    BY <1>0, <1>11, <2>1, CalleeRecvFacts DEF CalleeReads, TableTypes
  <2>3. /\ wire.callee \o EmitOnRecv(m) \in Seq(Message)
        /\ lost.callee \o EmitOnRecv(m) \in Seq(Message)
    BY <1>0, <2>9, ConcatProperties
  <2>. DEFINE read == [wire EXCEPT !.caller = Tail(@)]
  <2>4. read \in [Side -> Seq(Message)] /\ read.callee = wire.callee
    BY <1>0, <2>1
  <2>6. /\ [read EXCEPT !.callee = @ \o EmitOnRecv(m)] \in [Side -> Seq(Message)]
        /\ [lost EXCEPT !.callee = @ \o EmitOnRecv(m)] \in [Side -> Seq(Message)]
    <3>. HIDE DEF m, read
    <3> QED BY <1>0, <2>3, <2>4
  <2>7. /\ wire' \in {read, [read EXCEPT !.callee = @ \o EmitOnRecv(m)]}
        /\ lost' \in {lost, [lost EXCEPT !.callee = @ \o EmitOnRecv(m)]}
    BY <1>11 DEF CalleeReads
  <2>8. WireTypes'
    <3>. HIDE DEF m, read
    <3> QED BY <1>0, <2>4, <2>6, <2>7 DEF WireTypes
  <2>5. TaskTypes'
    BY <1>0, <1>11, TaskGoes, TaskReturns DEF CalleeReads, PcOf, CalleePc
  <2> QED BY <1>11, <2>2, <2>5, <2>8, FlagsStay, TypedNext DEF CalleeReads
<1>12. CASE CalleeLeaves
  <2>1. callee.outcome \in Outcome
    BY <1>0, <1>12, StateFacts DEF CalleeLeaves, CalleeInv, CalleeState, CalleePhase, Idle
  <2>2. TaskTypes'
    BY <1>0, <1>12, <2>1, TaskReturns DEF CalleeLeaves
  <2> QED BY <1>0, <1>12, <2>2, WireStays, FlagsStay, TypedNext DEF CalleeLeaves, TableTypes
<1> QED BY <1>1, <1>2, <1>3, <1>4, <1>5, <1>6, <1>7, <1>8, <1>9, <1>10, <1>11, <1>12
        DEF CalleeStep

LEMMA NetworkTypes ==
  ASSUME Typed, NEW s \in Side, CloseArrives(s) \/ LinkLost(s) \/ BeginShutdown(s)
  PROVE  Typed'
<1>0. TaskTypes
  BY TypedParts
<1>1. TableTypes' /\ WireTypes'
  BY WireStays DEF CloseArrives, LinkLost, BeginShutdown, Typed, TypeOK, TableTypes
<1>2. CASE CloseArrives(s)
  <2>1. bye[Other(s)] \in CloseCode
    <3>1. Other(s) \in Side /\ bye[Other(s)] # "none"
      BY <1>2, SideFacts DEF CloseArrives
    <3> QED BY <1>0, <3>1 DEF TaskTypes
  <2>2. TaskTypes'
    BY <1>0, <1>2, <2>1 DEF CloseArrives, TaskTypes, PcInv
  <2> QED BY <1>1, <1>2, <2>2, FlagsStay, TypedNext DEF CloseArrives
<1>3. CASE LinkLost(s)
  <2>1. LinkFaults \subseteq CloseCode
    BY CallLoopAssumption DEF CloseCode
  <2>2. PICK code \in CloseCode : link' = [link EXCEPT ![s] = code]
    BY <1>3, <2>1 DEF LinkLost
  <2>3. link' \in [Side -> CloseCode \cup {"open"}]
    BY <1>0, <2>2 DEF TaskTypes
  <2>4. TaskTypes'
    BY <1>0, <1>3, <2>3 DEF LinkLost, TaskTypes, PcInv
  <2> QED BY <1>1, <1>3, <2>4, FlagsStay, TypedNext DEF LinkLost
<1>4. CASE BeginShutdown(s)
  <2>1. FlagTypes'
    BY <1>4 DEF BeginShutdown, Typed, TypeOK, FlagTypes, setting
  <2> QED BY <1>1, <1>4, <2>1, TaskStays, TypedNext DEF BeginShutdown
<1> QED BY <1>2, <1>3, <1>4

LEMMA StayTypes == Typed /\ UNCHANGED vars => Typed'
  BY DEF Typed, TypeOK, PcInv, vars, setting

-----------------------------------------------------------------------------
(* What a task leaves to the other one.                                    *)


(* A task's own steps leave the other task's half of every function alone. *)
Untouched(s) ==
  /\ pc'[s] = pc[s] /\ record'[s] = record[s]
  /\ link'[s] = link[s] /\ bye'[s] = bye[s]

LEMMA UntouchedByReturn ==
  ASSUME Typed, NEW s \in Side, NEW outcome, NEW task, NEW code,
         Return(s, outcome, task, code), NEW t \in Side \ {s}
  PROVE  Untouched(t)
  BY DEF Untouched, Return, Goto, close_with, Typed, TypeOK, PcInv

LEMMA UntouchedByGoto ==
  ASSUME Typed, NEW s \in Side, NEW p, Goto(s, p), UNCHANGED <<record, link, bye>>,
         NEW t \in Side \ {s}
  PROVE  Untouched(t)
  BY DEF Untouched, Goto, Typed, TypeOK, PcInv

LEMMA PcMoves ==
  ASSUME Typed, NEW s \in Side
  PROVE  /\ \A p : Goto(s, p) => pc'[s] = p
         /\ \A outcome, task, code : Return(s, outcome, task, code) => pc'[s] = "done"
  BY DEF Return, Goto, Typed, PcInv

LEMMA CallerFrame ==
  ASSUME Typed, CallerStep
  PROVE  /\ UNCHANGED <<callee, setting>> /\ shutdown' = shutdown
         /\ Untouched("callee")
         /\ lost'.callee = lost.callee
         /\ wire.caller # << >> => wire'.caller # << >>
<1>. USE SideFacts
<1>0. wire \in [Side -> Seq(Message)] /\ lost \in [Side -> Seq(Message)]
  BY DEF Typed, TypeOK
<1>1. UNCHANGED <<callee, setting>> /\ shutdown' = shutdown
  BY DEF CallerStep, CallerOpens, CallerSubmits, CallerChecks, CallerFinishes, CallerStops, Stop,
         CallerTimer, CallerSeesClose, CallerCancels, CallerReads, CallerReadFails
<1>2. Untouched("callee")
  <2>1. ASSUME UNCHANGED <<pc, record, link, bye>>
        PROVE  Untouched("callee")
    BY <2>1 DEF Untouched
  <2> QED BY <2>1, UntouchedByReturn, UntouchedByGoto
       DEF CallerStep, CallerOpens, CallerSubmits, CallerChecks, CallerFinishes, CallerStops, Stop,
         CallerTimer, CallerSeesClose, CallerCancels, CallerReads, CallerReadFails
<1>3. lost'.callee = lost.callee /\ (wire.caller # << >> => wire'.caller # << >>)
  <2>1. CASE UNCHANGED <<wire, lost>>
    BY <2>1
  <2>2. ASSUME NEW k \in {"Submit", "Cancel"}, TriesToWrite("caller", Msg(k))
        PROVE  lost'.callee = lost.callee /\ (wire.caller # << >> => wire'.caller # << >>)
    <3>1. Msg(k) \in Message
      BY EmitFacts DEF PlainKind
    <3>2. Append(wire.caller, Msg(k)) # << >>
      BY <1>0, <3>1, AppendProperties
    <3> QED BY <1>0, <2>2, <3>1, <3>2, WriteShape DEF Typed
  <2>3. CASE CallerReads
    BY <1>0, <2>3 DEF CallerReads
  <2> QED BY <2>1, <2>2, <2>3
       DEF CallerStep, CallerOpens, CallerSubmits, CallerChecks, CallerFinishes, CallerStops, Stop,
         CallerTimer, CallerSeesClose, CallerCancels, CallerReadFails, TriesToWrite
<1> QED BY <1>1, <1>2, <1>3

LEMMA CalleeFrame ==
  ASSUME Typed, CalleeStep
  PROVE  /\ UNCHANGED <<caller, setting, hook, torn>> /\ shutdown' = shutdown
         /\ Untouched("caller")
         /\ lost'.caller = lost.caller
         /\ pc.callee \in CalleePc \ {"done"}
         /\ pc.callee \in {"incoming", "accepting"} => UNCHANGED <<callee, wire>>
<1>. USE SideFacts
<1>0. wire \in [Side -> Seq(Message)] /\ lost \in [Side -> Seq(Message)]
  BY DEF Typed, TypeOK
<1>1. UNCHANGED <<caller, setting, hook, torn>> /\ shutdown' = shutdown
  BY DEF CalleeStep, CalleeAdmits, CalleeAccepts, CalleeStops, StopsEarly, Stop, CalleeNoSubmit,
         CalleeReadsSubmit, CalleeDenies, CalleeEmits, Emit, CalleeEmitted, CalleeTimer,
         CalleeSeesLoss, CalleeReads, CalleeLeaves
<1>2. Untouched("caller")
  <2>1. CASE UNCHANGED <<pc, record, link, bye>>
    BY <2>1 DEF Untouched
  <2>2. CASE CalleeTimer
    BY <2>2 DEF CalleeTimer, Goto, close_with, Untouched, Typed, TypeOK, PcInv
  <2> QED BY <2>1, <2>2, UntouchedByReturn, UntouchedByGoto
       DEF CalleeStep, CalleeAdmits, CalleeAccepts, CalleeStops, StopsEarly, Stop, CalleeNoSubmit,
         CalleeReadsSubmit, CalleeDenies, CalleeEmits, Emit, CalleeEmitted,
         CalleeSeesLoss, CalleeReads, CalleeLeaves
<1>3. lost'.caller = lost.caller
  BY <1>0 DEF CalleeStep, CalleeAdmits, CalleeAccepts, CalleeStops, StopsEarly, Stop, CalleeNoSubmit,
         CalleeReadsSubmit, CalleeDenies, CalleeEmits, Emit, CalleeEmitted, CalleeTimer,
         CalleeSeesLoss, CalleeReads, CalleeLeaves, TriesToWrite, Writes, WriteFails
<1>4. pc.callee \in {"incoming", "accepting"} => UNCHANGED <<callee, wire>>
  BY DEF CalleeStep, CalleeAdmits, CalleeAccepts, CalleeStops, StopsEarly, Stop, CalleeNoSubmit,
         CalleeReadsSubmit, CalleeDenies, CalleeEmits, Emit, CalleeEmitted, CalleeTimer,
         CalleeSeesLoss, CalleeReads, CalleeLeaves, CalleeWaits
<1>5. pc.callee \in CalleePc \ {"done"}
  BY DEF CalleeStep, CalleeAdmits, CalleeAccepts, CalleeStops, StopsEarly, Stop, CalleeNoSubmit,
         CalleeReadsSubmit, CalleeDenies, CalleeEmits, Emit, CalleeEmitted, CalleeTimer,
         CalleeSeesLoss, CalleeReads, CalleeLeaves, CalleeWaits, CalleePc
<1> QED BY <1>1, <1>2, <1>3, <1>4, <1>5

(* The network and the nodes step no table and no task.                    *)
NetworkStep == \E s \in Side : CloseArrives(s) \/ LinkLost(s) \/ BeginShutdown(s)

LEMMA NetworkFrame ==
  NetworkStep => UNCHANGED <<caller, callee, pc, record, wire, lost, bye>>
  BY DEF NetworkStep, CloseArrives, LinkLost, BeginShutdown

LEMMA ControlStep ==
  ASSUME ControlInv, [Next]_vars
  PROVE  ControlInv'
<1>. USE SideFacts
<1>0. Typed /\ CallerInv /\ CalleeInv
  BY DEF ControlInv
<1>1. CASE CallerStep
  <2>1. Typed'
    BY <1>0, <1>1, CallerTypes
  <2>2. CalleeInv'
    BY <1>0, <1>1, CallerFrame DEF CalleeInv, Untouched
  <2>3. CallerInv'
    <3>1. CASE pc'.caller = "done"
      BY <3>1 DEF CallerInv
    <3>2. CASE pc'.caller # "done" /\ CallerOpens
      BY <1>0, <3>2 DEF CallerOpens, CallerInv, Goto, Typed, PcInv, Return
    <3>3. CASE pc'.caller # "done" /\ CallerSubmits
      <4>1. pc'.caller = "submitted" /\ lost' = lost
        BY <1>0, <3>3, PcMoves DEF CallerSubmits, Writes
      <4>2. caller' # At("Dialing")
        BY <1>0, <3>3, CallerSendFacts DEF CallerSubmits, Typed, TypeOK
      <4> QED BY <1>0, <3>3, <4>1, <4>2 DEF CallerSubmits, CallerInv
    <3>4. CASE pc'.caller # "done" /\ CallerChecks
      BY <1>0, <3>4, PcMoves DEF CallerChecks, CallerInv
    <3>5. CASE pc'.caller # "done" /\ CallerCancels
      <4>1. pc' = pc /\ lost' = lost
        BY <1>0, <3>5, PcMoves DEF CallerCancels, Writes
      <4>2. caller' # At("Dialing")
        BY <1>0, <3>5, CallerSendFacts DEF CallerCancels, Typed, TypeOK
      <4> QED BY <1>0, <3>5, <4>1, <4>2 DEF CallerCancels, CallerSelects, CallerInv
    <3>6. CASE pc'.caller # "done" /\ CallerReads
      <4>1. Head(wire.callee) \in Message
        BY <1>0, <3>6, HeadTailProperties DEF CallerReads, Typed, TypeOK
      <4>2. caller' # At("Dialing")
        BY <1>0, <3>6, <4>1, CallerRecvFacts DEF CallerReads, Typed, TypeOK
      <4> QED BY <1>0, <3>6, <4>2 DEF CallerReads, CallerSelects, CallerInv
    <3>7. CallerFinishes \/ CallerStops \/ CallerTimer \/ CallerSeesClose \/ CallerReadFails
            => pc'.caller = "done"
      BY <1>0, PcMoves DEF CallerFinishes, CallerStops, Stop, CallerTimer, CallerSeesClose,
         CallerReadFails
    <3> QED BY <1>1, <3>1, <3>2, <3>3, <3>4, <3>5, <3>6, <3>7 DEF CallerStep
  <2> QED BY <2>1, <2>2, <2>3 DEF ControlInv
<1>2. CASE CalleeStep
  <2>1. Typed'
    BY <1>0, <1>2, CalleeTypes
  <2>2. CallerInv'
    <3>1. callee = Idle => pc.callee \in {"incoming", "accepting", "first"}
      BY <1>0, <1>2, CalleeFrame, StateFacts, OpenOrEnded DEF CalleeInv, CalleePc, Idle
    <3>2. pc.caller \in {"opening", "submitting"} => UNCHANGED <<callee, wire>>
      BY <1>0, <1>2, <3>1, CalleeFrame DEF CallerInv, CalleeInv
    <3> QED BY <1>0, <1>2, <3>2, CalleeFrame DEF CallerInv, Untouched
  <2>3. CalleeInv'
    <3>0. /\ caller \in CallerState /\ callee \in CalleeState \cup {Idle}
          /\ lost \in [Side -> Seq(Message)] /\ wire \in [Side -> Seq(Message)]
      BY <1>0 DEF Typed, TypeOK
    <3>1. CASE pc'.callee = "done"
      BY <3>1 DEF CalleeInv
    <3>2. CASE (CalleeAdmits \/ CalleeAccepts) /\ pc'.callee # "done"
      <4>1. UNCHANGED <<callee, wire, lost>> /\ callee = Idle /\ lost.callee = << >>
        BY <1>0, <3>2 DEF CalleeAdmits, CalleeAccepts, CalleeInv
      <4>2. pc'.callee \in {"accepting", "first"} /\ (pc'.callee = "first" => wire.caller # << >>)
        BY <1>0, <3>2, PcMoves DEF CalleeAdmits, CalleeAccepts
      <4> QED BY <4>1, <4>2 DEF CalleeInv
    <3>3. CASE CalleeReadsSubmit
      <4>1. /\ callee' = At("Offered") /\ lost'.callee = << >>
            /\ pc'.callee \in {"emitting", "denying"}
        BY <1>0, <3>3, PcMoves DEF CalleeReadsSubmit, CalleeInv
      <4> QED BY <4>1, CalleePhaseFacts DEF CalleeInv, CalleePhase
    <3>4. CASE CalleeEmits /\ pc'.callee # "done"
      <4>1. PICK m \in Emits : Emit(m)
        BY <3>4 DEF CalleeEmits
      <4>2. m \in Message
        BY EmitFacts DEF Emits, PlainKind, Completed
      <4>3. pc' = pc /\ lost' = lost /\ pc.callee = "emitting"
        BY <1>0, <3>4, <4>1, PcMoves DEF Emit, Writes
      <4>4. callee' # Idle
        BY <3>0, <4>1, <4>2, CalleeSendFacts, OpenOrEnded DEF Emit
      <4> QED BY <1>0, <4>3, <4>4 DEF CalleeInv
    <3>5. CASE CalleeEmitted
      BY <1>0, <3>5, PcMoves DEF CalleeEmitted, CalleeInv
    <3>6. CASE CalleeTimer \/ CalleeSeesLoss
      <4>1. pc'.callee = "lingering"
        BY <1>0, <3>6, PcMoves DEF CalleeTimer, CalleeSeesLoss
      <4>2. Ended(callee')
        BY <3>6, StateFacts
           DEF CalleeTimer, CalleeSeesLoss, callee_timeout, callee_conn_lost, Unless
      <4> QED BY <4>1, <4>2 DEF CalleeInv
    <3>7. CASE CalleeReads /\ pc'.callee # "done"
      <4>1. pc'.callee = IF Ended(callee') THEN "lingering" ELSE "waiting"
        BY <1>0, <3>7, PcMoves DEF CalleeReads
      <4>2. lost' = lost /\ lost.callee = << >>
        BY <1>0, <3>7, PcMoves DEF CalleeReads, CalleeWaits, CalleeInv
      <4>3. Head(wire.caller) \in Message
        BY <3>0, <3>7, HeadTailProperties DEF CalleeReads
      <4>4. callee' # Idle
        BY <3>0, <3>7, <4>3, CalleeRecvFacts, OpenOrEnded DEF CalleeReads
      <4> QED BY <4>1, <4>2, <4>4 DEF CalleeInv
    <3>8. CalleeStops \/ CalleeNoSubmit \/ CalleeDenies \/ CalleeLeaves => pc'.callee = "done"
      BY <1>0, PcMoves DEF CalleeStops, StopsEarly, Stop, CalleeNoSubmit, CalleeDenies, CalleeLeaves
    <3> QED BY <1>2, <3>1, <3>2, <3>3, <3>4, <3>5, <3>6, <3>7, <3>8 DEF CalleeStep
  <2> QED BY <2>1, <2>2, <2>3 DEF ControlInv
<1>3. CASE NetworkStep
  BY <1>0, <1>3, NetworkTypes, NetworkFrame
     DEF NetworkStep, ControlInv, CallerInv, CalleeInv
<1>4. CASE UNCHANGED vars
  BY <1>0, <1>4, StayTypes DEF vars, ControlInv, CallerInv, CalleeInv
<1> QED BY <1>1, <1>2, <1>3, <1>4 DEF Next, NetworkStep

LEMMA ControlInit == Init => ControlInv
<1>. SUFFICES ASSUME Init PROVE ControlInv
  OBVIOUS
<1>1. TableTypes /\ WireTypes
  BY DEF Init, TableTypes, WireTypes, CallerState, CallerPhase
<1>2. TaskTypes
  BY SideFacts DEF Init, TaskTypes, PcInv, CallerPc, CalleePc
<1>3. FlagTypes
  BY CallLoopAssumption DEF Init, FlagTypes
<1>4. CallerInv /\ CalleeInv
  BY SideFacts DEF Init, CallerInv, CalleeInv
<1> QED BY <1>1, <1>2, <1>3, <1>4, TypedParts DEF ControlInv

LEMMA Control == Spec => []ControlInv
<1>1. Init => ControlInv
  BY ControlInit
<1>2. ControlInv /\ [Next]_vars => ControlInv'
  BY ControlStep
<1> QED BY <1>1, <1>2, PTL DEF Spec

(* Every reachable state is well typed: in particular each task's outcome  *)
(* at a return is one that CallRecord has a name for.                      *)
THEOREM TypeCorrect == Spec => []TypeOK
<1>1. ControlInv => TypeOK
  BY DEF ControlInv, Typed
<1> QED BY <1>1, Control, PTL

-----------------------------------------------------------------------------
(* The protocol, with its invariant: Protocol of CallLoop, and what is     *)
(* proved of it.  The clock of CallTimers is not used.                     *)

P == INSTANCE CallProtocolProofs WITH
  c2s <- wire.caller \o lost.caller,
  s2c <- wire.callee \o lost.callee,
  LossCodes <- CloseCode, Timers <- Side, MaxInFlight <- 0,
  Deadlines <- {}, GRACE <- 0, deadline <- 0, left <- 0, delay <- 0,
  silent <- FALSE

LEMMA SameSpec == P!Spec <=> Protocol!Spec
  BY DEF
     Protocol!Spec, Protocol!Init, Protocol!Next, Protocol!vars, Protocol!CallerSend,
     Protocol!CallerReceive, Protocol!CallerTimeout, Protocol!CallerLost,
     Protocol!CalleeOffered, Protocol!CalleeSend, Protocol!CalleeReceive,
     Protocol!CalleeTimeout, Protocol!CalleeLost, Protocol!CallerToCallee,
     Protocol!CalleeToCaller, Protocol!Idle, Protocol!caller_send, Protocol!caller_recv,
     Protocol!caller_timeout, Protocol!caller_conn_lost, Protocol!callee_send,
     Protocol!callee_recv, Protocol!callee_timeout, Protocol!callee_conn_lost,
     Protocol!EmitOnRecv, Protocol!EmitOnTimeout, Protocol!Follow, Protocol!Unless,
     Protocol!OutcomeOf, Protocol!conn_lost_outcome, Protocol!CallerSends,
     Protocol!CallerRecvs, Protocol!CancelingRecvs, Protocol!CalleeSends,
     Protocol!CalleeRecvs, Protocol!Answer, Protocol!FailureCode, Protocol!Msg,
     Protocol!Failed, Protocol!Canceled, Protocol!Completed, Protocol!PeerLost,
     Protocol!Closed, Protocol!NoOutcome, Protocol!At, Protocol!Terminal,
     Protocol!Ended, P!Spec, P!Init, P!Next, P!vars, P!CallerSend, P!CallerReceive,
     P!CallerTimeout, P!CallerLost, P!CalleeOffered, P!CalleeSend, P!CalleeReceive,
     P!CalleeTimeout, P!CalleeLost, P!CallerToCallee, P!CalleeToCaller, P!Idle,
     P!caller_send, P!caller_recv, P!caller_timeout, P!caller_conn_lost, P!callee_send,
     P!callee_recv, P!callee_timeout, P!callee_conn_lost, P!EmitOnRecv, P!EmitOnTimeout,
     P!Follow, P!Unless, P!OutcomeOf, P!conn_lost_outcome, P!CallerSends, P!CallerRecvs,
     P!CancelingRecvs, P!CalleeSends, P!CalleeRecvs, P!Answer, P!FailureCode, P!Msg,
     P!Failed, P!Canceled, P!Completed, P!PeerLost, P!Closed, P!NoOutcome, P!At,
     P!Terminal, P!Ended

(* Its tables are those of the loops.                                      *)
LEMMA SameTables ==
  /\ \A p : P!At(p) = At(p)
  /\ \A o : P!Terminal(o) = Terminal(o)
  /\ \A k : P!Msg(k) = Msg(k)
  /\ \A s, m : P!caller_send(s, m) = caller_send(s, m)
  /\ \A s, m : P!caller_recv(s, m) = caller_recv(s, m)
  /\ \A s, m : P!callee_send(s, m) = callee_send(s, m)
  /\ \A s, m : P!callee_recv(s, m) = callee_recv(s, m)
  /\ \A s : P!caller_timeout(s) = caller_timeout(s)
  /\ \A s : P!callee_timeout(s) = callee_timeout(s)
  /\ \A s, c : P!caller_conn_lost(s, c) = caller_conn_lost(s, c)
  /\ \A s, c : P!callee_conn_lost(s, c) = callee_conn_lost(s, c)
  /\ \A m : P!EmitOnRecv(m) = EmitOnRecv(m)
  /\ P!EmitOnTimeout = EmitOnTimeout
  /\ P!Answer = Answer
  /\ P!Message = Message
  /\ P!CallerState = CallerState
  /\ P!Idle = Idle
<1>1. /\ \A p : P!At(p) = At(p)
      /\ \A o : P!Terminal(o) = Terminal(o)
      /\ \A k : P!Msg(k) = Msg(k)
      /\ \A c : P!Closed(c) = Closed(c)
      /\ \A c : P!Failed(c) = Failed(c)
      /\ P!NoOutcome = NoOutcome /\ P!Canceled = Canceled
      /\ P!PeerLost = PeerLost /\ P!Completed = Completed
  BY DEF P!At, At, P!Terminal, Terminal, P!Msg, Msg, P!Closed, Closed, P!Failed, Failed,
     P!NoOutcome, NoOutcome, P!Canceled, Canceled, P!PeerLost, PeerLost, P!Completed, Completed
<1>2. \A m : P!OutcomeOf(m) = OutcomeOf(m)
  BY <1>1 DEF P!OutcomeOf, OutcomeOf
<1>3. \A t, s, m : P!Follow(t, s, m) = Follow(t, s, m)
  BY <1>1, <1>2 DEF P!Follow, Follow
<1>4. /\ P!CallerSends = CallerSends /\ P!CallerRecvs = CallerRecvs
      /\ P!CalleeSends = CalleeSends /\ P!CalleeRecvs = CalleeRecvs
  BY DEF P!CallerSends, CallerSends, P!CallerRecvs, CallerRecvs, P!CancelingRecvs, CancelingRecvs,
    P!CalleeSends, CalleeSends, P!CalleeRecvs, CalleeRecvs
<1>5. /\ \A s, m : P!caller_send(s, m) = caller_send(s, m)
      /\ \A s, m : P!caller_recv(s, m) = caller_recv(s, m)
      /\ \A s, m : P!callee_send(s, m) = callee_send(s, m)
      /\ \A s, m : P!callee_recv(s, m) = callee_recv(s, m)
  BY <1>1, <1>3, <1>4 DEF P!caller_send, caller_send, P!caller_recv, caller_recv,
     P!callee_send, callee_send, P!callee_recv, callee_recv
<1>6. /\ \A s, t : P!Unless(s, t) = Unless(s, t)
      /\ \A c : P!conn_lost_outcome(c) = conn_lost_outcome(c)
  BY <1>1 DEF P!Unless, Unless, P!conn_lost_outcome, conn_lost_outcome, P!Ended, Ended
<1>7. /\ \A s : P!caller_timeout(s) = caller_timeout(s)
      /\ \A s : P!callee_timeout(s) = callee_timeout(s)
      /\ \A s, c : P!caller_conn_lost(s, c) = caller_conn_lost(s, c)
      /\ \A s, c : P!callee_conn_lost(s, c) = callee_conn_lost(s, c)
  BY <1>1, <1>6 DEF P!caller_timeout, caller_timeout, P!callee_timeout, callee_timeout,
     P!caller_conn_lost, caller_conn_lost, P!callee_conn_lost, callee_conn_lost
<1>8. (\A m : P!EmitOnRecv(m) = EmitOnRecv(m)) /\ P!EmitOnTimeout = EmitOnTimeout
  BY <1>1 DEF P!EmitOnRecv, EmitOnRecv, P!EmitOnTimeout, EmitOnTimeout
<1>9. /\ P!Answer = Answer /\ P!Message = Message /\ P!CallerState = CallerState /\ P!Idle = Idle
  BY DEF P!Answer, Answer, P!Message, Message, P!CallerState, CallerState, P!Idle, Idle,
     P!FailureCode, FailureCode, P!PlainKind, PlainKind, P!CallerPhase, CallerPhase,
     P!Outcome, Outcome, P!CloseCode, CloseCode, P!At, At, P!Terminal, Terminal, P!Msg, Msg,
     P!Closed, Closed, P!Failed, Failed, P!NoOutcome, NoOutcome, P!Canceled, Canceled,
     P!PeerLost, PeerLost, P!Completed, Completed
<1> QED BY <1>1, <1>5, <1>7, <1>8, <1>9

(* Frames on the wire and the frames that were not written are one channel.*)
Channel(s) == wire[s] \o lost[s]

LEMMA ChannelWrite ==
  ASSUME Typed, NEW s \in Side, NEW m \in Message, TriesToWrite(s, m), lost[s] = << >>
  PROVE  /\ Channel(s)' = Append(Channel(s), m)
         /\ \A t \in Side \ {s} : Channel(t)' = Channel(t)
<1>1. wire[s] \in Seq(Message) /\ lost[s] \in Seq(Message) /\ <<m>> \in Seq(Message)
  BY DEF Typed, TypeOK
<1>2. Append(wire[s], m) = wire[s] \o <<m>> /\ Append(lost[s], m) = <<m>>
  BY <1>1, AppendIsConcat, ConcatEmptySeq
<1>3. Channel(s) = wire[s] /\ Append(Channel(s), m) = wire[s] \o <<m>>
  BY <1>1, <1>2, ConcatEmptySeq DEF Channel
<1>4. wire[s] \o <<m>> \in Seq(Message)
  BY <1>1, ConcatProperties
<1>5. Channel(s)' = wire[s] \o <<m>>
  <2>1. CASE wire'[s] = Append(wire[s], m) /\ lost' = lost
    BY <1>2, <1>4, <2>1, ConcatEmptySeq DEF Channel
  <2>2. CASE lost'[s] = Append(lost[s], m) /\ wire' = wire
    BY <1>2, <2>2 DEF Channel
  <2> QED BY <2>1, <2>2, WriteShape DEF Typed
<1> QED BY <1>3, <1>5, WriteShape DEF Typed, Channel

LEMMA ConcatHeadTail ==
  ASSUME NEW S, NEW q \in Seq(S), NEW r \in Seq(S), q # << >>
  PROVE  /\ q \o r # << >> /\ Head(q \o r) = Head(q)
         /\ Tail(q \o r) = Tail(q) \o r
<1>1. Len(q) \in Nat \ {0} /\ Len(r) \in Nat
  BY EmptySeq, LenProperties
<1>2. /\ q \o r \in Seq(S) /\ Len(q \o r) = Len(q) + Len(r)
      /\ \A i \in 1 .. Len(q) + Len(r) :
           (q \o r)[i] = IF i <= Len(q) THEN q[i] ELSE r[i - Len(q)]
  BY ConcatProperties
<1>3. q \o r # << >>
  BY <1>1, <1>2, EmptySeq
<1>4. Head(q \o r) = Head(q)
  BY <1>1, <1>2, <1>3
<1>5. /\ Tail(q) \in Seq(S) /\ Len(Tail(q)) = Len(q) - 1
      /\ \A i \in 1 .. Len(q) - 1 : Tail(q)[i] = q[i + 1]
  BY HeadTailProperties
<1>6. /\ Tail(q \o r) \in Seq(S) /\ Len(Tail(q \o r)) = Len(q) + Len(r) - 1
      /\ \A i \in 1 .. Len(q) + Len(r) - 1 : Tail(q \o r)[i] = (q \o r)[i + 1]
  BY <1>2, <1>3, HeadTailProperties
<1>7. /\ Tail(q) \o r \in Seq(S) /\ Len(Tail(q) \o r) = Len(q) - 1 + Len(r)
      /\ \A i \in 1 .. Len(q) - 1 + Len(r) :
           (Tail(q) \o r)[i] = IF i <= Len(q) - 1 THEN Tail(q)[i] ELSE r[i - (Len(q) - 1)]
  BY <1>5, ConcatProperties
<1>8. ASSUME NEW i \in 1 .. Len(q) + Len(r) - 1
      PROVE  Tail(q \o r)[i] = (Tail(q) \o r)[i]
  <2>1. i \in Nat /\ i + 1 \in 1 .. Len(q) + Len(r) /\ i + 1 - Len(q) = i - (Len(q) - 1)
    BY <1>1
  <2>2. CASE i <= Len(q) - 1
    <3>1. i \in 1 .. Len(q) - 1 /\ i + 1 <= Len(q)
      BY <1>1, <2>1, <2>2
    <3> QED BY <1>1, <1>2, <1>5, <1>6, <1>7, <2>1, <2>2, <3>1
  <2>3. CASE ~(i <= Len(q) - 1)
    <3>1. ~(i + 1 <= Len(q))
      BY <1>1, <2>1, <2>3
    <3> QED BY <1>1, <1>2, <1>6, <1>7, <2>1, <2>3, <3>1
  <2> QED BY <2>2, <2>3
<1>9. Tail(q \o r) = Tail(q) \o r
  BY <1>1, <1>6, <1>7, <1>8, SeqEqual
<1> QED BY <1>3, <1>4, <1>9

LEMMA ChannelHead ==
  ASSUME Typed, NEW s \in Side, wire[s] # << >>
  PROVE  /\ Channel(s) # << >> /\ Head(Channel(s)) = Head(wire[s])
         /\ Tail(Channel(s)) = Tail(wire[s]) \o lost[s]
  BY ConcatHeadTail DEF Typed, TypeOK, Channel

LEMMA ChannelStays == UNCHANGED <<wire, lost>> => \A s \in Side : Channel(s)' = Channel(s)
  BY DEF Channel

LEMMA ProtocolStays == UNCHANGED <<caller, callee, wire, lost>> => UNCHANGED P!vars
  BY DEF P!vars

LEMMA MapsCaller ==
  ASSUME ControlInv, CallerStep
  PROVE  P!Next \/ UNCHANGED P!vars
<1>. USE SideFacts, SameTables
<1>0. /\ Typed /\ CallerInv /\ UNCHANGED callee
      /\ wire \in [Side -> Seq(Message)] /\ lost \in [Side -> Seq(Message)]
      /\ \A s \in Side : link[s] \in CloseCode \cup {"open"}
  BY CallerFrame DEF ControlInv, Typed, TypeOK
<1>1. CASE CallerOpens \/ CallerChecks \/ CallerFinishes \/ CallerStops \/ CallerReadFails
  <2>1. UNCHANGED <<caller, callee, wire, lost>>
    BY <1>1 DEF CallerOpens, CallerChecks, CallerFinishes, CallerStops, Stop, CallerReadFails
  <2> QED BY <2>1, ProtocolStays
<1>2. ASSUME NEW k \in {"Submit", "Cancel"}, TriesToWrite("caller", Msg(k)),
             lost.caller = << >>, caller' \in caller_send(caller, Msg(k))
      PROVE  P!Next
  <2>1. Msg(k) \in Message /\ Msg(k) \in P!CallerToCallee
    BY EmitFacts DEF PlainKind, P!CallerToCallee
  <2>2. /\ Channel("caller")' = Append(Channel("caller"), Msg(k))
        /\ Channel("callee")' = Channel("callee")
    BY <1>0, <1>2, <2>1, ChannelWrite
  <2>3. P!CallerSend(Msg(k))
    BY <1>0, <1>2, <2>2 DEF P!CallerSend, Channel
  <2> QED BY <2>1, <2>3 DEF P!Next
<1>3. CASE CallerSubmits
  <2>1. TriesToWrite("caller", Msg("Submit")) /\ lost.caller = << >>
    BY <1>0, <1>3 DEF CallerSubmits, TriesToWrite, CallerInv
  <2> QED BY <1>2, <1>3, <2>1 DEF CallerSubmits
<1>4. CASE CallerCancels
  <2>1. TriesToWrite("caller", Msg("Cancel")) /\ lost.caller = << >>
    BY <1>0, <1>4 DEF CallerCancels, CallerSelects, TriesToWrite, CallerInv
  <2> QED BY <1>2, <1>4, <2>1 DEF CallerCancels
<1>5. CASE CallerTimer
  <2>1. P!CallerTimeout
    BY <1>0, <1>5, ChannelStays DEF CallerTimer, CallerSelects, CallerInv, P!CallerTimeout, Channel
  <2> QED BY <2>1 DEF P!Next
<1>6. CASE CallerSeesClose
  <2>1. P!CallerLost
    BY <1>0, <1>6, ChannelStays DEF CallerSeesClose, P!CallerLost, Channel
  <2> QED BY <2>1 DEF P!Next
<1>7. CASE CallerReads
  <2>1. wire'.callee = Tail(wire.callee) /\ wire'.caller = wire.caller /\ lost' = lost
    BY <1>0, <1>7 DEF CallerReads
  <2>2. P!CallerReceive
    BY <1>0, <1>7, <2>1, ChannelHead DEF CallerReads, P!CallerReceive, Channel
  <2> QED BY <2>2 DEF P!Next
<1> QED BY <1>1, <1>3, <1>4, <1>5, <1>6, <1>7 DEF CallerStep

LEMMA MapsCallee ==
  ASSUME ControlInv, CalleeStep
  PROVE  P!Next \/ UNCHANGED P!vars
<1>. USE SideFacts, SameTables
<1>0. /\ Typed /\ CalleeInv /\ UNCHANGED caller
      /\ wire \in [Side -> Seq(Message)] /\ lost \in [Side -> Seq(Message)]
      /\ \A s \in Side : link[s] \in CloseCode \cup {"open"}
  BY CalleeFrame DEF ControlInv, Typed, TypeOK
<1>1. CASE CalleeAdmits \/ CalleeAccepts \/ CalleeStops \/ CalleeNoSubmit \/ CalleeEmitted
             \/ CalleeLeaves
  <2>1. UNCHANGED <<caller, callee, wire, lost>>
    BY <1>1 DEF CalleeAdmits, CalleeAccepts, CalleeStops, StopsEarly, Stop, CalleeNoSubmit, CalleeEmitted,
       CalleeLeaves
  <2> QED BY <2>1, ProtocolStays
<1>2. CASE CalleeReadsSubmit
  <2>1. /\ callee = Idle /\ wire.caller # << >>
        /\ wire'.caller = Tail(wire.caller) /\ wire'.callee = wire.callee /\ lost' = lost
    BY <1>0, <1>2 DEF CalleeReadsSubmit, CalleeInv
  <2>2. P!CalleeOffered
    BY <1>0, <1>2, <2>1, ChannelHead DEF CalleeReadsSubmit, P!CalleeOffered, Channel
  <2> QED BY <2>2 DEF P!Next
<1>3. ASSUME NEW m \in P!CalleeToCaller \cap Message, m # Msg("Progress"),
             TriesToWrite("callee", m), lost.callee = << >>, callee' \in callee_send(callee, m)
      PROVE  P!Next
  <2>2. /\ Channel("callee")' = Append(Channel("callee"), m)
        /\ Channel("caller")' = Channel("caller")
    BY <1>0, <1>3, ChannelWrite
  <2>3. P!CalleeSend(m)
    BY <1>0, <1>3, <2>2 DEF P!CalleeSend, Channel
  <2> QED BY <1>3, <2>3 DEF P!Next
<1>4. CASE CalleeDenies
  <2>1. /\ Failed("Unauthorized") \in P!CalleeToCaller \cap Message
        /\ Failed("Unauthorized") # Msg("Progress")
    BY EmitFacts, OutcomeFacts DEF P!CalleeToCaller, FailureCode, Failed, Msg
  <2> QED BY <1>0, <1>3, <1>4, <2>1 DEF CalleeDenies, CalleeInv
<1>5. CASE CalleeEmits
  <2>1. PICK m \in Emits : Emit(m)
    BY <1>5 DEF CalleeEmits
  <2>2. m \in P!CalleeToCaller \cap Message /\ m # Msg("Progress")
    BY EmitFacts DEF Emits, PlainKind, Completed, P!CalleeToCaller, Answer, Msg
  <2> QED BY <1>0, <1>3, <2>1, <2>2 DEF Emit, CalleeInv, TriesToWrite
<1>6. CASE CalleeTimer
  <2>. DEFINE m == EmitOnTimeout[1]
  <2>1. m \in Message /\ EmitOnTimeout = <<m>>
    BY EmitFacts DEF FailureCode, EmitOnTimeout
  <2>2. /\ Channel("callee")' = Append(Channel("callee"), m)
        /\ Channel("caller")' = Channel("caller")
    BY <1>0, <1>6, <2>1, ChannelWrite DEF CalleeTimer, CalleeWaits, CalleeInv
  <2>3. Channel("callee") \in Seq(Message)
    BY <1>0, ConcatProperties DEF Channel
  <2>4. Append(Channel("callee"), m) = Channel("callee") \o EmitOnTimeout
    BY <2>1, <2>3, AppendIsConcat
  <2>5. callee # Idle
    BY <1>0, <1>6 DEF CalleeTimer, CalleeWaits, CalleeInv
  <2>6. P!CalleeTimeout
    BY <1>0, <1>6, <2>2, <2>4, <2>5 DEF CalleeTimer, P!CalleeTimeout, Channel
  <2> QED BY <2>6 DEF P!Next
<1>7. CASE CalleeSeesLoss
  <2>1. P!CalleeLost
    BY <1>0, <1>7, ChannelStays DEF CalleeSeesLoss, P!CalleeLost, Channel, CloseCode
  <2> QED BY <2>1 DEF P!Next
<1>8. CASE CalleeReads
  <2>. DEFINE m == Head(wire.caller)
              e == EmitOnRecv(m)
              read == [wire EXCEPT !.caller = Tail(@)]
  <2>1. /\ wire.caller # << >> /\ lost.callee = << >> /\ lost'.caller = lost.caller
        /\ wire'.caller = Tail(wire.caller)
        /\ callee' \in callee_recv(callee, m)
        /\ \/ wire'.callee = wire.callee \o e /\ lost'.callee = << >>
           \/ wire'.callee = wire.callee /\ lost'.callee = << >> \o e
    <3>1. /\ wire.caller # << >> /\ lost.callee = << >>
          /\ callee' \in callee_recv(callee, m)
      BY <1>0, <1>8 DEF CalleeReads, CalleeWaits, CalleeInv
    <3>2. \/ wire' = [read EXCEPT !.callee = @ \o e] /\ lost' = lost
          \/ wire' = read /\ lost' = [lost EXCEPT !.callee = @ \o e]
      BY <1>8 DEF CalleeReads
    <3>. HIDE DEF m, e
    <3>3. lost'.caller = lost.caller /\ wire'.caller = Tail(wire.caller)
      BY <1>0, <3>2
    <3>4. \/ wire'.callee = wire.callee \o e /\ lost' = lost
          \/ wire'.callee = wire.callee /\ lost'.callee = lost.callee \o e
      BY <1>0, <3>2
    <3> QED BY <3>1, <3>3, <3>4
  <2>2. wire.callee \in Seq(Message) /\ e \in Seq(Message)
    BY <1>0, EmitFacts
  <2>3. Channel("callee")' = Channel("callee") \o e
    BY <2>1, <2>2, ConcatEmptySeq, ConcatProperties DEF Channel
  <2>4. P!CalleeReceive
    BY <1>0, <2>1, <2>3, ChannelHead DEF P!CalleeReceive, Channel
  <2> QED BY <2>4 DEF P!Next
<1> QED BY <1>1, <1>2, <1>4, <1>5, <1>6, <1>7, <1>8 DEF CalleeStep

LEMMA MapsStep ==
  ASSUME ControlInv, [Next]_vars
  PROVE  [P!Next]_P!vars
<1>1. CASE CallerStep
  BY <1>1, MapsCaller
<1>2. CASE CalleeStep
  BY <1>2, MapsCallee
<1>3. CASE NetworkStep \/ UNCHANGED vars
  <2>1. UNCHANGED <<caller, callee, wire, lost>>
    BY <1>3, NetworkFrame DEF vars
  <2> QED BY <2>1, ProtocolStays
<1> QED BY <1>1, <1>2, <1>3 DEF Next, NetworkStep

LEMMA MapsInit == Init => P!Init
<1>. SUFFICES ASSUME Init PROVE P!Init
  OBVIOUS
<1>1. Channel("caller") = << >> /\ Channel("callee") = << >>
  BY SideFacts DEF Init, Channel
<1> QED BY <1>1, SameTables DEF Init, P!Init, Channel

(* Whatever the network, the timers, request_cancel and a shutdown do, the *)
(* loops step their tables as two conforming endpoints of CallProtocol do. *)
THEOREM ProtocolFollowed == Spec => ImplementsProtocol
<1>1. ControlInv /\ [Next]_vars => [P!Next]_P!vars
  BY MapsStep
<1>2. Spec => P!Spec
  BY <1>1, MapsInit, Control, PTL DEF Spec, P!Spec
<1> QED BY <1>2, SameSpec DEF ImplementsProtocol

-----------------------------------------------------------------------------
(* What the protocol guarantees of the answers.                            *)

(* The values CallLoop gives to the constants of CallProtocol.             *)
LEMMA ProtocolConstants ==
  CloseCode \subseteq P!CloseCode /\ Side \subseteq P!Sides /\ 0 \in Nat /\ {} \subseteq Nat
  BY DEF P!CloseCode, CloseCode, P!Sides, Side

LEMMA ProtocolInv == Spec => []P!IInv
<1>1. Spec => P!Spec
  BY ProtocolFollowed, SameSpec DEF ImplementsProtocol
<1>2. P!Spec => []P!IInv
  BY ProtocolConstants, P!Invariance
<1> QED BY <1>1, <1>2

LEMMA AnswersAgreed ==
  ASSUME P!IInv, caller.outcome \in Answer
  PROVE  callee.outcome = caller.outcome
  BY SameTables DEF P!IInv, P!OutcomeInv, P!AnswerAgreement

(* An answer that is read is the last frame of the callee: every frame was *)
(* written.                                                                *)
LEMMA NothingBehindAnswer ==
  ASSUME Typed, P!IInv, wire.callee # << >>, Head(wire.callee) \in Answer
  PROVE  lost.callee = << >>
<1>. DEFINE w == wire.callee
            l == lost.callee
            s2c == w \o l
<1>1. w \in Seq(Message) /\ l \in Seq(Message) /\ w # << >> /\ Head(w) \in Answer
  BY SideFacts DEF Typed, TypeOK
<1>2. P!TypeOK /\ P!StreamInv
  BY DEF P!IInv
<1>3. \A i \in DOMAIN s2c : s2c[i] \in Answer => i = Len(s2c)
  BY <1>2, SameTables, ProtocolConstants, P!AnswerIsLast
<1>. HIDE DEF w, l
<1>4. Len(w) \in Nat \ {0} /\ Len(l) \in Nat /\ Head(w) = w[1]
  BY <1>1, EmptySeq, LenProperties
<1>5. Len(s2c) = Len(w) + Len(l) /\ DOMAIN s2c = 1 .. Len(s2c) /\ s2c[1] = w[1]
  BY <1>1, <1>4, ConcatProperties, LenProperties
<1>. HIDE DEF s2c
<1>6. 1 \in DOMAIN s2c
  BY <1>4, <1>5
<1>7. 1 = Len(s2c)
  BY <1>1, <1>3, <1>4, <1>5, <1>6
<1>8. Len(l) = 0
  BY <1>4, <1>5, <1>7
<1>9. l = << >>
  BY <1>1, <1>8, EmptySeq
<1> QED BY <1>9 DEF l

-----------------------------------------------------------------------------
(* What each task records when it returns.                                 *)

(* A record of the caller says what its table says, unless its node shut   *)
(* down; it has no task when Submit was not written, or when the other     *)
(* side limits the rate.                                                   *)
CallerRecords(outcome, task) ==
  /\ outcome \in Answer =>
       (caller' = caller /\ caller.outcome = outcome) \/ (outcome = Canceled /\ shutdown.caller)
  /\ outcome = Closed("RateLimited") => link.caller = "RateLimited" /\ ~task
  /\ ~task => \/ link.caller = "RateLimited"
              \/ pc.caller \in {"opening", "submitting"} /\ wire' = wire

LEMMA CallerReturns ==
  ASSUME ControlInv, CallerAnswerInv, CallerStep
  PROVE  /\ pc.caller # "done"
         /\ \/ pc'.caller # "done" /\ record'.caller = record.caller
            \/ /\ pc'.caller = "done"
               /\ \E outcome \in Outcome, task \in BOOLEAN :
                    /\ record'.caller = [outcome |-> outcome, task |-> task]
                    /\ CallerRecords(outcome, task)
         /\ link'.caller \in {link.caller, "ProtocolViolation"}
         /\ bye'.caller # "none" => link'.caller # "open" \/ bye'.caller = bye.caller
<1>. USE SideFacts, OutcomeFacts
<1>0. /\ Typed /\ PcInv /\ TypeOK /\ caller \in CallerState
      /\ link.caller \in CloseCode \cup {"open"}
      /\ "RateLimited" \in CloseCode /\ "Normal" \in CloseCode /\ "Timeout" \in CloseCode
      /\ "Timeout" # "RateLimited"
  BY DEF ControlInv, Typed, TypeOK, CloseCode
(* What a return is, whatever it records.                                  *)
<1>. DEFINE Leaves(outcome, task) ==
       /\ pc'.caller = "done"
       /\ record'.caller = [outcome |-> outcome, task |-> task]
       /\ link'.caller \in {link.caller, "ProtocolViolation"}
       /\ bye'.caller # "none" => link'.caller # "open" \/ bye'.caller = bye.caller
<1>1. ASSUME NEW outcome \in Outcome, NEW task \in BOOLEAN, NEW code \in CloseCode,
             Return("caller", outcome, task, code)
      PROVE  Leaves(outcome, task)
  BY <1>0, <1>1, ReturnShape
<1>2. SUFFICES pc.caller # "done" /\
        \/ pc'.caller # "done" /\ UNCHANGED <<record, link, bye>>
        \/ \E outcome \in Outcome, task \in BOOLEAN, code \in CloseCode :
             Return("caller", outcome, task, code) /\ CallerRecords(outcome, task)
  <2> QED BY <1>1, <1>2
<1>. HIDE DEF Leaves
<1>3. CASE CallerOpens
  <2>1. CASE link.caller = "open"
    BY <1>0, <1>3, <2>1, PcMoves DEF CallerOpens
  <2>2. CASE link.caller # "open"
    <3>1. Return("caller", Closed(link.caller), FALSE, "Normal")
      BY <1>3, <2>2 DEF CallerOpens
    <3>2. CallerRecords(Closed(link.caller), FALSE)
      BY <1>0, <1>3, <2>2 DEF CallerOpens, CallerRecords
    <3> QED BY <1>0, <1>3, <2>2, <3>1, <3>2 DEF CallerOpens
  <2> QED BY <2>1, <2>2
<1>4. CASE CallerSubmits
  <2>1. CASE Goto("caller", "submitted") /\ UNCHANGED <<record, link, bye>>
    BY <1>0, <1>4, <2>1, PcMoves DEF CallerSubmits
  <2>2. CASE UNCHANGED wire /\ Return("caller", PeerLost, FALSE, "Normal")
    <3>1. CallerRecords(PeerLost, FALSE)
      BY <1>4, <2>2 DEF CallerSubmits, CallerRecords
    <3> QED BY <1>0, <1>4, <2>2, <3>1 DEF CallerSubmits
  <2> QED BY <1>4, <2>1, <2>2 DEF CallerSubmits, WriteFails
<1>5. CASE CallerChecks
  <2>1. CASE link.caller # "RateLimited"
    BY <1>0, <1>5, <2>1, PcMoves DEF CallerChecks
  <2>2. CASE link.caller = "RateLimited"
    <3>1. Return("caller", Closed("RateLimited"), FALSE, "Normal")
      BY <1>5, <2>2 DEF CallerChecks
    <3>2. CallerRecords(Closed("RateLimited"), FALSE)
      BY <1>0, <2>2 DEF CallerRecords
    <3> QED BY <1>0, <1>5, <3>1, <3>2 DEF CallerChecks
  <2> QED BY <2>1, <2>2
<1>6. CASE CallerFinishes
  <2>1. caller.outcome \in Answer /\ caller' = caller
    BY <1>6 DEF CallerFinishes, CallerAnswerInv
  <2>2. CallerRecords(caller.outcome, TRUE)
    BY <1>0, <2>1 DEF CallerRecords
  <2> QED BY <1>0, <1>6, <2>1, <2>2 DEF CallerFinishes
<1>7. CASE CallerStops
  <2>1. CallerRecords(Canceled, TRUE)
    BY <1>0, <1>7 DEF CallerStops, Stop, CallerRecords
  <2> QED BY <1>0, <1>7, <2>1 DEF CallerStops, Stop
<1>8. CASE CallerTimer
  <2>1. caller'.outcome = Closed("Timeout")
    BY <1>8, StateFacts DEF CallerTimer, caller_timeout, Unless
  <2>2. CallerRecords(Closed("Timeout"), TRUE)
    BY <1>0 DEF CallerRecords
  <2>3. Return("caller", Closed("Timeout"), TRUE, "Timeout") /\ pc.caller # "done"
    BY <1>8, <2>1 DEF CallerTimer, CallerSelects
  <2> QED BY <1>0, <2>2, <2>3
<1>9. CASE CallerSeesClose
  <2>1. caller'.outcome = conn_lost_outcome(link.caller)
    BY <1>9, StateFacts DEF CallerSeesClose, caller_conn_lost, Unless
  <2>2. /\ conn_lost_outcome(link.caller) \in Outcome \ Answer
        /\ conn_lost_outcome(link.caller) = Closed("RateLimited") => link.caller = "RateLimited"
    BY <1>0, <1>9 DEF CallerSeesClose, conn_lost_outcome
  <2>3. CallerRecords(conn_lost_outcome(link.caller), link.caller # "RateLimited")
    BY <2>2 DEF CallerRecords
  <2>4. /\ Return("caller", conn_lost_outcome(link.caller), link.caller # "RateLimited", "Normal")
        /\ pc.caller # "done"
    BY <1>9, <2>1 DEF CallerSeesClose, CallerSelects
  <2>5. (link.caller # "RateLimited") \in BOOLEAN
    OBVIOUS
  <2> QED BY <1>0, <2>2, <2>3, <2>4, <2>5
<1>10. CASE CallerCancels
  <2>1. CallerRecords(PeerLost, TRUE)
    BY DEF CallerRecords
  <2> QED BY <1>0, <1>10, <2>1 DEF CallerCancels, CallerSelects
<1>11. CASE CallerReads
  BY <1>11 DEF CallerReads, CallerSelects
<1>12. CASE CallerReadFails
  <2>1. PICK code \in CloseCode :
          \/ /\ code \in {"FrameTooLarge", "MalformedFrame"}
             /\ Return("caller", Closed(code), TRUE, code)
          \/ Return("caller", PeerLost, TRUE, "Normal")
    BY <1>0, <1>12 DEF CallerReadFails
  <2>2. code \in {"FrameTooLarge", "MalformedFrame"} =>
          Closed(code) # Closed("RateLimited") /\ CallerRecords(Closed(code), TRUE)
    BY DEF CallerRecords
  <2>3. CallerRecords(PeerLost, TRUE)
    BY DEF CallerRecords
  <2>4. pc.caller # "done"
    BY <1>12 DEF CallerReadFails, CallerSelects
  <2> QED BY <1>0, <2>1, <2>2, <2>3, <2>4
<1> QED BY <1>3, <1>4, <1>5, <1>6, <1>7, <1>8, <1>9, <1>10, <1>11, <1>12 DEF CallerStep

(* A record of the callee names a task only when Submit was read, and its  *)
(* outcome is the one of its table unless a frame was not written.         *)
LEMMA CalleeReturns ==
  ASSUME ControlInv, CalleeStep
  PROVE  /\ pc.callee # "done"
         /\ \/ pc'.callee # "done" /\ record'.callee = record.callee
            \/ /\ pc'.callee = "done" /\ record'.callee.outcome \in Outcome
               /\ record'.callee.task \in BOOLEAN /\ (record'.callee.task => callee' # Idle)
               /\ Ended(callee') =>
                    record'.callee.outcome = callee'.outcome \/ lost'.callee # << >>
         /\ bye'.callee = "RateLimited" =>
              \/ bye.callee = "RateLimited"
              \/ /\ pc'.callee = "done" /\ callee' = Idle
                 /\ record'.callee = [outcome |-> Closed("RateLimited"), task |-> FALSE]
         /\ link'.callee \in {link.callee, "ProtocolViolation"}
         /\ bye'.callee # "none" => link'.callee # "open" \/ bye'.callee = bye.callee
         /\ lost'.callee # << >> => lost'.callee = lost.callee \/ ~Ended(callee)
<1>. USE SideFacts, OutcomeFacts
<1>0. /\ Typed /\ PcInv /\ TypeOK /\ callee \in CalleeState \cup {Idle} /\ ~Ended(Idle)
      /\ wire.caller \in Seq(Message) /\ lost.callee \in Seq(Message)
      /\ "RateLimited" \in CloseCode /\ "Normal" \in CloseCode /\ "Timeout" \in CloseCode
      /\ \A p \in CalleePhase : At(p) # Idle /\ ~Ended(At(p))
  BY OpenOrEnded, CalleePhaseFacts DEF ControlInv, Typed, TypeOK, CloseCode
(* What the callee records when it returns, and how it then closes.        *)
<1>. DEFINE Records(outcome, task) ==
       /\ task => callee' # Idle
       /\ Ended(callee') => outcome = callee'.outcome \/ lost'.callee # << >>
     Closes(outcome, task, code) ==
       code = "RateLimited" => callee' = Idle /\ outcome = Closed("RateLimited") /\ ~task
<1>1. ASSUME NEW outcome \in Outcome, NEW task \in BOOLEAN, NEW code \in CloseCode,
             Return("callee", outcome, task, code),
             Records(outcome, task), Closes(outcome, task, code)
      PROVE  /\ pc'.callee = "done" /\ record'.callee.outcome \in Outcome
             /\ record'.callee.task \in BOOLEAN /\ (record'.callee.task => callee' # Idle)
             /\ Ended(callee') =>
                  record'.callee.outcome = callee'.outcome \/ lost'.callee # << >>
             /\ bye'.callee = "RateLimited" =>
                  \/ bye.callee = "RateLimited"
                  \/ /\ pc'.callee = "done" /\ callee' = Idle
                     /\ record'.callee = [outcome |-> Closed("RateLimited"), task |-> FALSE]
             /\ link'.callee \in {link.callee, "ProtocolViolation"}
             /\ bye'.callee # "none" => link'.callee # "open" \/ bye'.callee = bye.callee
  <2>1. /\ pc'.callee = "done" /\ record'.callee = [outcome |-> outcome, task |-> task]
        /\ \/ link'.callee = "ProtocolViolation" /\ bye'.callee = code
           \/ UNCHANGED <<link, bye>>
    BY <1>0, <1>1, ReturnShape
  <2>2. record'.callee.outcome = outcome /\ record'.callee.task = task
    BY <2>1
  <2>3. bye'.callee = "RateLimited" /\ bye.callee # "RateLimited" =>
          callee' = Idle /\ record'.callee = [outcome |-> Closed("RateLimited"), task |-> FALSE]
    <3>1. code = "RateLimited" => outcome = Closed("RateLimited") /\ task = FALSE /\ callee' = Idle
      BY <1>1
    <3> QED BY <2>1, <3>1
  <2> QED BY <1>1, <2>1, <2>2, <2>3
<1>2. SUFFICES
        /\ pc.callee # "done"
        /\ lost'.callee # << >> => lost'.callee = lost.callee \/ ~Ended(callee)
        /\ \/ pc'.callee # "done" /\ UNCHANGED <<record, link, bye>>
           \/ pc'.callee # "done" /\ UNCHANGED record /\ close_with("callee", "Normal")
           \/ \E outcome \in Outcome, task \in BOOLEAN, code \in CloseCode :
                /\ Return("callee", outcome, task, code)
                /\ Records(outcome, task) /\ Closes(outcome, task, code)
  <2>1. CASE pc'.callee # "done" /\ UNCHANGED record /\ close_with("callee", "Normal")
    <3>1. \/ link'.callee = "ProtocolViolation" /\ bye'.callee = "Normal"
          \/ UNCHANGED <<link, bye>>
      BY <1>0, <2>1, CloseShape
    <3> QED BY <1>2, <2>1, <3>1
  <2>2. CASE pc'.callee # "done" /\ UNCHANGED <<record, link, bye>>
    BY <1>2, <2>2
  <2>3. CASE \E outcome \in Outcome, task \in BOOLEAN, code \in CloseCode :
               /\ Return("callee", outcome, task, code)
               /\ Records(outcome, task) /\ Closes(outcome, task, code)
    <3>. HIDE DEF Records, Closes
    <3>1. PICK outcome \in Outcome, task \in BOOLEAN, code \in CloseCode :
            /\ Return("callee", outcome, task, code)
            /\ Records(outcome, task) /\ Closes(outcome, task, code)
      BY <2>3
    <3>2. /\ pc.callee # "done"
          /\ lost'.callee # << >> => lost'.callee = lost.callee \/ ~Ended(callee)
      BY <1>2
    <3>3. /\ pc'.callee = "done" /\ record'.callee.outcome \in Outcome
          /\ record'.callee.task \in BOOLEAN /\ (record'.callee.task => callee' # Idle)
          /\ Ended(callee') =>
               record'.callee.outcome = callee'.outcome \/ lost'.callee # << >>
      BY <1>1, <3>1
    <3>4. /\ bye'.callee = "RateLimited" =>
               \/ bye.callee = "RateLimited"
               \/ /\ pc'.callee = "done" /\ callee' = Idle
                  /\ record'.callee = [outcome |-> Closed("RateLimited"), task |-> FALSE]
          /\ link'.callee \in {link.callee, "ProtocolViolation"}
          /\ bye'.callee # "none" => link'.callee # "open" \/ bye'.callee = bye.callee
      BY <1>1, <3>1
    <3> QED BY <3>2, <3>3, <3>4
  <2> QED BY <1>2, <2>1, <2>2, <2>3
<1>3. CASE CalleeAdmits
  <2>1. callee' = callee /\ callee = Idle /\ pc.callee # "done" /\ lost' = lost
    BY <1>3 DEF CalleeAdmits, ControlInv, CalleeInv
  <2>2. CASE verdict = "peer_denied"
    <3>1. Return("callee", Closed("Normal"), FALSE, "Normal")
      BY <1>3, <2>2 DEF CalleeAdmits
    <3> QED BY <1>0, <2>1, <3>1
  <2>3. CASE verdict = "rate_limited"
    <3>1. Return("callee", Closed("RateLimited"), FALSE, "RateLimited")
      BY <1>3, <2>3 DEF CalleeAdmits
    <3> QED BY <1>0, <2>1, <3>1
  <2>4. CASE verdict \notin {"peer_denied", "rate_limited"}
    BY <1>0, <1>3, <2>1, <2>4, PcMoves DEF CalleeAdmits
  <2> QED BY <2>2, <2>3, <2>4
<1>4. CASE CalleeAccepts
  <2>1. callee' = callee /\ callee = Idle /\ pc.callee # "done" /\ lost' = lost
    BY <1>4 DEF CalleeAccepts, ControlInv, CalleeInv
  <2>2. CASE Goto("callee", "first") /\ UNCHANGED <<record, link, bye>>
    BY <1>0, <2>1, <2>2, PcMoves
  <2>3. CASE Return("callee", PeerLost, FALSE, "Normal")
    BY <1>0, <2>1, <2>3
  <2> QED BY <1>4, <2>2, <2>3 DEF CalleeAccepts
<1>5. CASE CalleeStops
  <2>1. callee' = callee /\ ~Ended(callee) /\ pc.callee # "done" /\ lost' = lost
    BY <1>0, <1>5 DEF CalleeStops, StopsEarly, Stop, ControlInv, CalleeInv
  <2>2. CASE pc.callee = "first" /\ Stop("callee", FALSE)
    <3>1. Return("callee", Canceled, FALSE, "Normal")
      BY <2>2 DEF Stop
    <3> QED BY <1>0, <2>1, <3>1
  <2>3. CASE pc.callee = "waiting" /\ Stop("callee", TRUE)
    <3>1. Return("callee", Canceled, TRUE, "Normal") /\ callee # Idle
      BY <2>3 DEF Stop, ControlInv, CalleeInv
    <3> QED BY <1>0, <2>1, <3>1
  <2> QED BY <1>5, <2>2, <2>3 DEF CalleeStops, StopsEarly
<1>6. CASE CalleeNoSubmit
  <2>1. callee' = callee /\ callee = Idle /\ pc.callee # "done" /\ lost' = lost
    BY <1>6 DEF CalleeNoSubmit, ControlInv, CalleeInv
  <2>2. CASE Return("callee", PeerLost, FALSE, "Normal")
    BY <1>0, <2>1, <2>2
  <2>3. CASE Return("callee", Closed("Timeout"), FALSE, "Timeout")
    BY <1>0, <2>1, <2>3
  <2> QED BY <1>6, <2>2, <2>3 DEF CalleeNoSubmit
<1>7. CASE CalleeReadsSubmit
  BY <1>0, <1>7, PcMoves DEF CalleeReadsSubmit
<1>8. CASE CalleeDenies
  <2>1. Failed("Unauthorized") \in Message /\ Failed("Unauthorized") \in Outcome
    BY EmitFacts DEF FailureCode
  <2>2. ~Ended(callee) /\ (Ended(callee') => callee'.outcome = Failed("Unauthorized"))
    BY <1>0, <1>8, <2>1, CalleeSendFacts DEF CalleeDenies
  <2>3. Return("callee", Failed("Unauthorized"), FALSE, "Normal") /\ pc.callee # "done"
    BY <1>8 DEF CalleeDenies
  <2> QED BY <1>0, <2>1, <2>2, <2>3
<1>9. CASE CalleeEmits
  <2>1. PICK m \in Emits : Emit(m)
    BY <1>9 DEF CalleeEmits
  <2>2. m \in Message
    BY EmitFacts DEF Emits, PlainKind, Completed
  <2>3. ~Ended(callee) /\ callee' # Idle /\ pc.callee = "emitting"
    BY <1>0, <2>1, <2>2, CalleeSendFacts, OpenOrEnded DEF Emit
  <2>4. CASE Writes("callee", m) /\ UNCHANGED <<pc, record, link, bye>>
    BY <2>3, <2>4
  <2>5. CASE WriteFails("callee", m) /\ Return("callee", PeerLost, TRUE, "Normal")
    <3>1. lost'.callee # << >>
      <4>1. Append(lost.callee, m) # << >>
        BY <1>0, <2>2, AppendProperties
      <4> QED BY <1>0, <2>5, <4>1 DEF WriteFails, TypeOK
    <3> QED BY <1>0, <2>3, <2>5, <3>1
  <2> QED BY <2>1, <2>4, <2>5 DEF Emit
<1>10. CASE CalleeEmitted
  BY <1>0, <1>10, PcMoves DEF CalleeEmitted
<1>11. CASE CalleeTimer
  <2>1. pc'.callee = "lingering" /\ UNCHANGED record /\ close_with("callee", "Normal")
    BY <1>0, <1>11, PcMoves DEF CalleeTimer
  <2>2. pc.callee = "waiting" /\ ~Ended(callee)
    BY <1>11 DEF CalleeTimer, CalleeWaits, ControlInv, CalleeInv
  <2> QED BY <2>1, <2>2
<1>12. CASE CalleeSeesLoss
  BY <1>0, <1>12, PcMoves DEF CalleeSeesLoss, CalleeWaits
<1>13. CASE CalleeReads
  <2>. DEFINE m == Head(wire.caller)
  <2>1. m \in Message
    BY <1>0, <1>13, HeadTailProperties DEF CalleeReads
  <2>2. ~Ended(callee) /\ callee' # Idle /\ pc.callee = "waiting"
    BY <1>0, <1>13, <2>1, CalleeRecvFacts, OpenOrEnded DEF CalleeReads, CalleeWaits
  <2>3. CASE Goto("callee", IF Ended(callee') THEN "lingering" ELSE "waiting")
             /\ UNCHANGED <<record, lost, link, bye>>
    BY <1>0, <2>2, <2>3, PcMoves
  <2>4. CASE EmitOnRecv(m) # << >> /\ lost' = [lost EXCEPT !.callee = @ \o EmitOnRecv(m)]
             /\ Return("callee", PeerLost, TRUE, "Normal")
    <3>1. lost.callee \o EmitOnRecv(m) # << >>
      BY <1>0, <2>4, EmitFacts, ConcatEqualIffEmpty
    <3>2. lost'.callee # << >>
      BY <1>0, <2>4, <3>1 DEF TypeOK
    <3> QED BY <1>0, <2>2, <2>4, <3>2
  <2> QED BY <1>13, <2>3, <2>4 DEF CalleeReads
<1>14. CASE CalleeLeaves
  <2>1. /\ callee' = callee /\ lost' = lost /\ pc.callee = "lingering"
        /\ Return("callee", callee.outcome, TRUE, "Normal")
    BY <1>14 DEF CalleeLeaves
  <2>2. Ended(callee) /\ callee # Idle
    BY <1>0, <2>1 DEF ControlInv, CalleeInv
  <2>3. callee.outcome \in Outcome
    BY <1>0, <2>2, StateFacts DEF CalleeState, CalleePhase
  <2> QED BY <1>0, <2>1, <2>2, <2>3
<1> QED BY <1>3, <1>4, <1>5, <1>6, <1>7, <1>8, <1>9, <1>10, <1>11, <1>12, <1>13, <1>14
        DEF CalleeStep

(* The caller's table ends with an answer only when it reads one.          *)
LEMMA CallerAnswers ==
  ASSUME ControlInv, CallerStep, P!IInv, caller'.outcome \in Answer
  PROVE  caller' = caller \/ lost.callee = << >>
<1>. USE SideFacts, OutcomeFacts
<1>0. /\ Typed /\ caller \in CallerState /\ wire.callee \in Seq(Message)
      /\ link.caller \in CloseCode \cup {"open"}
  BY DEF ControlInv, Typed, TypeOK
<1>1. CASE CallerReads
  <2>1. /\ wire.callee # << >> /\ Head(wire.callee) \in Message
        /\ caller' \in caller_recv(caller, Head(wire.callee))
    BY <1>0, <1>1, HeadTailProperties DEF CallerReads
  <2> QED BY <1>0, <2>1, CallerRecvFacts, NothingBehindAnswer
<1>2. ~CallerSubmits /\ ~CallerCancels
  BY <1>0, CallerSendFacts DEF CallerSubmits, CallerCancels
<1>3. ~CallerTimer
  <2>1. "Timeout" \in CloseCode
    BY DEF CloseCode
  <2>2. CallerTimer => caller' = Terminal(Closed("Timeout"))
    BY DEF CallerTimer, caller_timeout, Unless
  <2> QED BY <2>1, <2>2, StateFacts
<1>4. ~CallerSeesClose
  BY <1>0, StateFacts DEF CallerSeesClose, caller_conn_lost, Unless
<1> QED BY <1>1, <1>2, <1>3, <1>4
     DEF CallerStep, CallerOpens, CallerChecks, CallerFinishes, CallerStops, Stop, CallerReadFails

(* While its task goes on, the caller's table ends only with an answer.    *)
LEMMA CallerGoesOn ==
  ASSUME ControlInv, CallerAnswerInv, CallerStep, pc'.caller # "done"
  PROVE  /\ pc'.caller = "submitted" => ~Ended(caller')
         /\ pc'.caller = "selecting" /\ Ended(caller') => caller'.outcome \in Answer
<1>. USE SideFacts
<1>0. Typed /\ caller \in CallerState /\ wire.callee \in Seq(Message)
  BY DEF ControlInv, Typed, TypeOK
<1>1. CASE CallerOpens
  BY <1>0, <1>1, PcMoves DEF CallerOpens
<1>2. CASE CallerSubmits \/ CallerCancels
  BY <1>0, <1>2, CallerSendFacts DEF CallerSubmits, CallerCancels
<1>3. CASE CallerChecks
  BY <1>0, <1>3, PcMoves DEF CallerChecks, CallerAnswerInv
<1>4. CASE CallerReads
  <2>1. Head(wire.callee) \in Message
    BY <1>0, <1>4, HeadTailProperties DEF CallerReads
  <2> QED BY <1>0, <1>4, <2>1, CallerRecvFacts DEF CallerReads, CallerSelects
<1>5. ~CallerFinishes /\ ~CallerStops /\ ~CallerTimer /\ ~CallerSeesClose /\ ~CallerReadFails
  BY <1>0, PcMoves DEF CallerFinishes, CallerStops, Stop, CallerTimer, CallerSeesClose,
     CallerReadFails
<1> QED BY <1>1, <1>2, <1>3, <1>4, <1>5 DEF CallerStep

LEMMA RecordFacts ==
  /\ NoRecord.outcome = NoOutcome /\ NoRecord.task = FALSE
  /\ \A outcome, task : LET r == [outcome |-> outcome, task |-> task] IN
       r.outcome = outcome /\ r.task = task /\ (outcome \in Outcome => r # NoRecord)
  BY OutcomeFacts DEF NoRecord

LEMMA RecordStep ==
  ASSUME ControlInv, ControlInv', P!IInv, RecordInv, [Next]_vars
  PROVE  RecordInv'
<1>. USE SideFacts, OutcomeFacts
<1>0. /\ Typed /\ ReturnInv /\ CallerAnswerInv /\ CalleeAnswerInv /\ LimitInv /\ TaskInv
      /\ pc.callee \in CalleePc
  BY DEF ControlInv, RecordInv, Typed, TypeOK
<1>1. CASE CallerStep
  <2>1. /\ callee' = callee /\ shutdown' = shutdown /\ lost'.callee = lost.callee
        /\ pc'.callee = pc.callee /\ record'.callee = record.callee
        /\ link'.callee = link.callee /\ bye'.callee = bye.callee
    BY <1>0, <1>1, CallerFrame DEF Untouched
  <2>2. /\ pc.caller # "done" /\ record.caller = NoRecord
        /\ link'.caller \in {link.caller, "ProtocolViolation"}
        /\ bye'.caller # "none" => link'.caller # "open" \/ bye'.caller = bye.caller
    BY <1>0, <1>1, CallerReturns DEF ReturnInv
  <2>3. CalleeAnswerInv'
    BY <1>0, <2>1 DEF CalleeAnswerInv
  <2>4. caller'.outcome \in Answer => lost.callee = << >>
    BY <1>0, <1>1, CallerAnswers DEF CallerAnswerInv
  <2>5. CASE pc'.caller # "done" /\ record'.caller = record.caller
    <3>1. ReturnInv'
      BY <1>0, <2>1, <2>2, <2>5 DEF ReturnInv
    <3>2. CallerAnswerInv'
      BY <1>0, <1>1, <2>1, <2>2, <2>4, <2>5, CallerGoesOn, RecordFacts DEF CallerAnswerInv
    <3>3. LimitInv'
      BY <1>0, <2>1, <2>2, <2>5, RecordFacts DEF LimitInv
    <3>4. TaskInv'
      BY <1>0, <2>1, <2>2, <2>5 DEF TaskInv
    <3> QED BY <2>3, <3>1, <3>2, <3>3, <3>4 DEF RecordInv
  <2>6. ASSUME pc'.caller = "done", NEW outcome \in Outcome, NEW task \in BOOLEAN,
               record'.caller = [outcome |-> outcome, task |-> task],
               CallerRecords(outcome, task)
        PROVE  RecordInv'
    <3>0. /\ record'.caller.outcome = outcome /\ record'.caller.task = task
          /\ record'.caller # NoRecord
      BY <2>6, RecordFacts
    <3>1. ReturnInv'
      BY <1>0, <2>1, <2>6, <3>0 DEF ReturnInv
    <3>2. CallerAnswerInv'
      BY <1>0, <2>1, <2>4, <2>6, <3>0 DEF CallerAnswerInv, CallerRecords
    <3>3. LimitInv'
      BY <1>0, <2>1, <2>2, <2>6, <3>0 DEF LimitInv, CallerRecords
    <3>4. TaskInv'
      BY <1>0, <2>1, <2>2, <2>6, <3>0 DEF TaskInv, CallerRecords, LimitInv, ControlInv, CallerInv
    <3> QED BY <2>3, <3>1, <3>2, <3>3, <3>4 DEF RecordInv
  <2> QED BY <1>0, <1>1, <2>5, <2>6, CallerReturns
<1>2. CASE CalleeStep
  <2>1. /\ caller' = caller /\ shutdown' = shutdown /\ lost'.caller = lost.caller
        /\ pc'.caller = pc.caller /\ record'.caller = record.caller
        /\ link'.caller = link.caller /\ bye'.caller = bye.caller
    BY <1>0, <1>2, CalleeFrame DEF Untouched
  <2>. DEFINE Returned == pc'.callee = "done" /\ record'.callee.outcome \in Outcome
  <2>2. /\ pc.callee # "done" /\ record.callee = NoRecord /\ bye.callee # "RateLimited"
    BY <1>0, <1>2, CalleeReturns DEF ReturnInv, LimitInv
  <2>3. (pc'.callee # "done" /\ record'.callee = record.callee) \/ Returned
    BY <1>2, CalleeReturns
  <2>4. ReturnInv'
    BY <1>0, <2>1, <2>2, <2>3, RecordFacts DEF ReturnInv
  <2>5. CallerAnswerInv'
    <3>1. lost'.callee # << >> => caller.outcome \notin Answer
      <4>1. ~Ended(callee) => callee.outcome = NoOutcome
        BY <1>0, OpenOrEnded DEF Typed, TypeOK
      <4>2. lost'.callee # << >> => lost'.callee = lost.callee \/ ~Ended(callee)
        BY <1>2, CalleeReturns
      <4> QED BY <1>0, <4>1, <4>2, AnswersAgreed DEF CallerAnswerInv
    <3> QED BY <1>0, <2>1, <3>1 DEF CallerAnswerInv
  <2>6. CalleeAnswerInv'
    BY <1>0, <1>2, CalleeReturns DEF CalleeAnswerInv
  <2>7. LimitInv'
    <3>1. link.caller # "RateLimited" /\ record.caller.outcome # Closed("RateLimited")
      BY <1>0, <2>2 DEF LimitInv
    <3>2. bye'.callee = "RateLimited" =>
            /\ pc'.callee = "done" /\ callee' = Idle
            /\ record'.callee = [outcome |-> Closed("RateLimited"), task |-> FALSE]
      BY <1>2, <2>2, CalleeReturns
    <3>3. \A s \in Side : bye'[s] # "none" => link'[s] # "open"
      <4>1. bye'.callee # "none" => link'.callee # "open"
        BY <1>0, <1>2, CalleeReturns DEF LimitInv
      <4> QED BY <1>0, <2>1, <4>1 DEF LimitInv
    <3> QED BY <2>1, <3>1, <3>2, <3>3 DEF LimitInv
  <2>8. TaskInv'
    <3>1. record'.callee.task => callee' # Idle
      BY <1>2, <2>2, <2>3, CalleeReturns, RecordFacts
    <3>2. ASSUME pc.caller = "done", ~record.caller.task
          PROVE  wire'.caller = << >> /\ callee' = Idle
      <4>1. wire.caller = << >> /\ callee = Idle
        BY <1>0, <2>2, <3>2 DEF TaskInv
      <4>2. pc.callee \in {"incoming", "accepting"}
        BY <1>0, <2>2, <4>1, OpenOrEnded, CalleePhaseFacts
           DEF ControlInv, CalleeInv, CalleePc, CalleePhase
      <4> QED BY <1>0, <1>2, <4>1, <4>2, CalleeFrame
    <3> QED BY <2>1, <3>1, <3>2 DEF TaskInv
  <2> QED BY <2>4, <2>5, <2>6, <2>7, <2>8 DEF RecordInv
<1>3. CASE NetworkStep
  <2>1. UNCHANGED <<caller, callee, pc, record, wire, lost, bye>>
    BY <1>3, NetworkFrame
  <2>2. LimitInv'
    <3>1. "RateLimited" \notin LinkFaults /\ "open" \notin LinkFaults \cup CloseCode
      BY CallLoopAssumption DEF CloseCode
    <3>2. /\ link \in [Side -> CloseCode \cup {"open"}]
          /\ bye \in [Side -> CloseCode \cup {"none"}]
      BY <1>0 DEF Typed, TypeOK
    <3>3. link'.caller = "RateLimited" => bye.callee = "RateLimited"
      BY <1>0, <1>3, <3>1, <3>2 DEF NetworkStep, CloseArrives, LinkLost, BeginShutdown, LimitInv
    <3>4. \A s \in Side : bye[s] # "none" => link'[s] # "open"
      BY <1>0, <1>3, <3>1, <3>2 DEF NetworkStep, CloseArrives, LinkLost, BeginShutdown, LimitInv
    <3> QED BY <1>0, <2>1, <3>3, <3>4 DEF LimitInv
  <2>3. ReturnInv' /\ CalleeAnswerInv' /\ TaskInv'
    BY <1>0, <2>1 DEF ReturnInv, CalleeAnswerInv, TaskInv
  <2>4. CallerAnswerInv'
    <3>1. shutdown.caller => shutdown'.caller
      BY <1>0, <1>3 DEF NetworkStep, CloseArrives, LinkLost, BeginShutdown, Typed, TypeOK
    <3> QED BY <1>0, <2>1, <3>1 DEF CallerAnswerInv
  <2> QED BY <2>2, <2>3, <2>4 DEF RecordInv
<1>4. CASE UNCHANGED vars
  BY <1>0, <1>4 DEF vars, RecordInv, ReturnInv, CallerAnswerInv, CalleeAnswerInv, LimitInv, TaskInv
<1> QED BY <1>1, <1>2, <1>3, <1>4 DEF Next, NetworkStep

LEMMA RecordInit == Init => RecordInv
<1>. SUFFICES ASSUME Init PROVE RecordInv
  OBVIOUS
<1>1. /\ caller = At("Dialing") /\ callee = Idle /\ record = [s \in Side |-> NoRecord]
      /\ pc.caller = "opening" /\ pc.callee = "incoming"
      /\ lost.callee = << >> /\ link.caller = "open" /\ \A s \in Side : bye[s] = "none"
  BY SideFacts DEF Init
<1>2. /\ record.caller = NoRecord /\ record.callee = NoRecord
      /\ NoOutcome \notin Answer /\ \A c : Closed(c) # NoOutcome
  BY <1>1, SideFacts, OutcomeFacts
<1>3. ReturnInv /\ LimitInv /\ TaskInv
  BY <1>1, <1>2, SideFacts, RecordFacts DEF ReturnInv, LimitInv, TaskInv
<1>4. CallerAnswerInv /\ CalleeAnswerInv
  BY <1>1, <1>2, RecordFacts, StateFacts DEF CallerAnswerInv, CalleeAnswerInv
<1> QED BY <1>3, <1>4 DEF RecordInv

LEMMA Records == Spec => []RecordInv
<1>1. Init => RecordInv
  BY RecordInit
<1>2. ControlInv /\ ControlInv' /\ P!IInv /\ RecordInv /\ [Next]_vars => RecordInv'
  BY RecordStep
<1> QED BY <1>1, <1>2, Control, ProtocolInv, PTL DEF Spec

(* What the caller recorded as the callee's answer is how the callee's     *)
(* call ended, and all its record will say: the audits of the two nodes do *)
(* not contradict each other.                                              *)
THEOREM AnswersAgree == Spec => []AnswersMatch
<1>1. ControlInv /\ P!IInv /\ RecordInv => AnswersMatch
  <2>. SUFFICES ASSUME ControlInv, P!IInv, RecordInv,
                       record.caller.outcome \in Answer,
                       record.caller.outcome = Canceled => ~shutdown.caller
                PROVE  /\ callee.outcome = record.caller.outcome
                       /\ record.callee.outcome \in {NoOutcome, record.caller.outcome}
    BY DEF AnswersMatch
  <2>1. caller.outcome = record.caller.outcome /\ lost.callee = << >>
    BY DEF RecordInv, CallerAnswerInv
  <2>2. callee.outcome = record.caller.outcome
    BY <2>1, AnswersAgreed
  <2>3. Ended(callee)
    BY <2>2, OpenOrEnded, OutcomeFacts DEF ControlInv, Typed, TypeOK
  <2>4. pc.callee # "done" => record.callee.outcome = NoOutcome
    BY SideFacts, RecordFacts DEF RecordInv, ReturnInv
  <2> QED BY <2>1, <2>2, <2>3, <2>4 DEF RecordInv, CalleeAnswerInv
<1> QED BY <1>1, Control, ProtocolInv, Records, PTL

(* A call whose task is in the callee's record has it in the caller's too. *)
THEOREM TaskKnownToBoth == Spec => []TaskInBothRecords
<1>1. RecordInv => TaskInBothRecords
  BY SideFacts DEF RecordInv, ReturnInv, TaskInv, LimitInv, TaskInBothRecords
<1> QED BY <1>1, Records, PTL

(* A caller records Closed(RateLimited) only for a call that the other     *)
(* node refused before it looked at its Submit.                            *)
THEOREM LimitedBeforeTask == Spec => []RateLimitedBeforeTask
<1>1. RecordInv => RateLimitedBeforeTask
  BY DEF RecordInv, LimitInv, RateLimitedBeforeTask
<1> QED BY <1>1, Records, PTL

(* A frame that a loop is about to read has an entry in its table, and the *)
(* first one is Submit: the loops' Err(Illegal) branches, which close with *)
(* ProtocolViolation, are never taken between two conforming nodes.        *)
ReadsAreLegal ==
  /\ CallerSelects /\ wire.callee # << >> => caller_recv(caller, Head(wire.callee)) # {}
  /\ CalleeWaits /\ wire.caller # << >> => callee_recv(callee, Head(wire.caller)) # {}
  /\ pc.callee = "first" => Head(wire.caller) = Msg("Submit")

THEOREM NothingIllegal == Spec => []ReadsAreLegal
<1>1. P!Spec => []P!NoIllegalReceive
  BY ProtocolConstants, P!NeverIllegal
<1>2. Spec => []P!NoIllegalReceive
  BY <1>1, ProtocolFollowed, SameSpec DEF ImplementsProtocol
<1>3. ControlInv /\ P!NoIllegalReceive => ReadsAreLegal
  <2>. SUFFICES ASSUME ControlInv, P!NoIllegalReceive PROVE ReadsAreLegal
    OBVIOUS
  <2>1. Typed /\ CalleeInv
    BY DEF ControlInv
  <2>2. /\ \A s : P!Ended(s) <=> Ended(s)
        /\ \A s \in Side : wire[s] # << >> =>
             Channel(s) # << >> /\ Head(Channel(s)) = Head(wire[s])
    BY <2>1, ChannelHead DEF P!Ended, Ended
  <2> QED BY <2>1, <2>2, SideFacts, SameTables
          DEF P!NoIllegalReceive, Channel, CallerSelects, CalleeWaits, CalleeInv, ReadsAreLegal
<1> QED BY <1>2, <1>3, Control, PTL

(* A node leaves one record of a connection and never revises it.          *)
RecordedOnce == [][\A s \in Side : record[s] # NoRecord => record'[s] = record[s]]_vars

THEOREM NeverRevised == Spec => RecordedOnce
<1>1. ControlInv /\ RecordInv /\ [Next]_vars =>
        [\A s \in Side : record[s] # NoRecord => record'[s] = record[s]]_vars
  <2>. SUFFICES ASSUME ControlInv, RecordInv, Next,
                       NEW s \in Side, record[s] # NoRecord
                PROVE  record'[s] = record[s]
    OBVIOUS
  <2>1. pc[s] = "done" /\ Typed /\ CallerAnswerInv
    BY DEF RecordInv, ReturnInv, ControlInv
  <2>2. CASE CallerStep
    BY <2>1, <2>2, SideFacts, CallerReturns, CallerFrame DEF Untouched
  <2>3. CASE CalleeStep
    BY <2>1, <2>3, SideFacts, CalleeReturns, CalleeFrame DEF Untouched
  <2>4. CASE NetworkStep
    BY <2>4, NetworkFrame
  <2> QED BY <2>2, <2>3, <2>4 DEF Next, NetworkStep
<1> QED BY <1>1, Control, Records, PTL DEF Spec, RecordedOnce
====
