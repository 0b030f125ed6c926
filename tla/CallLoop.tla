------------------------------ MODULE CallLoop ------------------------------
(***************************************************************************)
(* One call over one QUIC connection: run_caller_with / caller_loop on the *)
(* dialing node, handle_incoming / run_callee_with / callee_loop on the    *)
(* serving node (uat-node: call.rs, node.rs), and the CallRecord each side *)
(* leaves (record.rs).  The connection is up on both sides at the start.   *)
(*                                                                         *)
(* A step is what a task does between two awaits at which another task or  *)
(* the network can change something it reads.  select! is biased: a branch *)
(* is taken only when no earlier one is ready, and a branch that loses is  *)
(* dropped.  Writes are buffered by QUIC, so they succeed or fail but do   *)
(* not wait.  The network may lose everything in flight when a connection  *)
(* closes, the close itself included.                                      *)
(*                                                                         *)
(* Neither loop's Err(Illegal) branches are here: both ends are conforming *)
(* and the refinement below shows that a frame without an entry in the     *)
(* reader's table never arrives.                                           *)
(***************************************************************************)
EXTENDS CallTables, Sequences

CONSTANTS
  Behaviors,   \* CalleeBehaviors of the serving node
  Verdicts,    \* what its admission and authorization may decide
  Shutdowns,   \* sides whose node may shut down
  Timers,      \* sides whose timers may fire
  LinkFaults,  \* what conn.closed() may report without a close by the peer
  Hooks,       \* whether request_cancel is given
  Calms        \* whether a call is one that nothing disturbs

Side     == {"caller", "callee"}
Other(s) == IF s = "caller" THEN "callee" ELSE "caller"

CalleeBehavior == {"StubComplete", "HangAfterAccept", "NeedInputHang", "SilentHang"}

(* verify_peer and try_admit refuse the connection, authorize_submit_header *)
(* the Submit.                                                              *)
Verdict == {"allowed", "submit_denied", "peer_denied", "rate_limited"}

ASSUME CallLoopAssumption ==
  /\ Behaviors \subseteq CalleeBehavior
  /\ Verdicts \subseteq Verdict
  /\ Shutdowns \subseteq Side /\ Timers \subseteq Side
  /\ LinkFaults \subseteq {"Timeout", "ProtocolViolation"}
  /\ Hooks \subseteq BOOLEAN /\ Calms \subseteq BOOLEAN

VARIABLES
  caller, callee,  \* states of the two tables
  pc,              \* per side: where its task stands
  record,          \* per side: the CallRecord it emitted
  wire,            \* per side: frames it has written and the other has not read
  lost,            \* per side: the frame whose write failed
  link,            \* per side: "open", or the code conn.closed() reports
  bye,             \* per side: the code it closed the connection with
  fin,             \* per side: its streams ended before it closed
  shutdown,        \* per side: its cancellation token
  hook,            \* request_cancel has not fired yet
  torn,            \* the caller dropped a read in the middle of a frame
  behavior, verdict,
  calm             \* no fault, timer, shutdown or cancel in this call

setting == <<behavior, verdict, calm>>
vars == <<caller, callee, pc, record, wire, lost, link, bye, fin,
          shutdown, hook, torn, setting>>

CallerPc == {"opening", "submitting", "submitted", "selecting", "done"}
CalleePc == {"incoming", "accepting", "first", "denying", "emitting", "waiting",
             "lingering", "done"}

(* Of a record only the outcome and whether it names the task matter here. *)
NoRecord   == [outcome |-> NoOutcome, task |-> FALSE]
CallRecord == [outcome : Outcome, task : BOOLEAN]
Idle       == At("Idle")

TypeOK ==
  /\ caller \in CallerState /\ callee \in CalleeState \cup {Idle}
  /\ pc.caller \in CallerPc /\ pc.callee \in CalleePc
  /\ record \in [Side -> CallRecord \cup {NoRecord}]
  /\ wire \in [Side -> Seq(Message)] /\ lost \in [Side -> Seq(Message)]
  /\ link \in [Side -> CloseCode \cup {"open"}]
  /\ bye \in [Side -> CloseCode \cup {"none"}]
  /\ fin \in [Side -> BOOLEAN] /\ shutdown \in [Side -> BOOLEAN]
  /\ hook \in BOOLEAN /\ torn \in BOOLEAN
  /\ behavior \in Behaviors /\ verdict \in Verdicts /\ calm \in Calms

Init ==
  /\ caller = At("Dialing") /\ callee = Idle
  /\ pc = [s \in Side |-> IF s = "caller" THEN "opening" ELSE "incoming"]
  /\ record = [s \in Side |-> NoRecord]
  /\ wire = [s \in Side |-> << >>] /\ lost = [s \in Side |-> << >>]
  /\ link = [s \in Side |-> "open"] /\ bye = [s \in Side |-> "none"]
  /\ fin = [s \in Side |-> FALSE] /\ shutdown = [s \in Side |-> FALSE]
  /\ hook \in Hooks /\ torn = FALSE
  /\ behavior \in Behaviors /\ verdict \in Verdicts
  /\ calm \in Calms
  /\ calm => behavior = "StubComplete" /\ verdict = "allowed" /\ ~hook

-----------------------------------------------------------------------------
(* Steps both sides share.                                                 *)

Goto(s, p) == pc' = [pc EXCEPT ![s] = p]

(* Timers are long: none fires in a call that goes through undisturbed.    *)
TimerFires(s) == s \in Timers /\ ~calm

(* The first close of a connection counts.  A side that closed sees        *)
(* LocallyClosed, which close_code_from_conn_err reports like this.        *)
close_with(s, code) ==
  IF link[s] = "open"
    THEN /\ link' = [link EXCEPT ![s] = "ProtocolViolation"]
         /\ bye' = [bye EXCEPT ![s] = code]
    ELSE UNCHANGED <<link, bye>>

(* The task returns: the guard emits its record and the connection, when   *)
(* it is still open, is closed with the given code (Normal when dropped).  *)
Return(s, outcome, task, code) ==
  /\ Goto(s, "done")
  /\ record' = [record EXCEPT ![s] = [outcome |-> outcome, task |-> task]]
  /\ close_with(s, code)

(* write_message.  It fails on a lost connection, and when the reader is   *)
(* gone already.                                                           *)
Writes(s, m) ==
  /\ link[s] = "open"
  /\ wire' = [wire EXCEPT ![s] = Append(@, m)]
  /\ UNCHANGED lost

WriteFails(s, m) ==
  /\ link[s] # "open" \/ fin[Other(s)]
  /\ lost' = [lost EXCEPT ![s] = Append(@, m)]
  /\ UNCHANGED wire

(* A write whose failure stops nothing.                                    *)
TriesToWrite(s, m) == Writes(s, m) \/ WriteFails(s, m)

(* A side that is shut down returns Err(Cancelled): its streams are        *)
(* dropped, and so ended, just before the connection.                      *)
Stop(s, task) ==
  /\ shutdown[s]
  /\ fin' = [fin EXCEPT ![s] = link[s] = "open"]
  /\ Return(s, Canceled, task, "Normal")
  /\ UNCHANGED <<caller, callee, wire, lost, shutdown, hook, torn, setting>>

-----------------------------------------------------------------------------
(* The caller.                                                             *)

(* open_bi waits for nothing: the first stream always has credit.          *)
CallerOpens ==
  /\ pc.caller = "opening"
  /\ IF link.caller = "open"
       THEN Goto("caller", "submitting") /\ UNCHANGED <<record, link, bye>>
       ELSE Return("caller", Closed(link.caller), FALSE, "Normal")
  /\ UNCHANGED <<caller, callee, wire, lost, fin, shutdown, hook, torn, setting>>

(* The outcome set for a RateLimited close is overwritten when the error   *)
(* is observed: a failed write is PeerLost, whatever the close code.       *)
CallerSubmits ==
  /\ pc.caller = "submitting"
  /\ caller' \in caller_send(caller, Msg("Submit"))
  /\ \/ Writes("caller", Msg("Submit")) /\ Goto("caller", "submitted")
        /\ UNCHANGED <<record, link, bye>>
     \/ WriteFails("caller", Msg("Submit")) /\ Return("caller", PeerLost, FALSE, "Normal")
  /\ UNCHANGED <<callee, fin, shutdown, hook, torn, setting>>

MutCallerChecks ==  \* mutant: whatever the close code
  /\ pc.caller = "submitted"
  /\ IF link.caller # "open"
       THEN Return("caller", Closed(link.caller), FALSE, "Normal")
       ELSE Goto("caller", "selecting") /\ UNCHANGED <<record, link, bye>>
  /\ UNCHANGED <<caller, callee, wire, lost, fin, shutdown, hook, torn, setting>>

(* The close reason is looked at once more before the record names the     *)
(* task.                                                                   *)
CallerChecks ==
  /\ pc.caller = "submitted"
  /\ IF link.caller = "RateLimited"
       THEN Return("caller", Closed("RateLimited"), FALSE, "Normal")
       ELSE Goto("caller", "selecting") /\ UNCHANGED <<record, link, bye>>
  /\ UNCHANGED <<caller, callee, wire, lost, fin, shutdown, hook, torn, setting>>

CallerFinishes ==
  /\ pc.caller = "selecting" /\ Ended(caller)
  /\ Return("caller", caller.outcome, TRUE, "Normal")
  /\ UNCHANGED <<caller, callee, wire, lost, fin, shutdown, hook, torn, setting>>

CallerStops == pc.caller = "selecting" /\ ~Ended(caller) /\ Stop("caller", TRUE)

CallerSelects == pc.caller = "selecting" /\ ~Ended(caller) /\ ~shutdown.caller

MutCallerTimer ==  \* mutant: no timer once Cancel is sent
  /\ CallerSelects /\ TimerFires("caller") /\ caller.phase # "Canceling"
  /\ caller' \in caller_timeout(caller)
  /\ Return("caller", caller'.outcome, TRUE, "Timeout")
  /\ UNCHANGED <<callee, wire, lost, fin, shutdown, hook, torn, setting>>

CallerTimer ==
  /\ CallerSelects /\ TimerFires("caller")
  /\ caller' \in caller_timeout(caller)
  /\ Return("caller", caller'.outcome, TRUE, "Timeout")
  /\ UNCHANGED <<callee, wire, lost, fin, shutdown, hook, torn, setting>>

MutCallerSeesClose ==  \* mutant: the task id is not cleared
  /\ CallerSelects /\ link.caller # "open"
  /\ caller' \in caller_conn_lost(caller, link.caller)
  /\ Return("caller", caller'.outcome, TRUE, "Normal")
  /\ UNCHANGED <<callee, wire, lost, fin, shutdown, hook, torn, setting>>

CallerSeesClose ==
  /\ CallerSelects /\ link.caller # "open"
  /\ caller' \in caller_conn_lost(caller, link.caller)
  /\ Return("caller", caller'.outcome, link.caller # "RateLimited", "Normal")
  /\ UNCHANGED <<callee, wire, lost, fin, shutdown, hook, torn, setting>>

MutCallerCancels ==  \* mutant: Cancel is written, the table not stepped
  /\ CallerSelects /\ hook
  /\ hook' = FALSE
  /\ Writes("caller", Msg("Cancel"))
  /\ UNCHANGED <<caller, callee, pc, record, link, bye, fin, shutdown, torn, setting>>

(* request_cancel is polled before the read: a read that has taken part of *)
(* a frame off the stream is dropped with that part.                       *)
CallerCancels ==
  /\ CallerSelects /\ hook
  /\ hook' = FALSE
  /\ torn' \in {FALSE, wire.callee # << >>}
  /\ caller' \in caller_send(caller, Msg("Cancel"))
  /\ \/ Writes("caller", Msg("Cancel")) /\ UNCHANGED <<pc, record, link, bye>>
     \/ WriteFails("caller", Msg("Cancel")) /\ Return("caller", PeerLost, TRUE, "Normal")
  /\ UNCHANGED <<callee, fin, shutdown, setting>>

CallerReads ==
  /\ CallerSelects /\ link.caller = "open" /\ ~torn
  /\ wire.callee # << >>
  /\ caller' \in caller_recv(caller, Head(wire.callee))
  /\ wire' = [wire EXCEPT !.callee = Tail(@)]
  /\ UNCHANGED <<callee, pc, record, lost, link, bye, fin, shutdown, hook, torn, setting>>

(* read_message fails: on what is left of a torn frame, at the end of the  *)
(* stream, or because the connection was lost after conn.closed() had been *)
(* polled.                                                                 *)
CallerReadFails ==
  /\ CallerSelects
  /\ \/ \E code \in CloseCode :
          /\ link.caller = "open"
          /\ \/ torn /\ code \in {"FrameTooLarge", "MalformedFrame"}
             \/ fin.callee /\ wire.callee = << >> /\ code = "MalformedFrame"
          /\ Return("caller", Closed(code), TRUE, code)
     \/ /\ link.caller # "open"
        /\ Return("caller", PeerLost, TRUE, "Normal")
  /\ UNCHANGED <<caller, callee, wire, lost, fin, shutdown, hook, torn, setting>>

CallerStep ==
  \/ CallerOpens \/ CallerSubmits \/ CallerChecks \/ CallerFinishes \/ CallerStops
  \/ CallerTimer \/ CallerSeesClose \/ CallerCancels \/ CallerReads \/ CallerReadFails

-----------------------------------------------------------------------------
(* The callee.                                                             *)

(* handle_incoming: the allowlist first, the rate limiter second.          *)
CalleeAdmits ==
  /\ pc.callee = "incoming"
  /\ CASE verdict = "peer_denied"  -> Return("callee", Closed("Normal"), FALSE, "Normal")
       [] verdict = "rate_limited" -> Return("callee", Closed("RateLimited"), FALSE, "RateLimited")
       [] OTHER -> Goto("callee", "accepting") /\ UNCHANGED <<record, link, bye>>
  /\ UNCHANGED <<caller, callee, wire, lost, fin, shutdown, hook, torn, setting>>

(* accept_bi returns when the first bytes of the stream arrive.            *)
CalleeAccepts ==
  /\ pc.callee = "accepting"
  /\ \/ /\ link.callee = "open" /\ wire.caller # << >>
        /\ Goto("callee", "first") /\ UNCHANGED <<record, link, bye>>
     \/ /\ link.callee # "open" \/ TimerFires("callee")
        /\ Return("callee", PeerLost, FALSE, "Normal")
  /\ UNCHANGED <<caller, callee, wire, lost, fin, shutdown, hook, torn, setting>>

(* The token is cancelled: before the Submit is read (its task unknown),   *)
(* or while the callee waits for the end.                                  *)
StopsEarly  == pc.callee = "first" /\ Stop("callee", FALSE)
CalleeStops == StopsEarly \/ (pc.callee = "waiting" /\ Stop("callee", TRUE))

(* Waiting for Submit, all of whose frame must come within the idle time.  *)
CalleeNoSubmit ==
  /\ pc.callee = "first" /\ ~shutdown.callee
  /\ \/ link.callee # "open" /\ Return("callee", PeerLost, FALSE, "Normal")
     \/ /\ link.callee = "open" /\ TimerFires("callee")
        /\ Return("callee", Closed("Timeout"), FALSE, "Timeout")
  /\ UNCHANGED <<caller, callee, wire, lost, fin, shutdown, hook, torn, setting>>

CalleeReadsSubmit ==
  /\ pc.callee = "first" /\ ~shutdown.callee /\ link.callee = "open"
  /\ Head(wire.caller) = Msg("Submit")
  /\ wire' = [wire EXCEPT !.caller = Tail(@)]
  /\ callee' = At("Offered")
  /\ Goto("callee", IF verdict = "allowed" THEN "emitting" ELSE "denying")
  /\ UNCHANGED <<caller, record, lost, link, bye, fin, shutdown, hook, torn, setting>>

(* A denied Submit is answered without the table; this is the entry the    *)
(* table has for it.                                                       *)
CalleeDenies ==
  /\ pc.callee = "denying"
  /\ callee' \in callee_send(callee, Failed("Unauthorized"))
  /\ TriesToWrite("callee", Failed("Unauthorized"))
  /\ Return("callee", Failed("Unauthorized"), FALSE, "Normal")
  /\ UNCHANGED <<caller, fin, shutdown, hook, torn, setting>>

(* What the stub has still to emit.                                        *)
Emits ==
  CASE callee.phase = "Offered" -> {Msg("Accepted")}
    [] callee.phase = "Working" /\ behavior = "StubComplete"  -> {Completed}
    [] callee.phase = "Working" /\ behavior = "NeedInputHang" -> {Msg("NeedInput")}
    [] OTHER -> {}

Emit(m) ==
  /\ pc.callee = "emitting"
  /\ callee' \in callee_send(callee, m)
  /\ \/ Writes("callee", m) /\ UNCHANGED <<pc, record, link, bye>>
     \/ WriteFails("callee", m) /\ Return("callee", PeerLost, TRUE, "Normal")
  /\ UNCHANGED <<caller, fin, shutdown, hook, torn, setting>>

CalleeEmits == \E m \in Emits : Emit(m)

MutCalleeEmitted ==  \* mutant: the connection is dropped behind the answer
  /\ pc.callee = "emitting" /\ Emits = {}
  /\ IF Ended(callee)
       THEN Return("callee", callee.outcome, TRUE, "Normal")
       ELSE Goto("callee", "waiting") /\ UNCHANGED <<record, link, bye>>
  /\ UNCHANGED <<caller, callee, wire, lost, fin, shutdown, hook, torn, setting>>

CalleeEmitted ==
  /\ pc.callee = "emitting" /\ Emits = {}
  /\ Goto("callee", IF Ended(callee) THEN "lingering" ELSE "waiting")
  /\ UNCHANGED <<caller, callee, record, wire, lost, link, bye, fin, shutdown, hook, torn, setting>>

CalleeWaits == pc.callee = "waiting" /\ ~shutdown.callee

CalleeTimer ==
  /\ CalleeWaits /\ TimerFires("callee")
  /\ callee' \in callee_timeout(callee)
  /\ TriesToWrite("callee", EmitOnTimeout[1])
  /\ close_with("callee", "Normal")
  /\ Goto("callee", "lingering")
  /\ UNCHANGED <<caller, record, fin, shutdown, hook, torn, setting>>

(* conn.closed(), or the read fails first: a lost read is a peer that left.*)
CalleeSeesLoss ==
  /\ CalleeWaits
  /\ \/ link.callee # "open" /\ callee' \in callee_conn_lost(callee, link.callee)
     \/ /\ link.callee # "open" \/ (fin.caller /\ wire.caller = << >>)
        /\ behavior # "SilentHang"
        /\ callee' \in callee_conn_lost(callee, "Normal")
  /\ Goto("callee", "lingering")
  /\ UNCHANGED <<caller, record, wire, lost, link, bye, fin, shutdown, hook, torn, setting>>

(* The connection may close between the read and the write of the answer.  *)
CalleeReads ==
  /\ CalleeWaits /\ behavior # "SilentHang"
  /\ wire.caller # << >>
  /\ LET m == Head(wire.caller)
         read == [wire EXCEPT !.caller = Tail(@)]
     IN  /\ callee' \in callee_recv(callee, m)
         /\ \/ /\ link.callee = "open"
               /\ wire' = [read EXCEPT !.callee = @ \o EmitOnRecv(m)]
               /\ Goto("callee", IF Ended(callee') THEN "lingering" ELSE "waiting")
               /\ UNCHANGED <<record, lost, link, bye>>
            \/ /\ EmitOnRecv(m) # << >>
               /\ link.callee # "open" \/ fin.caller
               /\ wire' = read
               /\ lost' = [lost EXCEPT !.callee = @ \o EmitOnRecv(m)]
               /\ Return("callee", PeerLost, TRUE, "Normal")
  /\ UNCHANGED <<caller, fin, shutdown, hook, torn, setting>>

MutCalleeLeaves ==  \* mutant: a closed connection decides the outcome
  /\ pc.callee = "lingering"
  /\ shutdown.callee \/ link.callee # "open" \/ TimerFires("callee")
  /\ Return("callee", IF link.callee = "open" THEN callee.outcome ELSE PeerLost, TRUE, "Normal")
  /\ UNCHANGED <<caller, callee, wire, lost, fin, shutdown, hook, torn, setting>>

(* The callee stays until the caller has closed, for GRACE at most.        *)
CalleeLeaves ==
  /\ pc.callee = "lingering"
  /\ shutdown.callee \/ link.callee # "open" \/ TimerFires("callee")
  /\ Return("callee", callee.outcome, TRUE, "Normal")
  /\ UNCHANGED <<caller, callee, wire, lost, fin, shutdown, hook, torn, setting>>

CalleeStep ==
  \/ CalleeAdmits \/ CalleeAccepts \/ CalleeStops \/ CalleeNoSubmit \/ CalleeReadsSubmit
  \/ CalleeDenies \/ CalleeEmits \/ CalleeEmitted \/ CalleeTimer \/ CalleeSeesLoss
  \/ CalleeReads \/ CalleeLeaves

-----------------------------------------------------------------------------
(* The network and the nodes.                                              *)

CloseArrives(s) ==
  /\ pc[s] # "done" /\ link[s] = "open" /\ bye[Other(s)] # "none"
  /\ link' = [link EXCEPT ![s] = bye[Other(s)]]
  /\ UNCHANGED <<caller, callee, pc, record, wire, lost, bye, fin, shutdown, hook, torn, setting>>

LinkLost(s) ==
  /\ pc[s] # "done" /\ link[s] = "open" /\ ~calm
  /\ \E code \in LinkFaults : link' = [link EXCEPT ![s] = code]
  /\ UNCHANGED <<caller, callee, pc, record, wire, lost, bye, fin, shutdown, hook, torn, setting>>

BeginShutdown(s) ==
  /\ s \in Shutdowns /\ pc[s] # "done" /\ ~shutdown[s] /\ ~calm
  /\ shutdown' = [shutdown EXCEPT ![s] = TRUE]
  /\ UNCHANGED <<caller, callee, pc, record, wire, lost, link, bye, fin, hook, torn, setting>>

Next ==
  \/ CallerStep
  \/ CalleeStep
  \/ \E s \in Side : CloseArrives(s)
  \/ \E s \in Side : LinkLost(s)
  \/ \E s \in Side : BeginShutdown(s)

Spec == Init /\ [][Next]_vars

(* A task that can go on is scheduled, and so are its timers.  Nothing is  *)
(* assumed of the network, unless the call is calm: then no timer is there *)
(* to fall back on, and a close that was sent does arrive.                 *)
TimedSpec ==
  /\ Spec
  /\ WF_vars(CallerStep) /\ WF_vars(CalleeStep)
  /\ \A s \in Side : WF_vars(calm /\ CloseArrives(s))

-----------------------------------------------------------------------------
(* The loops step the tables as CallProtocol allows, whatever the network, *)
(* the timers, request_cancel and a shutdown interrupt.  A frame that was  *)
(* not written counts as sent and is never read; a loop that returned      *)
(* early has stopped stepping its table.                                   *)
Protocol == INSTANCE CallProtocol WITH
  c2s <- wire.caller \o lost.caller,
  s2c <- wire.callee \o lost.callee,
  LossCodes <- CloseCode, Timers <- Side, MaxInFlight <- 0

ImplementsProtocol == Protocol!Spec

(* The audit records of the two nodes never contradict each other: what    *)
(* the caller recorded as the callee's answer is how the callee's call     *)
(* ended and all it will record, although closes, timers and shutdowns     *)
(* overtake the frames.                                                    *)
AnswersMatch ==
  LET answer == record.caller.outcome IN
  answer \in Answer /\ (answer = Canceled => ~shutdown.caller) =>
    /\ callee.outcome = answer
    /\ record.callee.outcome \in {NoOutcome, answer}

(* When the callee's record names the task, so does the caller's: the call *)
(* can be found in the audit of both nodes (call.rs sets the id when       *)
(* Submit was written).                                                    *)
TaskInBothRecords ==
  record.callee.task /\ record.caller # NoRecord => record.caller.task

(* Closed(RateLimited) in the caller's record means a Submit that the      *)
(* other node never looked at: no task, and none in its record either.     *)
RateLimitedBeforeTask ==
  record.caller.outcome = Closed("RateLimited") =>
    /\ ~record.caller.task
    /\ record.callee = [outcome |-> Closed("RateLimited"), task |-> FALSE]

(* Both sides of every connection leave their record, whatever is lost.    *)
EveryCallRecorded == \A s \in Side : <>(record[s] # NoRecord)

(* With nothing in its way a call to the stub completes, and both records  *)
(* say so: the callee's close does not overtake its Completed.             *)
StubCompletes ==
  \A s \in Side : calm ~> record[s] = [outcome |-> Completed, task |-> TRUE]

(* tests/rate_limit.rs: "both ends' CallRecords agree on                   *)
(* `Closed(RateLimited)` with `task: None`".                               *)
RateLimitedAgreed ==
  record.callee.outcome = Closed("RateLimited") =>
    record.caller \in {NoRecord, record.callee}

=============================================================================
