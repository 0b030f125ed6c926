----------------------------- MODULE CallTables -----------------------------
(***************************************************************************)
(* The vocabulary of a call and its two transition tables: uat-core's      *)
(* codes.rs, outcome.rs, message.rs and state.rs.                          *)
(*                                                                         *)
(* A step of a table is the SET of states it may lead to: one state when   *)
(* the table has the entry, none when the code returns Err(Illegal).       *)
(* Payloads (bodies, task ids, credentials) are left out: no table entry   *)
(* reads them.  caller_step and callee_step dispatch on the event first;   *)
(* here each event has an operator of its own.                             *)
(***************************************************************************)

FailureCode == {"Unauthorized", "Rejected", "DeadlineExceeded", "HandlerError"}

CloseCode == {"Normal", "RateLimited", "FrameTooLarge", "MalformedFrame",
              "ProtocolViolation", "Timeout"}

-----------------------------------------------------------------------------
(* Messages.  Only Failed carries a value the tables look at.              *)
PlainKind == {"Submit", "Accepted", "Progress", "NeedInput", "Input",
              "Completed", "Cancel", "Canceled"}

Msg(k)    == [kind |-> k, code |-> "none"]
Failed(c) == [kind |-> "Failed", code |-> c]

Message == {Msg(k) : k \in PlainKind} \cup {Failed(c) : c \in FailureCode}

(* How a call ends for one side.  A terminal message and the outcome it    *)
(* stands for are the same value.                                          *)
NoOutcome == Msg("none")
Completed == Msg("Completed")
Canceled  == Msg("Canceled")
PeerLost  == Msg("PeerLost")
Closed(c) == [kind |-> "Closed", code |-> c]

(* The outcomes that only a message of the callee brings.                  *)
Answer  == {Completed, Canceled} \cup {Failed(c) : c \in FailureCode}
Outcome == Answer \cup {PeerLost} \cup {Closed(c) : c \in CloseCode}

(* States: a phase, and an outcome once the phase is Terminal.             *)
CallerPhase == {"Dialing", "Submitted", "Working", "AwaitingInput", "Canceling"}
CalleePhase == {"Offered", "Working", "NeedInputSent"}

At(p)       == [phase |-> p, outcome |-> NoOutcome]
Terminal(o) == [phase |-> "Terminal", outcome |-> o]
Ended(s)    == s.phase = "Terminal"

CallerState == {At(p) : p \in CallerPhase} \cup {Terminal(o) : o \in Outcome}
CalleeState == {At(p) : p \in CalleePhase} \cup {Terminal(o) : o \in Outcome}

-----------------------------------------------------------------------------
(* A row of a table is <<phase, kind of message, next phase>>.  Receiving  *)
(* Cancel ends the callee Canceled; any other terminal row ends its side   *)
(* with the message's own outcome.                                         *)
OutcomeOf(m) == IF m.kind = "Cancel" THEN Canceled ELSE m

Follow(table, s, m) ==
  {IF r[3] = "Terminal" THEN Terminal(OutcomeOf(m)) ELSE At(r[3]) :
     r \in {q \in table : q[1] = s.phase /\ q[2] = m.kind}}

Unless(s, t) == IF Ended(s) THEN {} ELSE {t}

(* A peer that closed with Normal is lost; any other code is reported.     *)
conn_lost_outcome(c) == IF c = "Normal" THEN PeerLost ELSE Closed(c)

-----------------------------------------------------------------------------
(* caller_step *)
MutCallerSends ==  \* mutant: Input does not leave AwaitingInput
  { <<"Dialing",       "Submit", "Submitted">>,
    <<"Submitted",     "Cancel", "Canceling">>,
    <<"Working",       "Cancel", "Canceling">>,
    <<"AwaitingInput", "Input",  "AwaitingInput">>,
    <<"AwaitingInput", "Cancel", "Canceling">> }

CallerSends ==
  { <<"Dialing",       "Submit", "Submitted">>,
    <<"Submitted",     "Cancel", "Canceling">>,
    <<"Working",       "Cancel", "Canceling">>,
    <<"AwaitingInput", "Input",  "Working">>,
    <<"AwaitingInput", "Cancel", "Canceling">> }

(* What still arrives after Cancel: messages sent before it was read.      *)
MutCancelingRecvs ==  \* mutant: a Completed that crossed Cancel is forgotten
  { <<"Canceling", "Accepted", "Canceling">>,
    <<"Canceling", "Progress", "Canceling">>,
    <<"Canceling", "NeedInput", "Canceling">>,
    <<"Canceling", "Canceled", "Terminal">>,
    <<"Canceling", "Failed", "Terminal">> }

CancelingRecvs ==
  { <<"Canceling", "Accepted", "Canceling">>,
    <<"Canceling", "Progress", "Canceling">>,
    <<"Canceling", "NeedInput", "Canceling">>,
    <<"Canceling", "Canceled", "Terminal">>,
    <<"Canceling", "Completed", "Terminal">>,
    <<"Canceling", "Failed", "Terminal">> }

CallerRecvs == CancelingRecvs \cup
  { <<"Submitted",     "Accepted",  "Working">>,
    <<"Submitted",     "Failed",    "Terminal">>,
    <<"Working",       "Progress",  "Working">>,
    <<"Working",       "NeedInput", "AwaitingInput">>,
    <<"Working",       "Completed", "Terminal">>,
    <<"Working",       "Failed",    "Terminal">>,
    <<"AwaitingInput", "Failed",    "Terminal">> }

caller_send(s, m)      == Follow(CallerSends, s, m)
caller_recv(s, m)      == Follow(CallerRecvs, s, m)

MutCallerTimeout(s) ==  \* mutant: the caller invents the callee's answer
  Unless(s, Terminal(Failed("DeadlineExceeded")))
caller_timeout(s)      == Unless(s, Terminal(Closed("Timeout")))
caller_conn_lost(s, c) == Unless(s, Terminal(conn_lost_outcome(c)))

-----------------------------------------------------------------------------
(* callee_step *)
CalleeSends ==
  { <<"Offered",       "Accepted",  "Working">>,
    <<"Offered",       "Failed",    "Terminal">>,
    <<"Working",       "Progress",  "Working">>,
    <<"Working",       "NeedInput", "NeedInputSent">>,
    <<"Working",       "Completed", "Terminal">>,
    <<"Working",       "Failed",    "Terminal">>,
    <<"NeedInputSent", "Failed",    "Terminal">> }

CalleeRecvs ==
  { <<"Offered",       "Cancel", "Terminal">>,
    <<"Working",       "Cancel", "Terminal">>,
    <<"NeedInputSent", "Input",  "Working">>,
    <<"NeedInputSent", "Cancel", "Terminal">> }

MutCalleeSend(s, m) == Follow(CalleeSends, s, m)  \* mutant: A1.2.4 unchecked

(* Failed{Rejected} is legal only before Accepted (A1.2.4).                *)
callee_send(s, m) ==
  IF m = Failed("Rejected") /\ s.phase # "Offered"
    THEN {}
    ELSE Follow(CalleeSends, s, m)

callee_recv(s, m)      == Follow(CalleeRecvs, s, m)

MutCalleeTimeout(s) == Unless(s, Terminal(Canceled))  \* mutant: ends as a Cancel does
callee_timeout(s)      == Unless(s, Terminal(Failed("DeadlineExceeded")))
callee_conn_lost(s, c) == Unless(s, Terminal(conn_lost_outcome(c)))

MutEmitOnRecv(m) == << >>  \* mutant: Cancel is not answered

(* What a step of the callee emits: Canceled when Cancel ended it,         *)
(* Failed{DeadlineExceeded} when its timer did, nothing otherwise.         *)
EmitOnRecv(m) == IF m.kind = "Cancel" THEN <<Canceled>> ELSE << >>
EmitOnTimeout == <<Failed("DeadlineExceeded")>>

=============================================================================
