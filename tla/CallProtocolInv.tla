--------------------------- MODULE CallProtocolInv ---------------------------
(***************************************************************************)
(* The inductive invariant behind CallProtocol's safety properties.  TLC   *)
(* checks it on the instances of MCCallProtocol, CallProtocolProofs proves *)
(* it for every value of the constants.                                    *)
(***************************************************************************)
EXTENDS CallProtocol

SubmitMsg == Msg("Submit")
InputMsg  == Msg("Input")
CancelMsg == Msg("Cancel")
NeedInput == Msg("NeedInput")

(* Answers that are possible once the callee has accepted the call.        *)
LateAnswer == Answer \ {Failed("Rejected")}

(* What may directly follow a message on the callee's channel: nothing     *)
(* follows an answer, and only an answer follows a question that has not   *)
(* been read.                                                              *)
MayFollow(m) ==
  IF m \in Answer THEN {}
  ELSE IF m = NeedInput THEN LateAnswer \ {Completed}
  ELSE {Msg("Progress"), NeedInput} \cup LateAnswer

(* What the caller may find at the head of that channel.                   *)
MayHead(phase) ==
  CASE phase = "Submitted"     -> {Msg("Accepted")} \cup (Answer \ {Completed, Canceled})
    [] phase = "Working"       -> {Msg("Progress"), NeedInput} \cup (LateAnswer \ {Canceled})
    [] phase = "AwaitingInput" -> LateAnswer \ {Completed, Canceled}
    [] phase = "Canceling"     -> CalleeToCaller
    [] OTHER                   -> {}

(* What the callee may have sent last, when it is still unread.            *)
MayBeLast(s) ==
  IF s.outcome \in Answer THEN {s.outcome}
  ELSE CASE s.phase = "Working"       -> {Msg("Accepted"), Msg("Progress")}
         [] s.phase = "NeedInputSent" -> {NeedInput}
         [] s.phase = "Terminal"      -> CalleeToCaller \ Answer
         [] OTHER                     -> {}

(* What may wait on the caller's channel: Submit until it is read, one     *)
(* Input per question, one Cancel, which comes last.                       *)
UpstreamOf(s) ==
  CASE s.phase = "Idle"          -> {<< >>, <<SubmitMsg>>, <<SubmitMsg, CancelMsg>>}
    [] s.phase = "Offered"       -> {<< >>, <<CancelMsg>>}
    [] s.phase = "Working"       -> {<< >>, <<CancelMsg>>}
    [] s.phase = "NeedInputSent" -> {<< >>, <<InputMsg>>, <<CancelMsg>>, <<InputMsg, CancelMsg>>}
    [] OTHER                     -> {<< >>, <<SubmitMsg>>, <<SubmitMsg, CancelMsg>>,
                                     <<InputMsg>>, <<CancelMsg>>, <<InputMsg, CancelMsg>>}

HasCancelled == caller.phase \in {"Canceling", "Terminal"}
Upstream(m)  == \E i \in DOMAIN c2s : c2s[i] = m

StreamInv ==
  /\ \A i \in 1 .. Len(s2c) - 1 : s2c[i + 1] \in MayFollow(s2c[i])
  /\ s2c # << >> => s2c[Len(s2c)] \in MayBeLast(callee)
  /\ s2c # << >> /\ ~Ended(caller) => s2c[1] \in MayHead(caller.phase)

UpstreamInv ==
  /\ c2s \in UpstreamOf(callee)
  /\ Upstream(CancelMsg) => HasCancelled
  /\ Upstream(InputMsg) =>
       /\ \A j \in DOMAIN s2c : s2c[j] # NeedInput
       /\ caller.phase \in {"Working", "Canceling", "Terminal"}
       /\ callee.phase = "NeedInputSent" => s2c = << >>
  /\ Upstream(SubmitMsg) =>
       caller.phase \in {"Submitted", "Canceling", "Terminal"} /\ s2c = << >>

(* With nothing unread the caller's phase is the one the callee's phase    *)
(* calls for.                                                              *)
CaughtUpInv ==
  s2c = << >> /\ ~HasCancelled =>
    /\ callee = Idle =>
         caller.phase = IF c2s = << >> THEN "Dialing" ELSE "Submitted"
    /\ caller.phase = "Dialing" => callee = Idle \/ Ended(callee)
    /\ callee.phase = "Offered" => caller.phase = "Submitted"
    /\ callee.phase = "Working" => caller.phase = "Working"
    /\ callee.phase = "NeedInputSent" =>
         caller.phase = IF Upstream(InputMsg) THEN "Working" ELSE "AwaitingInput"
    /\ callee.outcome \notin Answer

OutcomeInv ==
  /\ AnswerAgreement
  /\ callee.outcome = Canceled => HasCancelled
  /\ caller.phase = "Dialing" => c2s = << >> /\ s2c = << >>
  /\ caller.phase = "Canceling" /\ s2c = << >> => callee.outcome \notin Answer

IInv == TypeOK /\ StreamInv /\ UpstreamInv /\ CaughtUpInv /\ OutcomeInv

=============================================================================
