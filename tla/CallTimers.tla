----------------------------- MODULE CallTimers -----------------------------
(***************************************************************************)
(* The two timers of a call (timing.rs) over CallProtocol: the caller's    *)
(* fires deadline + GRACE after Send(Submit), the callee's deadline after  *)
(* receipt of Submit, so that the callee should fire first (uat-core:      *)
(* lib.rs).  Both drivers arm them in the same places, the loops over QUIC *)
(* and the in-memory harness that the timer tests run on a paused clock.   *)
(*                                                                         *)
(* Each timer is what is left of its budget, and Tick lets time pass for   *)
(* whoever is waiting.  Messages are delivered after any number of ticks   *)
(* and a due timer may be noticed late: nothing bounds the network or the  *)
(* scheduler, and a call of CallProtocol with timers that fire at will is  *)
(* a call of this module.                                                  *)
(*                                                                         *)
(* A callee may stop reading at any moment: CalleeBehavior::SilentHang     *)
(* never polls its read half again, and a loop that returned early (a      *)
(* write failed, the node shuts down) does nothing at all any more.        *)
(***************************************************************************)
EXTENDS CallProtocol

CONSTANTS
  Deadlines,  \* budgets a Submit may carry, in ticks
  GRACE       \* the caller's margin, GRACE_MS

ASSUME CallTimersAssumption ==
  /\ Deadlines \subseteq Nat
  /\ GRACE \in Nat

VARIABLES
  deadline,  \* the deadline Submit carries
  left,      \* per side: what is left of its timer
  delay,     \* ticks the caller has waited for a message or a late timer
  silent     \* the callee neither reads nor answers any more

timing == <<deadline, left, delay, silent>>
tvars  == <<vars, timing>>

callee_budget(d) == d

MutCallerBudget(d) == d  \* mutant: no margin

caller_budget(d) == d + GRACE

TimersInit ==
  /\ Init
  /\ deadline \in Deadlines
  /\ left = [s \in Sides |-> IF s = "caller" THEN caller_budget(deadline)
                                             ELSE callee_budget(deadline)]
  /\ delay = 0
  /\ silent = FALSE

(* A timer runs from Send(Submit), or its receipt, to the end of its side. *)
Running(s) == IF s = "caller" THEN caller # At("Dialing") /\ ~Ended(caller)
                              ELSE callee # Idle /\ ~Ended(callee)

Due(s) == Running(s) /\ left[s] = 0

(* The select! of both loops is biased: a due timer goes before a message  *)
(* and a lost connection.                                                  *)
CallerGoesOn ==
  /\ ~Due("caller")
  /\ (\E m \in CallerToCallee : CallerSend(m)) \/ CallerReceive \/ CallerLost
  /\ UNCHANGED timing

CalleeGoesOn ==
  /\ ~Due("callee")
  /\ (~silent /\ (CalleeOffered \/ CalleeReceive)) \/ CalleeLost
  /\ UNCHANGED timing

(* The callee emits its answers in one go, without a look at its timer.    *)
CalleeEmits ==
  /\ ~silent
  /\ \E m \in CalleeToCaller : CalleeSend(m)
  /\ UNCHANGED timing

CallerFires == Due("caller") /\ CallerTimeout /\ UNCHANGED timing
CalleeFires == Due("callee") /\ CalleeTimeout /\ UNCHANGED timing

(* The callee reads no further.  Its timer is still armed; whether anybody *)
(* polls it depends on why it fell silent.                                 *)
CalleeFallsSilent ==
  /\ ~silent
  /\ silent' = TRUE
  /\ UNCHANGED <<vars, deadline, left, delay>>

(* Submit is on its way, or the callee is late to notice its deadline, or  *)
(* the answer is on its way.                                               *)
Delayed == callee = Idle \/ Due("callee") \/ callee.outcome \in Answer

Tick ==
  /\ \E s \in Sides : Running(s) /\ left[s] > 0
  /\ left' = [s \in Sides |-> IF Running(s) /\ left[s] > 0 THEN left[s] - 1 ELSE left[s]]
  /\ delay' = IF Running("caller") /\ left.caller > 0 /\ Delayed THEN delay + 1 ELSE delay
  /\ UNCHANGED <<vars, deadline, silent>>

TimersNext ==
  \/ CallerGoesOn \/ CalleeGoesOn \/ CalleeEmits
  \/ CallerFires \/ CalleeFires
  \/ CalleeFallsSilent
  \/ Tick

TimersSpec == TimersInit /\ [][TimersNext]_tvars

(* What can be read is read and a due timer is noticed, except by a callee *)
(* that has fallen silent: nothing is assumed of that one, only that time  *)
(* passes for its caller.  As long as the callee reads, time need not      *)
(* pass.  No application has to send and no connection has to be lost.     *)
PromptSpec ==
  /\ TimersSpec
  /\ WF_tvars(CallerReceive /\ CallerGoesOn)
  /\ WF_tvars(CallerFires)
  /\ WF_tvars(CalleeOffered /\ CalleeGoesOn)
  /\ WF_tvars(CalleeReceive /\ CalleeGoesOn)
  /\ WF_tvars(~silent /\ CalleeFires)
  /\ WF_tvars(silent /\ Tick)

-----------------------------------------------------------------------------
(* lib.rs: the asymmetry "ensures the callee always emits DeadlineExceeded *)
(* first when both timers run".  What it does ensure: a caller that times  *)
(* out on a callee that still has its connection has waited GRACE in vain, *)
(* for Submit to arrive, for the callee to notice its deadline and for the *)
(* answer to come back, all three together.                                *)
TimesOutForCause ==
  Ended(caller) /\ left.caller = 0 =>
    \/ delay >= GRACE
    \/ Ended(callee) /\ callee.outcome \notin Answer

(* A cancelled call ends.  While the callee reads, its answer ends it and  *)
(* no timer need fire (unless that callee lost the connection); a callee   *)
(* that reads no more leaves it to the caller's own timer, which Canceling *)
(* neither stops nor starts again (the test of call.rs on SilentHang,      *)
(* l4_canceling_reaches_terminal_via_caller_timer).                        *)
CancelResolves ==
  caller.phase = "Canceling" ~>
    \/ Ended(caller)
    \/ ~silent /\ \E c \in LossCodes : callee.outcome = conn_lost_outcome(c)

=============================================================================
