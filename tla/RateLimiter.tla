---------------------------- MODULE RateLimiter ----------------------------
(***************************************************************************)
(* Admission control of incoming connections: uat-policy's rate_limit.rs,  *)
(* as handle_incoming in uat-node's node.rs uses it.  Every connection is  *)
(* served by a task of its own.  The task reads the clock, and only then   *)
(* takes the limiter's lock: between the two other tasks may run.  What    *)
(* happens under the lock is one step.                                     *)
(*                                                                         *)
(* An attempt is recorded in the code by the Instant at which it was made. *)
(* Here it is the connection itself, and stamp[c] is that Instant.         *)
(* An absent map entry and a default one are the same to every operation,  *)
(* so the counters are total over Peers.                                   *)
(***************************************************************************)
EXTENDS Naturals, Sequences, FiniteSets

CONSTANTS
  Peers,      \* authenticated NodeIds
  Conns,      \* incoming connections, each used once
  PeerOf,     \* the peer behind each connection
  Configs,    \* the RateLimitConfigs a limiter may be created with
  Window,     \* CALLS_PER_MINUTE_WINDOW, in ticks of the clock
  MaxLag,     \* most ticks a task may lie between its clock read and the lock
  MaxClock    \* bound: the clock stops here

RateLimitConfig ==
  [max_concurrent_calls : Nat, max_calls_per_minute : Nat, max_live_frames : Nat]

ASSUME RateLimiterAssumption ==
  /\ IsFiniteSet(Conns)
  /\ PeerOf \in [Conns -> Peers]
  /\ Configs \subseteq RateLimitConfig
  /\ Window \in Nat /\ MaxLag \in Nat /\ MaxClock \in Nat

VARIABLES
  config,     \* the limiter's caps, fixed when it is created
  in_flight,  \* per peer: admitted connections not yet released
  attempts,   \* per peer: admit attempts in the order they took the lock
  clock,      \* monotonic time
  status,     \* where each connection's task stands
  stamp,      \* its Instant::now()
  decided     \* when it held the lock

vars == <<config, in_flight, attempts, clock, status, stamp, decided>>

RateLimitExceeded == {"ConcurrentCalls", "CallsPerMinute", "LiveFrames"}

(* "admitted" holds a permit, "released" holds one whose slot was given    *)
(* back early, "dropped" has dropped it.                                   *)
Status == {"new", "stamped", "admitted", "released", "dropped"} \cup RateLimitExceeded

TypeOK ==
  /\ config \in Configs
  /\ in_flight \in [Peers -> Nat]
  /\ attempts \in [Peers -> Seq(Conns)]
  /\ clock \in 0 .. MaxClock
  /\ status \in [Conns -> Status]
  /\ stamp \in [Conns -> Nat]
  /\ decided \in [Conns -> Nat]

Init ==
  /\ config \in Configs
  /\ in_flight = [p \in Peers |-> 0]
  /\ attempts = [p \in Peers |-> << >>]
  /\ clock = 0
  /\ status = [c \in Conns |-> "new"]
  /\ stamp = [c \in Conns |-> 0]
  /\ decided = [c \in Conns |-> 0]

-----------------------------------------------------------------------------
(* now.saturating_duration_since(t) >= WINDOW: a time ahead of now is      *)
(* never old.                                                              *)
Old(t, now) == t + Window <= now

MutPruneAttempts(q, now) == q  \* mutant: nothing is ever pruned

(* The attempts from the first one that is not old on: those behind it     *)
(* stay, whatever their age.                                               *)
prune_attempts(q, now) ==
  LET kept == {i \in DOMAIN q : ~Old(stamp[q[i]], now)} IN
  IF kept = {} THEN << >>
  ELSE LET first == CHOOSE i \in kept : \A j \in kept : i <= j
       IN  SubSeq(q, first, Len(q))

MutVerdict(count, flying) ==  \* mutant: > for >=
  IF count > config.max_calls_per_minute THEN "CallsPerMinute"
  ELSE IF flying > config.max_concurrent_calls THEN "ConcurrentCalls"
  ELSE IF flying > config.max_live_frames THEN "LiveFrames"
  ELSE "admitted"

(* The caps in the order try_admit_at tests them.                          *)
Verdict(count, flying) ==
  IF count > config.max_calls_per_minute THEN "CallsPerMinute"
  ELSE IF flying >= config.max_concurrent_calls THEN "ConcurrentCalls"
  ELSE IF flying >= config.max_live_frames THEN "LiveFrames"
  ELSE "admitted"

(* saturating_sub                                                          *)
OneLess(n) == IF n > 0 THEN n - 1 ELSE 0

-----------------------------------------------------------------------------
(* try_admit: the clock is read ...                                        *)
ReadClock(c) ==
  /\ status[c] = "new"
  /\ status' = [status EXCEPT ![c] = "stamped"]
  /\ stamp' = [stamp EXCEPT ![c] = clock]
  /\ UNCHANGED <<config, in_flight, attempts, clock, decided>>

MutTryAdmitAt(c) ==  \* mutant: the attempts are counted before this one is added
  LET p       == PeerOf[c]
      past    == prune_attempts(attempts[p], stamp[c])
      verdict == Verdict(Len(past), in_flight[p])
  IN  /\ status[c] = "stamped"
      /\ attempts' = [attempts EXCEPT ![p] = Append(past, c)]
      /\ in_flight' = IF verdict = "admitted"
                        THEN [in_flight EXCEPT ![p] = @ + 1]
                        ELSE in_flight
      /\ status' = [status EXCEPT ![c] = verdict]
      /\ decided' = [decided EXCEPT ![c] = clock]
      /\ UNCHANGED <<config, clock, stamp>>

(* ... and try_admit_at runs with that value under the lock.  The attempt  *)
(* is recorded whatever the verdict.                                       *)
TryAdmitAt(c) ==
  LET p       == PeerOf[c]
      recent  == Append(prune_attempts(attempts[p], stamp[c]), c)
      verdict == Verdict(Len(recent), in_flight[p])
  IN  /\ status[c] = "stamped"
      /\ attempts' = [attempts EXCEPT ![p] = recent]
      /\ in_flight' = IF verdict = "admitted"
                        THEN [in_flight EXCEPT ![p] = @ + 1]
                        ELSE in_flight
      /\ status' = [status EXCEPT ![c] = verdict]
      /\ decided' = [decided EXCEPT ![c] = clock]
      /\ UNCHANGED <<config, clock, stamp>>

MutReleasePermit(c) ==  \* mutant: released is not set
  /\ status[c] = "admitted"
  /\ in_flight' = [in_flight EXCEPT ![PeerOf[c]] = OneLess(@)]
  /\ UNCHANGED <<config, attempts, clock, status, stamp, decided>>

(* RateLimitPermit::release: release_now, with released set.               *)
ReleasePermit(c) ==
  /\ status[c] = "admitted"
  /\ status' = [status EXCEPT ![c] = "released"]
  /\ in_flight' = [in_flight EXCEPT ![PeerOf[c]] = OneLess(@)]
  /\ UNCHANGED <<config, attempts, clock, stamp, decided>>

(* Drop: release_now again, which does nothing when released is set.       *)
DropPermit(c) ==
  /\ status[c] \in {"admitted", "released"}
  /\ status' = [status EXCEPT ![c] = "dropped"]
  /\ in_flight' = IF status[c] = "released"
                    THEN in_flight
                    ELSE [in_flight EXCEPT ![PeerOf[c]] = OneLess(@)]
  /\ UNCHANGED <<config, attempts, clock, stamp, decided>>

(* attempts_in_window: the one reader that prunes.                         *)
AttemptsInWindow(p) ==
  /\ attempts' = [attempts EXCEPT ![p] = prune_attempts(@, clock)]
  /\ UNCHANGED <<config, in_flight, clock, status, stamp, decided>>

(* Time passes, but leaves no task behind for more than MaxLag.            *)
Tick ==
  /\ clock < MaxClock
  /\ \A c \in Conns : status[c] = "stamped" => clock + 1 <= stamp[c] + MaxLag
  /\ clock' = clock + 1
  /\ UNCHANGED <<config, in_flight, attempts, status, stamp, decided>>

Next ==
  \/ \E c \in Conns : ReadClock(c)
  \/ \E c \in Conns : TryAdmitAt(c)
  \/ \E c \in Conns : ReleasePermit(c)
  \/ \E c \in Conns : DropPermit(c)
  \/ \E p \in Peers : AttemptsInWindow(p)
  \/ Tick

Spec == Init /\ [][Next]_vars

-----------------------------------------------------------------------------
Undecided == {"new", "stamped"}
Granted   == {"admitted", "released", "dropped"}

Holding(p)  == {c \in Conns : PeerOf[c] = p /\ status[c] = "admitted"}
Decisions(p) == {c \in Conns : PeerOf[c] = p /\ status[c] \notin Undecided}
Admissions(p, from, to) ==
  {c \in Decisions(p) : status[c] \in Granted /\ from <= decided[c] /\ decided[c] < to}

(* in_flight counts the permits that are out, through rejections, early    *)
(* releases followed by a drop, and drops: no slot leaks and none is given *)
(* back twice ("decrements those counters on drop").                       *)
PermitsCounted == \A p \in Peers : in_flight[p] = Cardinality(Holding(p))

(* No peer ever holds more open calls than either cap allows.              *)
CapsHold ==
  \A p \in Peers : /\ Cardinality(Holding(p)) <= config.max_concurrent_calls
                   /\ Cardinality(Holding(p)) <= config.max_live_frames

(* The calls per minute a peer gets, whatever the order in which its tasks *)
(* reach the lock: the cap holds in every window shorter than Window by    *)
(* the time a task may lie between reading the clock and the lock.         *)
PromptWindowCap ==
  \A p \in Peers, from \in 0 .. MaxClock :
    Cardinality(Admissions(p, from, (from + Window) - MaxLag)) <= config.max_calls_per_minute

(* A peer is refused for its rate only if it did try that often: attempts  *)
(* that stay in the queue behind a later one do not outlive the window by  *)
(* more than the lag.                                                      *)
RefusedForCause ==
  \A c \in Conns : status[c] = "CallsPerMinute" =>
    Cardinality({d \in Decisions(PeerOf[c]) \ {c} :
                   stamp[d] + Window + MaxLag > stamp[c] /\ decided[d] <= decided[c]})
      >= config.max_calls_per_minute

-----------------------------------------------------------------------------
(* What the proofs of these rest on (RateLimiterProofs).                   *)

(* A clock reading is never ahead of the clock and at most MaxLag behind   *)
(* it when its task gets the lock.                                         *)
StampInv ==
  \A c \in Conns :
    /\ status[c] # "new" => stamp[c] <= clock
    /\ status[c] = "stamped" => clock <= stamp[c] + MaxLag
    /\ status[c] \notin Undecided =>
         /\ stamp[c] <= decided[c] /\ decided[c] <= stamp[c] + MaxLag
         /\ decided[c] <= clock

Occurs(x, q) == \E i \in DOMAIN q : q[i] = x

(* No attempt leaves the queue before it is old.                           *)
RecentQueued ==
  \A c \in Conns : status[c] \notin Undecided /\ ~Old(stamp[c], clock) =>
    Occurs(c, attempts[PeerOf[c]])

(* The queue holds attempts of its peer, each once, in lock order.         *)
Ordered(p, q) ==
  \A i \in DOMAIN q :
    /\ q[i] \in Decisions(p)
    /\ \A j \in DOMAIN q : i < j => q[i] # q[j] /\ decided[q[i]] <= decided[q[j]]

QueueOrdered == \A p \in Peers : Ordered(p, attempts[p])

IInv ==
  /\ TypeOK /\ PermitsCounted /\ CapsHold
  /\ StampInv /\ RecentQueued /\ QueueOrdered
  /\ PromptWindowCap /\ RefusedForCause

=============================================================================
