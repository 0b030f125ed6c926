------------------------------ MODULE SpentSet ------------------------------
(***************************************************************************)
(* Authorization of a Submit and the set of spent one-shot tokens:         *)
(* UnverifiedSubmit::verify and MemorySpentSet in uat-policy's lib.rs, as  *)
(* callee_loop in uat-node's call.rs uses them.  Every call is served by a *)
(* task of its own.  The task samples the wall clock, waits for the Submit *)
(* and verifies it with that sample; contains and try_spend take the lock  *)
(* of the set one after the other, and other tasks may run in between.     *)
(*                                                                         *)
(* What the Biscuit library answers to a query is a set of facts of the    *)
(* credential.  Facts may come from blocks added to a token, so            *)
(* credentials of one id need not carry the same facts.                    *)
(*                                                                         *)
(* Times are whole seconds.  The code compares expires facts with the      *)
(* seconds of now and entries with now itself; as an expiry is a whole     *)
(* second, the two comparisons agree.                                      *)
(*                                                                         *)
(* SystemTime is assumed never to step back (the code relies on it without *)
(* saying so): were the clock set back, an entry that was evicted as       *)
(* expired would be missing for a token that is valid again.               *)
(***************************************************************************)
EXTENDS Naturals, FiniteSets

CONSTANTS
  Calls,         \* calls answered by the node, each placed once
  Ids,           \* biscuit ids: prefix of the authority block's revocation id
  Submits,       \* the headers that may arrive, with the peer that sends them
  Allowlist,     \* peers admitted without a token
  HasRoots,      \* whether Biscuit roots are configured
  Self,          \* this node's NodeId
  NoCredential,  \* Submit.credential is None
  Patience,      \* most ticks from the sample to the end of verify
  MaxClock,      \* bound: the clock stops here
  MaxRuns        \* bound on restarts of the node

(* genuine: it decodes and its signature verifies under one of the roots.  *)
Credential(x) ==
  /\ x.id \in Ids
  /\ x.genuine \in BOOLEAN
  /\ x.expires \in SUBSET Nat /\ IsFiniteSet(x.expires)
  /\ x.one_shot \in BOOLEAN

ASSUME SpentSetAssumption ==
  /\ \A s \in Submits : s.credential # NoCredential => Credential(s.credential)
  /\ Patience \in Nat /\ MaxClock \in Nat /\ MaxRuns \in Nat

VARIABLES
  clock,    \* SystemTime
  run,      \* how often the node was restarted
  spent,    \* per id: when its entry expires, Vacant if it has none
  status,   \* where each call's task stands
  submit,   \* the header it is verifying
  now,      \* its sample of the clock
  decided   \* in which run and when it was decided

vars == <<clock, run, spent, status, submit, now, decided>>

(* An expiry that is kept is after some sample of the clock, never 0.      *)
Vacant == 0

Status == {"new", "reading", "unspent", "allowed", "denied", "gone"}

TypeOK ==
  /\ clock \in 0 .. MaxClock
  /\ run \in 0 .. MaxRuns
  /\ spent \in [Ids -> Nat]
  /\ status \in [Calls -> Status]
  /\ submit \in [Calls -> Submits]
  /\ now \in [Calls -> Nat]
  /\ decided \in [Calls -> [run : Nat, at : Nat]]

(* What will arrive on each call is settled here, and read when it does.   *)
Init ==
  /\ clock = 0
  /\ run = 0
  /\ spent = [i \in Ids |-> Vacant]
  /\ status = [c \in Calls |-> "new"]
  /\ submit \in [Calls -> Submits]
  /\ now = [c \in Calls |-> 0]
  /\ decided = [c \in Calls |-> [run |-> 0, at |-> 0]]

-----------------------------------------------------------------------------
MutFactsHold(s, t) ==  \* mutant: one expiry in the future is enough
  LET x == s.credential IN
  /\ HasRoots /\ x.genuine
  /\ x.callee # {} /\ x.callee \subseteq {Self}
  /\ \E e \in x.expires : e > t
  /\ \A n \in x.max_deadline : s.deadline <= n
  /\ x.content_type \subseteq {s.content_type}

(* The required and optional facts; all facts of one name must hold.       *)
FactsHold(s, t) ==
  LET x == s.credential IN
  /\ HasRoots /\ x.genuine
  /\ x.callee # {} /\ x.callee \subseteq {Self}
  /\ x.expires # {} /\ \A e \in x.expires : e > t
  /\ \A n \in x.max_deadline : s.deadline <= n
  /\ x.content_type \subseteq {s.content_type}

(* The earliest expiry, kept with the spent entry.                         *)
Earliest(x) == CHOOSE e \in x.expires : \A f \in x.expires : e <= f

MutEvictExpired(map, t) ==  \* mutant: an entry outlives its second
  [i \in Ids |-> IF map[i] >= t THEN map[i] ELSE Vacant]

evict_expired(map, t) == [i \in Ids |-> IF map[i] > t THEN map[i] ELSE Vacant]

Cred(c) == submit[c].credential
ByToken(c) == submit[c].peer \notin Allowlist
OneShot(c) == ByToken(c) /\ Cred(c) # NoCredential /\ Cred(c).one_shot

(* verify returns: Ok if it is allowed, an AuthError otherwise.            *)
Decide(c, verdict) ==
  /\ status' = [status EXCEPT ![c] = verdict]
  /\ decided' = [decided EXCEPT ![c] = [run |-> run, at |-> clock]]

-----------------------------------------------------------------------------
(* callee_loop starts: now is sampled before the frame is awaited.         *)
BeginRead(c) ==
  /\ status[c] = "new"
  /\ status' = [status EXCEPT ![c] = "reading"]
  /\ now' = [now EXCEPT ![c] = clock]
  /\ UNCHANGED <<clock, run, spent, submit, decided>>

(* No Submit: cancelled, closed, timed out, or not a frame.                *)
NoSubmit(c) ==
  /\ status[c] = "reading"
  /\ status' = [status EXCEPT ![c] = "gone"]
  /\ UNCHANGED <<clock, run, spent, submit, now, decided>>

MutVerifyPlain(c) ==  \* mutant: one_shot is looked at before the other facts
  /\ status[c] = "reading"
  /\ ~(OneShot(c) /\ FactsHold(submit[c], now[c]))
  /\ Decide(c, IF \/ ~ByToken(c)
                  \/ Cred(c) # NoCredential /\ FactsHold(submit[c], now[c])
               THEN "allowed" ELSE "denied")
  /\ spent' = IF OneShot(c) THEN [spent EXCEPT ![Cred(c).id] = Earliest(Cred(c))] ELSE spent
  /\ UNCHANGED <<clock, run, submit, now>>

(* verify without the spent set: the allowlist wins, then the token, then  *)
(* default deny.                                                           *)
VerifyPlain(c) ==
  /\ status[c] = "reading"
  /\ ~(OneShot(c) /\ FactsHold(submit[c], now[c]))
  /\ Decide(c, IF \/ ~ByToken(c)
                  \/ Cred(c) # NoCredential /\ FactsHold(submit[c], now[c])
               THEN "allowed" ELSE "denied")
  /\ UNCHANGED <<clock, run, spent, submit, now>>

(* A one-shot token whose facts hold: contains evicts and looks ...        *)
Contains(c) ==
  LET live == evict_expired(spent, now[c]) IN
  /\ status[c] = "reading"
  /\ OneShot(c) /\ FactsHold(submit[c], now[c])
  /\ spent' = live
  /\ IF live[Cred(c).id] # Vacant
       THEN Decide(c, "denied")
       ELSE /\ status' = [status EXCEPT ![c] = "unspent"]
            /\ UNCHANGED decided
  /\ UNCHANGED <<clock, run, submit, now>>

MutTrySpend(c) ==  \* mutant: the first look is trusted
  /\ status[c] = "unspent"
  /\ spent' = [evict_expired(spent, now[c]) EXCEPT ![Cred(c).id] = Earliest(Cred(c))]
  /\ Decide(c, "allowed")
  /\ UNCHANGED <<clock, run, submit, now>>

(* ... and try_spend evicts and looks again, and inserts.                  *)
TrySpend(c) ==
  LET live == evict_expired(spent, now[c])
      free == live[Cred(c).id] = Vacant
  IN  /\ status[c] = "unspent"
      /\ spent' = IF free THEN [live EXCEPT ![Cred(c).id] = Earliest(Cred(c))] ELSE live
      /\ Decide(c, IF free THEN "allowed" ELSE "denied")
      /\ UNCHANGED <<clock, run, submit, now>>

(* The read times out after the idle timeout, and a task that has read its *)
(* frame does not wait before it has verified it.                          *)
Tick ==
  /\ clock < MaxClock
  /\ \A c \in Calls : status[c] \in {"reading", "unspent"} => clock < now[c] + Patience
  /\ clock' = clock + 1
  /\ UNCHANGED <<run, spent, status, submit, now, decided>>

(* The process is killed and started again: the set is not persisted.      *)
Restart ==
  /\ run < MaxRuns
  /\ run' = run + 1
  /\ spent' = [i \in Ids |-> Vacant]
  /\ status' = [c \in Calls |-> IF status[c] \in {"reading", "unspent"} THEN "gone" ELSE status[c]]
  /\ UNCHANGED <<clock, submit, now, decided>>

Next ==
  \/ \E c \in Calls : BeginRead(c) \/ NoSubmit(c) \/ VerifyPlain(c) \/ Contains(c) \/ TrySpend(c)
  \/ Tick
  \/ Restart

Spec == Init /\ [][Next]_vars

-----------------------------------------------------------------------------
Used(c) == status[c] = "allowed" /\ OneShot(c)
SameToken(c, d) == Cred(c).id = Cred(d).id

(* While the entry of a one-shot token has not expired, its id is accepted *)
(* once: in one run of the node, a use after another one is not before the *)
(* other one's expiry.                                                     *)
OneUseUntilExpiry ==
  \A c, d \in Calls :
    /\ c # d /\ Used(c) /\ Used(d) /\ SameToken(c, d)
    /\ decided[c].run = decided[d].run
    /\ decided[c].at <= decided[d].at
    => \/ decided[d].at >= Earliest(Cred(c))
       \/ decided[c].at = decided[d].at /\ decided[c].at >= Earliest(Cred(d))

(* A refused one-shot token whose facts hold was used by another call in   *)
(* this run, one whose entry had not expired by the sample of the refused  *)
(* call: tasks that race through contains and try_spend never refuse each  *)
(* other both.                                                             *)
RefusalHasWinner ==
  \A d \in Calls :
    status[d] = "denied" /\ OneShot(d) /\ FactsHold(submit[d], now[d]) =>
      \E c \in Calls :
        /\ Used(c) /\ SameToken(c, d)
        /\ decided[c].run = decided[d].run
        /\ now[d] < Earliest(Cred(c))

(* An entry is there because a call used the token in this run: a token    *)
(* that was refused for another fact, or whose call never sent its Submit, *)
(* is not spent.                                                           *)
SpentWasUsed ==
  \A i \in Ids : spent[i] # Vacant =>
    \E c \in Calls :
      /\ Used(c) /\ Cred(c).id = i
      /\ decided[c].run = run
      /\ spent[i] = Earliest(Cred(c))

(* A token is accepted at most Patience after its earliest expiry, the     *)
(* time for which callee_loop may hold its sample of the clock.            *)
ExpiredAcceptedBriefly ==
  \A c \in Calls :
    status[c] = "allowed" /\ ByToken(c) =>
      \A e \in Cred(c).expires : decided[c].at < e + Patience

(* "UAT protects against replay within a running node" (lib.rs): no two    *)
(* calls of one run are let in by the same one-shot credential.            *)
NoReplayInRun ==
  \A c, d \in Calls :
    c # d /\ Used(c) /\ Used(d) /\ Cred(c) = Cred(d) => decided[c].run # decided[d].run

=============================================================================
