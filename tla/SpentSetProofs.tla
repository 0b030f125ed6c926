--------------------------- MODULE SpentSetProofs ---------------------------
(***************************************************************************)
(* Machine-checked safety of SpentSet, for every set of calls, ids and     *)
(* Submits, any allowlist and roots, any number of restarts.               *)
(***************************************************************************)
EXTENDS SpentSet, FiniteSetTheorems, TLAPS

-----------------------------------------------------------------------------
(* The inductive invariant.                                                *)

(* A sample is not ahead of the clock, and not further behind it than      *)
(* Patience while it is in use.                                            *)
SampleInv ==
  \A c \in Calls :
    /\ now[c] <= clock
    /\ status[c] \in {"reading", "unspent"} => clock <= now[c] + Patience

(* A decision was taken with a sample at most Patience old.                *)
DecidedInv ==
  \A c \in Calls : status[c] \in {"allowed", "denied"} =>
    /\ decided[c].run <= run
    /\ decided[c].at <= clock
    /\ decided[c].at <= now[c] + Patience

(* A task between contains and try_spend has a one-shot token whose facts  *)
(* hold; who was allowed by a token had one whose facts held.              *)
FactsInv ==
  \A c \in Calls :
    /\ status[c] = "unspent" => OneShot(c) /\ FactsHold(submit[c], now[c])
    /\ status[c] = "allowed" /\ ByToken(c) =>
         Cred(c) # NoCredential /\ FactsHold(submit[c], now[c])

(* The entry of a used token stays until it expires.                       *)
EntryKept ==
  \A c \in Calls :
    Used(c) /\ decided[c].run = run /\ clock < Earliest(Cred(c)) =>
      spent[Cred(c).id] = Earliest(Cred(c))

IInv ==
  /\ TypeOK
  /\ SampleInv
  /\ DecidedInv
  /\ FactsInv
  /\ EntryKept
  /\ SpentWasUsed
  /\ OneUseUntilExpiry
  /\ RefusalHasWinner

-----------------------------------------------------------------------------
(* Expiries.                                                               *)

(* A nonempty set of naturals has a least element: the intervals from 0 to *)
(* its elements are finite, and strict inclusion is well founded on those. *)
LEMMA LeastNatural ==
  ASSUME NEW T, T \subseteq Nat, T # {}
  PROVE  \E x \in T : \A y \in T : x <= y
<1>. DEFINE upto == {0 .. x : x \in T}
<1>1. upto \subseteq FiniteSubsetsOf(Nat)
  <2>. SUFFICES ASSUME NEW x \in T PROVE 0 .. x \in FiniteSubsetsOf(Nat)
    OBVIOUS
  <2>1. x \in Int /\ 0 .. x \subseteq Nat
    OBVIOUS
  <2>2. IsFiniteSet(0 .. x)
    BY <2>1, FS_Interval
  <2>. QED  BY <2>1, <2>2 DEF FiniteSubsetsOf
<1>2. upto # {}
  OBVIOUS
<1>3. \E X \in upto : \A Y \in upto : <<Y, X>> \notin StrictSubsetOrdering(Nat)
  <2>. HIDE DEF upto
  <2>. QED  BY <1>1, <1>2, FS_StrictSubsetOrderingWellFounded, WFMin
<1>4. PICK x \in T : \A y \in T : <<0 .. y, 0 .. x>> \notin StrictSubsetOrdering(Nat)
  BY <1>3
<1>5. ASSUME NEW y \in T, y < x
      PROVE  FALSE
  <2>1. /\ 0 .. y \subseteq Nat /\ 0 .. x \subseteq Nat
        /\ 0 .. y \subseteq 0 .. x
        /\ x \in 0 .. x /\ x \notin 0 .. y
    BY <1>5
  <2>. QED  BY <1>4, <2>1 DEF StrictSubsetOrdering
<1>. QED  BY <1>4, <1>5

(* A credential whose facts hold has an earliest expiry, after the sample. *)
LEMMA FactsGiveExpiry ==
  ASSUME NEW s \in Submits, NEW t \in Nat,
         s.credential # NoCredential, FactsHold(s, t)
  PROVE  /\ s.credential.id \in Ids
         /\ s.credential.expires \subseteq Nat
         /\ Earliest(s.credential) \in Nat
         /\ Earliest(s.credential) > t
         /\ \A e \in s.credential.expires : e > t
<1>. DEFINE T == s.credential.expires
<1>1. s.credential.id \in Ids /\ T \subseteq Nat
  BY SpentSetAssumption DEF Credential
<1>2. T # {} /\ \A e \in T : e > t
  BY DEF FactsHold
<1>3. \E x \in T : \A y \in T : x <= y
  <2>. HIDE DEF T
  <2>. QED  BY <1>1, <1>2, LeastNatural
<1>4. Earliest(s.credential) \in T
  BY <1>3 DEF Earliest
<1>. QED  BY <1>1, <1>2, <1>4

(* The same for a call that was let in by a one-shot token.                *)
LEMMA UsedExpiry ==
  ASSUME IInv, NEW c \in Calls, Used(c)
  PROVE  /\ Cred(c).id \in Ids
         /\ Earliest(Cred(c)) \in Nat
         /\ Earliest(Cred(c)) > now[c]
<1>1. submit[c] \in Submits /\ now[c] \in Nat
  BY DEF IInv, TypeOK
<1>2. Cred(c) # NoCredential /\ FactsHold(submit[c], now[c])
  BY DEF IInv, FactsInv, Used, OneShot
<1>. QED  BY <1>1, <1>2, FactsGiveExpiry DEF Cred

-----------------------------------------------------------------------------
(* What a step does, whichever it is.                                      *)

Verdicts == {"allowed", "denied"}

(* The step decides the call c, and no other, with the entry it finds.     *)
Decides(c) ==
  /\ status[c] \in {"reading", "unspent"} /\ status'[c] \in Verdicts
  /\ \A d \in Calls \ {c} : status'[d] = status[d] /\ decided'[d] = decided[d]
  /\ decided'[c] = [run |-> run, at |-> clock]
  /\ clock' = clock /\ run' = run /\ now' = now
  /\ status'[c] = "allowed" /\ ByToken(c) =>
       Cred(c) # NoCredential /\ FactsHold(submit[c], now[c])
  /\ status'[c] = "allowed" /\ OneShot(c) =>
       spent[Cred(c).id] <= now[c] /\ spent'[Cred(c).id] = Earliest(Cred(c))
  /\ status'[c] = "denied" /\ OneShot(c) /\ FactsHold(submit[c], now[c]) =>
       spent[Cred(c).id] > now[c]

(* The step leaves every verdict as it is.                                 *)
DecidesNothing ==
  \A c \in Calls :
    /\ status'[c] \in Verdicts <=> status[c] \in Verdicts
    /\ status[c] \in Verdicts =>
         status'[c] = status[c] /\ decided'[c] = decided[c] /\ now'[c] = now[c]

StepShape ==
  /\ submit' = submit
  /\ clock <= clock' /\ run <= run'
  /\ DecidesNothing \/ \E c \in Calls : Decides(c)
  /\ \A i \in Ids : spent'[i] # Vacant =>
       /\ run' = run
       /\ \/ spent'[i] = spent[i]
          \/ \E c \in Calls :
               /\ Decides(c) /\ status'[c] = "allowed" /\ OneShot(c)
               /\ Cred(c).id = i /\ spent'[i] = Earliest(Cred(c))
  /\ \A i \in Ids : run' = run /\ spent[i] > clock => spent'[i] = spent[i]

(* Evicting by a sample drops what has expired by then and nothing else.   *)
LEMMA Eviction ==
  ASSUME NEW t \in Nat, TypeOK
  PROVE  /\ evict_expired(spent, t) \in [Ids -> Nat]
         /\ \A i \in Ids :
              /\ spent[i] > t => evict_expired(spent, t)[i] = spent[i]
              /\ spent[i] <= t => evict_expired(spent, t)[i] = Vacant
              /\ evict_expired(spent, t)[i] # Vacant => spent[i] > t
BY DEF TypeOK, evict_expired, Vacant

-----------------------------------------------------------------------------
(* Every action has that shape, keeps types and keeps samples recent.      *)

LEMMA BeginReadShape ==
  ASSUME IInv, NEW c \in Calls, BeginRead(c)
  PROVE  StepShape /\ TypeOK' /\ SampleInv'
<1>. USE DEF IInv, TypeOK, BeginRead
<1>1. TypeOK'
  BY DEF Status
<1>2. SampleInv'
  BY SpentSetAssumption DEF SampleInv
<1>3. DecidesNothing
  BY DEF DecidesNothing, Verdicts
<1>. QED  BY <1>1, <1>2, <1>3 DEF StepShape

LEMMA NoSubmitShape ==
  ASSUME IInv, NEW c \in Calls, NoSubmit(c)
  PROVE  StepShape /\ TypeOK' /\ SampleInv'
<1>. USE DEF IInv, TypeOK, NoSubmit
<1>1. TypeOK'
  BY DEF Status
<1>2. SampleInv'
  BY SpentSetAssumption DEF SampleInv
<1>3. DecidesNothing
  BY DEF DecidesNothing, Verdicts
<1>. QED  BY <1>1, <1>2, <1>3 DEF StepShape

LEMMA VerifyPlainShape ==
  ASSUME IInv, NEW c \in Calls, VerifyPlain(c)
  PROVE  StepShape /\ TypeOK' /\ SampleInv'
<1>. USE DEF IInv, TypeOK, VerifyPlain, Decide
<1>1. TypeOK'
  BY DEF Status
<1>2. SampleInv'
  BY SpentSetAssumption DEF SampleInv
<1>3. Decides(c)
  BY DEF Decides, Verdicts, OneShot
<1>. QED  BY <1>1, <1>2, <1>3 DEF StepShape

LEMMA ContainsShape ==
  ASSUME IInv, NEW c \in Calls, Contains(c)
  PROVE  StepShape /\ TypeOK' /\ SampleInv'
<1>. DEFINE live == evict_expired(spent, now[c])
<1>0. /\ TypeOK /\ now[c] \in Nat /\ now[c] <= clock /\ clock \in Nat
      /\ submit[c] \in Submits /\ run \in Nat
  BY DEF IInv, TypeOK, SampleInv
<1>1. Cred(c).id \in Ids
  BY <1>0, FactsGiveExpiry DEF Contains, OneShot, Cred
<1>2. /\ live \in [Ids -> Nat]
      /\ \A i \in Ids : /\ spent[i] > now[c] => live[i] = spent[i]
                        /\ spent[i] <= now[c] => live[i] = Vacant
                        /\ live[i] # Vacant => spent[i] > now[c]
  BY <1>0, Eviction
<1>3. spent' = live /\ UNCHANGED <<clock, run, submit, now>>
  BY DEF Contains
<1>. HIDE DEF live
<1>4. TypeOK'
  BY <1>2, <1>3 DEF IInv, TypeOK, Contains, Decide, Status
<1>5. SampleInv'
  BY <1>0 DEF IInv, TypeOK, SampleInv, Contains, Decide
<1>6. DecidesNothing \/ Decides(c)
  <2>1. CASE live[Cred(c).id] # Vacant
    BY <1>0, <1>1, <1>2, <1>3, <2>1 DEF Contains, live, Decide, Decides, Verdicts, IInv, TypeOK
  <2>2. CASE live[Cred(c).id] = Vacant
    BY <1>0, <1>3, <2>2 DEF Contains, live, DecidesNothing, Verdicts, IInv, TypeOK
  <2>. QED  BY <2>1, <2>2
<1>7. \A i \in Ids : /\ spent'[i] # Vacant => spent'[i] = spent[i]
                     /\ spent[i] > clock => spent'[i] = spent[i]
  <2>. SUFFICES ASSUME NEW i \in Ids
                PROVE  /\ live[i] # Vacant => live[i] = spent[i]
                       /\ spent[i] > clock => live[i] = spent[i]
    BY <1>3
  <2>1. spent[i] \in Nat
    BY <1>0 DEF TypeOK
  <2>. QED  BY <1>0, <1>2, <2>1
<1>. QED  BY <1>0, <1>3, <1>4, <1>5, <1>6, <1>7 DEF StepShape

LEMMA TrySpendShape ==
  ASSUME IInv, NEW c \in Calls, TrySpend(c)
  PROVE  StepShape /\ TypeOK' /\ SampleInv'
<1>. DEFINE live == evict_expired(spent, now[c])
            i == Cred(c).id
            free == live[i] = Vacant
<1>0. /\ TypeOK /\ now[c] \in Nat /\ now[c] <= clock /\ clock \in Nat
      /\ submit[c] \in Submits /\ run \in Nat
  BY DEF IInv, TypeOK, SampleInv
<1>1. /\ status[c] = "unspent" /\ OneShot(c) /\ FactsHold(submit[c], now[c])
      /\ Cred(c) # NoCredential
  BY DEF IInv, FactsInv, TrySpend, OneShot
<1>2. i \in Ids /\ Earliest(Cred(c)) \in Nat
  BY <1>0, <1>1, FactsGiveExpiry DEF Cred
<1>3. /\ live \in [Ids -> Nat]
      /\ \A j \in Ids : /\ spent[j] > now[c] => live[j] = spent[j]
                        /\ spent[j] <= now[c] => live[j] = Vacant
                        /\ live[j] # Vacant => spent[j] > now[c]
  BY <1>0, Eviction
<1>4. /\ spent' = IF free THEN [live EXCEPT ![i] = Earliest(Cred(c))] ELSE live
      /\ Decide(c, IF free THEN "allowed" ELSE "denied")
      /\ UNCHANGED <<clock, run, submit, now>>
  BY DEF TrySpend
<1>5. \A j \in Ids : spent[j] \in Nat
  BY <1>0 DEF TypeOK
<1>. HIDE DEF live, i
<1>6. TypeOK'
  BY <1>2, <1>3, <1>4 DEF IInv, TypeOK, Decide, Status
<1>7. SampleInv'
  BY <1>0, <1>4 DEF IInv, TypeOK, SampleInv, Decide
<1>8. free => spent[i] <= now[c] /\ spent'[i] = Earliest(Cred(c))
  BY <1>0, <1>2, <1>3, <1>4, <1>5 DEF Vacant
<1>9. Decides(c)
  <2>1. /\ \A d \in Calls \ {c} : status'[d] = status[d] /\ decided'[d] = decided[d]
        /\ decided'[c] = [run |-> run, at |-> clock]
        /\ status'[c] = IF free THEN "allowed" ELSE "denied"
    BY <1>4 DEF IInv, TypeOK, Decide
  <2>. QED  BY <1>1, <1>2, <1>3, <1>4, <1>8, <2>1 DEF Decides, Verdicts, i
<1>10. \A j \in Ids : spent'[j] # Vacant =>
         \/ spent'[j] = spent[j]
         \/ free /\ j = i /\ spent'[j] = Earliest(Cred(c))
  BY <1>2, <1>3, <1>4, <1>5
<1>11. \A j \in Ids : spent[j] > clock => spent'[j] = spent[j]
  <2>. SUFFICES ASSUME NEW j \in Ids, spent[j] > clock
                PROVE  spent'[j] = spent[j]
    OBVIOUS
  <2>1. spent[j] > now[c] /\ spent[j] # 0
    BY <1>0, <1>5
  <2>2. live[j] = spent[j]
    BY <1>3, <2>1
  <2>3. ~(free /\ j = i)
    BY <2>1, <2>2 DEF Vacant
  <2>. QED  BY <1>3, <1>4, <2>2, <2>3
<1>12. free => status'[c] = "allowed"
  BY <1>4 DEF Decide, IInv, TypeOK
<1>. QED  BY <1>0, <1>1, <1>4, <1>6, <1>7, <1>9, <1>10, <1>11, <1>12 DEF StepShape, i

LEMMA TickShape ==
  ASSUME IInv, Tick
  PROVE  StepShape /\ TypeOK' /\ SampleInv'
<1>. USE DEF IInv, TypeOK, Tick
<1>1. TypeOK'
  BY SpentSetAssumption
<1>2. SampleInv'
  BY SpentSetAssumption DEF SampleInv
<1>3. DecidesNothing
  BY DEF DecidesNothing
<1>. QED  BY <1>1, <1>2, <1>3 DEF StepShape

LEMMA RestartShape ==
  ASSUME IInv, Restart
  PROVE  StepShape /\ TypeOK' /\ SampleInv'
<1>. USE DEF IInv, TypeOK, Restart
<1>1. TypeOK'
  BY SpentSetAssumption DEF Status, Vacant
<1>2. SampleInv'
  BY SpentSetAssumption DEF SampleInv
<1>3. DecidesNothing
  BY DEF DecidesNothing, Verdicts
<1>. QED  BY <1>1, <1>2, <1>3 DEF StepShape

LEMMA EveryStep ==
  ASSUME IInv, [Next]_vars
  PROVE  StepShape /\ TypeOK' /\ SampleInv'
<1>1. CASE UNCHANGED vars
  <2>. USE <1>1 DEF vars, IInv
  <2>1. TypeOK' /\ SampleInv'
    BY DEF TypeOK, SampleInv
  <2>2. DecidesNothing
    BY DEF DecidesNothing
  <2>. QED  BY <2>1, <2>2 DEF StepShape, TypeOK
<1>2. CASE Next
  BY <1>2, BeginReadShape, NoSubmitShape, VerifyPlainShape, ContainsShape, TrySpendShape,
     TickShape, RestartShape DEF Next
<1>. QED  BY <1>1, <1>2

-----------------------------------------------------------------------------
(* The other conjuncts of the invariant follow from the shape of a step.   *)

(* What the reader of a later lemma needs of a used token: it was used     *)
(* before the step, or the step decided it.                                *)
LEMMA UsedNext ==
  ASSUME IInv, StepShape, TypeOK', NEW c \in Calls
  PROVE  /\ ByToken(c)' = ByToken(c) /\ OneShot(c)' = OneShot(c)
         /\ Cred(c)' = Cred(c)
         /\ Earliest(Cred(c))' = Earliest(Cred(c))
         /\ Used(c) => Used(c)' /\ decided'[c] = decided[c] /\ now'[c] = now[c]
         /\ Used(c)' => Used(c) \/ (Decides(c) /\ status'[c] = "allowed" /\ OneShot(c))
<1>1. submit' = submit
  BY DEF StepShape
<1>2. /\ ByToken(c)' = ByToken(c) /\ OneShot(c)' = OneShot(c) /\ Cred(c)' = Cred(c)
  BY <1>1 DEF ByToken, OneShot, Cred
<1>3. CASE DecidesNothing
  BY <1>2, <1>3 DEF DecidesNothing, Verdicts, Used
<1>4. CASE \E d \in Calls : Decides(d)
  BY <1>2, <1>4 DEF Decides, Verdicts, Used
<1>. QED  BY <1>2, <1>3, <1>4 DEF StepShape, Earliest

LEMMA DecidedKept ==
  ASSUME IInv, StepShape, TypeOK', SampleInv'
  PROVE  DecidedInv'
<1>. SUFFICES ASSUME NEW c \in Calls, status'[c] \in Verdicts
              PROVE  /\ decided'[c].run <= run'
                     /\ decided'[c].at <= clock'
                     /\ decided'[c].at <= now'[c] + Patience
  BY DEF DecidedInv, Verdicts
<1>0. /\ clock \in Nat /\ clock' \in Nat /\ run \in Nat /\ run' \in Nat
      /\ clock <= clock' /\ run <= run'
  BY DEF IInv, TypeOK, StepShape
<1>1. CASE status[c] \in Verdicts
  <2>1. decided'[c] = decided[c] /\ now'[c] = now[c]
    BY <1>1 DEF StepShape, DecidesNothing, Decides, Verdicts
  <2>2. decided[c].run \in Nat /\ decided[c].at \in Nat
    BY DEF IInv, TypeOK
  <2>. QED  BY <1>0, <1>1, <2>1, <2>2 DEF IInv, DecidedInv, Verdicts
<1>2. CASE status[c] \notin Verdicts
  <2>1. Decides(c)
    BY <1>2 DEF StepShape, DecidesNothing, Decides
  <2>. QED  BY <1>0, <2>1 DEF Decides, IInv, SampleInv
<1>. QED  BY <1>1, <1>2

LEMMA EntryStaysKept ==
  ASSUME IInv, StepShape, TypeOK'
  PROVE  EntryKept'
<1>. SUFFICES ASSUME NEW c \in Calls, Used(c)', decided'[c].run = run',
                     clock' < Earliest(Cred(c))
              PROVE  spent'[Cred(c).id] = Earliest(Cred(c))
  BY UsedNext DEF EntryKept
<1>0. /\ clock \in Nat /\ clock' \in Nat /\ run \in Nat /\ run' \in Nat
      /\ clock <= clock' /\ run <= run'
  BY DEF IInv, TypeOK, StepShape
<1>1. CASE Used(c)
  <2>1. decided'[c] = decided[c] /\ decided[c].run \in Nat /\ decided[c].run <= run
    BY <1>1, UsedNext DEF IInv, TypeOK, DecidedInv, Used
  <2>2. run' = run
    BY <1>0, <2>1
  <2>3. Cred(c).id \in Ids /\ Earliest(Cred(c)) \in Nat
    BY <1>1, UsedExpiry
  <2>4. spent[Cred(c).id] = Earliest(Cred(c)) /\ spent[Cred(c).id] > clock
    BY <1>0, <1>1, <2>1, <2>2, <2>3 DEF IInv, EntryKept
  <2>. QED  BY <2>2, <2>3, <2>4 DEF StepShape
<1>2. CASE Decides(c) /\ status'[c] = "allowed" /\ OneShot(c)
  BY <1>2 DEF Decides
<1>. QED  BY <1>1, <1>2, UsedNext

LEMMA SpentStaysUsed ==
  ASSUME IInv, StepShape, TypeOK'
  PROVE  SpentWasUsed'
<1>. SUFFICES ASSUME NEW i \in Ids, spent'[i] # Vacant
              PROVE  \E c \in Calls : /\ Used(c)' /\ Cred(c).id = i
                                      /\ decided'[c].run = run'
                                      /\ spent'[i] = Earliest(Cred(c))
  BY UsedNext DEF SpentWasUsed
<1>1. run' = run
  BY DEF StepShape
<1>2. CASE spent'[i] = spent[i]
  <2>1. PICK c \in Calls : /\ Used(c) /\ Cred(c).id = i /\ decided[c].run = run
                           /\ spent[i] = Earliest(Cred(c))
    BY <1>2 DEF IInv, SpentWasUsed
  <2>. QED  BY <1>1, <1>2, <2>1, UsedNext
<1>3. ASSUME NEW c \in Calls, Decides(c), status'[c] = "allowed", OneShot(c),
             Cred(c).id = i, spent'[i] = Earliest(Cred(c))
      PROVE  /\ Used(c)' /\ decided'[c].run = run'
  <2>1. Used(c)'
    BY <1>3, UsedNext DEF Used
  <2>. QED  BY <1>1, <1>3, <2>1 DEF Decides
<1>. QED  BY <1>2, <1>3 DEF StepShape

(* A call that is let in finds no entry that has not expired by its sample,*)
(* so every earlier use in this run has expired by the clock.              *)
LEMMA OneUseKept ==
  ASSUME IInv, StepShape, TypeOK', DecidedInv'
  PROVE  OneUseUntilExpiry'
<1>0. /\ clock \in Nat /\ run \in Nat
      /\ \A c \in Calls : now[c] \in Nat /\ now[c] <= clock
  BY DEF IInv, TypeOK, SampleInv
<1>1. ASSUME NEW d \in Calls, Decides(d), status'[d] = "allowed", OneShot(d),
             NEW c \in Calls, c # d, Used(c), SameToken(c, d), decided[c].run = run
      PROVE  clock >= Earliest(Cred(c))
  <2>1. spent[Cred(d).id] <= now[d]
    BY <1>1 DEF Decides
  <2>2. Earliest(Cred(c)) \in Nat
    BY <1>1, UsedExpiry
  <2>3. clock < Earliest(Cred(c)) => spent[Cred(d).id] = Earliest(Cred(c))
    BY <1>1 DEF IInv, EntryKept, SameToken
  <2>. QED  BY <1>0, <2>1, <2>2, <2>3
<1>. SUFFICES ASSUME NEW c \in Calls, NEW d \in Calls, c # d, Used(c)', Used(d)',
                     SameToken(c, d), decided'[c].run = decided'[d].run,
                     decided'[c].at <= decided'[d].at
              PROVE  \/ decided'[d].at >= Earliest(Cred(c))
                     \/ decided'[c].at = decided'[d].at /\ decided'[c].at >= Earliest(Cred(d))
  BY UsedNext DEF OneUseUntilExpiry, SameToken
<1>2. CASE Used(c) /\ Used(d)
  <2>1. decided'[c] = decided[c] /\ decided'[d] = decided[d]
    BY <1>2, UsedNext
  <2>. QED  BY <1>2, <2>1 DEF IInv, OneUseUntilExpiry
<1>3. CASE Used(c) /\ ~Used(d)
  <2>1. Decides(d) /\ status'[d] = "allowed" /\ OneShot(d)
    BY <1>3, UsedNext
  <2>2. decided'[d] = [run |-> run, at |-> clock] /\ decided'[c] = decided[c]
    BY <1>3, <2>1, UsedNext DEF Decides
  <2>. QED  BY <1>1, <1>3, <2>1, <2>2
<1>4. CASE ~Used(c) /\ Used(d)
  <2>1. Decides(c) /\ status'[c] = "allowed" /\ OneShot(c)
    BY <1>4, UsedNext
  <2>2. /\ decided'[c] = [run |-> run, at |-> clock] /\ decided'[d] = decided[d]
        /\ decided[d].at \in Nat /\ decided[d].at <= clock
    BY <1>4, <2>1, UsedNext DEF Decides, IInv, TypeOK, DecidedInv, Used
  <2>3. decided[d].at = clock
    BY <1>0, <2>2
  <2>4. clock >= Earliest(Cred(d))
    BY <1>1, <1>4, <2>1, <2>2 DEF SameToken
  <2>. QED  BY <2>2, <2>3, <2>4
<1>5. CASE ~Used(c) /\ ~Used(d)
  BY <1>5, UsedNext DEF Decides, Used
<1>. QED  BY <1>2, <1>3, <1>4, <1>5

(* A call is refused by an entry, and entries come from uses.              *)
LEMMA RefusalKept ==
  ASSUME IInv, StepShape, TypeOK'
  PROVE  RefusalHasWinner'
<1>0. \A c \in Calls : submit[c] \in Submits /\ now[c] \in Nat
  BY DEF IInv, TypeOK
<1>. SUFFICES ASSUME NEW d \in Calls, status'[d] = "denied", OneShot(d),
                     FactsHold(submit[d], now'[d])
              PROVE  \E c \in Calls : /\ Used(c)' /\ SameToken(c, d)
                                      /\ decided'[c].run = decided'[d].run
                                      /\ now'[d] < Earliest(Cred(c))
  <2>1. submit' = submit
    BY DEF StepShape
  <2>. QED  BY <2>1, UsedNext DEF RefusalHasWinner, SameToken
<1>1. CASE status[d] \in Verdicts
  <2>1. status[d] = "denied" /\ decided'[d] = decided[d] /\ now'[d] = now[d]
    BY <1>1 DEF StepShape, DecidesNothing, Decides, Verdicts
  <2>2. PICK c \in Calls : /\ Used(c) /\ SameToken(c, d)
                           /\ decided[c].run = decided[d].run
                           /\ now[d] < Earliest(Cred(c))
    BY <2>1 DEF IInv, RefusalHasWinner
  <2>. QED  BY <2>1, <2>2, UsedNext
<1>2. CASE status[d] \notin Verdicts
  <2>1. Decides(d)
    BY <1>2 DEF StepShape, DecidesNothing, Decides, Verdicts
  <2>2. /\ now' = now /\ run' = run /\ decided'[d].run = run
        /\ spent[Cred(d).id] > now[d]
    BY <2>1 DEF Decides
  <2>3. Cred(d).id \in Ids
    BY <1>0, <2>2, FactsGiveExpiry DEF OneShot, Cred
  <2>4. spent[Cred(d).id] # Vacant
    BY <1>0, <2>2 DEF Vacant
  <2>5. PICK c \in Calls : /\ Used(c) /\ Cred(c).id = Cred(d).id /\ decided[c].run = run
                           /\ spent[Cred(d).id] = Earliest(Cred(c))
    BY <2>3, <2>4 DEF IInv, SpentWasUsed
  <2>6. Earliest(Cred(c)) \in Nat
    BY <2>5, UsedExpiry
  <2>. QED  BY <1>0, <2>2, <2>5, <2>6, UsedNext DEF SameToken
<1>. QED  BY <1>1, <1>2

LEMMA FactsKept ==
  ASSUME IInv, [Next]_vars, StepShape, TypeOK'
  PROVE  FactsInv'
<1>. SUFFICES ASSUME NEW c \in Calls
              PROVE  /\ status'[c] = "unspent" => OneShot(c) /\ FactsHold(submit[c], now'[c])
                     /\ status'[c] = "allowed" /\ ByToken(c) =>
                          Cred(c) # NoCredential /\ FactsHold(submit[c], now'[c])
  <2>1. submit' = submit
    BY DEF StepShape
  <2>. QED  BY <2>1, UsedNext DEF FactsInv
<1>1. ASSUME status'[c] = "unspent"
      PROVE  OneShot(c) /\ FactsHold(submit[c], now'[c])
  <2>1. CASE \E d \in Calls : Contains(d)
    BY <1>1, <2>1 DEF Contains, Decide, IInv, TypeOK, FactsInv
  <2>2. CASE ~\E d \in Calls : Contains(d)
    <3>1. status[c] = "unspent" /\ now'[c] = now[c]
      BY <1>1, <2>2 DEF Next, BeginRead, NoSubmit, VerifyPlain, TrySpend, Tick, Restart, Decide,
         vars, IInv, TypeOK
    <3>. QED  BY <3>1 DEF IInv, FactsInv
  <2>. QED  BY <2>1, <2>2
<1>2. ASSUME status'[c] = "allowed", ByToken(c)
      PROVE  Cred(c) # NoCredential /\ FactsHold(submit[c], now'[c])
  <2>1. CASE status[c] \in Verdicts
    <3>1. status[c] = "allowed" /\ now'[c] = now[c]
      BY <1>2, <2>1 DEF StepShape, DecidesNothing, Decides, Verdicts
    <3>. QED  BY <1>2, <3>1 DEF IInv, FactsInv
  <2>2. CASE status[c] \notin Verdicts
    <3>1. Decides(c)
      BY <1>2, <2>2 DEF StepShape, DecidesNothing, Decides, Verdicts
    <3>. QED  BY <1>2, <3>1 DEF Decides
  <2>. QED  BY <2>1, <2>2
<1>. QED  BY <1>1, <1>2

-----------------------------------------------------------------------------
(* The theorems.                                                           *)

LEMMA InitInv == Init => IInv
<1>. SUFFICES ASSUME Init PROVE IInv
  OBVIOUS
<1>. USE SpentSetAssumption DEF Init
<1>1. TypeOK
  BY DEF TypeOK, Status, Vacant
<1>2. SampleInv /\ DecidedInv /\ FactsInv
  BY DEF SampleInv, DecidedInv, FactsInv
<1>3. EntryKept /\ SpentWasUsed /\ OneUseUntilExpiry /\ RefusalHasWinner
  BY DEF EntryKept, SpentWasUsed, OneUseUntilExpiry, RefusalHasWinner, Used
<1>. QED  BY <1>1, <1>2, <1>3 DEF IInv

LEMMA Invariance == Spec => []IInv
<1>1. IInv /\ [Next]_vars => IInv'
  <2>. SUFFICES ASSUME IInv, [Next]_vars PROVE IInv'
    OBVIOUS
  <2>1. StepShape /\ TypeOK' /\ SampleInv'
    BY EveryStep
  <2>2. DecidedInv' /\ FactsInv'
    BY <2>1, DecidedKept, FactsKept
  <2>3. EntryKept' /\ SpentWasUsed' /\ OneUseUntilExpiry' /\ RefusalHasWinner'
    BY <2>1, <2>2, EntryStaysKept, SpentStaysUsed, OneUseKept, RefusalKept
  <2>. QED  BY <2>1, <2>2, <2>3 DEF IInv
<1>. QED  BY InitInv, <1>1, PTL DEF Spec

(* The set, the samples and the verdicts keep their types.                 *)
THEOREM TypeCorrect == Spec => []TypeOK
<1>1. IInv => TypeOK
  BY DEF IInv
<1>. QED  BY Invariance, <1>1, PTL

(* Between two uses of one one-shot token in a run of the node, the entry  *)
(* try_spend made for the first has expired.                               *)
THEOREM OneShotUsedOnce == Spec => []OneUseUntilExpiry
<1>1. IInv => OneUseUntilExpiry
  BY DEF IInv
<1>. QED  BY Invariance, <1>1, PTL

(* contains and try_spend refuse a good one-shot token only because of a   *)
(* call that used it.                                                      *)
THEOREM RefusalsHaveWinners == Spec => []RefusalHasWinner
<1>1. IInv => RefusalHasWinner
  BY DEF IInv
<1>. QED  BY Invariance, <1>1, PTL

(* verify spends a token only for a call it lets in.                       *)
THEOREM OnlyUsedIsSpent == Spec => []SpentWasUsed
<1>1. IInv => SpentWasUsed
  BY DEF IInv
<1>. QED  BY Invariance, <1>1, PTL

(* The stale sample of callee_loop lets an expired token in for as long as *)
(* the sample is kept, no longer.                                          *)
THEOREM ExpiryHonored == Spec => []ExpiredAcceptedBriefly
<1>1. IInv => ExpiredAcceptedBriefly
  <2>. SUFFICES ASSUME IInv, NEW c \in Calls, status[c] = "allowed", ByToken(c),
                       NEW e \in Cred(c).expires
                PROVE  decided[c].at < e + Patience
    BY DEF ExpiredAcceptedBriefly
  <2>1. /\ submit[c] \in Submits /\ now[c] \in Nat /\ decided[c].at \in Nat
        /\ decided[c].at <= now[c] + Patience /\ Patience \in Nat
    BY SpentSetAssumption DEF IInv, TypeOK, DecidedInv
  <2>2. Cred(c) # NoCredential /\ FactsHold(submit[c], now[c])
    BY DEF IInv, FactsInv
  <2>3. e \in Nat /\ e > now[c]
    BY <2>1, <2>2, FactsGiveExpiry DEF Cred
  <2>. QED  BY <2>1, <2>3
<1>. QED  BY Invariance, <1>1, PTL

=============================================================================
