------------------------- MODULE RateLimiterProofs -------------------------
(***************************************************************************)
(* Machine-checked safety of RateLimiter, for every set of peers and       *)
(* connections, every configuration, window and lag.                       *)
(***************************************************************************)
EXTENDS RateLimiter, FiniteSetTheorems, FunctionTheorems, SequenceTheorems, TLAPS

-----------------------------------------------------------------------------
(* Sets and sequences.                                                     *)

(* The least element of a bounded set of naturals: the least interval from *)
(* 1 to an element exists, since strict inclusion is well founded.         *)
LEMMA LeastIndex ==
  ASSUME NEW n \in Nat, NEW T, T \subseteq 1 .. n, T # {}
  PROVE  \E x \in T : \A y \in T : x <= y
<1>. DEFINE upto == {1 .. x : x \in T}
<1>1. upto \subseteq FiniteSubsetsOf(1 .. n)
  <2>. SUFFICES ASSUME NEW x \in T PROVE 1 .. x \in FiniteSubsetsOf(1 .. n)
    OBVIOUS
  <2>1. x \in Int /\ 1 .. x \subseteq 1 .. n
    OBVIOUS
  <2>2. IsFiniteSet(1 .. x)
    BY <2>1, FS_Interval
  <2>. QED  BY <2>1, <2>2 DEF FiniteSubsetsOf
<1>2. upto # {}
  OBVIOUS
<1>3. \E X \in upto : \A Y \in upto : <<Y, X>> \notin StrictSubsetOrdering(1 .. n)
  <2>. HIDE DEF upto
  <2>. QED  BY <1>1, <1>2, FS_StrictSubsetOrderingWellFounded, WFMin
<1>4. PICK x \in T : \A y \in T : <<1 .. y, 1 .. x>> \notin StrictSubsetOrdering(1 .. n)
  BY <1>3
<1>5. ASSUME NEW y \in T, y < x
      PROVE  FALSE
  <2>1. /\ 1 .. y \subseteq 1 .. n /\ 1 .. x \subseteq 1 .. n
        /\ 1 .. y \subseteq 1 .. x
        /\ x \in 1 .. x /\ x \notin 1 .. y
    BY <1>5
  <2>. QED  BY <1>4, <2>1 DEF StrictSubsetOrdering
<1>. QED  BY <1>4, <1>5

(* A set whose elements all occur in a sequence is no larger than it.      *)
LEMMA OccurringBound ==
  ASSUME NEW S, NEW q \in Seq(S), NEW T,
         \A x \in T : Occurs(x, q)
  PROVE  IsFiniteSet(T) /\ Cardinality(T) <= Len(q) /\ Cardinality(T) \in Nat
<1>1. Len(q) \in Nat /\ DOMAIN q = 1 .. Len(q)
  OBVIOUS
<1>2. CASE T = {}
  BY <1>1, <1>2, FS_EmptySet
<1>3. CASE T # {}
  <2>. DEFINE f == [i \in 1 .. Len(q) |-> IF q[i] \in T THEN q[i] ELSE CHOOSE x \in T : TRUE]
  <2>1. f \in [1 .. Len(q) -> T]
    BY <1>3
  <2>2. \A x \in T : \E i \in 1 .. Len(q) : f[i] = x
    BY <1>1 DEF Occurs
  <2>3. f \in Surjection(1 .. Len(q), T)
    <3>. HIDE DEF f
    <3>. QED  BY <2>1, <2>2, Fun_IsSurj
  <2>4. Cardinality(T) <= Len(q)
    BY <1>1, <2>3, FS_SurjCardinalityBound DEF ExistsSurjection
  <2>5. IsFiniteSet(1 .. Len(q))
    BY <1>1, FS_Interval
  <2>6. IsFiniteSet(T)
    <3>. HIDE DEF f
    <3>. QED  BY <2>3, <2>5, FS_Surjection
  <2>. QED  BY <2>4, <2>6, FS_CardinalityType
<1>. QED  BY <1>2, <1>3

(* Pruning keeps every attempt that is still in the window.                *)
LEMMA PruneKeeps ==
  ASSUME NEW S, NEW q \in Seq(S), NEW now
  PROVE  /\ prune_attempts(q, now) \in Seq(S)
         /\ \A x : Occurs(x, q) /\ ~Old(stamp[x], now) => Occurs(x, prune_attempts(q, now))
<1>. DEFINE kept == {i \in DOMAIN q : ~Old(stamp[q[i]], now)}
            first == CHOOSE i \in kept : \A j \in kept : i <= j
<1>1. Len(q) \in Nat /\ DOMAIN q = 1 .. Len(q) /\ \A i \in 1 .. Len(q) : q[i] \in S
  OBVIOUS
<1>2. CASE kept = {}
  <2>1. prune_attempts(q, now) = << >>
    BY <1>2 DEF prune_attempts
  <2>. QED  BY <1>2, <2>1 DEF Occurs
<1>3. CASE kept # {}
  <2>1. kept \subseteq 1 .. Len(q)
    BY <1>1
  <2>2. \E x \in kept : \A y \in kept : x <= y
    <3>. HIDE DEF kept
    <3>. QED  BY <1>1, <1>3, <2>1, LeastIndex
  <2>3. first \in kept /\ \A j \in kept : first <= j
    <3>. HIDE DEF kept
    <3>. QED  BY <2>2
  <2>4. first \in 1 .. Len(q)
    BY <2>1, <2>3
  <2>5. prune_attempts(q, now) = SubSeq(q, first, Len(q))
    BY <1>3 DEF prune_attempts
  <2>. HIDE DEF first
  <2>6. /\ SubSeq(q, first, Len(q)) \in Seq(S)
        /\ Len(SubSeq(q, first, Len(q))) = Len(q) - first + 1
        /\ \A i \in 1 .. Len(q) - first + 1 : SubSeq(q, first, Len(q))[i] = q[first + i - 1]
    <3>1. \A i \in first .. Len(q) : q[i] \in S
      BY <1>1, <2>4
    <3>. QED  BY <1>1, <2>4, <3>1, SubSeqProperties
  <2>7. ASSUME NEW i \in kept
        PROVE  \E j \in DOMAIN SubSeq(q, first, Len(q)) : SubSeq(q, first, Len(q))[j] = q[i]
    <3>. DEFINE j == i - first + 1
    <3>1. i \in 1 .. Len(q) /\ first <= i
      BY <2>1, <2>3, <2>7
    <3>2. j \in 1 .. Len(q) - first + 1 /\ first + j - 1 = i
      BY <1>1, <2>4, <3>1
    <3>. QED  BY <1>1, <2>6, <3>2
  <2>. QED  BY <2>5, <2>6, <2>7 DEF Occurs
<1>. QED  BY <1>2, <1>3

(* What pruning returns is a suffix that starts with a recent attempt.     *)
LEMMA PruneIsSuffix ==
  ASSUME NEW S, NEW q \in Seq(S), NEW now
  PROVE  /\ prune_attempts(q, now) # << >> => ~Old(stamp[prune_attempts(q, now)[1]], now)
         /\ \E k \in Nat : \A i \in DOMAIN prune_attempts(q, now) :
              i + k \in DOMAIN q /\ prune_attempts(q, now)[i] = q[i + k]
<1>. DEFINE kept == {i \in DOMAIN q : ~Old(stamp[q[i]], now)}
            first == CHOOSE i \in kept : \A j \in kept : i <= j
<1>1. Len(q) \in Nat /\ DOMAIN q = 1 .. Len(q) /\ \A i \in 1 .. Len(q) : q[i] \in S
  OBVIOUS
<1>2. CASE kept = {}
  <2>1. prune_attempts(q, now) = << >>
    BY <1>2 DEF prune_attempts
  <2>. QED  BY <2>1
<1>3. CASE kept # {}
  <2>1. kept \subseteq 1 .. Len(q)
    BY <1>1
  <2>2. \E x \in kept : \A y \in kept : x <= y
    <3>. HIDE DEF kept
    <3>. QED  BY <1>1, <1>3, <2>1, LeastIndex
  <2>3. first \in kept
    <3>. HIDE DEF kept
    <3>. QED  BY <2>2
  <2>4. first \in 1 .. Len(q) /\ ~Old(stamp[q[first]], now)
    BY <2>1, <2>3
  <2>5. prune_attempts(q, now) = SubSeq(q, first, Len(q))
    BY <1>3 DEF prune_attempts
  <2>. HIDE DEF first
  <2>6. \A i \in first .. Len(q) : q[i] \in S
    BY <1>1, <2>4
  <2>7. /\ SubSeq(q, first, Len(q)) \in Seq(S)
        /\ Len(SubSeq(q, first, Len(q))) = Len(q) - first + 1
        /\ \A i \in 1 .. Len(q) - first + 1 : SubSeq(q, first, Len(q))[i] = q[first + i - 1]
    BY <1>1, <2>4, <2>6, SubSeqProperties
  <2>. DEFINE r == SubSeq(q, first, Len(q))
              k == first - 1
  <2>. HIDE DEF r
  <2>8. k \in Nat /\ DOMAIN r = 1 .. Len(q) - first + 1
    BY <2>4, <2>7 DEF r
  <2>9. \A i \in DOMAIN r : i + k \in DOMAIN q /\ r[i] = q[i + k]
    <3>. TAKE i \in DOMAIN r
    <3>1. i \in 1 .. Len(q) - first + 1 /\ first + i - 1 = i + k /\ i + k \in 1 .. Len(q)
      BY <1>1, <2>4, <2>8
    <3>. QED  BY <1>1, <2>7, <3>1 DEF r
  <2>10. r[1] = q[first]
    <3>1. 1 \in 1 .. Len(q) - first + 1 /\ first + 1 - 1 = first
      BY <1>1, <2>4
    <3>. QED  BY <2>7, <3>1 DEF r
  <2>. QED  BY <2>4, <2>5, <2>8, <2>9, <2>10 DEF r
<1>. QED  BY <1>2, <1>3

-----------------------------------------------------------------------------
(* Each part of the invariant is kept by every step.                       *)

(* What an attempt adds to the queue of its peer.                          *)
LEMMA Recorded ==
  ASSUME TypeOK, NEW c \in Conns, TryAdmitAt(c)
  PROVE  LET p      == PeerOf[c]
             pruned == prune_attempts(attempts[p], stamp[c])
             recent == Append(pruned, c)
         IN  /\ p \in Peers
             /\ pruned \in Seq(Conns) /\ Len(pruned) \in Nat
             /\ recent \in Seq(Conns)
             /\ Len(recent) = Len(pruned) + 1
             /\ \A i \in 1 .. Len(pruned) : recent[i] = pruned[i]
             /\ recent[Len(pruned) + 1] = c
             /\ attempts'[p] = recent
             /\ \A r \in Peers \ {p} : attempts'[r] = attempts[r]
             /\ \A x : Occurs(x, attempts[p]) /\ ~Old(stamp[x], stamp[c]) => Occurs(x, recent)
             /\ Occurs(c, recent)
<1>. DEFINE p      == PeerOf[c]
            pruned == prune_attempts(attempts[p], stamp[c])
            recent == Append(pruned, c)
<1>1. p \in Peers /\ attempts[p] \in Seq(Conns)
  BY RateLimiterAssumption DEF TypeOK
<1>2. /\ pruned \in Seq(Conns)
      /\ \A x : Occurs(x, attempts[p]) /\ ~Old(stamp[x], stamp[c]) => Occurs(x, pruned)
  BY <1>1, PruneKeeps
<1>3. attempts' = [attempts EXCEPT ![p] = recent]
  BY DEF TryAdmitAt
<1>. HIDE DEF pruned
<1>4. /\ Len(pruned) \in Nat /\ DOMAIN pruned = 1 .. Len(pruned)
      /\ recent \in Seq(Conns)
      /\ Len(recent) = Len(pruned) + 1 /\ DOMAIN recent = 1 .. Len(pruned) + 1
      /\ \A i \in 1 .. Len(pruned) : recent[i] = pruned[i]
      /\ recent[Len(pruned) + 1] = c
  BY <1>2, AppendProperties
<1>. HIDE DEF recent
<1>5. attempts'[p] = recent /\ \A r \in Peers \ {p} : attempts'[r] = attempts[r]
  BY <1>1, <1>3 DEF TypeOK
<1>6. Occurs(c, recent) /\ \A x : Occurs(x, pruned) => Occurs(x, recent)
  BY <1>4 DEF Occurs
<1>. QED  BY <1>1, <1>2, <1>4, <1>5, <1>6 DEF pruned, recent

(* The verdict is the status the connection gets.                          *)
LEMMA VerdictFacts ==
  ASSUME NEW count, NEW flying
  PROVE  /\ Verdict(count, flying) \in RateLimitExceeded \cup {"admitted"}
         /\ Verdict(count, flying) = "admitted" =>
              /\ ~(count > config.max_calls_per_minute)
              /\ ~(flying >= config.max_concurrent_calls)
              /\ ~(flying >= config.max_live_frames)
         /\ Verdict(count, flying) = "CallsPerMinute" => count > config.max_calls_per_minute
  BY DEF Verdict, RateLimitExceeded

(* Types are kept.                                                         *)
LEMMA TypeStep ==
  ASSUME TypeOK, [Next]_vars
  PROVE  TypeOK'
<1>1. ASSUME NEW c \in Conns, ReadClock(c) PROVE TypeOK'
  BY <1>1 DEF ReadClock, TypeOK, Status
<1>2. ASSUME NEW c \in Conns, TryAdmitAt(c) PROVE TypeOK'
  <2>. DEFINE p       == PeerOf[c]
              recent  == Append(prune_attempts(attempts[p], stamp[c]), c)
              verdict == Verdict(Len(recent), in_flight[p])
  <2>1. /\ attempts' = [attempts EXCEPT ![p] = recent]
        /\ in_flight' = IF verdict = "admitted"
                          THEN [in_flight EXCEPT ![p] = @ + 1] ELSE in_flight
        /\ status' = [status EXCEPT ![c] = verdict]
        /\ decided' = [decided EXCEPT ![c] = clock]
        /\ UNCHANGED <<config, clock, stamp>>
    BY <1>2 DEF TryAdmitAt
  <2>2. recent \in Seq(Conns) /\ p \in Peers
    BY <1>2, Recorded
  <2>3. verdict \in Status
    BY VerdictFacts DEF Status
  <2>. HIDE DEF recent, verdict
  <2>. QED  BY <2>1, <2>2, <2>3 DEF TypeOK
<1>3. ASSUME NEW c \in Conns, ReleasePermit(c) \/ DropPermit(c) PROVE TypeOK'
  <2>1. \A n \in Nat : OneLess(n) \in Nat
    BY DEF OneLess
  <2>2. /\ \E t \in {"released", "dropped"} : status' = [status EXCEPT ![c] = t]
        /\ \/ in_flight' = in_flight
           \/ in_flight' = [in_flight EXCEPT ![PeerOf[c]] = OneLess(@)]
        /\ UNCHANGED <<config, attempts, clock, stamp, decided>>
    BY <1>3 DEF ReleasePermit, DropPermit
  <2>3. status' \in [Conns -> Status]
    BY <2>2 DEF TypeOK, Status
  <2>4. in_flight' \in [Peers -> Nat]
    <3>1. CASE in_flight' = in_flight
      BY <3>1 DEF TypeOK
    <3>2. CASE in_flight' = [in_flight EXCEPT ![PeerOf[c]] = OneLess(@)]
      BY <2>1, <3>2, RateLimiterAssumption DEF TypeOK
    <3>. QED  BY <2>2, <3>1, <3>2
  <2>. QED  BY <2>2, <2>3, <2>4 DEF TypeOK
<1>4. ASSUME NEW p \in Peers, AttemptsInWindow(p) PROVE TypeOK'
  <2>1. prune_attempts(attempts[p], clock) \in Seq(Conns)
    BY PruneKeeps DEF TypeOK
  <2>. QED  BY <1>4, <2>1 DEF AttemptsInWindow, TypeOK
<1>5. CASE Tick
  BY <1>5, RateLimiterAssumption DEF Tick, TypeOK
<1>6. CASE UNCHANGED vars
  BY <1>6 DEF vars, TypeOK
<1>. QED  BY <1>1, <1>2, <1>3, <1>4, <1>5, <1>6 DEF Next

(* The permits of a peer form a finite set; a grant adds one to it, a      *)
(* release takes one away.                                                 *)
LEMMA HoldingFacts ==
  ASSUME TypeOK, NEW p \in Peers
  PROVE  IsFiniteSet(Holding(p)) /\ Cardinality(Holding(p)) \in Nat
<1>1. Holding(p) \in SUBSET Conns
  BY DEF Holding
<1>. QED  BY <1>1, RateLimiterAssumption, FS_Subset, FS_CardinalityType

(* Slots are counted exactly and never beyond a cap.                       *)
LEMMA PermitStep ==
  ASSUME TypeOK, PermitsCounted, CapsHold, [Next]_vars
  PROVE  PermitsCounted' /\ CapsHold'
<1>. SUFFICES ASSUME NEW p \in Peers
              PROVE  /\ in_flight'[p] = Cardinality(Holding(p)')
                     /\ Cardinality(Holding(p)') <= config'.max_concurrent_calls
                     /\ Cardinality(Holding(p)') <= config'.max_live_frames
  BY DEF PermitsCounted, CapsHold
<1>. DEFINE n == Cardinality(Holding(p))
<1>1. /\ in_flight[p] = n /\ n \in Nat /\ IsFiniteSet(Holding(p))
      /\ n <= config.max_concurrent_calls /\ n <= config.max_live_frames
      /\ config.max_concurrent_calls \in Nat /\ config.max_live_frames \in Nat
  BY HoldingFacts, RateLimiterAssumption DEF PermitsCounted, CapsHold, TypeOK, RateLimitConfig
<1>2. config' = config
  BY DEF Next, ReadClock, TryAdmitAt, ReleasePermit, DropPermit, AttemptsInWindow, Tick, vars
<1>3. ASSUME Holding(p)' = Holding(p), in_flight'[p] = in_flight[p]
      PROVE  /\ in_flight'[p] = Cardinality(Holding(p)')
             /\ Cardinality(Holding(p)') <= config'.max_concurrent_calls
             /\ Cardinality(Holding(p)') <= config'.max_live_frames
  BY <1>1, <1>2, <1>3
<1>4. ASSUME NEW c \in Conns, ReadClock(c)
      PROVE  Holding(p)' = Holding(p) /\ in_flight'[p] = in_flight[p]
  BY <1>4 DEF ReadClock, Holding, TypeOK
<1>5. ASSUME NEW c \in Conns, TryAdmitAt(c)
      PROVE  /\ in_flight'[p] = Cardinality(Holding(p)')
             /\ Cardinality(Holding(p)') <= config'.max_concurrent_calls
             /\ Cardinality(Holding(p)') <= config'.max_live_frames
  <2>. DEFINE count   == Len(Append(prune_attempts(attempts[PeerOf[c]], stamp[c]), c))
              verdict == Verdict(count, in_flight[PeerOf[c]])
  <2>1. /\ status[c] = "stamped"
        /\ in_flight' = IF verdict = "admitted"
                          THEN [in_flight EXCEPT ![PeerOf[c]] = @ + 1] ELSE in_flight
        /\ status' = [status EXCEPT ![c] = verdict]
    BY <1>5 DEF TryAdmitAt
  <2>2. verdict = "admitted" =>
          /\ ~(in_flight[PeerOf[c]] >= config.max_concurrent_calls)
          /\ ~(in_flight[PeerOf[c]] >= config.max_live_frames)
    BY VerdictFacts
  <2>. HIDE DEF verdict, count
  <2>3. CASE verdict = "admitted" /\ PeerOf[c] = p
    <3>1. Holding(p)' = Holding(p) \cup {c} /\ c \notin Holding(p)
      BY <2>1, <2>3 DEF Holding, TypeOK
    <3>2. Cardinality(Holding(p)') = n + 1
      BY <1>1, <3>1, FS_AddElement
    <3>3. in_flight'[p] = n + 1
      BY <1>1, <2>1, <2>3 DEF TypeOK
    <3>4. n + 1 <= config.max_concurrent_calls /\ n + 1 <= config.max_live_frames
      BY <1>1, <2>2, <2>3
    <3>. QED  BY <1>2, <3>2, <3>3, <3>4
  <2>4. CASE verdict # "admitted" \/ PeerOf[c] # p
    <3>1. Holding(p)' = Holding(p)
      BY <2>1, <2>4 DEF Holding, TypeOK
    <3>2. in_flight'[p] = in_flight[p]
      BY <2>1, <2>4 DEF TypeOK
    <3>. QED  BY <1>3, <3>1, <3>2
  <2>. QED  BY <2>3, <2>4
<1>6. ASSUME NEW c \in Conns, ReleasePermit(c) \/ DropPermit(c)
      PROVE  /\ in_flight'[p] = Cardinality(Holding(p)')
             /\ Cardinality(Holding(p)') <= config'.max_concurrent_calls
             /\ Cardinality(Holding(p)') <= config'.max_live_frames
  <2>1. CASE status[c] = "admitted" /\ PeerOf[c] = p
    <3>1. Holding(p)' = Holding(p) \ {c} /\ c \in Holding(p)
      BY <1>6, <2>1 DEF ReleasePermit, DropPermit, Holding, TypeOK
    <3>2. Cardinality(Holding(p)') = n - 1 /\ n # 0
      BY <1>1, <3>1, FS_RemoveElement, FS_EmptySet
    <3>3. in_flight'[p] = n - 1
      BY <1>1, <1>6, <2>1, <3>2 DEF ReleasePermit, DropPermit, OneLess, TypeOK
    <3>. QED  BY <1>1, <1>2, <3>2, <3>3
  <2>2. CASE status[c] # "admitted" \/ PeerOf[c] # p
    <3>1. Holding(p)' = Holding(p)
      BY <1>6, <2>2 DEF ReleasePermit, DropPermit, Holding, TypeOK
    <3>2. in_flight'[p] = in_flight[p]
      BY <1>6, <2>2 DEF ReleasePermit, DropPermit, TypeOK
    <3>. QED  BY <1>3, <3>1, <3>2
  <2>. QED  BY <2>1, <2>2
<1>7. CASE (\E q \in Peers : AttemptsInWindow(q)) \/ Tick \/ UNCHANGED vars
  <2>1. Holding(p)' = Holding(p) /\ in_flight'[p] = in_flight[p]
    BY <1>7 DEF AttemptsInWindow, Tick, vars, Holding
  <2>. QED  BY <1>3, <2>1
<1>. QED  BY <1>3, <1>4, <1>5, <1>6, <1>7 DEF Next

(* A task that is not undecided stays so, with its stamp and decision time *)
(* and, apart from permits given back, its verdict.                        *)
LEMMA DecidedStays ==
  ASSUME TypeOK, [Next]_vars, NEW d \in Conns, status[d] \notin Undecided
  PROVE  /\ status'[d] \notin Undecided
         /\ stamp'[d] = stamp[d] /\ decided'[d] = decided[d]
         /\ status'[d] \in Granted <=> status[d] \in Granted
         /\ status'[d] = "CallsPerMinute" <=> status[d] = "CallsPerMinute"
<1>1. ASSUME NEW c \in Conns, ReadClock(c) \/ TryAdmitAt(c)
      PROVE  /\ status'[d] = status[d] /\ stamp'[d] = stamp[d] /\ decided'[d] = decided[d]
  <2>1. c # d /\ \E t : status' = [status EXCEPT ![c] = t]
    BY <1>1 DEF ReadClock, TryAdmitAt, Undecided
  <2>. QED  BY <1>1, <2>1 DEF ReadClock, TryAdmitAt, TypeOK
<1>2. ASSUME NEW c \in Conns, ReleasePermit(c) \/ DropPermit(c)
      PROVE  /\ status'[d] \notin Undecided
             /\ stamp'[d] = stamp[d] /\ decided'[d] = decided[d]
             /\ status'[d] \in Granted <=> status[d] \in Granted
             /\ status'[d] = "CallsPerMinute" <=> status[d] = "CallsPerMinute"
  BY <1>2 DEF ReleasePermit, DropPermit, TypeOK, Undecided, Granted
<1>3. CASE (\E p \in Peers : AttemptsInWindow(p)) \/ Tick \/ UNCHANGED vars
  BY <1>3 DEF AttemptsInWindow, Tick, vars
<1>. QED  BY <1>1, <1>2, <1>3 DEF Next

(* Clock readings stay within MaxLag of the lock.                          *)
LEMMA StampStep ==
  ASSUME TypeOK, StampInv, [Next]_vars
  PROVE  StampInv'
<1>0. clock \in Nat /\ MaxLag \in Nat
  BY RateLimiterAssumption DEF TypeOK
<1>1. ASSUME NEW c \in Conns, ReadClock(c) PROVE StampInv'
  BY <1>0, <1>1 DEF ReadClock, StampInv, TypeOK, Undecided
<1>2. ASSUME NEW c \in Conns, TryAdmitAt(c) PROVE StampInv'
  <2>1. /\ status[c] = "stamped" /\ UNCHANGED <<clock, stamp>>
        /\ decided' = [decided EXCEPT ![c] = clock]
        /\ \E t \in RateLimitExceeded \cup {"admitted"} : status' = [status EXCEPT ![c] = t]
    BY <1>2, VerdictFacts DEF TryAdmitAt
  <2>2. /\ status'[c] # "stamped" /\ decided'[c] = clock
        /\ stamp[c] <= clock /\ clock <= stamp[c] + MaxLag
    BY <2>1 DEF TypeOK, StampInv, RateLimitExceeded
  <2>3. \A d \in Conns \ {c} : status'[d] = status[d] /\ decided'[d] = decided[d]
    BY <2>1 DEF TypeOK
  <2>. QED  BY <1>0, <2>1, <2>2, <2>3 DEF StampInv
<1>3. ASSUME NEW c \in Conns, ReleasePermit(c) \/ DropPermit(c) PROVE StampInv'
  <2>1. /\ status[c] \in {"admitted", "released"} /\ UNCHANGED <<clock, stamp, decided>>
        /\ \E t \in {"released", "dropped"} : status' = [status EXCEPT ![c] = t]
    BY <1>3 DEF ReleasePermit, DropPermit
  <2>2. /\ status'[c] \in {"released", "dropped"}
        /\ \A d \in Conns \ {c} : status'[d] = status[d]
    BY <2>1 DEF TypeOK
  <2>. QED  BY <2>1, <2>2 DEF StampInv, Undecided
<1>4. CASE Tick
  BY <1>0, <1>4 DEF Tick, StampInv, TypeOK, Undecided
<1>5. CASE (\E p \in Peers : AttemptsInWindow(p)) \/ UNCHANGED vars
  BY <1>5 DEF AttemptsInWindow, vars, StampInv
<1>. QED  BY <1>1, <1>2, <1>3, <1>4, <1>5 DEF Next

(* An attempt leaves the queue only when it is old.                        *)
LEMMA RecentStep ==
  ASSUME TypeOK, StampInv, RecentQueued, [Next]_vars
  PROVE  RecentQueued'
<1>. SUFFICES ASSUME NEW d \in Conns, status'[d] \notin Undecided,
                     ~Old(stamp'[d], clock')
              PROVE  Occurs(d, attempts'[PeerOf[d]])
  BY DEF RecentQueued, Occurs
<1>0. /\ clock \in Nat /\ Window \in Nat /\ PeerOf[d] \in Peers
      /\ stamp \in [Conns -> Nat]
  BY RateLimiterAssumption DEF TypeOK
<1>1. ASSUME NEW c \in Conns, ReadClock(c)
      PROVE  Occurs(d, attempts'[PeerOf[d]])
  <2>1. d # c /\ status[d] \notin Undecided /\ stamp'[d] = stamp[d]
    BY <1>1 DEF ReadClock, TypeOK, Undecided
  <2>. QED  BY <1>1, <2>1 DEF ReadClock, RecentQueued
<1>2. ASSUME NEW c \in Conns, TryAdmitAt(c)
      PROVE  Occurs(d, attempts'[PeerOf[d]])
  <2>. DEFINE recent == Append(prune_attempts(attempts[PeerOf[c]], stamp[c]), c)
  <2>0. /\ attempts'[PeerOf[c]] = recent /\ Occurs(c, recent)
        /\ \A r \in Peers \ {PeerOf[c]} : attempts'[r] = attempts[r]
        /\ \A x : Occurs(x, attempts[PeerOf[c]]) /\ ~Old(stamp[x], stamp[c])
                    => Occurs(x, recent)
    BY <1>2, Recorded
  <2>. HIDE DEF recent
  <2>1. CASE d = c
    BY <2>0, <2>1
  <2>2. CASE d # c
    <3>1. /\ status'[d] = status[d] /\ UNCHANGED <<clock, stamp>> /\ status[c] = "stamped"
      BY <1>2, <2>2 DEF TryAdmitAt, TypeOK
    <3>2. Occurs(d, attempts[PeerOf[d]])
      BY <3>1 DEF RecentQueued
    <3>3. stamp[c] <= clock
      BY <3>1 DEF StampInv
    <3>4. ~Old(stamp[d], stamp[c])
      BY <1>0, <3>1, <3>3 DEF Old
    <3>. QED  BY <1>0, <2>0, <3>2, <3>4
  <2>. QED  BY <2>1, <2>2
<1>3. ASSUME NEW c \in Conns, ReleasePermit(c) \/ DropPermit(c)
      PROVE  Occurs(d, attempts'[PeerOf[d]])
  <2>1. /\ status[d] \notin Undecided /\ UNCHANGED <<clock, stamp, attempts>>
    BY <1>3 DEF ReleasePermit, DropPermit, TypeOK, Undecided
  <2>. QED  BY <2>1 DEF RecentQueued
<1>4. ASSUME NEW p \in Peers, AttemptsInWindow(p)
      PROVE  Occurs(d, attempts'[PeerOf[d]])
  <2>1. /\ attempts' = [attempts EXCEPT ![p] = prune_attempts(attempts[p], clock)]
        /\ UNCHANGED <<clock, stamp, status>>
    BY <1>4 DEF AttemptsInWindow
  <2>2. Occurs(d, attempts[PeerOf[d]])
    BY <2>1 DEF RecentQueued
  <2>3. CASE PeerOf[d] = p
    <3>1. attempts[p] \in Seq(Conns)
      BY DEF TypeOK
    <3>2. Occurs(d, prune_attempts(attempts[p], clock))
      BY <2>1, <2>2, <2>3, <3>1, PruneKeeps
    <3>. QED  BY <2>1, <2>3, <3>2 DEF TypeOK
  <2>4. CASE PeerOf[d] # p
    BY <1>0, <2>1, <2>2, <2>4 DEF TypeOK
  <2>. QED  BY <2>3, <2>4
<1>5. CASE Tick
  <2>1. ~Old(stamp[d], clock)
    BY <1>0, <1>5 DEF Tick, Old
  <2>. QED  BY <1>5, <2>1 DEF Tick, RecentQueued
<1>6. CASE UNCHANGED vars
  BY <1>6 DEF vars, RecentQueued
<1>. QED  BY <1>1, <1>2, <1>3, <1>4, <1>5, <1>6 DEF Next

(* The window cap: the attempts admitted in the window are all still in    *)
(* the queue whose length the verdict was about.                           *)
LEMMA WindowStep ==
  ASSUME TypeOK, StampInv, RecentQueued, PromptWindowCap, [Next]_vars
  PROVE  PromptWindowCap'
<1>. SUFFICES ASSUME NEW p \in Peers, NEW from \in 0 .. MaxClock
              PROVE  Cardinality(Admissions(p, from, (from + Window) - MaxLag)')
                       <= config'.max_calls_per_minute
  BY DEF PromptWindowCap
<1>. DEFINE to == (from + Window) - MaxLag
<1>0. /\ clock \in Nat /\ Window \in Nat /\ MaxLag \in Nat /\ MaxClock \in Nat
      /\ from \in Nat /\ to \in Int
      /\ stamp \in [Conns -> Nat] /\ decided \in [Conns -> Nat]
      /\ config.max_calls_per_minute \in Nat
  BY RateLimiterAssumption DEF TypeOK, RateLimitConfig
<1>1. config' = config
  BY DEF Next, ReadClock, TryAdmitAt, ReleasePermit, DropPermit, AttemptsInWindow, Tick, vars
<1>2. ASSUME Admissions(p, from, to)' = Admissions(p, from, to)
      PROVE  Cardinality(Admissions(p, from, to)') <= config'.max_calls_per_minute
  BY <1>1, <1>2 DEF PromptWindowCap
<1>3. ASSUME NEW c \in Conns, ReadClock(c)
      PROVE  Admissions(p, from, to)' = Admissions(p, from, to)
  <2>1. /\ status' = [status EXCEPT ![c] = "stamped"] /\ status[c] = "new"
        /\ decided' = decided
    BY <1>3 DEF ReadClock
  <2>. QED  BY <2>1 DEF Admissions, Decisions, Granted, Undecided, TypeOK
<1>4. ASSUME NEW c \in Conns, TryAdmitAt(c)
      PROVE  Cardinality(Admissions(p, from, to)') <= config'.max_calls_per_minute
  <2>. DEFINE recent  == Append(prune_attempts(attempts[p], stamp[c]), c)
              verdict == Verdict(Len(recent), in_flight[p])
  <2>1. /\ status[c] = "stamped" /\ UNCHANGED <<clock, stamp>>
        /\ decided' = [decided EXCEPT ![c] = clock]
        /\ \E t : status' = [status EXCEPT ![c] = t]
    BY <1>4 DEF TryAdmitAt
  <2>2. /\ \A d \in Conns \ {c} : status'[d] = status[d] /\ decided'[d] = decided[d]
        /\ decided'[c] = clock
    BY <2>1 DEF TypeOK
  <2>3. CASE c \notin Admissions(p, from, to)'
    <3>1. Admissions(p, from, to)' = Admissions(p, from, to)
      BY <2>1, <2>2, <2>3 DEF Admissions, Decisions, Granted, Undecided
    <3>. QED  BY <1>2, <3>1
  <2>4. CASE c \in Admissions(p, from, to)'
    <3>1. /\ PeerOf[c] = p /\ status'[c] \in Granted
          /\ from <= clock /\ clock < to
      BY <2>2, <2>4 DEF Admissions, Decisions
    <3>2. status'[c] = verdict
      BY <1>4, <3>1 DEF TryAdmitAt, TypeOK
    <3>3. ~(Len(recent) > config.max_calls_per_minute)
      BY <3>1, <3>2, VerdictFacts DEF Granted, RateLimitExceeded
    <3>4. /\ recent \in Seq(Conns) /\ Len(recent) \in Nat /\ Occurs(c, recent)
          /\ \A x : Occurs(x, attempts[p]) /\ ~Old(stamp[x], stamp[c]) => Occurs(x, recent)
      BY <1>4, <3>1, Recorded
    <3>. HIDE DEF recent, verdict
    <3>5. ASSUME NEW d \in Admissions(p, from, to)'
          PROVE  Occurs(d, recent)
      <4>1. CASE d = c
        BY <3>4, <4>1
      <4>2. CASE d # c
        <5>1. /\ d \in Conns /\ PeerOf[d] = p /\ status[d] \notin Undecided
              /\ from <= decided[d]
          BY <2>2, <3>5, <4>2 DEF Admissions, Decisions
        <5>2. decided[d] <= stamp[d] + MaxLag /\ stamp[c] <= clock
          BY <2>1, <5>1 DEF StampInv
        <5>3. stamp[d] \in Nat /\ stamp[c] \in Nat /\ decided[d] \in Nat
          BY <1>0, <5>1
        <5>4. clock < stamp[d] + Window
          BY <1>0, <3>1, <5>1, <5>2, <5>3
        <5>5. ~Old(stamp[d], clock) /\ ~Old(stamp[d], stamp[c])
          BY <1>0, <5>2, <5>3, <5>4 DEF Old
        <5>. QED  BY <3>4, <5>1, <5>5 DEF RecentQueued
      <4>. QED  BY <4>1, <4>2
    <3>6. /\ Cardinality(Admissions(p, from, to)') <= Len(recent)
          /\ Cardinality(Admissions(p, from, to)') \in Nat
      <4>. DEFINE T == Admissions(p, from, to)'
      <4>1. \A d \in T : Occurs(d, recent)
        BY <3>5
      <4>. HIDE DEF T
      <4>2. Cardinality(T) <= Len(recent) /\ Cardinality(T) \in Nat
        BY <3>4, <4>1, OccurringBound
      <4>. QED  BY <4>2 DEF T
    <3>. QED  BY <1>0, <1>1, <3>3, <3>4, <3>6
  <2>. QED  BY <2>3, <2>4
<1>5. ASSUME NEW c \in Conns, ReleasePermit(c) \/ DropPermit(c)
      PROVE  Admissions(p, from, to)' = Admissions(p, from, to)
  <2>1. /\ status[c] \in Granted /\ decided' = decided
        /\ \E t \in Granted : status' = [status EXCEPT ![c] = t]
    BY <1>5 DEF ReleasePermit, DropPermit, Granted
  <2>. QED  BY <2>1 DEF Admissions, Decisions, Granted, Undecided, TypeOK
<1>6. CASE (\E q \in Peers : AttemptsInWindow(q)) \/ Tick \/ UNCHANGED vars
  BY <1>2, <1>6 DEF AttemptsInWindow, Tick, vars, Admissions, Decisions
<1>. QED  BY <1>2, <1>3, <1>4, <1>5, <1>6 DEF Next

(* A queue in lock order stays so when its front is pruned.                *)
LEMMA PruneOrdered ==
  ASSUME NEW p, NEW q \in Seq(Conns), Ordered(p, q), NEW now
  PROVE  Ordered(p, prune_attempts(q, now))
<1>. DEFINE r == prune_attempts(q, now)
<1>1. PICK k \in Nat : \A i \in DOMAIN r : i + k \in DOMAIN q /\ r[i] = q[i + k]
  BY PruneIsSuffix
<1>2. r \in Seq(Conns)
  BY PruneKeeps
<1>. HIDE DEF r
<1>3. DOMAIN r \subseteq Int
  BY <1>2
<1>4. ASSUME NEW i \in DOMAIN r
      PROVE  r[i] \in Decisions(p)
  BY <1>1, <1>4 DEF Ordered
<1>5. ASSUME NEW i \in DOMAIN r, NEW j \in DOMAIN r, i < j
      PROVE  r[i] # r[j] /\ decided[r[i]] <= decided[r[j]]
  <2>1. i + k < j + k
    BY <1>3, <1>5
  <2>. QED  BY <1>1, <2>1 DEF Ordered
<1>. QED  BY <1>4, <1>5 DEF Ordered, r

(* The queue stays in lock order, each attempt once.                       *)
LEMMA OrderStep ==
  ASSUME TypeOK, StampInv, QueueOrdered, [Next]_vars
  PROVE  QueueOrdered'
<1>. SUFFICES ASSUME NEW p \in Peers PROVE Ordered(p, attempts[p])'
  BY DEF QueueOrdered
<1>0. /\ attempts[p] \in Seq(Conns) /\ Ordered(p, attempts[p])
      /\ Decisions(p) \subseteq Conns
      /\ \A i \in DOMAIN attempts[p] : attempts[p][i] \in Decisions(p)
  BY DEF TypeOK, QueueOrdered, Ordered, Decisions
<1>1. \A d \in Decisions(p) : d \in Decisions(p)' /\ decided'[d] = decided[d]
  BY DecidedStays DEF Decisions
<1>2. ASSUME attempts'[p] = attempts[p]
      PROVE  Ordered(p, attempts[p])'
  BY <1>0, <1>1, <1>2 DEF Ordered
<1>3. ASSUME NEW c \in Conns, TryAdmitAt(c), PeerOf[c] = p
      PROVE  Ordered(p, attempts[p])'
  <2>. DEFINE pruned == prune_attempts(attempts[p], stamp[c])
              recent == Append(pruned, c)
  <2>1. /\ pruned \in Seq(Conns) /\ Len(pruned) \in Nat
        /\ recent \in Seq(Conns) /\ Len(recent) = Len(pruned) + 1
        /\ \A i \in 1 .. Len(pruned) : recent[i] = pruned[i]
        /\ recent[Len(pruned) + 1] = c
        /\ attempts'[p] = recent
    BY <1>3, Recorded
  <2>2. Ordered(p, pruned)
    BY <1>0, PruneOrdered
  <2>. HIDE DEF pruned, recent
  <2>3. /\ status[c] = "stamped" /\ clock \in Nat /\ decided'[c] = clock
        /\ \E t \in RateLimitExceeded \cup {"admitted"} : status' = [status EXCEPT ![c] = t]
    <3>1. /\ status[c] = "stamped"
          /\ \E t \in RateLimitExceeded \cup {"admitted"} : status' = [status EXCEPT ![c] = t]
      BY <1>3, VerdictFacts DEF TryAdmitAt
    <3>2. clock \in Nat /\ decided'[c] = clock
      BY <1>3 DEF TryAdmitAt, TypeOK
    <3>. QED  BY <3>1, <3>2
  <2>4. c \notin Decisions(p) /\ c \in Decisions(p)'
    BY <1>3, <2>3 DEF Decisions, Undecided, TypeOK, RateLimitExceeded
  <2>5. \A d \in Decisions(p) : decided[d] <= clock
    BY DEF Decisions, StampInv
  <2>6. DOMAIN pruned = 1 .. Len(pruned) /\ DOMAIN recent = 1 .. Len(pruned) + 1
    BY <2>1
  <2>7. ASSUME NEW i \in DOMAIN recent
        PROVE  recent[i] \in Decisions(p)'
    BY <1>1, <2>1, <2>2, <2>4, <2>6, <2>7 DEF Ordered
  <2>8. ASSUME NEW i \in DOMAIN recent, NEW j \in DOMAIN recent, i < j
        PROVE  recent[i] # recent[j] /\ decided'[recent[i]] <= decided'[recent[j]]
    <3>1. i \in DOMAIN pruned /\ recent[i] = pruned[i] /\ pruned[i] \in Decisions(p)
      BY <2>1, <2>2, <2>6, <2>8 DEF Ordered
    <3>2. CASE j = Len(pruned) + 1
      BY <1>1, <2>1, <2>3, <2>4, <2>5, <3>1, <3>2
    <3>3. CASE j # Len(pruned) + 1
      <4>1. j \in DOMAIN pruned /\ recent[j] = pruned[j]
        BY <2>1, <2>6, <3>3
      <4>2. /\ pruned[j] \in Decisions(p) /\ pruned[i] # pruned[j]
            /\ decided[pruned[i]] <= decided[pruned[j]]
        BY <2>2, <2>8, <3>1, <4>1 DEF Ordered
      <4>. QED  BY <1>1, <3>1, <4>1, <4>2
    <3>. QED  BY <3>2, <3>3
  <2>. QED  BY <2>1, <2>7, <2>8 DEF Ordered
<1>4. ASSUME NEW c \in Conns, TryAdmitAt(c), PeerOf[c] # p
      PROVE  attempts'[p] = attempts[p]
  BY <1>4 DEF TryAdmitAt, TypeOK
<1>5. ASSUME NEW r \in Peers, AttemptsInWindow(r)
      PROVE  Ordered(p, attempts[p])'
  <2>1. CASE r = p
    <3>. DEFINE pruned == prune_attempts(attempts[p], clock)
    <3>1. attempts'[p] = pruned /\ Ordered(p, pruned)
      BY <1>0, <1>5, <2>1, PruneOrdered DEF AttemptsInWindow, TypeOK
    <3>. HIDE DEF pruned
    <3>. QED  BY <1>1, <3>1 DEF Ordered
  <2>2. CASE r # p
    <3>1. attempts'[p] = attempts[p]
      BY <1>5, <2>2 DEF AttemptsInWindow, TypeOK
    <3>. QED  BY <1>2, <3>1
  <2>. QED  BY <2>1, <2>2
<1>6. CASE (\E c \in Conns : ReadClock(c) \/ ReleasePermit(c) \/ DropPermit(c))
             \/ Tick \/ UNCHANGED vars
  BY <1>2, <1>6 DEF ReadClock, ReleasePermit, DropPermit, Tick, vars
<1>. QED  BY <1>2, <1>3, <1>4, <1>5, <1>6 DEF Next

(* A peer refused for its rate did try that often: everything the queue    *)
(* still held is at most Window + MaxLag old.                              *)
Causes(c) ==
  {d \in Decisions(PeerOf[c]) \ {c} :
     stamp[d] + Window + MaxLag > stamp[c] /\ decided[d] <= decided[c]}

LEMMA CauseStep ==
  ASSUME TypeOK, StampInv, QueueOrdered, RefusedForCause, [Next]_vars
  PROVE  RefusedForCause'
<1>. SUFFICES ASSUME NEW c \in Conns, status'[c] = "CallsPerMinute"
              PROVE  Cardinality(Causes(c)') >= config'.max_calls_per_minute
  BY DEF RefusedForCause, Causes
<1>0. /\ Window \in Nat /\ MaxLag \in Nat /\ clock \in Nat
      /\ stamp \in [Conns -> Nat] /\ decided \in [Conns -> Nat]
      /\ config.max_calls_per_minute \in Nat
  BY RateLimiterAssumption DEF TypeOK, RateLimitConfig
<1>1. config' = config
  BY DEF Next, ReadClock, TryAdmitAt, ReleasePermit, DropPermit, AttemptsInWindow, Tick, vars
<1>2. /\ IsFiniteSet(Causes(c)') /\ Cardinality(Causes(c)') \in Nat
  <2>1. Causes(c)' \in SUBSET Conns
    BY DEF Causes, Decisions
  <2>. QED  BY <2>1, RateLimiterAssumption, FS_Subset, FS_CardinalityType
<1>3. CASE status[c] = "CallsPerMinute"
  <2>1. /\ \A d \in Decisions(PeerOf[c]) : /\ d \in Decisions(PeerOf[c])'
                                           /\ stamp'[d] = stamp[d] /\ decided'[d] = decided[d]
        /\ stamp'[c] = stamp[c] /\ decided'[c] = decided[c]
    BY <1>3, DecidedStays DEF Decisions, Undecided
  <2>2. Causes(c) \in SUBSET Causes(c)'
    BY <2>1 DEF Causes
  <2>3. Cardinality(Causes(c)) <= Cardinality(Causes(c)') /\ Cardinality(Causes(c)) \in Nat
    BY <1>2, <2>2, FS_Subset, FS_CardinalityType
  <2>4. Cardinality(Causes(c)) >= config.max_calls_per_minute
    BY <1>3 DEF RefusedForCause, Causes
  <2>. QED  BY <1>0, <1>1, <1>2, <2>3, <2>4
<1>4. CASE status[c] # "CallsPerMinute"
  <2>. DEFINE p       == PeerOf[c]
              pruned  == prune_attempts(attempts[p], stamp[c])
              recent  == Append(pruned, c)
              verdict == Verdict(Len(recent), in_flight[p])
  <2>1. TryAdmitAt(c)
    <3>1. ASSUME NEW d \in Conns, TryAdmitAt(d) PROVE d = c
      BY <1>4, <3>1 DEF TryAdmitAt, TypeOK
    <3>2. ASSUME NEW d \in Conns, ReadClock(d) \/ ReleasePermit(d) \/ DropPermit(d)
          PROVE  FALSE
      BY <1>4, <3>2 DEF ReadClock, ReleasePermit, DropPermit, TypeOK
    <3>3. CASE (\E q \in Peers : AttemptsInWindow(q)) \/ Tick \/ UNCHANGED vars
      BY <1>4, <3>3 DEF AttemptsInWindow, Tick, vars
    <3>. QED  BY <3>1, <3>2, <3>3 DEF Next
  <2>2. /\ status[c] = "stamped" /\ status'[c] = verdict
        /\ UNCHANGED <<clock, stamp>> /\ decided'[c] = clock
    BY <2>1 DEF TryAdmitAt, TypeOK
  <2>3. Len(recent) > config.max_calls_per_minute
    BY <2>2, VerdictFacts
  <2>4. /\ pruned \in Seq(Conns) /\ Len(pruned) \in Nat /\ Len(recent) = Len(pruned) + 1
    BY <2>1, Recorded
  <2>5. Ordered(p, pruned)
    BY RateLimiterAssumption, PruneOrdered DEF QueueOrdered, TypeOK
  <2>6. pruned # << >> => ~Old(stamp[pruned[1]], stamp[c])
    BY RateLimiterAssumption, PruneIsSuffix DEF TypeOK
  <2>. HIDE DEF pruned, recent, verdict
  <2>7. DOMAIN pruned = 1 .. Len(pruned)
    BY <2>4
  <2>8. ASSUME NEW i \in 1 .. Len(pruned)
        PROVE  pruned[i] \in Causes(c)'
    <3>. DEFINE d == pruned[i]
                f == pruned[1]
    <3>1. /\ d \in Decisions(p) /\ f \in Decisions(p)
          /\ decided[f] <= decided[d]
      <4>1. 1 \in 1 .. Len(pruned)
        BY <2>4
      <4>2. d \in Decisions(p) /\ f \in Decisions(p)
        BY <2>5, <2>7, <4>1 DEF Ordered
      <4>3. CASE i = 1
        BY <1>0, <4>2, <4>3 DEF Decisions
      <4>4. CASE i # 1
        <5>1. 1 < i
          BY <2>4, <4>4
        <5>. QED  BY <2>5, <2>7, <4>1, <4>2, <5>1 DEF Ordered
      <4>. QED  BY <4>2, <4>3, <4>4
    <3>2. stamp[f] + Window > stamp[c]
      <4>1. pruned # << >>
        BY <2>4
      <4>2. f \in Conns /\ c \in Conns
        BY <3>1 DEF Decisions
      <4>. QED  BY <1>0, <2>6, <4>1, <4>2 DEF Old
    <3>3. /\ stamp[f] <= decided[f] /\ decided[d] <= stamp[d] + MaxLag /\ decided[d] <= clock
      BY <3>1 DEF StampInv, Decisions
    <3>4. /\ d # c /\ d \in Conns /\ f \in Conns
      BY <2>2, <3>1 DEF Decisions, Undecided
    <3>5. /\ stamp[f] \in Nat /\ stamp[d] \in Nat /\ stamp[c] \in Nat
          /\ decided[f] \in Nat /\ decided[d] \in Nat
      BY <1>0, <3>4
    <3>6. stamp[d] + Window + MaxLag > stamp[c]
      <4>1. \A a, b, x, y, z \in Nat :
              /\ b + Window > a /\ b <= x /\ x <= y /\ y <= z + MaxLag
              => z + Window + MaxLag > a
        BY <1>0
      <4>. HIDE DEF d, f
      <4>. QED  BY <3>1, <3>2, <3>3, <3>5, <4>1
    <3>7. d \in Decisions(p)' /\ decided'[d] = decided[d]
      BY <3>1, DecidedStays DEF Decisions
    <3>. QED  BY <2>2, <3>3, <3>4, <3>6, <3>7 DEF Causes
  <2>9. Cardinality(Causes(c)') >= Len(pruned)
    <3>. DEFINE T == {pruned[i] : i \in 1 .. Len(pruned)}
                g == [i \in 1 .. Len(pruned) |-> pruned[i]]
    <3>1. g \in [1 .. Len(pruned) -> T] /\ \A x \in T : \E i \in 1 .. Len(pruned) : g[i] = x
      OBVIOUS
    <3>2. \A i, j \in 1 .. Len(pruned) : g[i] = g[j] => i = j
      <4>1. \A i, j \in 1 .. Len(pruned) : i < j => pruned[i] # pruned[j]
        BY <2>5, <2>7 DEF Ordered
      <4>2. \A i, j \in 1 .. Len(pruned) : i < j \/ j < i \/ i = j
        BY <2>4
      <4>. QED  BY <4>1, <4>2
    <3>3. T \in SUBSET Causes(c)'
      BY <2>8
    <3>. HIDE DEF T, g
    <3>4. g \in Bijection(1 .. Len(pruned), T)
      BY <3>1, <3>2, Fun_IsBij
    <3>5. Cardinality(T) = Len(pruned)
      BY <2>4, <3>4, FS_CountingElements DEF ExistsBijection
    <3>. QED  BY <1>2, <3>3, <3>5, FS_Subset
  <2>. QED  BY <1>0, <1>1, <1>2, <2>3, <2>4, <2>9
<1>. QED  BY <1>3, <1>4

-----------------------------------------------------------------------------
(* The invariant holds initially and every step preserves it.              *)
THEOREM Invariance == Spec => []IInv
<1>1. Init => IInv
  <2>. SUFFICES ASSUME Init PROVE IInv
    OBVIOUS
  <2>1. TypeOK
    BY RateLimiterAssumption DEF Init, TypeOK, Status
  <2>2. \A c \in Conns : status[c] = "new"
    BY DEF Init
  <2>3. \A p \in Peers : Holding(p) = {} /\ in_flight[p] = 0 /\ attempts[p] = << >>
    BY <2>2 DEF Init, Holding
  <2>4. /\ config.max_concurrent_calls \in Nat /\ config.max_live_frames \in Nat
        /\ config.max_calls_per_minute \in Nat
    BY <2>1, RateLimiterAssumption DEF TypeOK, RateLimitConfig
  <2>5. PermitsCounted /\ CapsHold
    <3>1. \A p \in Peers : Cardinality(Holding(p)) = 0
      BY <2>3, FS_EmptySet
    <3>. QED  BY <2>3, <2>4, <3>1 DEF PermitsCounted, CapsHold
  <2>6. StampInv /\ RecentQueued /\ RefusedForCause
    BY <2>2 DEF StampInv, RecentQueued, RefusedForCause, Undecided
  <2>7. QueueOrdered
    BY <2>3 DEF QueueOrdered, Ordered
  <2>8. PromptWindowCap
    <3>1. \A p, from, to : Admissions(p, from, to) = {}
      BY <2>2 DEF Admissions, Decisions, Undecided
    <3>. QED  BY <2>4, <3>1, FS_EmptySet DEF PromptWindowCap
  <2>. QED  BY <2>1, <2>5, <2>6, <2>7, <2>8 DEF IInv
<1>2. IInv /\ [Next]_vars => IInv'
  <2>. SUFFICES ASSUME IInv, [Next]_vars PROVE IInv'
    OBVIOUS
  <2>1. TypeOK'
    BY TypeStep DEF IInv
  <2>2. PermitsCounted' /\ CapsHold'
    BY PermitStep DEF IInv
  <2>3. StampInv' /\ RecentQueued' /\ QueueOrdered'
    BY StampStep, RecentStep, OrderStep DEF IInv
  <2>4. PromptWindowCap' /\ RefusedForCause'
    BY WindowStep, CauseStep DEF IInv
  <2>. QED  BY <2>1, <2>2, <2>3, <2>4 DEF IInv
<1>. QED  BY <1>1, <1>2, PTL DEF Spec

(* Counters stay natural numbers: a slot is never given back at zero.      *)
THEOREM TypeCorrect == Spec => []TypeOK
  BY Invariance, PTL DEF IInv

(* in_flight is exactly the number of permits that are out, whatever the   *)
(* order of admissions, rejections, early releases and drops.              *)
THEOREM SlotsCounted == Spec => []PermitsCounted
  BY Invariance, PTL DEF IInv

(* No peer ever holds more open calls than the caps allow.                 *)
THEOREM CapsRespected == Spec => []CapsHold
  BY Invariance, PTL DEF IInv

(* The calls-per-minute cap holds in every window shortened by the lag.    *)
THEOREM WindowRespected == Spec => []PromptWindowCap
  BY Invariance, PTL DEF IInv

(* A refusal for the rate has that many recent attempts behind it.         *)
THEOREM RefusalJustified == Spec => []RefusedForCause
  BY Invariance, PTL DEF IInv

=============================================================================
