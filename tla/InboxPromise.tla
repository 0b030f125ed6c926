---------------------------- MODULE InboxPromise ----------------------------
(***************************************************************************)
(* What a node promises of the events of its finished calls, however many  *)
(* places they pass through: one line of events, handed out from its head. *)
(* Only an event with a newer one behind it is given up, so the newest is  *)
(* never lost, until the node stops, which may forget all but the head.    *)
(***************************************************************************)
EXTENDS Sequences, Naturals

CONSTANT Calls   \* calls that may finish, once each

VARIABLES
  accepted,   \* history: the events that entered the line, in order
  line,       \* the events nobody was given yet
  taken,      \* history: the events handed out, in order
  open        \* the node has not stopped

Init ==
  /\ accepted = << >> /\ line = << >> /\ taken = << >>
  /\ open = TRUE

Enter(c) ==
  /\ open
  /\ \A i \in DOMAIN accepted : accepted[i] # c
  /\ accepted' = Append(accepted, c)
  /\ line' = Append(line, c)
  /\ UNCHANGED <<taken, open>>

GiveUp ==
  /\ Len(line) > 1
  /\ line' = Tail(line)
  /\ UNCHANGED <<accepted, taken, open>>

HandOut ==
  /\ line # << >>
  /\ taken' = Append(taken, Head(line))
  /\ line' = Tail(line)
  /\ UNCHANGED <<accepted, open>>

Stop ==
  /\ open
  /\ open' = FALSE
  /\ \E n \in {0, 1} : n <= Len(line) /\ line' = SubSeq(line, 1, n)
  /\ UNCHANGED <<accepted, taken>>

Next == (\E c \in Calls : Enter(c)) \/ GiveUp \/ HandOut \/ Stop

Spec == Init /\ [][Next]_<<accepted, line, taken, open>>

=============================================================================
