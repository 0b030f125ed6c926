--------------------------- MODULE LocalSockProofs ---------------------------
(***************************************************************************)
(* Machine-checked safety of LocalSock for any number of daemons and       *)
(* clients.                                                                *)
(***************************************************************************)
EXTENDS LocalSock, TLAPS

(* What became of the file of a daemon that has stopped, where the daemon  *)
(* could remove it.                                                        *)
LitterInv ==
  Errors \/ \A d \in Daemons : pc[d] \in {"stopped", "deaf", "draining"} => file # d

(* In any disorder: the mode of the file of one that has passed its check. *)
ModeInv ==
  \A d \in Daemons : file = d =>
    /\ pc[d] \in {"checking", "serving"} /\ "modes" \notin setting => private
    /\ pc[d] = "serving" => private \/ d \in warned

(* One start at a time, and no failing calls: what is found stale stays    *)
(* stale, and a daemon that listens has lost its file only to another one  *)
(* that was told to stop.                                                  *)
Quiet == setting \cap {"starts", "errors"} = {}

TokenInv ==
  \A d \in Daemons :
    /\ token[d] => pc[d] \in {"leaving", "draining", "stopped", "killed"}
    /\ pc[d] = "draining" => token[d]

LostInv ==
  /\ \A d, e \in Daemons : pc[d] \in Starting /\ pc[e] \in Starting => d = e
  /\ \A d \in Daemons :
       /\ pc[d] = "removing" => ~Answers
       /\ Listening(d) => file = d \/ \E e \in Daemons : token[e]

QuietInv == TokenInv /\ (Quiet => LostInv)

(* With care nobody starts beside a daemon that starts or stops ...        *)
ApartInv ==
  \A d, e \in Daemons : d # e /\ pc[d] \in Starting => pc[e] \notin Starting \cup Stopping

(* ... so what one found at the path is there until it acts on it.         *)
LookedInv ==
  \A d \in Daemons :
    /\ pc[d] \in {"probing", "removing"} => file # NoFile
    /\ pc[d] = "removing" => ~Listening(file)
    /\ pc[d] = "binding" => file = NoFile

(* Whoever listens has the file; after its loop nobody listens.            *)
ListenInv ==
  \A d \in Daemons :
    /\ Listening(d) => file = d
    /\ pc[d] = "draining" => \A e \in Daemons : ~Listening(e)
    /\ pc[d] = "leaving" => token[d]
    /\ pc[d] \notin {"deaf", "failed"}

CareInv == setting = {} => ApartInv /\ LookedInv /\ ListenInv

IInv == TypeOK /\ LitterInv /\ ModeInv /\ CareInv /\ QuietInv

-----------------------------------------------------------------------------
LEMMA InitInv == Init => IInv
<1> SUFFICES ASSUME Init PROVE IInv
  OBVIOUS
<1>1. TypeOK /\ LitterInv /\ ModeInv
  BY LocalSockAssumption DEF Init, TypeOK, LitterInv, ModeInv, DaemonPc, ClientPc
<1>2. CareInv /\ QuietInv
  BY DEF Init, CareInv, ApartInv, LookedInv, ListenInv, QuietInv, TokenInv, LostInv, Starting,
         Stopping, Listening
<1> QED BY <1>1, <1>2 DEF IInv

(* A daemon moves to a stage, and all others stay where they are.          *)
LEMMA Moves ==
  ASSUME TypeOK, NEW d \in Daemons, NEW stage \in DaemonPc, Goto(d, stage)
  PROVE  /\ pc' \in [Daemons -> DaemonPc]
         /\ pc'[d] = stage
         /\ \A e \in Daemons : e # d => pc'[e] = pc[e]
BY DEF TypeOK, Goto

(* Where one moves alone, only what is said of that one has to be looked   *)
(* at: the file, its mode and the tokens stay.                             *)
LEMMA QuietMove ==
  ASSUME IInv, NEW d \in Daemons, NEW stage \in DaemonPc, Goto(d, stage),
         UNCHANGED <<setting, file, private, token, client>>,
         warned \subseteq warned', warned' \subseteq Daemons,
         ~Errors => (stage \in {"stopped", "deaf", "draining"} => file # d),
         file = d =>
           /\ stage \in {"checking", "serving"} /\ "modes" \notin setting => private
           /\ stage = "serving" => private \/ d \in warned',
         setting = {} =>
           /\ stage \in Starting =>
                \A e \in Daemons \ {d} : pc[e] \notin Starting \cup Stopping
           /\ stage \in Stopping => \A e \in Daemons \ {d} : pc[e] \notin Starting
           /\ stage \in {"probing", "removing"} => file # NoFile
           /\ stage = "removing" => ~Listening(file)
           /\ stage = "binding" => file = NoFile
           /\ stage = "leaving" => token[d]
           /\ stage \notin {"deaf", "failed", "draining"},
         stage \in {"chmod", "checking", "serving", "leaving"} => Listening(d),
         token[d] => stage \in {"leaving", "draining", "stopped", "killed"},
         stage # "draining",
         Quiet =>
           /\ stage \in Starting => \A e \in Daemons \ {d} : pc[e] \notin Starting
           /\ stage = "removing" => ~Answers
  PROVE  IInv'
<1>1. /\ pc' \in [Daemons -> DaemonPc] /\ pc'[d] = stage
      /\ \A e \in Daemons : e # d => pc'[e] = pc[e]
  BY Moves DEF IInv
<1>2. TypeOK'
  BY <1>1 DEF IInv, TypeOK
<1>3. LitterInv' /\ ModeInv'
  BY <1>1 DEF IInv, LitterInv, ModeInv, Errors
<1>4. \A e \in Daemons : Listening(e)' => Listening(e)
  BY <1>1 DEF Listening
<1>5. file \in Daemons \/ file = NoFile
  BY DEF IInv, TypeOK
<1>6. Answers' => Answers
  BY <1>4, <1>5 DEF Answers, Listening
<1>7. ASSUME setting = {} PROVE ApartInv' /\ LookedInv' /\ ListenInv'
  <2>1. ApartInv /\ LookedInv /\ ListenInv
    BY <1>7 DEF IInv, CareInv
  <2>2. ApartInv'
    BY <1>1, <1>7, <2>1 DEF ApartInv
  <2>3. LookedInv'
    <3>1. file # NoFile /\ ~Listening(file) => ~Listening(file)'
      BY <1>4, <1>5 DEF Listening
    <3> QED BY <1>1, <1>7, <2>1, <3>1 DEF LookedInv
  <2>4. ListenInv'
    BY <1>1, <1>4, <1>7, <2>1 DEF ListenInv
  <2> QED BY <2>2, <2>3, <2>4
<1>8. TokenInv'
  BY <1>1 DEF IInv, QuietInv, TokenInv
<1>9. ASSUME Quiet PROVE LostInv'
  BY <1>1, <1>4, <1>6, <1>9 DEF IInv, QuietInv, LostInv
<1> QED BY <1>2, <1>3, <1>7, <1>8, <1>9 DEF IInv, CareInv, QuietInv, Quiet

-----------------------------------------------------------------------------
(* The steps that do not touch the file.                                   *)
LEMMA LookInv ==
  ASSUME IInv, NEW d \in Daemons, LookForFile(d) \/ Probe(d)
  PROVE  IInv'
<1>1. /\ TypeOK /\ warned \subseteq Daemons
      /\ setting = {} => ApartInv /\ LookedInv /\ ListenInv
      /\ TokenInv /\ (Quiet => LostInv)
  BY DEF IInv, CareInv, QuietInv, TypeOK
<1>2. Quiet => ~Errors
  BY DEF Quiet, Errors
<1>3. setting = {} => Quiet /\ ~Errors
  BY DEF Quiet, Errors
<1>4. CASE LookForFile(d)
  <2>1. PICK stage \in {"binding", "probing"} :
          /\ Goto(d, stage) /\ UNCHANGED <<setting, file, private, warned, token, client>>
          /\ pc[d] = "off" /\ MayStart(d)
          /\ stage = "probing" => file # NoFile
          /\ stage = "binding" => file = NoFile \/ Errors
    BY <1>4 DEF LookForFile
  <2>2. stage \in DaemonPc
    BY DEF DaemonPc, Starting
  <2>3. setting = {} => \A e \in Daemons \ {d} : pc[e] \notin Starting \cup Stopping
    BY <2>1 DEF MayStart
  <2>4. Quiet => \A e \in Daemons \ {d} : pc[e] \notin Starting
    BY <2>1 DEF MayStart, Quiet
  <2>5. ~token[d]
    BY <1>1, <2>1 DEF TokenInv
  <2> QED BY <1>1, <1>3, <2>1, <2>2, <2>3, <2>4, <2>5, QuietMove DEF Stopping
<1>5. CASE Probe(d)
  <2>1. PICK stage \in {"refused", "removing"} :
          /\ Goto(d, stage) /\ UNCHANGED <<setting, file, private, warned, token, client>>
          /\ pc[d] = "probing"
          /\ stage = "removing" => ~Answers \/ Errors
    BY <1>5 DEF Probe
  <2>2. stage \in DaemonPc
    BY DEF DaemonPc, Starting
  <2>3. setting = {} =>
          /\ \A e \in Daemons \ {d} : pc[e] \notin Starting \cup Stopping
          /\ file # NoFile
    BY <1>1, <2>1 DEF ApartInv, LookedInv, Starting
  <2>4. Quiet => \A e \in Daemons \ {d} : pc[e] \notin Starting
    BY <1>1, <2>1 DEF LostInv, Starting
  <2>5. ~token[d] /\ stage \notin Stopping
    BY <1>1, <2>1 DEF TokenInv, Stopping
  <2>6. setting = {} /\ stage = "removing" => ~Listening(file)
    BY <1>3, <2>1, <2>3 DEF Answers
  <2> QED BY <1>1, <1>2, <2>1, <2>2, <2>3, <2>4, <2>5, <2>6, QuietMove
<1> QED BY <1>4, <1>5

(* The start of a daemon comes to its end.                                 *)
LEMMA EndsStartInv ==
  ASSUME IInv, NEW d \in Daemons, CheckMode(d) \/ CallFails(d)
  PROVE  IInv'
<1>1. /\ TypeOK /\ warned \subseteq Daemons
      /\ setting = {} => ListenInv
      /\ TokenInv
  BY DEF IInv, CareInv, QuietInv, TypeOK
<1>2. CASE CheckMode(d)
  <2>1. PICK stage \in {"failed", "serving"} :
          /\ Goto(d, stage) /\ UNCHANGED <<setting, file, private, token, client>>
          /\ pc[d] = "checking" /\ (stage = "failed" => file = NoFile)
          /\ warned' = IF file # NoFile /\ ~private THEN warned \cup {d} ELSE warned
    BY <1>2 DEF CheckMode
  <2>2. stage \in DaemonPc /\ Listening(d) /\ ~token[d]
    BY <1>1, <2>1 DEF DaemonPc, Listening, TokenInv
  <2>3. setting = {} => file = d /\ stage = "serving"
    BY <1>1, <2>1, <2>2, LocalSockAssumption DEF ListenInv
  <2>4. file = d => /\ "modes" \notin setting => private
                    /\ private \/ d \in warned'
    BY <2>1, LocalSockAssumption DEF IInv, ModeInv
  <2>5. stage \notin Starting \cup Stopping
    BY DEF Starting, Stopping
  <2>6. warned \subseteq warned' /\ warned' \subseteq Daemons
    BY <1>1, <2>1
  <2> QED BY <2>1, <2>2, <2>3, <2>4, <2>5, <2>6, QuietMove
<1>3. CASE CallFails(d)
  <2>1. Goto(d, "failed") /\ UNCHANGED <<setting, file, private, warned, token, client>>
        /\ pc[d] \in Starting /\ setting # {}
    BY <1>3 DEF CallFails, Errors
  <2>2. ~token[d] /\ "failed" \in DaemonPc /\ "failed" \notin Starting \cup Stopping
    BY <1>1, <2>1 DEF TokenInv, DaemonPc, Starting, Stopping
  <2> QED BY <1>1, <2>1, <2>2, QuietMove
<1> QED BY <1>2, <1>3

LEMMA StopInv ==
  ASSUME IInv, NEW d \in Daemons, AcceptFails(d) \/ Kill(d)
  PROVE  IInv'
<1>1. TypeOK /\ warned \subseteq Daemons /\ TokenInv
  BY DEF IInv, QuietInv, TypeOK
<1>2. CASE AcceptFails(d)
  <2>1. Goto(d, "leaving") /\ UNCHANGED <<setting, file, private, warned, token, client>>
        /\ setting # {} /\ pc[d] = "serving"
    BY <1>2 DEF AcceptFails
  <2>2. "leaving" \in DaemonPc /\ "leaving" \notin Starting /\ Listening(d)
    BY <2>1 DEF DaemonPc, Starting, Stopping, Listening
  <2> QED BY <1>1, <2>1, <2>2, QuietMove
<1>3. CASE Kill(d)
  <2>1. Goto(d, "killed") /\ UNCHANGED <<setting, file, private, warned, token, client>>
    BY <1>3 DEF Kill
  <2>2. "killed" \in DaemonPc /\ "killed" \notin Starting \cup Stopping
    BY DEF DaemonPc, Starting, Stopping
  <2> QED BY <1>1, <2>1, <2>2, QuietMove
<1> QED BY <1>2, <1>3

(* A daemon that is told to stop: its token is cancelled.                  *)
LEMMA ShutdownInv ==
  ASSUME IInv, NEW d \in Daemons, Shutdown(d)
  PROVE  IInv'
<1>1. PICK stage \in {"leaving", "draining"} :
        /\ pc[d] \in {"serving", "deaf"} /\ MayStop(d) /\ Goto(d, stage)
        /\ stage = (IF pc[d] = "serving" THEN "leaving" ELSE "draining")
        /\ token' = [token EXCEPT ![d] = TRUE]
        /\ UNCHANGED <<setting, file, private, warned, client>>
  BY DEF Shutdown
<1>2. /\ TypeOK /\ TokenInv
      /\ setting = {} => ApartInv /\ LookedInv /\ ListenInv
      /\ Quiet => LostInv
  BY DEF IInv, CareInv, QuietInv
<1>3. stage \in DaemonPc /\ stage \notin Starting
  BY DEF DaemonPc, Starting, Stopping
<1>4. /\ setting = {} => stage = "leaving" /\ pc[d] = "serving"
      /\ stage = "leaving" => pc[d] = "serving"
  BY <1>1, <1>2 DEF ListenInv
<1>5. /\ pc' \in [Daemons -> DaemonPc] /\ pc'[d] = stage
      /\ \A e \in Daemons : e # d => pc'[e] = pc[e]
      /\ token' \in [Daemons -> BOOLEAN] /\ token'[d] = TRUE
      /\ \A e \in Daemons : e # d => token'[e] = token[e]
  BY <1>1, <1>2, <1>3, Moves DEF TypeOK
<1>6. TypeOK'
  BY <1>1, <1>2, <1>5 DEF TypeOK
<1>7. LitterInv'
  BY <1>1, <1>5 DEF IInv, LitterInv, Errors
<1>8. ModeInv'
  BY <1>1, <1>5 DEF IInv, ModeInv
<1>9. TokenInv'
  BY <1>1, <1>2, <1>5 DEF TokenInv
<1>10. \A e \in Daemons : Listening(e)' => Listening(e)
  BY <1>1, <1>4, <1>5 DEF Listening
<1>11. ASSUME setting = {} PROVE ApartInv' /\ LookedInv' /\ ListenInv'
  <2>1. \A e \in Daemons : pc[e] \notin Starting
    BY <1>1, <1>11 DEF MayStop, Starting
  <2>2. \A e \in Daemons : pc'[e] \notin Starting
    BY <1>3, <1>5, <2>1
  <2>3. ApartInv' /\ LookedInv'
    BY <2>2 DEF ApartInv, LookedInv, Starting
  <2> QED BY <1>1, <1>2, <1>4, <1>5, <1>10, <1>11, <2>3 DEF ListenInv
<1>12. ASSUME Quiet PROVE LostInv'
  <2>1. Answers' => Answers
    BY <1>1, <1>2, <1>10 DEF Answers, TypeOK, Listening
  <2>2. LostInv
    BY <1>2, <1>12
  <2>3. \A e, f \in Daemons : pc'[e] \in Starting /\ pc'[f] \in Starting => e = f
    BY <1>3, <1>5, <2>2 DEF LostInv
  <2>4. \A e \in Daemons : pc'[e] = "removing" => ~Answers'
    BY <1>1, <1>5, <2>1, <2>2 DEF LostInv
  <2> QED BY <1>5, <2>3, <2>4 DEF LostInv
<1> QED BY <1>1, <1>6, <1>7, <1>8, <1>9, <1>11, <1>12 DEF IInv, CareInv, QuietInv, Quiet

(* The file is removed by a daemon that leaves its loop, that ends, or     *)
(* that has found it stale.                                                *)
LEMMA RemovesInv ==
  ASSUME IInv, NEW d \in Daemons, LoopRemoves(d) \/ ShutdownRemoves(d) \/ RemoveStale(d)
  PROVE  IInv'
<1>1. PICK stage \in {"draining", "deaf", "stopped", "failed", "binding"} :
        /\ Goto(d, stage) /\ (file' = NoFile \/ (Errors /\ file' = file))
        /\ UNCHANGED <<setting, private, warned, token, client>>
        /\ \/ pc[d] = "leaving" /\ stage = (IF token[d] THEN "draining" ELSE "deaf")
           \/ pc[d] = "draining" /\ stage = "stopped"
           \/ pc[d] = "removing" /\ stage \in {"failed", "binding"}
                                 /\ (file # NoFile => stage = "binding")
  BY DEF LoopRemoves, ShutdownRemoves, RemoveStale, remove_sock_file
<1>2. /\ TypeOK /\ stage \in DaemonPc /\ TokenInv /\ token \in [Daemons -> BOOLEAN]
      /\ setting = {} => ApartInv /\ LookedInv /\ ListenInv
      /\ Quiet => LostInv
  BY DEF IInv, DaemonPc, Starting, Stopping, CareInv, QuietInv, TypeOK
<1>3. /\ pc' \in [Daemons -> DaemonPc] /\ pc'[d] = stage
      /\ \A e \in Daemons : e # d => pc'[e] = pc[e]
  BY <1>1, <1>2, Moves
<1>4. TypeOK'
  BY <1>1, <1>2, <1>3 DEF TypeOK
<1>5. LitterInv'
  BY <1>1, LocalSockAssumption DEF LitterInv, Errors
<1>6. ModeInv'
  BY <1>1, <1>3, LocalSockAssumption DEF IInv, ModeInv
<1>7. TokenInv'
  BY <1>1, <1>2, <1>3 DEF TokenInv
<1>8. ASSUME setting = {} PROVE ApartInv' /\ LookedInv' /\ ListenInv'
  <2>1. ApartInv /\ LookedInv /\ ListenInv /\ (file \in Daemons \/ file = NoFile)
        /\ file' = NoFile
    BY <1>1, <1>2, <1>8 DEF TypeOK, Errors
  <2>2. \A e \in Daemons : e # d => ~Listening(e)
    BY <1>1, <2>1, LocalSockAssumption DEF ListenInv, LookedInv, Listening
  <2>3. \A e \in Daemons : ~Listening(e)'
    BY <1>1, <1>3, <2>2 DEF Listening
  <2>4. \A e \in Daemons : e # d => pc[e] \notin Starting
    BY <1>1, <2>1 DEF ApartInv, Starting, Stopping
  <2>5. pc[d] = "removing" => \A e \in Daemons : e # d => pc[e] \notin Starting \cup Stopping
    BY <2>1 DEF ApartInv, Starting
  <2>6. ApartInv'
    BY <1>1, <1>3, <2>4, <2>5 DEF ApartInv, Starting, Stopping
  <2>7. LookedInv'
    BY <1>1, <1>3, <2>1, <2>4 DEF LookedInv, Starting
  <2>8. stage \notin {"deaf", "failed"}
    BY <1>1, <2>1 DEF ListenInv, LookedInv
  <2>9. ListenInv'
    BY <1>1, <1>3, <2>1, <2>3, <2>8 DEF ListenInv, Listening
  <2> QED BY <2>6, <2>7, <2>9
<1>9. ASSUME Quiet PROVE LostInv'
  <2>1. LostInv /\ file' = NoFile
    BY <1>1, <1>2, <1>9 DEF Quiet, Errors
  <2>2. pc'[d] \in Starting => pc[d] \in Starting
    BY <1>1, <1>3 DEF Starting
  <2>3. \A e, f \in Daemons : pc'[e] \in Starting /\ pc'[f] \in Starting => e = f
    BY <1>3, <2>1, <2>2 DEF LostInv
  <2>4. ~Answers'
    BY <2>1 DEF Answers
  <2>5. \A e \in Daemons : Listening(e)' => e # d /\ Listening(e)
    BY <1>1, <1>3 DEF Listening
  <2>6. (\E e \in Daemons : Listening(e)') => \E f \in Daemons : token'[f]
    <3> SUFFICES ASSUME NEW e \in Daemons, Listening(e)', ~(\E f \in Daemons : token[f])
                 PROVE  FALSE
      BY <1>1
    <3>1. e # d /\ Listening(e) /\ file = e
      BY <2>1, <2>5 DEF LostInv
    <3>2. pc[d] # "removing"
      BY <2>1, <3>1, LocalSockAssumption DEF LostInv, Answers
    <3>3. pc[d] # "leaving"
      BY <2>1, <3>1 DEF LostInv, Listening
    <3> QED BY <1>1, <1>2, <3>2, <3>3 DEF TokenInv
  <2> QED BY <2>3, <2>4, <2>6 DEF LostInv
<1> QED BY <1>1, <1>4, <1>5, <1>6, <1>7, <1>8, <1>9 DEF IInv, CareInv, QuietInv, Quiet

(* The file is made, or its mode is set.                                   *)
LEMMA MakesInv ==
  ASSUME IInv, NEW d \in Daemons, Bind(d) \/ SetMode(d)
  PROVE  IInv'
<1>1. /\ TypeOK /\ warned \subseteq Daemons /\ TokenInv
      /\ setting = {} => ApartInv /\ LookedInv /\ ListenInv
      /\ Quiet => LostInv
  BY DEF IInv, CareInv, QuietInv, TypeOK
<1>2. pc[d] \in Starting /\ ~token[d]
  BY <1>1 DEF Bind, SetMode, Starting, TokenInv
<1>3. CASE Goto(d, "failed")
  <2>1. UNCHANGED <<setting, file, private, warned, token, client>> /\ pc[d] \in {"binding", "chmod"}
    BY <1>1, <1>3, Moves DEF Bind, SetMode, DaemonPc, Starting, TypeOK, Goto
  <2>2. setting # {}
    BY <1>1, <1>3, <2>1, Moves, LocalSockAssumption
       DEF Bind, SetMode, LookedInv, ListenInv, Listening, DaemonPc, Starting
  <2>3. "failed" \in DaemonPc /\ "failed" \notin Starting \cup Stopping
    BY DEF DaemonPc, Starting, Stopping
  <2> QED BY <1>1, <1>2, <1>3, <2>1, <2>2, <2>3, QuietMove
<1>4. CASE ~Goto(d, "failed")
  <2>1. PICK stage \in {"chmod", "checking"} :
          /\ Goto(d, stage) /\ UNCHANGED <<setting, warned, token, client>>
          /\ \/ stage = "chmod" /\ pc[d] = "binding" /\ file = NoFile /\ file' = d
                /\ private' = FALSE
             \/ stage = "checking" /\ pc[d] = "chmod" /\ UNCHANGED file /\ file # NoFile
                /\ private' = (private \/ "modes" \notin setting)
    BY <1>4 DEF Bind, SetMode
  <2>2. /\ pc' \in [Daemons -> DaemonPc] /\ pc'[d] = stage /\ stage \in Starting
        /\ \A e \in Daemons : e # d => pc'[e] = pc[e]
    BY <1>1, <2>1, Moves DEF DaemonPc, Starting
  <2>3. TypeOK'
    BY <1>1, <2>1, <2>2 DEF TypeOK
  <2>4. LitterInv'
    BY <1>1, <2>1, <2>2 DEF IInv, LitterInv, Errors
  <2>5. ModeInv'
    BY <1>1, <2>1, <2>2 DEF IInv, ModeInv, TypeOK
  <2>6. TokenInv'
    BY <1>1, <1>2, <2>1, <2>2 DEF TokenInv
  <2>7. ASSUME setting = {} PROVE ApartInv' /\ LookedInv' /\ ListenInv'
    <3>1. \A e \in Daemons : e # d => pc[e] \notin Starting \cup Stopping
      BY <1>1, <1>2, <2>7 DEF ApartInv
    <3>2. ApartInv' /\ LookedInv'
      BY <2>1, <2>2, <3>1 DEF ApartInv, LookedInv, Starting, Stopping
    <3>3. \A e \in Daemons : e # d => ~Listening(e)
      BY <1>1, <2>1, <2>7, LocalSockAssumption DEF ListenInv, Listening
    <3>4. file' = d /\ \A e \in Daemons : Listening(e)' => e = d
      BY <1>1, <2>1, <2>2, <2>7, <3>3 DEF ListenInv, Listening
    <3> QED BY <1>1, <2>1, <2>2, <2>7, <3>1, <3>2, <3>4 DEF ListenInv, Stopping
  <2>8. ASSUME Quiet PROVE LostInv'
    <3>1. LostInv
      BY <1>1, <2>8
    <3>2. \A e, f \in Daemons : pc'[e] \in Starting /\ pc'[f] \in Starting => e = f
      BY <1>2, <2>2, <3>1 DEF LostInv
    <3>3. \A e \in Daemons : pc'[e] # "removing"
      BY <2>1, <2>2, <3>2 DEF Starting
    <3>4. \A e \in Daemons : Listening(e)' => file' = e \/ \E f \in Daemons : token'[f]
      BY <2>1, <2>2, <3>1, LocalSockAssumption DEF LostInv, Listening
    <3> QED BY <3>2, <3>3, <3>4 DEF LostInv
  <2> QED BY <2>1, <2>3, <2>4, <2>5, <2>6, <2>7, <2>8 DEF IInv, CareInv, QuietInv, Quiet
<1> QED BY <1>3, <1>4

(* Clients change nothing but themselves.                                  *)
LEMMA ClientInv ==
  ASSUME IInv, NEW c \in Clients, ClientLooks(c) \/ ClientConnects(c)
  PROVE  IInv'
<1>1. UNCHANGED <<setting, file, private, warned, pc, token>>
  BY DEF ClientLooks, ClientConnects
<1>2. client' \in [Clients -> ClientPc]
  BY DEF IInv, TypeOK, ClientPc, ClientLooks, ClientConnects
<1>3. TypeOK'
  BY <1>1, <1>2 DEF IInv, TypeOK
<1>4. (LitterInv /\ ModeInv)' /\ CareInv'
  BY <1>1 DEF IInv, LitterInv, ModeInv, CareInv, ApartInv, LookedInv, ListenInv, Listening, Errors
<1>5. QuietInv'
  BY <1>1 DEF IInv, QuietInv, Quiet, TokenInv, LostInv, Answers, Listening
<1> QED BY <1>3, <1>4, <1>5 DEF IInv

LEMMA StepInv == IInv /\ [Next]_vars => IInv'
<1> SUFFICES ASSUME IInv, [Next]_vars PROVE IInv'
  OBVIOUS
<1>1. CASE UNCHANGED vars
  <2>1. (TypeOK /\ LitterInv /\ ModeInv)' /\ CareInv'
    BY <1>1 DEF vars, IInv, TypeOK, LitterInv, ModeInv, CareInv, ApartInv, LookedInv,
                ListenInv, Listening, Errors
  <2>2. QuietInv'
    BY <1>1 DEF vars, IInv, QuietInv, Quiet, TokenInv, LostInv, Answers, Listening
  <2> QED BY <2>1, <2>2 DEF IInv
<1>2. CASE Next
  BY <1>2, LookInv, EndsStartInv, StopInv, ShutdownInv, RemovesInv, MakesInv, ClientInv DEF Next
<1> QED BY <1>1, <1>2

LEMMA Invariant == Spec => []IInv
BY InitInv, StepInv, PTL DEF Spec

-----------------------------------------------------------------------------
(* The path, the stages of the daemons and the answers of the clients keep *)
(* their types.                                                            *)
THEOREM TypeCorrect == Spec => []TypeOK
<1>1. IInv => TypeOK
  BY DEF IInv
<1> QED BY <1>1, Invariant, PTL

(* Started and stopped one at a time, any number of daemons, kills at any  *)
(* moment included, leave one that serves (bind_sock, remove_sock_file).   *)
THEOREM AtMostOneServes == Spec => []OneServes
<1>1. IInv => OneServes
  BY DEF IInv, CareInv, ListenInv, Listening, OneServes, SecondRefused
<1> QED BY <1>1, Invariant, PTL

(* With the same care, whatever a killed daemon left, the next start does  *)
(* not fail and is refused only while another daemon listens (bind_sock).  *)
THEOREM StaleIsReplaced == Spec => StartsOverLitter
<1>1. IInv /\ IInv' /\ [Next]_vars =>
        [setting = {} =>
           \A d \in Daemons : pc[d] # pc'[d] =>
             /\ pc'[d] # "failed"
             /\ pc'[d] = "refused" => \E e \in Daemons \ {d} : Listening(e)]_vars
  <2> SUFFICES ASSUME IInv, IInv', Next, setting = {}, NEW d \in Daemons, pc[d] # pc'[d]
               PROVE  /\ pc'[d] # "failed"
                      /\ pc'[d] = "refused" => \E e \in Daemons \ {d} : Listening(e)
    BY DEF vars
  <2>1. pc'[d] # "failed"
    <3>1. setting' = setting
      BY DEF Next, LookForFile, Probe, RemoveStale, Bind, SetMode, CheckMode, CallFails, Shutdown,
             AcceptFails, LoopRemoves, ShutdownRemoves, Kill, ClientLooks, ClientConnects
    <3> QED BY <3>1 DEF IInv, CareInv, ListenInv
  <2>2. ASSUME pc'[d] = "refused" PROVE \E e \in Daemons \ {d} : Listening(e)
    <3>1. PICK k \in Daemons, stage \in DaemonPc :
            Goto(k, stage) /\ (stage = "refused" => pc[k] = "probing" /\ Answers)
      BY <2>2 DEF Next, LookForFile, Probe, RemoveStale, Bind, SetMode, CheckMode, CallFails,
                  Shutdown, AcceptFails, LoopRemoves, ShutdownRemoves, Kill, ClientLooks,
                  ClientConnects, DaemonPc, Starting, Stopping
    <3>2. k = d /\ stage = "refused"
      BY <2>2, <3>1, Moves DEF IInv
    <3>3. file \in Daemons /\ Listening(file) /\ file # d
      BY <3>1, <3>2 DEF Answers, Listening, IInv, TypeOK
    <3> QED BY <3>3
  <2> QED BY <2>1, <2>2
<1> QED BY <1>1, Invariant, PTL DEF Spec, StartsOverLitter

(* In any disorder but errors of the calls themselves, a daemon that was   *)
(* shut down, or whose accept loop broke, has left no socket of its own    *)
(* (the accept loop's task, shutdown).                                     *)
THEOREM NothingLeft == Spec => []NoLitter
<1>1. IInv => NoLitter
  BY DEF IInv, LitterInv, NoLitter
<1> QED BY <1>1, Invariant, PTL

(* In any disorder the socket a daemon serves on has mode 0600, or the     *)
(* file system keeps no modes and the daemon has said so (bind_sock:       *)
(* set_permissions and metadata before the loop is spawned).               *)
THEOREM PrivateWhenServed == Spec => []ServedPrivately
<1>1. IInv => ServedPrivately
  BY DEF IInv, ModeInv, ServedPrivately
<1> QED BY <1>1, Invariant, PTL

(* Where daemons do not start at the same time and calls do not fail, a    *)
(* client is told that no daemon runs, or that the socket is stale, while  *)
(* one serves only after another one was told to stop; with care, only     *)
(* when none serves (connect, shutdown).                                   *)
THEOREM ClientsToldTruth == Spec => ErrorsHonest
<1>1. IInv /\ [Next]_vars =>
        [\A c \in Clients, d \in Daemons :
           Told(c) /\ pc[d] = "serving" /\ setting \cap {"starts", "errors"} = {} =>
             setting # {} /\ \E e \in Daemons \ {d} : token[e]]_vars
  <2> SUFFICES ASSUME IInv, Next, NEW c \in Clients, NEW d \in Daemons, Told(c),
                      pc[d] = "serving", Quiet
               PROVE  setting # {} /\ \E e \in Daemons \ {d} : token[e]
    BY DEF vars, Quiet
  <2>1. PICK k \in Clients : ClientLooks(k) \/ ClientConnects(k)
    BY DEF Told, Next, LookForFile, Probe, RemoveStale, Bind, SetMode, CheckMode, CallFails,
           Shutdown, AcceptFails, LoopRemoves, ShutdownRemoves, Kill
  <2>2. ~Errors /\ Listening(d)
    BY DEF Quiet, Errors, Listening
  <2>3. file # d
    <3> SUFFICES ASSUME file = d PROVE FALSE
      OBVIOUS
    <3>1. Answers
      BY <2>2, LocalSockAssumption DEF Answers
    <3>2. client'[c] \in {"found", "connected"} \/ client'[c] = client[c]
      BY <2>1, <2>2, <3>1 DEF ClientLooks, ClientConnects, Answers, IInv, TypeOK
    <3> QED BY <3>2 DEF Told
  <2>4. setting # {}
    BY <2>2, <2>3 DEF IInv, CareInv, ListenInv
  <2>5. ~token[d] /\ \E e \in Daemons : token[e]
    BY <2>2, <2>3 DEF IInv, QuietInv, TokenInv, LostInv
  <2> QED BY <2>4, <2>5
<1> QED BY <1>1, Invariant, PTL DEF Spec, ErrorsHonest

=============================================================================
